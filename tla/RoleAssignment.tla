---------------------------- MODULE RoleAssignment -----------------------------
(***************************************************************************)
(* The platform owners.  An owner assigns roles; the backend refuses to     *)
(* demote the last owner, counting the owners before it writes the role.    *)
(* The configured owner is promoted whenever it sends a request, and the    *)
(* default owner whenever the backend starts.                               *)
(***************************************************************************)
EXTENDS Naturals, FiniteSets

CONSTANTS
  People,          \* users
  Calls,           \* role assignments the backend serves at the same time
  ConfiguredOwner, \* the user named in the configuration, or someone outside People
  DefaultOwner,    \* the user OWNERPLATFORM
  Nobody           \* no user

ASSUME RoleAssumption ==
  /\ IsFiniteSet(People)
  /\ DefaultOwner \in People
  /\ Nobody \notin People

VARIABLES
  role,    \* the role of each user in the table users
  call,    \* the role assignments being served
  skewed   \* history: the owners changed between the count and the write of the last demotion

roleVars == <<role, call, skewed>>

Roles == {"platform_owner", "other"}

Call ==
  [ at     : {"idle", "authorized", "read", "checked"},
    actor  : People \cup {Nobody},
    target : People \cup {Nobody},
    new    : Roles,
    old    : Roles,              \* the target's role as the session read it
    owners : SUBSET People ]     \* the owners it counted

NoCall ==
  [ at |-> "idle", actor |-> Nobody, target |-> Nobody, new |-> "other", old |-> "other",
    owners |-> {} ]

Owners == {u \in People : role[u] = "platform_owner"}

Demotes(c) == c.old = "platform_owner" /\ c.new # "platform_owner"

InitRoles ==
  /\ role \in {f \in [People -> Roles] : f[DefaultOwner] = "platform_owner"}
  /\ call = [r \in Calls |-> NoCall]
  /\ skewed = FALSE

\* Authentication loads the caller and lets only a platform owner pass.
Authorized(r, u, v, new) ==
  /\ call[r].at = "idle"
  /\ role[u] = "platform_owner"
  /\ call' = [call EXCEPT ![r] = [NoCall EXCEPT !.at = "authorized", !.actor = u,
                                                !.target = v, !.new = new]]
  /\ UNCHANGED <<role, skewed>>

End(r) == call' = [call EXCEPT ![r] = NoCall]

\* The target is loaded; nobody changes their own role.
ReadTarget(r) ==
  /\ call[r].at = "authorized"
  /\ IF call[r].target = call[r].actor
     THEN End(r)
     ELSE call' = [call EXCEPT ![r].at = "read", ![r].old = role[call[r].target]]
  /\ UNCHANGED <<role, skewed>>

\* A demotion of an owner is refused unless the count finds a second one.
IsLastOwner_OffByOne == Cardinality(Owners) < 1

IsLastOwner == Cardinality(Owners) <= 1

CountOwners(r) ==
  /\ call[r].at = "read"
  /\ IF Demotes(call[r]) /\ IsLastOwner
     THEN End(r)
     ELSE call' = [call EXCEPT ![r].at = "checked", ![r].owners = Owners]
  /\ UNCHANGED <<role, skewed>>

\* The UPDATE writes the role if it differs from the one the session read.
WriteRole(r) ==
  LET c == call[r]
  IN /\ c.at = "checked"
     /\ role' = IF c.new # c.old THEN [role EXCEPT ![c.target] = c.new] ELSE role
     /\ skewed' = IF Demotes(c) THEN Owners # c.owners ELSE skewed
     /\ End(r)

\* The assignment fails and writes nothing.
AssignmentFails(r) ==
  /\ call[r].at # "idle"
  /\ End(r)
  /\ UNCHANGED <<role, skewed>>

\* Any request of the configured owner promotes it.
SyncConfiguredOwner ==
  /\ ConfiguredOwner \in People
  /\ role[ConfiguredOwner] # "platform_owner"
  /\ role' = [role EXCEPT ![ConfiguredOwner] = "platform_owner"]
  /\ UNCHANGED <<call, skewed>>

\* The backend restarts; its start-up promotes the default owner, unless an earlier step of the
\* start-up fails, which is only logged.
RestartBackend ==
  /\ \E ok \in BOOLEAN :
       role' = IF ok THEN [role EXCEPT ![DefaultOwner] = "platform_owner"] ELSE role
  /\ call' = [r \in Calls |-> NoCall]
  /\ UNCHANGED skewed

NextRole ==
  \/ \E r \in Calls, u, v \in People, new \in Roles : Authorized(r, u, v, new)
  \/ \E r \in Calls : ReadTarget(r) \/ CountOwners(r) \/ WriteRole(r) \/ AssignmentFails(r)
  \/ SyncConfiguredOwner
  \/ RestartBackend

RoleSpec == InitRoles /\ [][NextRole]_roleVars

RolesTypeOK ==
  /\ role \in [People -> Roles]
  /\ call \in [Calls -> Call]
  /\ skewed \in BOOLEAN
  /\ \A r \in Calls : call[r].at # "idle" => call[r].target \in People

\* The platform keeps an owner ("Cannot remove the last platform_owner role",
\* routes/admin_roles.py), except when two demotions overlapped: the last one was written after
\* the owners it had counted had changed.
OwnerRemains == Owners = {} => skewed
================================================================================
