--------------------------- MODULE IncidentResponse ----------------------------
(***************************************************************************)
(* Incidents.  A security event of certain types creates one, in a          *)
(* background task that may fail, and assigns it to the engineer with the   *)
(* fewest open ones.  Engineers then move it through its life cycle, assign *)
(* it, annotate it, flag it as a false positive, or act on the account of   *)
(* the user who caused it.  Each such request reads the incident with its   *)
(* log, and commits the changed columns with an entry in the incident's log *)
(* and one in the audit log.                                                *)
(***************************************************************************)
EXTENDS Naturals, Sequences, FiniteSets

CONSTANTS
  Events,      \* security events; an incident is named after its event
  WithUser,    \* the events that carry the id of a user
  Engineers,   \* security engineers, by id
  Tabs,        \* requests of engineers served at the same time
  Notes,       \* texts of the notes
  Unassigned,  \* no engineer
  MaxChanges   \* bound: changes by engineers

ASSUME IncidentAssumption ==
  /\ IsFiniteSet(Events)
  /\ WithUser \subseteq Events
  /\ Engineers \subseteq Nat
  /\ Unassigned \notin Engineers
  /\ "" \in Notes
  /\ MaxChanges \in Nat

VARIABLES
  creation,  \* the background task of each event
  incident,  \* the rows of the table incidents, with the status of the user who caused them
  log,       \* the log of each incident, oldest first
  audited,   \* how many entries of the audit log are about each incident
  tab        \* the requests of engineers being served

incidentVars == <<creation, incident, log, audited, tab>>

Column == {"status", "assigned_to", "notes", "false_positive", "account"}

Lifecycle == <<"OPEN", "INVESTIGATING", "RESOLVED", "CLOSED">>

Stages == {Lifecycle[k] : k \in DOMAIN Lifecycle}

\* The transitions that update_incident_status allows.
Follows(old, new) == \E k \in 1..3 : old = Lifecycle[k] /\ new = Lifecycle[k + 1]

ValuesOf(c) ==
  CASE c = "status"         -> Stages
    [] c = "assigned_to"    -> Engineers \cup {Unassigned}
    [] c = "notes"          -> Notes
    [] c = "false_positive" -> {"yes", "no"}
    [] c = "account"        -> {"ACTIVE", "SUSPENDED", "BLOCKED"}

IncidentRow ==
  [ status : ValuesOf("status"), assigned_to : ValuesOf("assigned_to"),
    notes : ValuesOf("notes"), false_positive : ValuesOf("false_positive"),
    account : ValuesOf("account") ]

NewIncident(g) ==
  [ status |-> "OPEN", assigned_to |-> g, notes |-> "", false_positive |-> "no",
    account |-> "ACTIVE" ]

\* An entry names the column it reports, the value it gives and whether an engineer made it;
\* `seen` is how many entries the log had when the request read the incident.
Entry(c, v, n, manual) == [column |-> c, value |-> v, seen |-> n, manual |-> manual]

NoTab == [event |-> "none", by |-> Unassigned, base |-> NewIncident(Unassigned), seen |-> 0]

Created(e) == log[e] # <<>>

InitIncidents ==
  /\ creation = [e \in Events |-> [at |-> "none", assignee |-> Unassigned]]
  /\ incident = [e \in Events |-> NewIncident(Unassigned)]
  /\ log = [e \in Events |-> <<>>]
  /\ audited = [e \in Events |-> 0]
  /\ tab = [r \in Tabs |-> NoTab]

(***************************************************************************)
(* Incidents are created.                                                   *)
(***************************************************************************)

\* log_event starts the creation of the incident.
Detect(e) ==
  /\ creation[e].at = "none"
  /\ creation' = [creation EXCEPT ![e].at = "started"]
  /\ UNCHANGED <<incident, log, audited, tab>>

OpenLoad(g) ==
  Cardinality({e \in Events : /\ Created(e)
                              /\ incident[e].assigned_to = g
                              /\ incident[e].status # "CLOSED"
                              /\ incident[e].false_positive = "no"})

\* Among the engineers whose accounts are active, the one with the smallest load, then id.
LeastLoaded(active) ==
  CHOOSE g \in active : \A h \in active : OpenLoad(g) < OpenLoad(h) \/ (OpenLoad(g) = OpenLoad(h) /\ g <= h)

ResolveAssignee(e) ==
  /\ creation[e].at = "started"
  /\ \E active \in SUBSET Engineers :
       creation' = [creation EXCEPT ![e] =
         [at       |-> "resolved",
          assignee |-> IF active = {} THEN Unassigned ELSE LeastLoaded(active)]]
  /\ UNCHANGED <<incident, log, audited, tab>>

\* The incident, the entry of the detection and the one of the assignment are one transaction.
CreateIncident(e) ==
  LET g == creation[e].assignee
      detected == Entry("status", "OPEN", 0, FALSE)
  IN /\ creation[e].at = "resolved"
     /\ creation' = [creation EXCEPT ![e] = [at |-> "done", assignee |-> Unassigned]]
     /\ incident' = [incident EXCEPT ![e] = NewIncident(g)]
     /\ log' = [log EXCEPT ![e] = IF g = Unassigned THEN <<detected>>
                                  ELSE <<detected, Entry("assigned_to", g, 1, FALSE)>>]
     /\ UNCHANGED <<audited, tab>>

\* A creation that fails is only logged.
CreationFails(e) ==
  /\ creation[e].at \in {"started", "resolved"}
  /\ creation' = [creation EXCEPT ![e] = [at |-> "done", assignee |-> Unassigned]]
  /\ UNCHANGED <<incident, log, audited, tab>>

(***************************************************************************)
(* Engineers work on incidents.                                             *)
(***************************************************************************)

\* The request of engineer g loads the incident and its log (_get_incident_or_404), and for an
\* action the account of the user.
OpenIncident(r, e, g) ==
  /\ tab[r] = NoTab
  /\ Created(e)
  /\ tab' = [tab EXCEPT ![r] =
       [event |-> e, by |-> g, base |-> incident[e], seen |-> Len(log[e])]]
  /\ UNCHANGED <<creation, incident, log, audited>>

Changes == Cardinality({x \in Events \X (1..(MaxChanges + 2)) :
                          x[2] \in DOMAIN log[x[1]] /\ log[x[1]][x[2]].manual})

\* The request ends: column c takes value v if that differs from what was read, and the two
\* logs get their entries, in one transaction.
Record(r, c, v) ==
  LET e == tab[r].event
  IN /\ tab[r] # NoTab
     /\ Changes < MaxChanges
     /\ incident' = [incident EXCEPT ![e][c] = IF v # tab[r].base[c] THEN v ELSE @]
     /\ log' = [log EXCEPT ![e] = Append(@, Entry(c, v, tab[r].seen, TRUE))]
     /\ audited' = [audited EXCEPT ![e] = @ + 1]
     /\ tab' = [tab EXCEPT ![r] = NoTab]
     /\ UNCHANGED creation

UpdateStatus_AnyOther(r) ==
  \E new \in Stages \ {tab[r].base.status} : Record(r, "status", new)

UpdateStatus(r) ==
  \E new \in Stages : Follows(tab[r].base.status, new) /\ Record(r, "status", new)

Assign(r) == Record(r, "assigned_to", tab[r].by)

UpdateNotes(r) == \E text \in Notes : Record(r, "notes", text)

SetFalsePositive(r) == \E flag \in {"yes", "no"} : Record(r, "false_positive", flag)

\* The action `ignore`.
Ignore(r) == Record(r, "false_positive", "yes")

\* block_user, suspend_user and reactivate_user need the user who caused the incident.
ActOnUser(r) ==
  /\ tab[r].event \in WithUser
  /\ \E new \in {"ACTIVE", "SUSPENDED", "BLOCKED"} : Record(r, "account", new)

\* The request is refused, or fails, and writes nothing.
CloseTab(r) ==
  /\ tab[r] # NoTab
  /\ tab' = [tab EXCEPT ![r] = NoTab]
  /\ UNCHANGED <<creation, incident, log, audited>>

\* The backend restarts: its requests and background tasks are gone.
RestartIncidents ==
  /\ tab' = [r \in Tabs |-> NoTab]
  /\ creation' = [e \in Events |-> IF creation[e].at \in {"started", "resolved"}
                                   THEN [at |-> "done", assignee |-> Unassigned]
                                   ELSE creation[e]]
  /\ UNCHANGED <<incident, log, audited>>

NextIncident ==
  \/ \E e \in Events : Detect(e) \/ ResolveAssignee(e) \/ CreateIncident(e) \/ CreationFails(e)
  \/ \E r \in Tabs, e \in Events, g \in Engineers : OpenIncident(r, e, g)
  \/ \E r \in Tabs :
       \/ UpdateStatus(r) \/ Assign(r) \/ UpdateNotes(r)
       \/ SetFalsePositive(r) \/ Ignore(r) \/ ActOnUser(r)
       \/ CloseTab(r)
  \/ RestartIncidents

IncidentSpec == InitIncidents /\ [][NextIncident]_incidentVars

(***************************************************************************)
(* Properties.                                                              *)
(***************************************************************************)

IncidentTypeOK ==
  /\ creation \in [Events -> [at : {"none", "started", "resolved", "done"},
                              assignee : Engineers \cup {Unassigned}]]
  /\ incident \in [Events -> IncidentRow]
  /\ \A e \in Events : \A k \in DOMAIN log[e] :
       /\ log[e][k].column \in Column
       /\ log[e][k].value \in ValuesOf(log[e][k].column)
  /\ audited \in [Events -> Nat]
  /\ \A r \in Tabs : tab[r] # NoTab => tab[r].event \in Events /\ tab[r].base \in IncidentRow

EntriesOf(e, c) == {k \in DOMAIN log[e] : log[e][k].column = c}

\* Every entry about column c was written by a request that had read the one before.
Sequential(e, c) ==
  \A k \in EntriesOf(e, c) : \A j \in EntriesOf(e, c) : j < k => j <= log[e][k].seen

LastEntry(e, c) == CHOOSE k \in EntriesOf(e, c) : \A j \in EntriesOf(e, c) : j <= k

\* The log of an incident tells its history: unless two requests overlapped on a column, the
\* column has the value of its last entry, and the statuses in the log follow the life cycle;
\* and every entry of an engineer has its entry in the audit log
\* (services/incident_management_service.py).
TimelineIsTrue ==
  \A e \in Events :
    /\ \A c \in Column :
         Sequential(e, c) /\ EntriesOf(e, c) # {} =>
           incident[e][c] = log[e][LastEntry(e, c)].value
    /\ Sequential(e, "status") =>
         \A j, k \in EntriesOf(e, "status") :
           j < k /\ (\A m \in EntriesOf(e, "status") : m <= j \/ m >= k)
             => Follows(log[e][j].value, log[e][k].value)
    /\ audited[e] = Cardinality({k \in DOMAIN log[e] : log[e][k].manual})
================================================================================
