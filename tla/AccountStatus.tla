----------------------------- MODULE AccountStatus -----------------------------
(***************************************************************************)
(* The status of the user accounts of the backend: ACTIVE, SUSPENDED until *)
(* a moment, or BLOCKED.  It is read by every request that signs in or      *)
(* carries a token, and written by operators, by the policies against       *)
(* repeated failed logins, malicious uploads and rate limit abuse, and by   *)
(* the requests that find a suspension expired.  Every request has its own  *)
(* database session: a copy of the row, read once, and an UPDATE of the     *)
(* columns it changed, so that requests that overlap can overwrite each     *)
(* other.                                                                   *)
(***************************************************************************)
EXTENDS Naturals, Sequences, FiniteSets

CONSTANTS
  Users,           \* user accounts
  Ips,             \* client addresses
  Requests,        \* requests the backend serves at the same time
  LockThreshold,   \* failures that lock a user name or an address
  LockTime,        \* how long the lock lasts, in ticks of the clock
  Window,          \* how long a failure counts
  Suspension,      \* how long a suspension by a policy or an operator lasts
  AbuseThreshold,  \* rate limit violations that suspend the account
  None,            \* no time
  MaxTime,         \* bound: the clock
  MaxStarted,      \* bound: requests started
  MaxRestarts      \* bound: restarts of the backend

ASSUME AccountAssumption ==
  /\ LockThreshold \in Nat \ {0}
  /\ LockTime \in Nat
  /\ Window \in Nat \ {0}
  /\ Suspension \in Nat \ {0}
  /\ AbuseThreshold \in Nat \ {0}
  /\ MaxTime \in Nat
  /\ MaxStarted \in Nat
  /\ MaxRestarts \in Nat
  /\ None \notin Nat \cup Users \cup Ips
  /\ Users \cap Ips = {}

VARIABLES
  account,      \* the rows of the table users
  now,          \* the clock
  failures,     \* failed logins by user name and by address: the times they happened
  lockedUntil,  \* when the lock of a user name or an address ends
  violations,   \* rate limit violations by user
  request,      \* the requests being served
  started,      \* requests started so far
  restarts      \* restarts so far

accountVars == <<account, now, failures, lockedUntil, violations, request, started, restarts>>

Keys == Users \cup Ips

Statuses == {"ACTIVE", "SUSPENDED", "BLOCKED"}

Row == [status : Statuses, until : Nat \cup {None}]

Active == [status |-> "ACTIVE", until |-> None]

Blocked == [status |-> "BLOCKED", until |-> None]

Suspended(t) == [status |-> "SUSPENDED", until |-> t + Suspension]

NoRow == [status |-> "unloaded", until |-> None]

SuspendThreshold == LockThreshold + 1

BlockThreshold ==
  IF SuspendThreshold + 1 > 2 * SuspendThreshold THEN SuspendThreshold + 1 ELSE 2 * SuspendThreshold

Operations == {"suspend", "block", "restore"}

Kinds == {"login", "google", "call", "upload", "abuse"} \cup Operations

\* What one request is doing.  `base` is the row as its session read it and `mine` the row as
\* the session means to leave it.  `clean` says that at some moment since the request arrived
\* its account was not barred, and `admitted` that it was let in: both only serve the
\* properties.
Request ==
  [ kind     : Kinds,
    at       : {"idle", "arrived", "loaded", "failed", "writing"},
    user     : Users \cup {None},
    ip       : Ips \cup {None},
    count    : Nat,
    base     : Row \cup {NoRow},
    mine     : Row \cup {NoRow},
    clean    : BOOLEAN,
    admitted : BOOLEAN ]

Idle ==
  [ kind |-> "call", at |-> "idle", user |-> None, ip |-> None, count |-> 0,
    base |-> NoRow, mine |-> NoRow, clean |-> FALSE, admitted |-> FALSE ]

Expired(row, t) == row.until # None /\ t > row.until

Barred(row, t) ==
  \/ row.status = "BLOCKED"
  \/ row.status = "SUSPENDED" /\ ~Expired(row, t)

\* The row with an expired suspension lifted and a stale expiry removed.
Lifted(row) ==
  IF row.status = "BLOCKED" THEN [row EXCEPT !.until = None] ELSE Active

\* The UPDATE of a session writes the columns whose values changed since the row was read; an
\* expiry that is set is a new value.
Saved(row, base, mine) ==
  [ status |-> IF mine.status # base.status THEN mine.status ELSE row.status,
    until  |-> IF mine.until # base.until \/ mine.until # None THEN mine.until ELSE row.until ]

\* The times without the leading ones that are too old.
Recent(times) ==
  LET old == {k \in DOMAIN times : \A j \in 1..k : times[j] + Window < now}
  IN SubSeq(times, Cardinality(old) + 1, Len(times))

Locked(key) == lockedUntil[key] > now

\* The requests as they see the accounts `rows` at time t.
Observed(reqs, rows, t) ==
  [r \in Requests |->
     IF reqs[r].at = "idle" THEN reqs[r]
     ELSE [reqs[r] EXCEPT !.clean = @ \/ ~Barred(rows[reqs[r].user], t)]]

Finished(r) == [request EXCEPT ![r] = Idle]

InitAccounts ==
  /\ account \in [Users -> {Active, Blocked}]
  /\ now = 0
  /\ failures = [k \in Keys |-> <<>>]
  /\ lockedUntil = [k \in Keys |-> 0]
  /\ violations = [u \in Users |-> <<>>]
  /\ request = [r \in Requests |-> Idle]
  /\ started = 0
  /\ restarts = 0

Begin(r, kind, u, i, stage, n) ==
  /\ request[r].at = "idle"
  /\ started < MaxStarted
  /\ started' = started + 1
  /\ request' = [request EXCEPT ![r] =
       [kind |-> kind, at |-> stage, user |-> u, ip |-> i, count |-> n,
        base |-> NoRow, mine |-> NoRow, clean |-> ~Barred(account[u], now), admitted |-> FALSE]]

(***************************************************************************)
(* Requests arrive.                                                         *)
(***************************************************************************)

\* A sign-in is refused while its user name or its address is locked.
Login(r, u, i) ==
  /\ ~Locked(u) /\ ~Locked(i)
  /\ Begin(r, "login", u, i, "arrived", 0)
  /\ UNCHANGED <<account, now, failures, lockedUntil, violations, restarts>>

\* A sign-in with Google, a request with a token, or one by an operator about user u.
Arrive(r, kind, u, i) ==
  /\ Begin(r, kind, u, i, "arrived", 0)
  /\ UNCHANGED <<account, now, failures, lockedUntil, violations, restarts>>

\* A request over the rate limit is refused.  The violation that reaches the threshold starts
\* the abuse policy; later ones count, but start nothing while the threshold stays reached.
\* The last AbuseThreshold times tell that.
OverLimit(r, u, i) ==
  LET before == Recent(violations[u])
      kept   == IF Len(before) < AbuseThreshold THEN before ELSE Tail(before)
  IN /\ violations' = [violations EXCEPT ![u] = Append(kept, now)]
     /\ IF Len(before) + 1 = AbuseThreshold
        THEN Begin(r, "abuse", u, i, "arrived", 0)
        ELSE request[r].at = "idle" /\ UNCHANGED <<request, started>>
     /\ UNCHANGED <<account, now, failures, lockedUntil, restarts>>

(***************************************************************************)
(* The tracker of failed logins.                                            *)
(***************************************************************************)

Failed(k) == Append(Recent(failures[k]), now)

RegisterFailure(u, i) ==
  /\ failures' = [k \in Keys |-> IF k \in {u, i} THEN Failed(k) ELSE failures[k]]
  /\ lockedUntil' =
       [k \in Keys |->
          IF k \in {u, i} /\ Len(Failed(k)) >= LockThreshold /\ lockedUntil[k] < now + LockTime
          THEN now + LockTime
          ELSE lockedUntil[k]]

ClearSuccess(u, i) ==
  /\ failures' = [k \in Keys |-> IF k \in {u, i} THEN <<>> ELSE failures[k]]
  /\ lockedUntil' = [k \in Keys |-> IF k \in {u, i} THEN 0 ELSE lockedUntil[k]]

\* A sign-in whose payload does not validate counts as a failure before any row is read.
Malformed(r, u, i) ==
  /\ ~Locked(u) /\ ~Locked(i)
  /\ RegisterFailure(u, i)
  /\ IF Len(Failed(u)) >= SuspendThreshold
     THEN Begin(r, "login", u, i, "failed", Len(Failed(u)))
     ELSE request[r].at = "idle" /\ UNCHANGED <<request, started>>
  /\ UNCHANGED <<account, now, violations, restarts>>

(***************************************************************************)
(* Requests are decided.                                                    *)
(***************************************************************************)

\* The first SELECT of the row loads it into the session; later ones return the same object.
Load_NoCopy(r) ==
  LET row == account[request[r].user]
  IN /\ request[r].at = "arrived"
     /\ request' = [request EXCEPT ![r].at = "loaded", ![r].mine = row]
     /\ UNCHANGED <<account, now, failures, lockedUntil, violations, started, restarts>>

Load(r) ==
  LET row == account[request[r].user]
  IN /\ request[r].at = "arrived"
     /\ request' = [request EXCEPT ![r].at = "loaded", ![r].base = row, ![r].mine = row]
     /\ UNCHANGED <<account, now, failures, lockedUntil, violations, started, restarts>>

Refuse(r) ==
  /\ request' = Finished(r)
  /\ UNCHANGED <<account, now, failures, lockedUntil, violations, started, restarts>>

Admit(r, row) ==
  request' = [request EXCEPT ![r].at = "writing", ![r].mine = row, ![r].admitted = TRUE]

\* The password is right: the suspension that expired is lifted, the counters are cleared and
\* a token is issued.
SignIn(r) ==
  LET q == request[r]
  IN /\ q.at = "loaded" /\ q.kind = "login"
     /\ ~Barred(q.base, now)
     /\ Admit(r, Lifted(q.base))
     /\ ClearSuccess(q.user, q.ip)
     /\ UNCHANGED <<account, now, violations, started, restarts>>

\* The password is wrong.
WrongPassword(r) ==
  LET q == request[r]
  IN /\ q.at = "loaded" /\ q.kind = "login"
     /\ ~Barred(q.base, now)
     /\ RegisterFailure(q.user, q.ip)
     /\ request' = IF Len(Failed(q.user)) >= SuspendThreshold
                   THEN [request EXCEPT ![r].at = "failed", ![r].count = Len(Failed(q.user)),
                           ![r].mine = IF q.base.status = "SUSPENDED" THEN q.base
                                       ELSE Lifted(q.base)]
                   ELSE Finished(r)
     /\ UNCHANGED <<account, now, violations, started, restarts>>

\* The account is blocked or suspended: a sign-in by password, or a request with a token, ends.
Deny(r) ==
  /\ request[r].at = "loaded" /\ request[r].kind \in {"login", "call", "upload"}
  /\ Barred(request[r].base, now)
  /\ Refuse(r)

\* Google's sign-in accepts ACTIVE accounts only.
SignInGoogle_UnlessBlocked(r) ==
  /\ request[r].at = "loaded" /\ request[r].kind = "google"
  /\ IF request[r].base.status # "BLOCKED"
     THEN /\ Admit(r, request[r].base)
          /\ UNCHANGED <<account, now, failures, lockedUntil, violations, started, restarts>>
     ELSE Refuse(r)

SignInGoogle(r) ==
  /\ request[r].at = "loaded" /\ request[r].kind = "google"
  /\ IF request[r].base.status = "ACTIVE"
     THEN /\ Admit(r, request[r].base)
          /\ UNCHANGED <<account, now, failures, lockedUntil, violations, started, restarts>>
     ELSE Refuse(r)

\* A request with a token lifts a suspension that expired.  The upload of a malicious document
\* then blocks the account.
Authorize(r) ==
  LET q == request[r]
  IN /\ q.at = "loaded" /\ q.kind \in {"call", "upload"}
     /\ ~Barred(q.base, now)
     /\ Admit(r, IF q.kind = "upload" THEN Blocked ELSE Lifted(q.base))
     /\ UNCHANGED <<account, now, failures, lockedUntil, violations, started, restarts>>

Decision(kind) ==
  CASE kind = "suspend" -> Suspended(now)
    [] kind = "block"   -> Blocked
    [] OTHER            -> Active

\* The platform owner, or an agent acting on an incident, sets the status of the account.
Operate(r) ==
  /\ request[r].at = "loaded" /\ request[r].kind \in Operations
  /\ request' = [request EXCEPT ![r].at = "writing", ![r].mine = Decision(request[r].kind)]
  /\ UNCHANGED <<account, now, failures, lockedUntil, violations, started, restarts>>

\* The abuse policy suspends an account that is neither blocked nor suspended.
PunishAbuse(r) ==
  /\ request[r].at = "loaded" /\ request[r].kind = "abuse"
  /\ IF request[r].base.status \in {"BLOCKED", "SUSPENDED"}
     THEN Refuse(r)
     ELSE /\ request' = [request EXCEPT ![r].at = "writing", ![r].mine = Suspended(now)]
          /\ UNCHANGED <<account, now, failures, lockedUntil, violations, started, restarts>>

\* What the policy against repeated failures decides for a row after n failures.
Punishment_Downgrades(row, n) ==
  IF n >= BlockThreshold
  THEN IF row.status = "BLOCKED" THEN NoRow ELSE Blocked
  ELSE IF row.status = "SUSPENDED" THEN NoRow ELSE Suspended(now)

Punishment(row, n) ==
  IF n >= BlockThreshold
  THEN IF row.status = "BLOCKED" THEN NoRow ELSE Blocked
  ELSE IF row.status \in {"BLOCKED", "SUSPENDED"} THEN NoRow ELSE Suspended(now)

\* The policy reads the account, or finds it in the session of the failed sign-in.
PunishFailures(r) ==
  LET q   == request[r]
      row == IF q.base = NoRow THEN account[q.user] ELSE q.base
      new == Punishment(row, q.count)
  IN /\ q.at = "failed"
     /\ IF new = NoRow
        THEN Refuse(r)
        ELSE /\ request' = [request EXCEPT ![r].at = "writing", ![r].base = row, ![r].mine = new]
             /\ UNCHANGED <<account, now, failures, lockedUntil, violations, started, restarts>>

(***************************************************************************)
(* Requests end.                                                            *)
(***************************************************************************)

Commit(r) ==
  LET q    == request[r]
      rows == [account EXCEPT ![q.user] = Saved(@, q.base, q.mine)]
  IN /\ q.at = "writing"
     /\ account' = rows
     /\ request' = Observed(Finished(r), rows, now)
     /\ UNCHANGED <<now, failures, lockedUntil, violations, started, restarts>>

\* The handler raises, or the commit fails: nothing is written.
Rollback(r) ==
  /\ request[r].at = "writing"
  /\ Refuse(r)

\* Only the handler of a request that was let in lasts: the clock does not move between the
\* reading of a row and what is decided from it, or between a decision and its commit.
Tick ==
  /\ now < MaxTime
  /\ \A r \in Requests : request[r].at \in {"idle", "arrived"} \/ request[r].admitted
  /\ now' = now + 1
  /\ request' = Observed(request, account, now + 1)
  /\ UNCHANGED <<account, failures, lockedUntil, violations, started, restarts>>

\* The backend restarts: its requests end and the counters, kept in memory, are gone.
Restart ==
  /\ restarts < MaxRestarts
  /\ restarts' = restarts + 1
  /\ failures' = [k \in Keys |-> <<>>]
  /\ lockedUntil' = [k \in Keys |-> 0]
  /\ violations' = [u \in Users |-> <<>>]
  /\ request' = [r \in Requests |-> Idle]
  /\ UNCHANGED <<account, now, started>>

Serve(r) ==
  \/ Load(r)
  \/ SignIn(r) \/ WrongPassword(r) \/ Deny(r) \/ SignInGoogle(r) \/ Authorize(r)
  \/ Operate(r) \/ PunishAbuse(r) \/ PunishFailures(r)
  \/ Commit(r) \/ Rollback(r)

NextAccount ==
  \/ \E r \in Requests, u \in Users, i \in Ips :
       \/ Login(r, u, i)
       \/ Malformed(r, u, i)
       \/ OverLimit(r, u, i)
       \/ \E kind \in Kinds \ {"login", "abuse"} : Arrive(r, kind, u, i)
  \/ \E r \in Requests : Serve(r)
  \/ Tick
  \/ Restart

AccountSpec == InitAccounts /\ [][NextAccount]_accountVars

(***************************************************************************)
(* Properties.                                                              *)
(***************************************************************************)

\* Rows, counters and requests are well formed, and a request holds a copy of the row exactly
\* from its SELECT to its end.
AccountTypeOK ==
  /\ account \in [Users -> Row]
  /\ now \in Nat
  /\ failures \in [Keys -> Seq(Nat)]
  /\ lockedUntil \in [Keys -> Nat]
  /\ violations \in [Users -> Seq(Nat)]
  /\ request \in [Requests -> Request]
  /\ started \in Nat
  /\ restarts \in Nat
  /\ \A r \in Requests :
       request[r].at \in {"loaded", "writing"} => request[r].base \in Row /\ request[r].mine \in Row

\* A request is let in, or a token is issued, only if the account was free at some moment since
\* the request arrived: a block or a suspension committed before the request arrived keeps it
\* out, by every way to sign in (routes/auth.py, routes/auth_oauth.py, security/auth.py).
BarredStaysOut == \A r \in Requests : request[r].admitted => request[r].clean

\* A block that is removed, or a suspension that is lifted while it runs, is the decision of an
\* operator, or of a request that had read the account before its present status was written
\* (evaluate_user_status, authenticate_user, and the policies of routes/auth.py and
\* security/middleware.py).
SanctionStands ==
  [][\A u \in Users :
       ( \/ account[u].status = "BLOCKED" /\ account'[u].status # "BLOCKED"
         \/ Barred(account[u], now) /\ now' = now /\ ~Barred(account'[u], now) )
       => \E r \in Requests :
            /\ request[r].at = "writing" /\ request[r].user = u
            /\ request[r].kind \in {"restore", "suspend"} \/ request[r].base # account[u]
    ]_accountVars
================================================================================
