------------------------- MODULE AdministrationProofs --------------------------
(***************************************************************************)
(* What one administrator's request must not undo of another's: the        *)
(* accounts of AccountStatus, the roles of RoleAssignment and the incidents*)
(* of IncidentResponse, each for any number of requests that overlap, each *)
(* with its type invariant and with what must stay true. A part starts with*)
(* its own argument.                                                       *)
(***************************************************************************)
EXTENDS AccountStatus, RoleAssignment, IncidentResponse, FiniteSetTheorems, SequenceTheorems,
  WellFoundedInduction, TLAPS

(***************************************************************************)
(* Accounts: a barred account is kept out, and a sanction stands. The      *)
(* strengthening is what a request knows: the copy of the row it decides   *)
(* from was the row at some moment since it arrived, and the row it means  *)
(* to write lifts no sanction that its copy carries.                       *)
(***************************************************************************)

\* A request is about a user, and what it has decided from is a row.
Engaged ==
  \A r \in Requests :
    /\ request[r].at # "idle" => request[r].user \in Users
    /\ request[r].at = "idle" => request[r] = Idle

\* `clean` is true of a request whose account was seen free, in the table or in its copy.
Witnessed ==
  \A r \in Requests :
    /\ request[r].at # "idle" /\ ~Barred(account[request[r].user], now) => request[r].clean
    /\ request[r].at = "loaded" /\ ~Barred(request[r].base, now) => request[r].clean
    /\ request[r].admitted => request[r].at = "writing" /\ request[r].clean

\* A row that is about to be written over a barred one blocks the account, unless an operator
\* suspends or restores it.
Respectful ==
  \A r \in Requests :
    request[r].at = "writing" /\ request[r].kind \notin {"restore", "suspend"}
    => ~Barred(request[r].base, now) \/ request[r].mine.status = "BLOCKED"

TableTypes ==
  /\ account \in [Users -> Row]
  /\ now \in Nat
  /\ failures \in [Keys -> Seq(Nat)]
  /\ lockedUntil \in [Keys -> Nat]
  /\ violations \in [Users -> Seq(Nat)]
  /\ started \in Nat
  /\ restarts \in Nat

RequestTypes ==
  /\ request \in [Requests -> Request]
  /\ \A r \in Requests :
       request[r].at \in {"loaded", "writing"} => request[r].base \in Row /\ request[r].mine \in Row
  /\ Engaged

AccountTypes == AccountTypeOK /\ Engaged

RequestInv == RequestTypes /\ Witnessed /\ Respectful

AccountInv == TableTypes /\ RequestInv

LEMMA InvTypes == AccountInv => AccountTypes
BY DEF AccountInv, RequestInv, TableTypes, RequestTypes, AccountTypes, AccountTypeOK

(***************************************************************************)
(* The operators.                                                           *)
(***************************************************************************)

LEMMA RecentType ==
  ASSUME NEW times \in Seq(Nat)
  PROVE  Recent(times) \in Seq(Nat)
<1> DEFINE old == {k \in DOMAIN times : \A j \in 1..k : times[j] + Window < now}
<1>1. IsFiniteSet(DOMAIN times)
  <2>1. DOMAIN times = 1..Len(times) /\ Len(times) \in Nat
    OBVIOUS
  <2> QED BY <2>1, FS_Interval
<1>2. Cardinality(old) \in Nat
  BY <1>1, FS_Subset, FS_CardinalityType
<1>3. Cardinality(old) <= Len(times)
  <2>1. DOMAIN times = 1..Len(times) /\ Len(times) \in Nat
    OBVIOUS
  <2>2. Cardinality(old) <= Cardinality(1..Len(times))
    BY <1>1, <2>1, FS_Subset
  <2> QED BY <2>1, <2>2, FS_Interval
<1> HIDE DEF old
<1>4. SubSeq(times, Cardinality(old) + 1, Len(times)) \in Seq(Nat)
  BY <1>2, <1>3, SubSeqProperties
<1> QED BY <1>4 DEF Recent, old

LEMMA FailedType ==
  ASSUME failures \in [Keys -> Seq(Nat)], now \in Nat, NEW k \in Keys
  PROVE  Failed(k) \in Seq(Nat) /\ Len(Failed(k)) \in Nat
<1>1. Recent(failures[k]) \in Seq(Nat)
  BY RecentType
<1>2. Failed(k) \in Seq(Nat)
  BY <1>1 DEF Failed
<1> QED BY <1>2

\* The rows that requests write are rows.
LEMMA RowTypes ==
  ASSUME now \in Nat
  PROVE  /\ Active \in Row /\ Blocked \in Row /\ Suspended(now) \in Row
         /\ NoRow \notin Row
         /\ \A row \in Row : Lifted(row) \in Row
         /\ \A row, base, mine \in Row : Saved(row, base, mine) \in Row
         /\ \A kind \in Operations : Decision(kind) \in Row
BY AccountAssumption
DEF Active, Blocked, Suspended, NoRow, Row, Statuses, Lifted, Saved, Decision, Operations

\* A suspension that has expired has expired for good.
LEMMA StaysFree ==
  ASSUME now \in Nat, NEW row \in Row, ~Barred(row, now)
  PROVE  ~Barred(row, now + 1)
BY AccountAssumption DEF Barred, Expired, Row

LEMMA PunishmentType ==
  ASSUME now \in Nat, NEW row \in Row, NEW n
  PROVE  Punishment(row, n) \in Row \cup {NoRow}
BY RowTypes DEF Punishment

(***************************************************************************)
(* What a step does to the request it serves.                               *)
(***************************************************************************)

Others(r) == \A q \in Requests : q # r => request'[q] = request[q]

Same(r) ==
  /\ request'[r].kind = request[r].kind
  /\ request'[r].user = request[r].user
  /\ request'[r].clean = request[r].clean

Ended(r) == request' \in [Requests -> Request] /\ Others(r) /\ request'[r] = Idle

\* The request moves on with the copies b and m of the row.
Moved(r, stage, b, m, let) ==
  /\ request' \in [Requests -> Request]
  /\ Others(r) /\ Same(r)
  /\ request'[r].at = stage /\ request'[r].admitted = let
  /\ request'[r].base = b /\ request'[r].mine = m

Began(r, stage) ==
  /\ request[r].at = "idle"
  /\ request' \in [Requests -> Request]
  /\ Others(r)
  /\ request'[r].at = stage /\ request'[r].user \in Users
  /\ request'[r].base = NoRow /\ request'[r].mine = NoRow
  /\ request'[r].admitted = FALSE
  /\ request'[r].clean = ~Barred(account[request'[r].user], now)

LEMMA BeginDoes ==
  ASSUME AccountTypes, NEW r \in Requests, NEW kind \in Kinds, NEW u \in Users, NEW i \in Ips,
         NEW stage \in {"arrived", "failed"}, NEW n \in Nat, Begin(r, kind, u, i, stage, n)
  PROVE  Began(r, stage) /\ started' \in Nat
BY DEF Begin, Began, Others, AccountTypes, AccountTypeOK, Request, Barred

LEMMA RefuseDoes ==
  ASSUME AccountTypes, NEW r \in Requests, request' = Finished(r)
  PROVE  Ended(r)
BY DEF Finished, Ended, Others, AccountTypes, AccountTypeOK, Request, Idle, Kinds

LEMMA UpdateDoes ==
  ASSUME AccountTypes, NEW r \in Requests, NEW w \in Request, request' = [request EXCEPT ![r] = w]
  PROVE  request'[r] = w /\ request' \in [Requests -> Request] /\ Others(r)
<1>1. request \in [Requests -> Request]
  BY DEF AccountTypes, AccountTypeOK
<1> QED BY <1>1 DEF Others

LEMMA AdmitDoes ==
  ASSUME AccountTypes, NEW r \in Requests, NEW row \in Row, Admit(r, row)
  PROVE  Moved(r, "writing", request[r].base, row, TRUE)
<1> DEFINE w == [request[r] EXCEPT !.at = "writing", !.mine = row, !.admitted = TRUE]
<1>1. request' = [request EXCEPT ![r] = w]
  BY DEF Admit, AccountTypes, AccountTypeOK, Request
<1>2. /\ w \in Request
      /\ w.kind = request[r].kind /\ w.user = request[r].user /\ w.clean = request[r].clean
      /\ w.at = "writing" /\ w.base = request[r].base /\ w.mine = row /\ w.admitted = TRUE
  BY DEF AccountTypes, AccountTypeOK, Request
<1> HIDE DEF w
<1>3. request'[r] = w /\ request' \in [Requests -> Request] /\ Others(r)
  BY <1>1, <1>2, UpdateDoes
<1> QED BY <1>2, <1>3 DEF Moved, Same

LEMMA LoadDoes ==
  ASSUME AccountTypes, NEW r \in Requests, NEW row \in Row,
         request' = [request EXCEPT ![r].at = "loaded", ![r].base = row, ![r].mine = row]
  PROVE  Moved(r, "loaded", row, row, request[r].admitted)
<1> DEFINE w == [request[r] EXCEPT !.at = "loaded", !.base = row, !.mine = row]
<1>1. request' = [request EXCEPT ![r] = w]
  BY DEF AccountTypes, AccountTypeOK, Request
<1>2. /\ w \in Request
      /\ w.kind = request[r].kind /\ w.user = request[r].user /\ w.clean = request[r].clean
      /\ w.at = "loaded" /\ w.base = row /\ w.mine = row /\ w.admitted = request[r].admitted
  BY DEF AccountTypes, AccountTypeOK, Request
<1> HIDE DEF w
<1>3. request'[r] = w /\ request' \in [Requests -> Request] /\ Others(r)
  BY <1>1, <1>2, UpdateDoes
<1> QED BY <1>2, <1>3 DEF Moved, Same

LEMMA DecideDoes ==
  ASSUME AccountTypes, NEW r \in Requests, NEW row \in Row,
         request' = [request EXCEPT ![r].at = "writing", ![r].mine = row]
  PROVE  Moved(r, "writing", request[r].base, row, request[r].admitted)
<1> DEFINE w == [request[r] EXCEPT !.at = "writing", !.mine = row]
<1>1. request' = [request EXCEPT ![r] = w]
  BY DEF AccountTypes, AccountTypeOK, Request
<1>2. /\ w \in Request
      /\ w.kind = request[r].kind /\ w.user = request[r].user /\ w.clean = request[r].clean
      /\ w.at = "writing" /\ w.base = request[r].base /\ w.mine = row
      /\ w.admitted = request[r].admitted
  BY DEF AccountTypes, AccountTypeOK, Request
<1> HIDE DEF w
<1>3. request'[r] = w /\ request' \in [Requests -> Request] /\ Others(r)
  BY <1>1, <1>2, UpdateDoes
<1> QED BY <1>2, <1>3 DEF Moved, Same

LEMMA DecideAgainDoes ==
  ASSUME AccountTypes, NEW r \in Requests, NEW row \in Row, NEW new \in Row,
         request' = [request EXCEPT ![r].at = "writing", ![r].base = row, ![r].mine = new]
  PROVE  Moved(r, "writing", row, new, request[r].admitted)
<1> DEFINE w == [request[r] EXCEPT !.at = "writing", !.base = row, !.mine = new]
<1>1. request' = [request EXCEPT ![r] = w]
  BY DEF AccountTypes, AccountTypeOK, Request
<1>2. /\ w \in Request
      /\ w.kind = request[r].kind /\ w.user = request[r].user /\ w.clean = request[r].clean
      /\ w.at = "writing" /\ w.base = row /\ w.mine = new /\ w.admitted = request[r].admitted
  BY DEF AccountTypes, AccountTypeOK, Request
<1> HIDE DEF w
<1>3. request'[r] = w /\ request' \in [Requests -> Request] /\ Others(r)
  BY <1>1, <1>2, UpdateDoes
<1> QED BY <1>2, <1>3 DEF Moved, Same

LEMMA FailDoes ==
  ASSUME AccountTypes, NEW r \in Requests, NEW n \in Nat, NEW row \in Row,
         request' = [request EXCEPT ![r].at = "failed", ![r].count = n, ![r].mine = row]
  PROVE  Moved(r, "failed", request[r].base, row, request[r].admitted)
<1> DEFINE w == [request[r] EXCEPT !.at = "failed", !.count = n, !.mine = row]
<1>1. request' = [request EXCEPT ![r] = w]
  BY DEF AccountTypes, AccountTypeOK, Request
<1>2. /\ w \in Request
      /\ w.kind = request[r].kind /\ w.user = request[r].user /\ w.clean = request[r].clean
      /\ w.at = "failed" /\ w.base = request[r].base /\ w.mine = row /\ w.admitted = request[r].admitted
  BY DEF AccountTypes, AccountTypeOK, Request
<1> HIDE DEF w
<1>3. request'[r] = w /\ request' \in [Requests -> Request] /\ Others(r)
  BY <1>1, <1>2, UpdateDoes
<1> QED BY <1>2, <1>3 DEF Moved, Same

\* A row read, or a moment that passes, only adds to what the requests have seen.
LEMMA ObservedType ==
  ASSUME AccountTypes, NEW reqs \in [Requests -> Request], NEW rows \in [Users -> Row], NEW t \in Nat
  PROVE  /\ Observed(reqs, rows, t) \in [Requests -> Request]
         /\ \A q \in Requests :
              /\ reqs[q].at = "idle" => Observed(reqs, rows, t)[q] = reqs[q]
              /\ reqs[q].at # "idle"
                 => /\ Observed(reqs, rows, t)[q].clean
                         <=> reqs[q].clean \/ ~Barred(rows[reqs[q].user], t)
                    /\ Observed(reqs, rows, t)[q].at = reqs[q].at
                    /\ Observed(reqs, rows, t)[q].kind = reqs[q].kind
                    /\ Observed(reqs, rows, t)[q].user = reqs[q].user
                    /\ Observed(reqs, rows, t)[q].base = reqs[q].base
                    /\ Observed(reqs, rows, t)[q].mine = reqs[q].mine
                    /\ Observed(reqs, rows, t)[q].admitted = reqs[q].admitted
<1> DEFINE free(q) == reqs[q].clean \/ ~Barred(rows[reqs[q].user], t)
           seen(q) == [reqs[q] EXCEPT !.clean = free(q)]
<1>1. \A q \in Requests : free(q) \in BOOLEAN
  BY DEF Request, Barred
<1> HIDE DEF free
<1>2. ASSUME NEW q \in Requests
      PROVE  /\ seen(q) \in Request
             /\ seen(q).clean = free(q)
             /\ seen(q).at = reqs[q].at /\ seen(q).kind = reqs[q].kind
             /\ seen(q).user = reqs[q].user /\ seen(q).base = reqs[q].base
             /\ seen(q).mine = reqs[q].mine /\ seen(q).admitted = reqs[q].admitted
  BY <1>1 DEF Request
<1>3. Observed(reqs, rows, t) = [q \in Requests |-> IF reqs[q].at = "idle" THEN reqs[q] ELSE seen(q)]
  BY DEF Observed, free
<1> HIDE DEF seen
<1>4. Observed(reqs, rows, t) \in [Requests -> Request]
  BY <1>2, <1>3
<1>5. ASSUME NEW q \in Requests
      PROVE  Observed(reqs, rows, t)[q] = IF reqs[q].at = "idle" THEN reqs[q] ELSE seen(q)
  BY <1>3
<1> QED BY <1>2, <1>4, <1>5 DEF free

(***************************************************************************)
(* What such a step keeps, when neither the accounts nor the clock move.    *)
(***************************************************************************)

LEMMA BeganKeeps ==
  ASSUME AccountInv, NEW r \in Requests, NEW stage \in {"arrived", "failed"}, Began(r, stage),
         UNCHANGED <<account, now>>
  PROVE  RequestInv'
<1> USE DEF AccountInv, RequestInv, TableTypes, RequestTypes
<1>1. RequestTypes'
  BY DEF Began, Others, Engaged
<1>2. Witnessed'
  <2> SUFFICES ASSUME NEW q \in Requests
               PROVE  /\ request'[q].at # "idle" /\ ~Barred(account[request'[q].user], now)
                         => request'[q].clean
                      /\ request'[q].at = "loaded" /\ ~Barred(request'[q].base, now)
                         => request'[q].clean
                      /\ request'[q].admitted => request'[q].at = "writing" /\ request'[q].clean
    BY DEF Witnessed, Barred, Expired
  <2>1. CASE q = r
    <3>1. /\ request'[r].at \in {"arrived", "failed"} /\ ~request'[r].admitted
          /\ request'[r].clean = ~Barred(account[request'[r].user], now)
      BY DEF Began
    <3> QED BY <2>1, <3>1
  <2>2. CASE q # r
    <3>1. request'[q] = request[q]
      BY <2>2 DEF Began, Others
    <3> QED BY <3>1 DEF Witnessed
  <2> QED BY <2>1, <2>2
<1>3. Respectful'
  BY DEF Began, Others, Respectful, Barred, Expired
<1> QED BY <1>1, <1>2, <1>3

LEMMA EndedKeeps ==
  ASSUME AccountInv, NEW r \in Requests, Ended(r), UNCHANGED <<account, now>>
  PROVE  RequestInv'
<1> USE DEF AccountInv, RequestInv, TableTypes, RequestTypes
<1>1. Idle.at = "idle" /\ ~Idle.admitted
  BY DEF Idle
<1>2. RequestTypes'
  BY <1>1 DEF Ended, Others, Engaged
<1>3. Witnessed'
  BY <1>1 DEF Ended, Others, Witnessed, Barred, Expired
<1>4. Respectful'
  BY <1>1 DEF Ended, Others, Respectful, Barred, Expired
<1> QED BY <1>2, <1>3, <1>4

LEMMA MovedKeeps ==
  ASSUME AccountInv, NEW r \in Requests, NEW stage \in {"loaded", "failed", "writing"},
         NEW b, NEW m, NEW let, Moved(r, stage, b, m, let), UNCHANGED <<account, now>>,
         request[r].at # "idle",
         stage # "failed" => b \in Row /\ m \in Row,
         stage = "loaded" /\ ~Barred(b, now) => request[r].clean,
         let => stage = "writing" /\ request[r].clean,
         stage = "writing" /\ request[r].kind \notin {"restore", "suspend"}
           => ~Barred(b, now) \/ m.status = "BLOCKED"
  PROVE  RequestInv'
<1> USE DEF AccountInv, RequestInv, TableTypes, RequestTypes
<1>1. RequestTypes'
  BY DEF Moved, Others, Same, Engaged
<1>2. Witnessed'
  BY DEF Moved, Others, Same, Witnessed, Barred, Expired
<1>3. Respectful'
  BY DEF Moved, Others, Same, Respectful, Barred, Expired
<1> QED BY <1>1, <1>2, <1>3

LEMMA SameKeeps ==
  ASSUME AccountInv, UNCHANGED <<account, now, request>>
  PROVE  RequestInv'
BY DEF AccountInv, RequestInv, RequestTypes, Engaged, Witnessed, Respectful, Barred, Expired

(***************************************************************************)
(* The actions.                                                             *)
(***************************************************************************)

LEMMA ArrivalStep ==
  ASSUME AccountInv, NEW r \in Requests, NEW u \in Users, NEW i \in Ips
  PROVE  /\ Login(r, u, i) => AccountInv'
         /\ Malformed(r, u, i) => AccountInv'
         /\ OverLimit(r, u, i) => AccountInv'
         /\ \A kind \in Kinds : Arrive(r, kind, u, i) => AccountInv'
<1> USE DEF TableTypes
<1>0. TableTypes /\ AccountTypes
  BY InvTypes DEF AccountInv
<1>1. ASSUME Login(r, u, i) PROVE AccountInv'
  <2>1. Began(r, "arrived") /\ started' \in Nat
    BY <1>0, <1>1, BeginDoes DEF Login, Kinds
  <2>2. RequestInv'
    BY <1>1, <2>1, BeganKeeps DEF Login
  <2> QED BY <1>0, <1>1, <2>1, <2>2 DEF AccountInv, Login
<1>2. ASSUME Malformed(r, u, i) PROVE AccountInv'
  <2>1. failures' \in [Keys -> Seq(Nat)] /\ lockedUntil' \in [Keys -> Nat]
    BY <1>0, <1>2, FailedType, AccountAssumption DEF Malformed, RegisterFailure
  <2>2. u \in Keys /\ Len(Failed(u)) \in Nat
    BY <1>0, FailedType DEF Keys
  <2>3. RequestInv' /\ started' \in Nat
    <3>1. CASE Len(Failed(u)) >= SuspendThreshold
      <4>1. Began(r, "failed") /\ started' \in Nat
        BY <1>0, <1>2, <2>2, <3>1, BeginDoes DEF Malformed, Kinds
      <4> QED BY <1>2, <4>1, BeganKeeps DEF Malformed
    <3>2. CASE ~(Len(Failed(u)) >= SuspendThreshold)
      BY <1>0, <1>2, <3>2, SameKeeps DEF Malformed
    <3> QED BY <3>1, <3>2
  <2> QED BY <1>0, <1>2, <2>1, <2>3 DEF AccountInv, Malformed
<1>3. ASSUME OverLimit(r, u, i) PROVE AccountInv'
  <2>1. violations' \in [Users -> Seq(Nat)]
    <3> DEFINE before == Recent(violations[u])
               kept == IF Len(before) < AbuseThreshold THEN before ELSE Tail(before)
    <3>1. before \in Seq(Nat)
      BY <1>0, RecentType
    <3> HIDE DEF before
    <3>2. kept \in Seq(Nat)
      BY <3>1, AccountAssumption
    <3>3. now \in Nat /\ violations' = [violations EXCEPT ![u] = Append(kept, now)]
      BY <1>0, <1>3 DEF OverLimit, before
    <3> HIDE DEF kept
    <3> QED BY <1>0, <3>2, <3>3
  <2>2. RequestInv' /\ started' \in Nat
    <3>1. CASE Len(Recent(violations[u])) + 1 = AbuseThreshold
      <4>1. Began(r, "arrived") /\ started' \in Nat
        BY <1>0, <1>3, <3>1, BeginDoes DEF OverLimit, Kinds
      <4> QED BY <1>3, <4>1, BeganKeeps DEF OverLimit
    <3>2. CASE Len(Recent(violations[u])) + 1 # AbuseThreshold
      BY <1>0, <1>3, <3>2, SameKeeps DEF OverLimit
    <3> QED BY <3>1, <3>2
  <2> QED BY <1>0, <1>3, <2>1, <2>2 DEF AccountInv, OverLimit
<1>4. ASSUME NEW kind \in Kinds, Arrive(r, kind, u, i) PROVE AccountInv'
  <2>1. Began(r, "arrived") /\ started' \in Nat
    BY <1>0, <1>4, BeginDoes DEF Arrive
  <2>2. RequestInv'
    BY <1>4, <2>1, BeganKeeps DEF Arrive
  <2> QED BY <1>0, <1>4, <2>1, <2>2 DEF AccountInv, Arrive
<1> QED BY <1>1, <1>2, <1>3, <1>4

LEMMA RefuseStep ==
  ASSUME AccountInv, NEW r \in Requests, Refuse(r)
  PROVE  AccountInv'
<1>1. AccountTypes
  BY InvTypes
<1>2. RequestInv'
  BY <1>1, RefuseDoes, EndedKeeps DEF Refuse
<1> QED BY <1>2 DEF AccountInv, TableTypes, Refuse

LEMMA LoadStep ==
  ASSUME AccountInv, NEW r \in Requests, Load(r)
  PROVE  AccountInv'
<1> DEFINE row == account[request[r].user]
<1>1. AccountTypes /\ request[r].at = "arrived"
  BY InvTypes DEF Load
<1>2. row \in Row /\ (~Barred(row, now) => request[r].clean) /\ ~request[r].admitted
  BY <1>1 DEF AccountTypes, AccountTypeOK, Engaged, AccountInv, RequestInv, Witnessed
<1>3. request' = [request EXCEPT ![r].at = "loaded", ![r].base = row, ![r].mine = row]
  BY DEF Load
<1> HIDE DEF row
<1>4. Moved(r, "loaded", row, row, request[r].admitted)
  BY <1>1, <1>2, <1>3, LoadDoes
<1>5. RequestInv'
  BY <1>1, <1>2, <1>4, MovedKeeps DEF Load
<1> QED BY <1>5 DEF AccountInv, TableTypes, Load

\* What a request knows when it decides.
LEMMA Knows ==
  ASSUME AccountInv, NEW r \in Requests, request[r].at \in {"loaded", "failed", "writing"}
  PROVE  /\ AccountTypes /\ TableTypes
         /\ request[r].user \in Users
         /\ request[r].at \in {"loaded", "writing"}
            => request[r].base \in Row /\ request[r].mine \in Row
         /\ request[r].base \in Row \cup {NoRow}
         /\ request[r].at = "loaded" /\ ~Barred(request[r].base, now) => request[r].clean
         /\ request[r].at # "writing" => ~request[r].admitted
         /\ request[r].ip \in Ips \cup {None}
<1>1. AccountTypes /\ TableTypes /\ RequestTypes /\ Witnessed
  BY InvTypes DEF AccountInv, RequestInv
<1>2. request[r] \in Request
  BY <1>1 DEF RequestTypes
<1> QED BY <1>1, <1>2 DEF RequestTypes, Engaged, Witnessed, Request

LEMMA SignInStep ==
  ASSUME AccountInv, NEW r \in Requests, SignIn(r)
  PROVE  AccountInv'
<1>1. request[r].at = "loaded" /\ ~Barred(request[r].base, now)
  BY DEF SignIn
<1>2. Lifted(request[r].base) \in Row
  BY <1>1, Knows, RowTypes DEF TableTypes
<1>3. Moved(r, "writing", request[r].base, Lifted(request[r].base), TRUE)
  BY <1>1, <1>2, Knows, AdmitDoes DEF SignIn
<1>4. RequestInv'
  BY <1>1, <1>2, <1>3, Knows, MovedKeeps DEF SignIn
<1>5. failures' \in [Keys -> Seq(Nat)] /\ lockedUntil' \in [Keys -> Nat]
  BY <1>1, Knows DEF SignIn, ClearSuccess, TableTypes
<1> QED BY <1>1, <1>4, <1>5, Knows DEF AccountInv, TableTypes, SignIn

LEMMA SignInGoogleStep ==
  ASSUME AccountInv, NEW r \in Requests, SignInGoogle(r)
  PROVE  AccountInv'
<1>1. request[r].at = "loaded"
  BY DEF SignInGoogle
<1>2. CASE request[r].base.status = "ACTIVE"
  <2>1. ~Barred(request[r].base, now)
    BY <1>2 DEF Barred
  <2>2. Moved(r, "writing", request[r].base, request[r].base, TRUE)
    BY <1>1, <1>2, Knows, AdmitDoes DEF SignInGoogle
  <2>3. RequestInv'
    BY <1>1, <1>2, <2>1, <2>2, Knows, MovedKeeps DEF SignInGoogle
  <2> QED BY <1>1, <1>2, <2>3, Knows DEF AccountInv, TableTypes, SignInGoogle
<1>3. CASE request[r].base.status # "ACTIVE"
  BY <1>3, RefuseStep DEF SignInGoogle
<1> QED BY <1>2, <1>3

LEMMA AuthorizeStep ==
  ASSUME AccountInv, NEW r \in Requests, Authorize(r)
  PROVE  AccountInv'
<1> DEFINE row == IF request[r].kind = "upload" THEN Blocked ELSE Lifted(request[r].base)
<1>1. request[r].at = "loaded" /\ ~Barred(request[r].base, now)
  BY DEF Authorize
<1>2. row \in Row
  BY <1>1, Knows, RowTypes DEF TableTypes
<1>3. Admit(r, row)
  BY DEF Authorize
<1> HIDE DEF row
<1>4. Moved(r, "writing", request[r].base, row, TRUE)
  BY <1>1, <1>2, <1>3, Knows, AdmitDoes
<1>5. RequestInv'
  BY <1>1, <1>2, <1>4, Knows, MovedKeeps DEF Authorize
<1> QED BY <1>1, <1>5, Knows DEF AccountInv, TableTypes, Authorize

LEMMA WrongPasswordStep ==
  ASSUME AccountInv, NEW r \in Requests, WrongPassword(r)
  PROVE  AccountInv'
<1> DEFINE q == request[r]
           row == IF q.base.status = "SUSPENDED" THEN q.base ELSE Lifted(q.base)
<1>1. q.at = "loaded"
  BY DEF WrongPassword
<1>2. AccountTypes /\ TableTypes /\ q.user \in Users /\ q.base \in Row /\ q.user \in Keys
  BY <1>1, Knows DEF Keys
<1>3. row \in Row /\ Len(Failed(q.user)) \in Nat
  BY <1>2, RowTypes, FailedType DEF TableTypes
<1>4. failures' \in [Keys -> Seq(Nat)] /\ lockedUntil' \in [Keys -> Nat]
  <2>1. RegisterFailure(request[r].user, request[r].ip)
    BY DEF WrongPassword
  <2> QED BY <1>2, <2>1, FailedType, AccountAssumption DEF RegisterFailure, TableTypes
<1>5. RequestInv'
  <2>1. CASE Len(Failed(q.user)) >= SuspendThreshold
    <3>1. request' = [request EXCEPT ![r].at = "failed", ![r].count = Len(Failed(q.user)),
                                     ![r].mine = row]
      BY <2>1 DEF WrongPassword
    <3> HIDE DEF row
    <3>2. Moved(r, "failed", request[r].base, row, request[r].admitted)
      BY <1>2, <1>3, <3>1, FailDoes
    <3>3. ~request[r].admitted
      BY <1>1, Knows
    <3> QED BY <1>1, <3>2, <3>3, MovedKeeps DEF WrongPassword
  <2>2. CASE ~(Len(Failed(q.user)) >= SuspendThreshold)
    <3>1. Ended(r)
      BY <1>2, <2>2, RefuseDoes DEF WrongPassword
    <3> QED BY <3>1, EndedKeeps DEF WrongPassword
  <2> QED BY <2>1, <2>2
<1> QED BY <1>2, <1>4, <1>5 DEF AccountInv, TableTypes, WrongPassword

LEMMA DenyStep ==
  ASSUME AccountInv, NEW r \in Requests, Deny(r)
  PROVE  AccountInv'
BY RefuseStep DEF Deny

LEMMA OperateStep ==
  ASSUME AccountInv, NEW r \in Requests, Operate(r)
  PROVE  AccountInv'
<1> DEFINE row == Decision(request[r].kind)
<1>1. request[r].at = "loaded" /\ request[r].kind \in Operations
  BY DEF Operate
<1>2. AccountTypes /\ TableTypes /\ row \in Row /\ ~request[r].admitted
  BY <1>1, Knows, RowTypes DEF TableTypes
<1>3. request[r].kind \notin {"restore", "suspend"} => row.status = "BLOCKED"
  BY <1>1 DEF Operations, Decision, Blocked
<1>4. request' = [request EXCEPT ![r].at = "writing", ![r].mine = row]
  BY DEF Operate
<1> HIDE DEF row
<1>5. Moved(r, "writing", request[r].base, row, request[r].admitted)
  BY <1>2, <1>4, DecideDoes
<1>6. RequestInv'
  BY <1>1, <1>2, <1>3, <1>5, Knows, MovedKeeps DEF Operate
<1> QED BY <1>2, <1>6 DEF AccountInv, TableTypes, Operate

LEMMA PunishAbuseStep ==
  ASSUME AccountInv, NEW r \in Requests, PunishAbuse(r)
  PROVE  AccountInv'
<1>1. request[r].at = "loaded"
  BY DEF PunishAbuse
<1>2. CASE request[r].base.status \in {"BLOCKED", "SUSPENDED"}
  BY <1>2, RefuseStep DEF PunishAbuse
<1>3. CASE request[r].base.status \notin {"BLOCKED", "SUSPENDED"}
  <2>1. ~Barred(request[r].base, now)
    BY <1>3 DEF Barred
  <2>2. AccountTypes /\ TableTypes /\ Suspended(now) \in Row /\ ~request[r].admitted
    BY <1>1, Knows, RowTypes DEF TableTypes
  <2>3. Moved(r, "writing", request[r].base, Suspended(now), request[r].admitted)
    BY <1>3, <2>2, DecideDoes DEF PunishAbuse
  <2>4. RequestInv'
    BY <1>1, <1>3, <2>1, <2>2, <2>3, Knows, MovedKeeps DEF PunishAbuse
  <2> QED BY <1>3, <2>2, <2>4 DEF AccountInv, TableTypes, PunishAbuse
<1> QED BY <1>2, <1>3

\* The policy against failures blocks the account, or suspends one that is active.
LEMMA PunishmentBars ==
  ASSUME NEW row \in Row, NEW n, Punishment(row, n) # NoRow
  PROVE  ~Barred(row, now) \/ Punishment(row, n).status = "BLOCKED"
BY DEF Punishment, Barred, Row, Statuses, Blocked

LEMMA PunishFailuresStep ==
  ASSUME AccountInv, NEW r \in Requests, PunishFailures(r)
  PROVE  AccountInv'
<1> DEFINE q   == request[r]
           row == IF q.base = NoRow THEN account[q.user] ELSE q.base
           new == Punishment(row, q.count)
<1>1. q.at = "failed"
  BY DEF PunishFailures
<1>2. AccountTypes /\ TableTypes /\ q.user \in Users /\ ~q.admitted /\ q.base \in Row \cup {NoRow}
  BY <1>1, Knows
<1>3. row \in Row
  BY <1>2 DEF TableTypes
<1>4. CASE new = NoRow
  BY <1>4, RefuseStep DEF PunishFailures
<1>5. CASE new # NoRow
  <2>1. request' = [request EXCEPT ![r].at = "writing", ![r].base = row, ![r].mine = new]
    BY <1>5 DEF PunishFailures
  <2>2. UNCHANGED <<account, now, failures, lockedUntil, violations, started, restarts>>
    BY <1>5 DEF PunishFailures
  <2> HIDE DEF row
  <2>3. new \in Row
    BY <1>2, <1>3, <1>5, PunishmentType DEF TableTypes
  <2>4. ~Barred(row, now) \/ new.status = "BLOCKED"
    BY <1>3, <1>5, PunishmentBars
  <2> HIDE DEF new
  <2>5. Moved(r, "writing", row, new, request[r].admitted)
    BY <1>2, <1>3, <2>1, <2>3, DecideAgainDoes
  <2>6. RequestInv'
    BY <1>1, <1>2, <1>3, <2>2, <2>3, <2>4, <2>5, MovedKeeps
  <2> QED BY <1>2, <2>2, <2>6 DEF AccountInv, TableTypes
<1> QED BY <1>4, <1>5

LEMMA CommitStep ==
  ASSUME AccountInv, NEW r \in Requests, Commit(r)
  PROVE  AccountInv'
<1> DEFINE q    == request[r]
           rows == [account EXCEPT ![q.user] = Saved(@, q.base, q.mine)]
           reqs == Finished(r)
<1>1. q.at = "writing" /\ account' = rows /\ request' = Observed(reqs, rows, now)
  BY DEF Commit
<1>2. AccountTypes /\ TableTypes /\ q.user \in Users /\ q.base \in Row /\ q.mine \in Row
  BY <1>1, Knows
<1>3. rows \in [Users -> Row]
  BY <1>2, RowTypes DEF TableTypes
<1>4. reqs \in [Requests -> Request] /\ reqs[r].at = "idle" /\ ~reqs[r].admitted /\ reqs[r] = Idle
      /\ \A p \in Requests : p # r => reqs[p] = request[p]
  BY <1>2 DEF Finished, Idle, Request, Kinds, AccountTypes, AccountTypeOK
<1>5. RequestInv
  BY DEF AccountInv
<1> HIDE DEF rows, reqs
<1>6. /\ request' \in [Requests -> Request] /\ request'[r] = Idle
      /\ Idle.at = "idle" /\ ~Idle.admitted /\ now' = now /\ account' \in [Users -> Row]
  <2>1. Idle.at = "idle" /\ ~Idle.admitted
    BY DEF Idle
  <2>2. now' = now /\ now \in Nat
    BY <1>2 DEF Commit, TableTypes
  <2>3. Observed(reqs, rows, now) \in [Requests -> Request]
    BY <1>2, <1>3, <1>4, <2>2, ObservedType
  <2>4. Observed(reqs, rows, now)[r] = reqs[r]
    BY <1>2, <1>3, <1>4, <2>2, ObservedType
  <2> QED BY <1>1, <1>3, <1>4, <2>1, <2>2, <2>3, <2>4
<1>7. ASSUME NEW p \in Requests, p # r
      PROVE  /\ request'[p].at = request[p].at /\ request'[p].kind = request[p].kind
             /\ request'[p].user = request[p].user /\ request'[p].base = request[p].base
             /\ request'[p].mine = request[p].mine /\ request'[p].admitted = request[p].admitted
             /\ request[p].at = "idle" => request'[p] = request[p]
             /\ request[p].at # "idle"
                => (request'[p].clean
                      <=> request[p].clean \/ ~Barred(account'[request[p].user], now))
  <2>1. reqs[p] = request[p]
    BY <1>4, <1>7
  <2>2. now \in Nat
    BY <1>2 DEF TableTypes
  <2> QED BY <1>1, <1>2, <1>3, <1>4, <1>7, <2>1, <2>2, ObservedType
<1>8. RequestTypes'
  BY <1>5, <1>6, <1>7 DEF RequestInv, RequestTypes, Engaged
<1>9. Witnessed' /\ Respectful'
  <2> SUFFICES ASSUME NEW p \in Requests, p # r
               PROVE  /\ /\ request'[p].at # "idle"
                         /\ ~Barred(account'[request'[p].user], now)
                         => request'[p].clean
                      /\ request'[p].at = "loaded" /\ ~Barred(request'[p].base, now)
                         => request'[p].clean
                      /\ request'[p].admitted => request'[p].at = "writing" /\ request'[p].clean
                      /\ request'[p].at = "writing"
                         /\ request'[p].kind \notin {"restore", "suspend"}
                         => ~Barred(request'[p].base, now) \/ request'[p].mine.status = "BLOCKED"
      BY <1>6 DEF Witnessed, Respectful, Barred, Expired
  <2> QED BY <1>5, <1>7 DEF RequestInv, RequestTypes, Engaged, Witnessed, Respectful
<1>10. TableTypes'
  BY <1>1, <1>2, <1>3 DEF TableTypes, Commit
<1> QED BY <1>8, <1>9, <1>10 DEF AccountInv, RequestInv

LEMMA TickStep ==
  ASSUME AccountInv, Tick
  PROVE  AccountInv'
<1>1. AccountTypes /\ TableTypes /\ RequestInv
  BY InvTypes DEF AccountInv
<1>2. /\ request \in [Requests -> Request] /\ account \in [Users -> Row] /\ now + 1 \in Nat
      /\ account' = account /\ now' = now + 1 /\ request' = Observed(request, account, now + 1)
  BY <1>1 DEF TableTypes, RequestInv, RequestTypes, Tick
<1>3. \A q \in Requests : request[q].at = "loaded" => FALSE
  BY <1>1 DEF Tick, RequestInv, Witnessed
<1>4. RequestTypes'
  BY <1>1, <1>2, ObservedType DEF RequestInv, RequestTypes, Engaged
<1>5. Witnessed'
  BY <1>1, <1>2, <1>3, ObservedType DEF RequestInv, Witnessed, Barred, Expired
<1>6. Respectful'
  <2> SUFFICES ASSUME NEW q \in Requests, request'[q].at = "writing",
                      request'[q].kind \notin {"restore", "suspend"}
               PROVE  ~Barred(request'[q].base, now + 1) \/ request'[q].mine.status = "BLOCKED"
      BY <1>2 DEF Respectful
  <2>1. request[q].at = "writing" /\ request'[q].kind = request[q].kind
        /\ request'[q].base = request[q].base /\ request'[q].mine = request[q].mine
    BY <1>1, <1>2, ObservedType
  <2>2. ~Barred(request[q].base, now) \/ request[q].mine.status = "BLOCKED"
    BY <1>1, <2>1 DEF RequestInv, Respectful
  <2>3. request[q].base \in Row
    BY <1>1, <2>1 DEF RequestInv, RequestTypes
  <2> QED BY <1>1, <2>1, <2>2, <2>3, StaysFree DEF TableTypes
<1>7. TableTypes'
  BY <1>1 DEF TableTypes, Tick
<1> QED BY <1>4, <1>5, <1>6, <1>7 DEF AccountInv, RequestInv

LEMMA RestartStep ==
  ASSUME AccountInv, Restart
  PROVE  AccountInv'
<1>1. Idle \in Request /\ Idle.at = "idle" /\ ~Idle.admitted
  BY DEF Idle, Request, Kinds
<1>2. request' = [r \in Requests |-> Idle]
  BY DEF Restart
<1>3. RequestTypes'
  BY <1>1, <1>2 DEF RequestTypes, Engaged
<1>4. Witnessed' /\ Respectful'
  BY <1>1, <1>2 DEF Witnessed, Respectful
<1>5. TableTypes'
  BY DEF AccountInv, TableTypes, Restart
<1> QED BY <1>3, <1>4, <1>5 DEF AccountInv, RequestInv

LEMMA AccountStart == InitAccounts => AccountInv
<1> SUFFICES ASSUME InitAccounts PROVE AccountInv
    OBVIOUS
<1>1. Idle \in Request /\ Idle.at = "idle" /\ ~Idle.admitted
  BY DEF Idle, Request, Kinds
<1>2. RequestTypes /\ Witnessed /\ Respectful
  BY <1>1 DEF InitAccounts, RequestTypes, Engaged, Witnessed, Respectful
<1>3. Active \in Row /\ Blocked \in Row
  BY DEF Active, Blocked, Row, Statuses
<1>4. TableTypes
  BY <1>3 DEF InitAccounts, TableTypes
<1> QED BY <1>2, <1>4 DEF AccountInv, RequestInv

LEMMA AccountStep == AccountInv /\ [NextAccount]_accountVars => AccountInv'
<1> SUFFICES ASSUME AccountInv, [NextAccount]_accountVars
             PROVE  AccountInv'
    OBVIOUS
<1>1. CASE UNCHANGED accountVars
  BY <1>1, SameKeeps DEF accountVars, AccountInv, TableTypes
<1>2. ASSUME NEW r \in Requests, Serve(r) PROVE AccountInv'
  BY <1>2, LoadStep, SignInStep, WrongPasswordStep, DenyStep, SignInGoogleStep, AuthorizeStep,
     OperateStep, PunishAbuseStep, PunishFailuresStep, CommitStep, RefuseStep DEF Serve, Rollback
<1> QED BY <1>1, <1>2, ArrivalStep, TickStep, RestartStep DEF NextAccount

(***************************************************************************)
(* Only a commit writes a row, and what it lifts its copy did not carry.    *)
(***************************************************************************)

LEMMA OnlyCommitWrites ==
  ASSUME NextAccount, account' # account
  PROVE  \E r \in Requests : Commit(r)
BY DEF NextAccount, Login, Malformed, OverLimit, Arrive, Serve, Load, SignIn, WrongPassword, Deny,
       SignInGoogle, Authorize, Operate, PunishAbuse, PunishFailures, Rollback, Refuse, Tick, Restart

LEMMA CommitRespects ==
  ASSUME AccountInv, NEW r \in Requests, Commit(r), NEW u \in Users,
         \/ account[u].status = "BLOCKED" /\ account'[u].status # "BLOCKED"
         \/ Barred(account[u], now) /\ now' = now /\ ~Barred(account'[u], now)
  PROVE  /\ request[r].at = "writing" /\ request[r].user = u
         /\ request[r].kind \in {"restore", "suspend"} \/ request[r].base # account[u]
<1> DEFINE q == request[r]
<1>1. q.at = "writing"
  BY DEF Commit
<1>2. TableTypes /\ q.user \in Users /\ q.base \in Row /\ q.mine \in Row
  BY <1>1, Knows
<1>3. account' = [account EXCEPT ![q.user] = Saved(account[q.user], q.base, q.mine)]
  BY DEF Commit
<1>4. q.user = u
  BY <1>2, <1>3 DEF TableTypes
<1>5. account'[u] = Saved(account[u], q.base, q.mine)
  BY <1>2, <1>3, <1>4 DEF TableTypes
<1>6. ASSUME q.kind \notin {"restore", "suspend"}, q.base = account[u] PROVE FALSE
  <2>1. Barred(q.base, now)
    BY <1>6 DEF Barred
  <2>2. q.mine.status = "BLOCKED"
    BY <1>1, <1>6, <2>1 DEF AccountInv, RequestInv, Respectful
  <2>3. account'[u].status = "BLOCKED"
    BY <1>5, <1>6, <2>2 DEF Saved
  <2> QED BY <2>3 DEF Barred
<1> QED BY <1>1, <1>4, <1>6

\* The account's row, the sessions, the policy's counters and the requests have their types in every
\* reachable state (routes/auth.py, services/login_security_service.py).
THEOREM AccountTypesHold == AccountSpec => []AccountTypeOK
<1>1. AccountInv => AccountTypeOK
  BY InvTypes DEF AccountTypes
<1> QED BY <1>1, AccountStart, AccountStep, PTL DEF AccountSpec

\* A blocked or suspended account is kept out, by every way to sign in and whatever requests
\* overlap (routes/auth.py, routes/auth_oauth.py, security/auth.py).
THEOREM BarredKeptOut == AccountSpec => []BarredStaysOut
<1>1. AccountInv => BarredStaysOut
  BY DEF AccountInv, RequestInv, Witnessed, BarredStaysOut
<1> QED BY <1>1, AccountStart, AccountStep, PTL DEF AccountSpec

\* A sanction is lifted by an operator, or by a request that had not seen it
\* (evaluate_user_status, authenticate_user, and the policies of routes/auth.py and
\* security/middleware.py).
THEOREM SanctionHolds == AccountSpec => SanctionStands
<1> DEFINE Lifts(u) ==
             \/ account[u].status = "BLOCKED" /\ account'[u].status # "BLOCKED"
             \/ Barred(account[u], now) /\ now' = now /\ ~Barred(account'[u], now)
           Excused(u) ==
             \E r \in Requests :
               /\ request[r].at = "writing" /\ request[r].user = u
               /\ request[r].kind \in {"restore", "suspend"} \/ request[r].base # account[u]
<1>1. AccountInv /\ [NextAccount]_accountVars => [\A u \in Users : Lifts(u) => Excused(u)]_accountVars
  <2> SUFFICES ASSUME AccountInv, NextAccount, NEW u \in Users, Lifts(u)
               PROVE  Excused(u)
      BY DEF accountVars
  <2>1. account' # account
    BY DEF Barred
  <2>2. PICK r \in Requests : Commit(r)
    BY <2>1, OnlyCommitWrites
  <2> QED BY <2>2, CommitRespects
<1> QED BY <1>1, AccountStart, AccountStep, PTL DEF AccountSpec, SanctionStands

(***************************************************************************)
(* Roles: the platform keeps an owner unless two demotions overlapped. The *)
(* strengthening says what the count is for: a demotion that passed it has *)
(* seen two owners, so that writing it over the owners it counted leaves   *)
(* one.                                                                    *)
(***************************************************************************)

SawTwo ==
  \A r \in Calls :
    call[r].at = "checked" /\ Demotes(call[r])
    => \E u, v \in call[r].owners : u # v

RoleInv == RolesTypeOK /\ SawTwo /\ OwnerRemains

\* A finite set with more than one element has two.
LEMMA TwoMembers ==
  ASSUME NEW S, IsFiniteSet(S), ~(Cardinality(S) <= 1)
  PROVE  \E u, v \in S : u # v
<1>1. Cardinality(S) \in Nat
  BY FS_CardinalityType
<1>2. Cardinality(S) # 0 /\ Cardinality(S) # 1
  BY <1>1
<1>3. S # {}
  BY <1>2, FS_EmptySet
<1>4. PICK u \in S : TRUE
  BY <1>3
<1>5. S # {u}
  BY <1>2, FS_Singleton
<1> QED BY <1>4, <1>5

LEMMA OwnersFinite == IsFiniteSet(Owners)
BY RoleAssumption, FS_Subset DEF Owners

LEMMA RoleStart == InitRoles => RoleInv
<1> SUFFICES ASSUME InitRoles PROVE RoleInv
    OBVIOUS
<1>1. RolesTypeOK
  BY RoleAssumption DEF InitRoles, RolesTypeOK, NoCall, Call, Roles
<1>2. SawTwo
  BY DEF InitRoles, SawTwo, NoCall
<1>3. OwnerRemains
  BY RoleAssumption DEF InitRoles, OwnerRemains, Owners
<1> QED BY <1>1, <1>2, <1>3 DEF RoleInv

\* The type invariant is inductive.
LEMMA RoleTypeStep == RolesTypeOK /\ [NextRole]_roleVars => RolesTypeOK'
<1> SUFFICES ASSUME RolesTypeOK, [NextRole]_roleVars
             PROVE  RolesTypeOK'
    OBVIOUS
<1> USE RoleAssumption DEF RolesTypeOK, Roles, Call, NoCall, End
<1>1. CASE UNCHANGED roleVars
  BY <1>1 DEF roleVars
<1>2. ASSUME NEW r \in Calls, NEW u \in People, NEW v \in People, NEW new \in Roles,
             Authorized(r, u, v, new)
      PROVE  RolesTypeOK'
  BY <1>2 DEF Authorized
<1>3. ASSUME NEW r \in Calls, ReadTarget(r) PROVE RolesTypeOK'
  BY <1>3 DEF ReadTarget
<1>4. ASSUME NEW r \in Calls, CountOwners(r) PROVE RolesTypeOK'
  <2>1. Owners \subseteq People
    BY DEF Owners
  <2> QED BY <1>4, <2>1 DEF CountOwners
<1>5. ASSUME NEW r \in Calls, WriteRole(r) PROVE RolesTypeOK'
  BY <1>5 DEF WriteRole
<1>6. ASSUME NEW r \in Calls, AssignmentFails(r) PROVE RolesTypeOK'
  BY <1>6 DEF AssignmentFails
<1>7. CASE SyncConfiguredOwner
  BY <1>7 DEF SyncConfiguredOwner
<1>8. CASE RestartBackend
  BY <1>8 DEF RestartBackend
<1> QED BY <1>1, <1>2, <1>3, <1>4, <1>5, <1>6, <1>7, <1>8 DEF NextRole

\* Only a count makes a call "checked".
LEMMA SawTwoStep == RolesTypeOK /\ SawTwo /\ [NextRole]_roleVars => SawTwo'
<1> SUFFICES ASSUME RolesTypeOK, SawTwo, [NextRole]_roleVars
             PROVE  SawTwo'
    OBVIOUS
<1> USE DEF RolesTypeOK, SawTwo, NoCall, End, Demotes
<1>1. CASE UNCHANGED roleVars
  BY <1>1 DEF roleVars
<1>2. ASSUME NEW r \in Calls, NEW u \in People, NEW v \in People, NEW new \in Roles,
             Authorized(r, u, v, new)
      PROVE  SawTwo'
  BY <1>2 DEF Authorized
<1>3. ASSUME NEW r \in Calls, ReadTarget(r) PROVE SawTwo'
  <2>1. \A q \in Calls \ {r} : call'[q] = call[q]
    BY <1>3 DEF ReadTarget
  <2>2. call'[r].at \in {"idle", "read"}
    BY <1>3 DEF ReadTarget, Call
  <2> QED BY <2>1, <2>2
<1>4. ASSUME NEW r \in Calls, CountOwners(r) PROVE SawTwo'
  <2>1. CASE Demotes(call[r]) /\ IsLastOwner
    BY <1>4, <2>1 DEF CountOwners
  <2>2. CASE ~(Demotes(call[r]) /\ IsLastOwner)
    <3>1. call' = [call EXCEPT ![r].at = "checked", ![r].owners = Owners]
      BY <1>4, <2>2 DEF CountOwners
    <3>2. Demotes(call[r]) => \E u, v \in Owners : u # v
      BY <2>2, OwnersFinite, TwoMembers DEF IsLastOwner
    <3> QED BY <3>1, <3>2 DEF Call
  <2> QED BY <2>1, <2>2
<1>5. ASSUME NEW r \in Calls, WriteRole(r) PROVE SawTwo'
  BY <1>5 DEF WriteRole
<1>6. ASSUME NEW r \in Calls, AssignmentFails(r) PROVE SawTwo'
  BY <1>6 DEF AssignmentFails
<1>7. CASE SyncConfiguredOwner
  BY <1>7 DEF SyncConfiguredOwner
<1>8. CASE RestartBackend
  BY <1>8 DEF RestartBackend
<1> QED BY <1>1, <1>2, <1>3, <1>4, <1>5, <1>6, <1>7, <1>8 DEF NextRole

\* A role that is written leaves an owner, or is a demotion over other owners than it counted.
LEMMA WriteKeepsOwner ==
  ASSUME RoleInv, NEW r \in Calls, WriteRole(r)
  PROVE  OwnerRemains'
<1> USE DEF RoleInv, RolesTypeOK
<1>0. call[r].target \in People /\ call[r].new \in Roles /\ call[r].old \in Roles
  BY DEF WriteRole, Call
<1>1. CASE Demotes(call[r]) /\ Owners = call[r].owners
  <2>1. PICK u, v \in Owners : u # v
    BY <1>1 DEF SawTwo, WriteRole
  <2>2. \E w \in {u, v} : w # call[r].target
    BY <2>1
  <2>3. PICK w \in Owners : w # call[r].target
    BY <2>1, <2>2
  <2>4. role'[w] = "platform_owner" /\ w \in People
    BY <2>3, <1>0 DEF WriteRole, Owners
  <2> QED BY <2>4 DEF OwnerRemains, Owners
<1>2. CASE Demotes(call[r]) /\ Owners # call[r].owners
  BY <1>2 DEF WriteRole, OwnerRemains
<1>3. CASE ~Demotes(call[r])
  <2>1. skewed' = skewed
    BY <1>3 DEF WriteRole
  <2>2. call[r].new # call[r].old => call[r].new = "platform_owner"
    BY <1>0, <1>3 DEF Demotes, Roles
  <2>3. \A w \in Owners : role'[w] = "platform_owner"
    BY <1>0, <2>2 DEF WriteRole, Owners
  <2> QED BY <2>1, <2>3 DEF OwnerRemains, Owners
<1> QED BY <1>1, <1>2, <1>3

LEMMA RoleStep == RoleInv /\ [NextRole]_roleVars => RoleInv'
<1> SUFFICES ASSUME RoleInv, [NextRole]_roleVars
             PROVE  RoleInv'
    OBVIOUS
<1>1. RolesTypeOK' /\ SawTwo'
  BY RoleTypeStep, SawTwoStep DEF RoleInv
<1>2. OwnerRemains'
  <2> USE DEF RoleInv, RolesTypeOK, OwnerRemains, Owners
  <2>1. CASE UNCHANGED roleVars
    BY <2>1 DEF roleVars
  <2>2. ASSUME NEW r \in Calls, NEW u \in People, NEW v \in People, NEW new \in Roles,
               Authorized(r, u, v, new)
        PROVE  OwnerRemains'
    BY <2>2 DEF Authorized
  <2>3. ASSUME NEW r \in Calls, ReadTarget(r) PROVE OwnerRemains'
    BY <2>3 DEF ReadTarget
  <2>4. ASSUME NEW r \in Calls, CountOwners(r) PROVE OwnerRemains'
    BY <2>4 DEF CountOwners
  <2>5. ASSUME NEW r \in Calls, WriteRole(r) PROVE OwnerRemains'
    BY <2>5, WriteKeepsOwner
  <2>6. ASSUME NEW r \in Calls, AssignmentFails(r) PROVE OwnerRemains'
    BY <2>6 DEF AssignmentFails
  <2>7. CASE SyncConfiguredOwner
    BY <2>7 DEF SyncConfiguredOwner
  <2>8. CASE RestartBackend
    BY <2>8, RoleAssumption DEF RestartBackend
  <2> QED BY <2>1, <2>2, <2>3, <2>4, <2>5, <2>6, <2>7, <2>8 DEF NextRole
<1> QED BY <1>1, <1>2 DEF RoleInv

\* Roles and the assignments under way have their types in every reachable state
\* (routes/admin_roles.py).
THEOREM RoleTypesHold == RoleSpec => []RolesTypeOK
<1>1. RoleInv => RolesTypeOK
  BY DEF RoleInv
<1> QED BY <1>1, RoleStart, RoleStep, PTL DEF RoleSpec

\* The platform keeps an owner, whatever assignments overlap and whenever the backend restarts,
\* unless the last demotion was written after the owners it had counted had changed
\* (routes/admin_roles.py).
THEOREM OwnerStays == RoleSpec => []OwnerRemains
<1>1. RoleInv => OwnerRemains
  BY DEF RoleInv
<1> QED BY <1>1, RoleStart, RoleStep, PTL DEF RoleSpec

(***************************************************************************)
(* Incidents: the timeline is true. The strengthening is about the log of  *)
(* one incident: an entry is written by a request that had read what the   *)
(* entries before some moment left, so that as long as the entries about a *)
(* column were written one after the other, the last one tells its value   *)
(* and each one follows from the one before it.                            *)
(***************************************************************************)

LogEntry ==
  {x \in [column : Column, value : UNION {ValuesOf(c) : c \in Column}, seen : Nat, manual : BOOLEAN] :
     x.value \in ValuesOf(x.column)}

TabRow == [event : Events, by : Engineers, base : IncidentRow, seen : Nat]

IncidentShapes ==
  /\ log \in [Events -> Seq(LogEntry)]
  /\ tab \in [Tabs -> TabRow \cup {NoTab}]

(***************************************************************************)
(* What is said of one incident: row is its row, l its log, t a request.    *)
(***************************************************************************)

About(l, c) == {k \in DOMAIN l : l[k].column = c}

InSequence(l, c) == \A k, j \in About(l, c) : j < k => j <= l[k].seen

IsLast(l, c, k) == k \in About(l, c) /\ \A j \in About(l, c) : j <= k

TellsValues(l, row) ==
  \A c \in Column : InSequence(l, c) => \A k \in About(l, c) : IsLast(l, c, k) => row[c] = l[k].value

TellsStages(l) ==
  InSequence(l, "status") =>
    \A j, k \in About(l, "status") :
      j < k /\ (\A m \in About(l, "status") : m <= j \/ m >= k) => Follows(l[j].value, l[k].value)

ByEngineers(l) == {k \in DOMAIN l : l[k].manual}

\* The request has read what the entries that it saw left.
HasRead(t, l, row) ==
  /\ l # <<>>
  /\ t.seen <= Len(l)
  /\ \A c \in Column : (\A k \in About(l, c) : k <= t.seen) => t.base[c] = row[c]

Timelines ==
  \A e \in Events :
    /\ creation[e].at # "done" => log[e] = <<>>
    /\ TellsValues(log[e], incident[e])
    /\ TellsStages(log[e])
    /\ audited[e] = Cardinality(ByEngineers(log[e]))

TabsHaveRead ==
  \A r \in Tabs : tab[r] # NoTab => HasRead(tab[r], log[tab[r].event], incident[tab[r].event])

IncidentInv == IncidentTypeOK /\ IncidentShapes /\ Timelines /\ TabsHaveRead

\* A set of numbers that has a member has a smallest one.
LEMMA Least ==
  ASSUME NEW T, T \subseteq Nat, T # {}
  PROVE  \E x \in T : \A y \in T : x <= y
<1> DEFINE Intervals == {0..n : n \in T}
<1>1. \A n \in Nat : 0..n \in FiniteSubsetsOf(Nat)
  BY FS_Interval DEF FiniteSubsetsOf
<1>2. Intervals \subseteq FiniteSubsetsOf(Nat) /\ Intervals # {}
  BY <1>1
<1> HIDE DEF Intervals
<1>3. PICK u \in Intervals : \A v \in Intervals : ~(<<v, u>> \in StrictSubsetOrdering(Nat))
  BY <1>2, WFMin, FS_StrictSubsetOrderingWellFounded
<1>4. PICK x \in T : u = 0..x
  BY DEF Intervals
<1>5. ASSUME NEW y \in T, y < x PROVE FALSE
  <2>1. 0..y \in Intervals
    BY DEF Intervals
  <2>2. 0..y \subseteq 0..x /\ 0..y # 0..x /\ 0..y \subseteq Nat /\ 0..x \subseteq Nat
    BY <1>5
  <2> QED BY <1>3, <1>4, <2>1, <2>2 DEF StrictSubsetOrdering
<1> QED BY <1>4, <1>5

(***************************************************************************)
(* Rows and logs.                                                           *)
(***************************************************************************)

LEMMA ColumnTyped ==
  ASSUME NEW row \in IncidentRow, NEW c \in Column
  PROVE  row[c] \in ValuesOf(c)
BY DEF IncidentRow, Column, ValuesOf

LEMMA ColumnSet ==
  ASSUME NEW row \in IncidentRow, NEW c \in Column, NEW v \in ValuesOf(c)
  PROVE  /\ [row EXCEPT ![c] = v] \in IncidentRow
         /\ [row EXCEPT ![c] = v][c] = v
         /\ \A d \in Column \ {c} : [row EXCEPT ![c] = v][d] = row[d]
BY DEF IncidentRow, Column, ValuesOf

LEMMA NewRow ==
  ASSUME NEW g \in Engineers \cup {Unassigned}
  PROVE  /\ NewIncident(g) \in IncidentRow
         /\ NewIncident(g)["status"] = "OPEN"
         /\ NewIncident(g)["assigned_to"] = g
<1>1. "OPEN" \in Stages
  BY DEF Stages, Lifecycle
<1> QED BY <1>1, IncidentAssumption DEF NewIncident, IncidentRow, ValuesOf

LEMMA EntryTyped ==
  ASSUME NEW c \in Column, NEW v \in ValuesOf(c), NEW n \in Nat, NEW m \in BOOLEAN
  PROVE  /\ Entry(c, v, n, m) \in LogEntry
         /\ Entry(c, v, n, m).column = c /\ Entry(c, v, n, m).value = v
         /\ Entry(c, v, n, m).seen = n /\ Entry(c, v, n, m).manual = m
<1>1. v \in UNION {ValuesOf(d) : d \in Column}
  OBVIOUS
<1> HIDE DEF ValuesOf, Column
<1> QED BY <1>1 DEF Entry, LogEntry

\* l2 and row2 are the log and the row after a request t has recorded value v of column c.
OneMore(l, row, l2, row2, t, c, v) ==
  /\ l \in Seq(LogEntry) /\ l2 \in Seq(LogEntry)
  /\ Len(l2) = Len(l) + 1
  /\ \A k \in 1..Len(l) : l2[k] = l[k]
  /\ l2[Len(l) + 1] = Entry(c, v, t.seen, TRUE)
  /\ c \in Column /\ v \in ValuesOf(c) /\ t.seen \in Nat
  /\ HasRead(t, l, row)
  /\ row2[c] = (IF v # t.base[c] THEN v ELSE row[c])
  /\ \A d \in Column \ {c} : row2[d] = row[d]

Grown(l, l2, t, c, v, n) ==
  /\ n = Len(l) /\ DOMAIN l = 1..n /\ DOMAIN l2 = 1..(n + 1)
  /\ \A k \in 1..n : l2[k] = l[k]
  /\ l2[n + 1].value = v /\ l2[n + 1].seen = t.seen /\ l2[n + 1].manual = TRUE
  /\ About(l2, c) = About(l, c) \cup {n + 1}
  /\ \A d : d # c => About(l2, d) = About(l, d)
  /\ \A d : About(l, d) \subseteq 1..n
  /\ t.seen \in Nat /\ t.seen <= n

LEMMA MoreEntries ==
  ASSUME NEW l, NEW row, NEW l2, NEW row2, NEW t, NEW c, NEW v, OneMore(l, row, l2, row2, t, c, v)
  PROVE  \E n \in Nat : Grown(l, l2, t, c, v, n)
<1>1. PICK n \in Nat : n = Len(l)
  BY DEF OneMore
<1>2. DOMAIN l = 1..n /\ DOMAIN l2 = 1..(n + 1)
  BY <1>1 DEF OneMore
<1>3. /\ l2[n + 1].column = c /\ l2[n + 1].value = v
      /\ l2[n + 1].seen = t.seen /\ l2[n + 1].manual = TRUE
  <2>1. l2[n + 1] = Entry(c, v, t.seen, TRUE)
    BY <1>1 DEF OneMore
  <2> QED BY <2>1 DEF Entry
<1>4. \A k \in 1..n : l2[k] = l[k]
  BY <1>1 DEF OneMore
<1>5. \A d : About(l2, d) = About(l, d) \cup (IF d = c THEN {n + 1} ELSE {})
  BY <1>2, <1>3, <1>4 DEF About
<1>6. t.seen \in Nat /\ t.seen <= n
  BY <1>1 DEF OneMore, HasRead
<1>7. \A d : About(l, d) \subseteq 1..n
  BY <1>2 DEF About
<1>8. About(l2, c) = About(l, c) \cup {n + 1}
  BY <1>5
<1>9. \A d : d # c => About(l2, d) = About(l, d)
  BY <1>5
<1> QED BY <1>1, <1>2, <1>3, <1>4, <1>6, <1>7, <1>8, <1>9 DEF Grown

\* The new entry was written over the one before it exactly if it is in sequence with the others.
LEMMA MoreSequence ==
  ASSUME NEW l, NEW row, NEW l2, NEW row2, NEW t, NEW c, NEW v, OneMore(l, row, l2, row2, t, c, v)
  PROVE  /\ InSequence(l2, c) => InSequence(l, c) /\ t.base[c] = row[c] /\ row2[c] = v
         /\ \A d : d # c => (InSequence(l2, d) <=> InSequence(l, d))
<1>0. PICK n \in Nat : Grown(l, l2, t, c, v, n)
  BY MoreEntries
<1>1. /\ n = Len(l)
      /\ \A d : About(l, d) \subseteq 1..n
      /\ \A k \in 1..n : l2[k] = l[k]
      /\ About(l2, c) = About(l, c) \cup {n + 1}
      /\ \A d : d # c => About(l2, d) = About(l, d)
      /\ l2[n + 1].seen = t.seen
  BY <1>0 DEF Grown
<1>2. ASSUME InSequence(l2, c) PROVE InSequence(l, c) /\ t.base[c] = row[c] /\ row2[c] = v
  <2>1. InSequence(l, c)
    BY <1>1, <1>2 DEF InSequence
  <2>2. \A k \in About(l, c) : k < n + 1
    BY <1>1
  <2>3. \A k \in About(l, c) : k <= t.seen
    BY <1>1, <1>2, <2>2 DEF InSequence
  <2>4. t.base[c] = row[c]
    BY <2>3 DEF OneMore, HasRead
  <2> QED BY <2>1, <2>4 DEF OneMore
<1>3. ASSUME NEW d, d # c PROVE InSequence(l2, d) <=> InSequence(l, d)
  BY <1>1, <1>3 DEF InSequence
<1> QED BY <1>2, <1>3

LEMMA MoreTells ==
  ASSUME NEW l, NEW row, NEW l2, NEW row2, NEW t, NEW c, NEW v, OneMore(l, row, l2, row2, t, c, v),
         TellsValues(l, row)
  PROVE  TellsValues(l2, row2)
<1>0. PICK n \in Nat : Grown(l, l2, t, c, v, n)
  BY MoreEntries
<1>1. /\ \A d : About(l, d) \subseteq 1..n
      /\ \A k \in 1..n : l2[k] = l[k]
      /\ About(l2, c) = About(l, c) \cup {n + 1}
      /\ \A d : d # c => About(l2, d) = About(l, d)
      /\ l2[n + 1].value = v
  BY <1>0 DEF Grown
<1> SUFFICES ASSUME NEW d \in Column, InSequence(l2, d), NEW k \in About(l2, d), IsLast(l2, d, k)
             PROVE  row2[d] = l2[k].value
    BY DEF TellsValues
<1>2. CASE d = c
  <2>1. n + 1 \in About(l2, c) /\ \A j \in About(l2, c) : j <= n + 1 /\ j \in Nat
    BY <1>1
  <2>2. k = n + 1
    BY <1>2, <2>1 DEF IsLast
  <2> QED BY <1>1, <1>2, <2>2, MoreSequence
<1>3. CASE d # c
  <2>1. InSequence(l, d) /\ About(l2, d) = About(l, d)
    BY <1>1, <1>3, MoreSequence
  <2>2. IsLast(l, d, k) /\ k \in About(l, d)
    BY <2>1 DEF IsLast
  <2>3. row[d] = l[k].value
    BY <2>1, <2>2 DEF TellsValues
  <2>4. row2[d] = row[d]
    BY <1>3 DEF OneMore
  <2>5. l2[k] = l[k]
    BY <1>1, <2>2
  <2> QED BY <2>3, <2>4, <2>5
<1> QED BY <1>2, <1>3

LEMMA MoreStages ==
  ASSUME NEW l, NEW row, NEW l2, NEW row2, NEW t, NEW c, NEW v, OneMore(l, row, l2, row2, t, c, v),
         TellsValues(l, row), TellsStages(l),
         c = "status" => Follows(t.base[c], v)
  PROVE  TellsStages(l2)
<1>0. PICK n \in Nat : Grown(l, l2, t, c, v, n)
  BY MoreEntries
<1>1. /\ \A d : About(l, d) \subseteq 1..n
      /\ \A k \in 1..n : l2[k] = l[k]
      /\ About(l2, c) = About(l, c) \cup {n + 1}
      /\ \A d : d # c => About(l2, d) = About(l, d)
      /\ l2[n + 1].value = v
  BY <1>0 DEF Grown
<1>2. CASE c # "status"
  <2>1. About(l2, "status") = About(l, "status") /\ (InSequence(l2, "status") <=> InSequence(l, "status"))
    BY <1>1, <1>2, MoreSequence
  <2>2. \A k \in About(l, "status") : l2[k] = l[k]
    BY <1>1
  <2> QED BY <2>1, <2>2 DEF TellsStages
<1>3. CASE c = "status"
  <2> SUFFICES ASSUME InSequence(l2, c), NEW j \in About(l2, c), NEW k \in About(l2, c), j < k,
                      \A m \in About(l2, c) : m <= j \/ m >= k
               PROVE  Follows(l2[j].value, l2[k].value)
      BY <1>3 DEF TellsStages
  <2>1. InSequence(l, c) /\ t.base[c] = row[c]
    BY MoreSequence
  <2>2. j # n + 1 /\ j \in About(l, c) /\ j \in 1..n
    BY <1>1
  <2>3. CASE k = n + 1
    <3>1. IsLast(l, c, j)
      <4>1. ASSUME NEW m \in About(l, c) PROVE m <= j
        <5>1. m \in About(l2, c) /\ m \in 1..n
          BY <1>1
        <5> QED BY <5>1, <2>3
      <4> QED BY <4>1, <2>2 DEF IsLast
    <3>2. row[c] = l[j].value
      BY <1>3, <2>1, <2>2, <3>1 DEF TellsValues, Column
    <3>3. l2[j] = l[j]
      BY <1>1, <2>2
    <3> QED BY <1>1, <1>3, <2>1, <2>3, <3>2, <3>3
  <2>4. CASE k # n + 1
    <3>1. k \in About(l, c) /\ k \in 1..n
      BY <1>1, <2>4
    <3>2. \A m \in About(l, c) : m <= j \/ m >= k
      BY <1>1
    <3>3. l2[j] = l[j] /\ l2[k] = l[k]
      BY <1>1, <2>2, <3>1
    <3> QED BY <1>3, <2>1, <2>2, <3>1, <3>2, <3>3 DEF TellsStages
  <2> QED BY <2>3, <2>4
<1> QED BY <1>2, <1>3

LEMMA MoreManual ==
  ASSUME NEW l, NEW row, NEW l2, NEW row2, NEW t, NEW c, NEW v, OneMore(l, row, l2, row2, t, c, v)
  PROVE  /\ Cardinality(ByEngineers(l)) \in Nat
         /\ Cardinality(ByEngineers(l2)) = Cardinality(ByEngineers(l)) + 1
<1>0. PICK n \in Nat : Grown(l, l2, t, c, v, n)
  BY MoreEntries
<1>1. /\ \A k \in 1..n : l2[k] = l[k]
      /\ l2[n + 1].manual = TRUE
      /\ DOMAIN l = 1..n /\ DOMAIN l2 = 1..(n + 1)
  BY <1>0 DEF Grown
<1>2. ByEngineers(l) \subseteq 1..n
  BY <1>1 DEF ByEngineers
<1>3. IsFiniteSet(ByEngineers(l)) /\ Cardinality(ByEngineers(l)) \in Nat
  <2>1. IsFiniteSet(1..n)
    BY FS_Interval
  <2> QED BY <1>2, <2>1, FS_Subset, FS_CardinalityType
<1>4. ByEngineers(l2) = ByEngineers(l) \cup {n + 1}
  BY <1>1 DEF ByEngineers
<1>5. n + 1 \notin ByEngineers(l)
  BY <1>2
<1> QED BY <1>3, <1>4, <1>5, FS_AddElement

\* Another request u, which had read before t recorded.
LEMMA MoreRead ==
  ASSUME NEW l, NEW row, NEW l2, NEW row2, NEW t, NEW c, NEW v, OneMore(l, row, l2, row2, t, c, v),
         NEW u, u.seen \in Nat, HasRead(u, l, row)
  PROVE  HasRead(u, l2, row2)
<1>0. PICK n \in Nat : Grown(l, l2, t, c, v, n)
  BY MoreEntries
<1>1. /\ n = Len(l)
      /\ About(l2, c) = About(l, c) \cup {n + 1}
      /\ \A d : d # c => About(l2, d) = About(l, d)
      /\ DOMAIN l2 = 1..(n + 1)
  BY <1>0 DEF Grown
<1>2. u.seen <= n /\ Len(l2) = n + 1
  BY <1>1 DEF HasRead, OneMore
<1>3. l2 # <<>>
  BY <1>2, <1>1
<1>4. ASSUME NEW d \in Column, \A k \in About(l2, d) : k <= u.seen PROVE u.base[d] = row2[d]
  <2>1. d # c
    BY <1>1, <1>2, <1>4
  <2> QED BY <1>1, <1>4, <2>1 DEF HasRead, OneMore
<1> QED BY <1>1, <1>2, <1>3, <1>4 DEF HasRead

(***************************************************************************)
(* The steps.                                                               *)
(***************************************************************************)

IncidentVarsTyped ==
  /\ creation \in [Events -> [at : {"none", "started", "resolved", "done"},
                              assignee : Engineers \cup {Unassigned}]]
  /\ incident \in [Events -> IncidentRow]
  /\ audited \in [Events -> Nat]
  /\ IncidentShapes

LEMMA ShapesSuffice == IncidentVarsTyped => IncidentTypeOK
<1> SUFFICES ASSUME IncidentVarsTyped PROVE IncidentTypeOK
    OBVIOUS
<1>1. \A e \in Events : \A k \in DOMAIN log[e] :
        log[e][k].column \in Column /\ log[e][k].value \in ValuesOf(log[e][k].column)
  <2> SUFFICES ASSUME NEW e \in Events, NEW k \in DOMAIN log[e]
               PROVE  log[e][k].column \in Column /\ log[e][k].value \in ValuesOf(log[e][k].column)
      OBVIOUS
  <2>1. log[e][k] \in LogEntry
    BY DEF IncidentVarsTyped, IncidentShapes
  <2> QED BY <2>1 DEF LogEntry
<1>2. \A r \in Tabs : tab[r] # NoTab => tab[r].event \in Events /\ tab[r].base \in IncidentRow
  <2> SUFFICES ASSUME NEW r \in Tabs, tab[r] # NoTab
               PROVE  tab[r].event \in Events /\ tab[r].base \in IncidentRow
      OBVIOUS
  <2>1. tab[r] \in TabRow
    BY DEF IncidentVarsTyped, IncidentShapes
  <2> QED BY <2>1 DEF TabRow
<1> QED BY <1>1, <1>2 DEF IncidentVarsTyped, IncidentTypeOK

LEMMA IncidentStart == InitIncidents => IncidentInv
<1> SUFFICES ASSUME InitIncidents PROVE IncidentInv
    OBVIOUS
<1>1. NewIncident(Unassigned) \in IncidentRow
  BY NewRow
<1>2. IncidentVarsTyped
  BY <1>1 DEF InitIncidents, IncidentVarsTyped, IncidentShapes
<1>3. Timelines
  <2>1. \A c : About(<<>>, c) = {}
    BY DEF About
  <2>2. ByEngineers(<<>>) = {}
    BY DEF ByEngineers
  <2>3. Cardinality(ByEngineers(<<>>)) = 0
    BY <2>2, FS_EmptySet
  <2>4. \A row : TellsValues(<<>>, row)
    BY <2>1 DEF TellsValues
  <2>5. TellsStages(<<>>)
    BY <2>1 DEF TellsStages
  <2> QED BY <2>3, <2>4, <2>5 DEF InitIncidents, Timelines
<1>4. TabsHaveRead
  BY DEF InitIncidents, TabsHaveRead
<1> QED BY <1>2, <1>3, <1>4, ShapesSuffice DEF IncidentVarsTyped, IncidentInv

\* Nothing that is said of the incidents changes.
LEMMA IncidentFrame ==
  ASSUME IncidentInv, UNCHANGED <<incident, log, audited>>,
         \A e \in Events :
           /\ creation'[e] \in [at : {"none", "started", "resolved", "done"},
                                assignee : Engineers \cup {Unassigned}]
           /\ creation'[e].at # "done" => creation[e].at # "done",
         creation' \in [Events -> {creation'[e] : e \in Events}],
         tab' \in [Tabs -> {tab'[r] : r \in Tabs}],
         \A r \in Tabs : tab'[r] = tab[r] \/ tab'[r] = NoTab
  PROVE  IncidentInv'
<1>1. tab' \in [Tabs -> TabRow \cup {NoTab}]
  <2>1. \A r \in Tabs : tab'[r] \in TabRow \cup {NoTab}
    BY DEF IncidentInv, IncidentShapes
  <2> QED BY <2>1
<1>2. creation' \in [Events -> [at : {"none", "started", "resolved", "done"},
                              assignee : Engineers \cup {Unassigned}]]
  <2>1. \A e \in Events : creation'[e] \in [at : {"none", "started", "resolved", "done"},
                              assignee : Engineers \cup {Unassigned}]
    OBVIOUS
  <2> HIDE DEF IncidentInv
  <2> QED BY <2>1
<1>3. IncidentVarsTyped'
  BY <1>1, <1>2 DEF IncidentInv, IncidentTypeOK, IncidentVarsTyped, IncidentShapes
<1>4. Timelines'
  BY DEF IncidentInv, Timelines
<1>5. TabsHaveRead'
  BY DEF IncidentInv, TabsHaveRead
<1>6. IncidentTypeOK'
  BY <1>3, ShapesSuffice, PTL
<1> QED BY <1>3, <1>4, <1>5, <1>6 DEF IncidentVarsTyped, IncidentInv

LEMMA LeastLoadedTyped ==
  ASSUME NEW active \in SUBSET Engineers, active # {}
  PROVE  LeastLoaded(active) \in active
<1>1. \A g : OpenLoad(g) \in Nat
  <2> SUFFICES ASSUME NEW g PROVE OpenLoad(g) \in Nat
      OBVIOUS
  <2> DEFINE S == {e \in Events : /\ Created(e)
                              /\ incident[e].assigned_to = g
                              /\ incident[e].status # "CLOSED"
                              /\ incident[e].false_positive = "no"}
  <2>1. S \subseteq Events
    OBVIOUS
  <2>2. OpenLoad(g) = Cardinality(S)
    BY DEF OpenLoad
  <2> QED BY <2>1, <2>2, IncidentAssumption, FS_Subset, FS_CardinalityType
<1> DEFINE loads == {OpenLoad(g) : g \in active}
<1>2. PICK n \in loads : \A m \in loads : n <= m
  <2>1. loads \subseteq Nat /\ loads # {}
    BY <1>1
  <2> HIDE DEF loads
  <2> QED BY <2>1, Least
<1> DEFINE freest == {g \in active : OpenLoad(g) = n}
<1>3. PICK g \in freest : \A h \in freest : g <= h
  <2>1. freest \subseteq Nat /\ freest # {}
    BY IncidentAssumption
  <2> HIDE DEF freest
  <2> QED BY <2>1, Least
<1>4. \A h \in active : OpenLoad(g) < OpenLoad(h) \/ (OpenLoad(g) = OpenLoad(h) /\ g <= h)
  <2> SUFFICES ASSUME NEW h \in active, ~(OpenLoad(g) < OpenLoad(h))
               PROVE  OpenLoad(g) = OpenLoad(h) /\ g <= h
      OBVIOUS
  <2>1. n <= OpenLoad(h) /\ OpenLoad(g) = n
    BY <1>2, <1>3
  <2>2. PICK a \in Nat : a = OpenLoad(h)
    BY <1>1
  <2>3. PICK b \in Nat : b = n
    BY <1>1, <2>1
  <2>4. OpenLoad(h) = n
    BY <2>1, <2>2, <2>3
  <2> QED BY <2>1, <2>4, <1>3
<1>5. g \in active
  BY <1>3
<1> HIDE DEF loads, freest
<1> QED BY <1>4, <1>5 DEF LeastLoaded

LEMMA CreateIncidentStep ==
  ASSUME IncidentInv, NEW e \in Events, CreateIncident(e)
  PROVE  IncidentInv'
<1> DEFINE g == creation[e].assignee
           detected == Entry("status", "OPEN", 0, FALSE)
           assigned == Entry("assigned_to", g, 1, FALSE)
           done == [at |-> "done", assignee |-> Unassigned]
<1>1. g \in Engineers \cup {Unassigned}
  BY DEF IncidentInv, IncidentTypeOK
<1>2. /\ creation' = [creation EXCEPT ![e] = done]
      /\ incident' = [incident EXCEPT ![e] = NewIncident(g)]
      /\ log' = [log EXCEPT ![e] = IF g = Unassigned THEN <<detected>> ELSE <<detected, assigned>>]
      /\ UNCHANGED <<audited, tab>>
      /\ creation[e].at = "resolved"
  BY DEF CreateIncident
<1>3. /\ detected \in LogEntry /\ detected.column = "status" /\ detected.value = "OPEN"
      /\ detected.manual = FALSE
  <2>1. "status" \in Column /\ "OPEN" \in ValuesOf("status")
    BY DEF Column, ValuesOf, Stages, Lifecycle
  <2>2. detected \in LogEntry
    BY <2>1, EntryTyped
  <2> QED BY <2>2 DEF Entry
<1>4. /\ assigned \in LogEntry /\ assigned.column = "assigned_to" /\ assigned.value = g
      /\ assigned.manual = FALSE
  <2>1. "assigned_to" \in Column /\ g \in ValuesOf("assigned_to")
    BY <1>1 DEF Column, ValuesOf
  <2>2. assigned \in LogEntry
    BY <2>1, EntryTyped
  <2> QED BY <2>2 DEF Entry
<1>5. /\ NewIncident(g) \in IncidentRow /\ NewIncident(g)["status"] = "OPEN"
      /\ NewIncident(g)["assigned_to"] = g
  BY <1>1, NewRow
<1>6. log[e] = <<>> /\ audited[e] = 0
  <2>1. log[e] = <<>>
    BY <1>2 DEF IncidentInv, Timelines
  <2>2. ByEngineers(<<>>) = {}
    BY DEF ByEngineers
  <2> QED BY <2>1, <2>2, FS_EmptySet DEF IncidentInv, Timelines
<1> HIDE DEF detected, assigned, g
<1> DEFINE l == IF g = Unassigned THEN <<detected>> ELSE <<detected, assigned>>
<1>7. /\ l \in Seq(LogEntry) /\ DOMAIN l \in {1..1, 1..2}
      /\ l[1] = detected /\ (DOMAIN l = 1..2 => l[2] = assigned)
  <2>1. CASE g = Unassigned
    BY <2>1, <1>3
  <2>2. CASE g # Unassigned
    BY <2>2, <1>3, <1>4
  <2> QED BY <2>1, <2>2
<1>8. log' = [log EXCEPT ![e] = l]
  BY <1>2
<1> HIDE DEF l
<1>9. IncidentVarsTyped'
  <2>1. creation' \in [Events -> [at : {"none", "started", "resolved", "done"},
                              assignee : Engineers \cup {Unassigned}]]
    BY <1>2 DEF IncidentInv, IncidentTypeOK
  <2>2. incident' \in [Events -> IncidentRow]
    BY <1>2, <1>5 DEF IncidentInv, IncidentTypeOK
  <2>3. log' \in [Events -> Seq(LogEntry)]
    BY <1>7, <1>8 DEF IncidentInv, IncidentShapes
  <2>4. audited' \in [Events -> Nat] /\ tab' \in [Tabs -> TabRow \cup {NoTab}]
    BY <1>2 DEF IncidentInv, IncidentTypeOK, IncidentShapes
  <2> QED BY <2>1, <2>2, <2>3, <2>4 DEF IncidentVarsTyped, IncidentShapes
<1>10. About(l, "status") = {1} /\ About(l, "assigned_to") \subseteq {2}
       /\ (\A k \in About(l, "assigned_to") : l[k].value = g)
       /\ (\A c \in Column \ {"status", "assigned_to"} : About(l, c) = {})
  BY <1>3, <1>4, <1>7 DEF About, Column
<1>11. TellsValues(l, NewIncident(g))
  BY <1>3, <1>5, <1>7, <1>10 DEF TellsValues, Column
<1>12. TellsStages(l)
  BY <1>10 DEF TellsStages
<1>13. ByEngineers(l) = {}
  BY <1>3, <1>4, <1>7 DEF ByEngineers
<1>14. incident'[e] = NewIncident(g) /\ log'[e] = l /\ creation'[e].at = "done"
       /\ \A f \in Events \ {e} :
            incident'[f] = incident[f] /\ log'[f] = log[f] /\ creation'[f] = creation[f]
  BY <1>2, <1>8 DEF IncidentInv, IncidentTypeOK, IncidentShapes
<1>15. Timelines'
  <2>1. Cardinality(ByEngineers(l)) = 0
    BY <1>13, FS_EmptySet
  <2>2. ASSUME NEW f \in Events
        PROVE  /\ creation'[f].at # "done" => log'[f] = <<>>
               /\ TellsValues(log'[f], incident'[f])
               /\ TellsStages(log'[f])
               /\ audited'[f] = Cardinality(ByEngineers(log'[f]))
    <3>1. CASE f = e
      BY <3>1, <1>2, <1>6, <1>11, <1>12, <1>14, <2>1
    <3>2. CASE f # e
      BY <3>2, <1>2, <1>14 DEF IncidentInv, Timelines
    <3> QED BY <3>1, <3>2
  <2> QED BY <2>2 DEF Timelines
<1>16. TabsHaveRead'
  <2> SUFFICES ASSUME NEW r \in Tabs, tab[r] # NoTab
               PROVE  HasRead(tab[r], log'[tab[r].event], incident'[tab[r].event])
      BY <1>2 DEF TabsHaveRead
  <2>1. HasRead(tab[r], log[tab[r].event], incident[tab[r].event]) /\ tab[r].event \in Events
    BY DEF IncidentInv, TabsHaveRead, IncidentTypeOK
  <2>2. tab[r].event # e
    BY <1>6, <2>1 DEF HasRead
  <2> QED BY <1>14, <2>1, <2>2
<1>17. IncidentTypeOK'
  BY <1>9, ShapesSuffice, PTL
<1> QED BY <1>9, <1>15, <1>16, <1>17 DEF IncidentVarsTyped, IncidentInv

LEMMA OpenStep ==
  ASSUME IncidentInv, NEW r \in Tabs, NEW e \in Events, NEW g \in Engineers, OpenIncident(r, e, g)
  PROVE  IncidentInv'
<1> DEFINE t == [event |-> e, by |-> g, base |-> incident[e], seen |-> Len(log[e])]
<1>1. tab' = [tab EXCEPT ![r] = t] /\ log[e] # <<>> /\ UNCHANGED <<creation, incident, log, audited>>
  BY DEF OpenIncident, Created
<1>2. incident[e] \in IncidentRow /\ log[e] \in Seq(LogEntry)
  BY DEF IncidentInv, IncidentTypeOK, IncidentShapes
<1>3. t \in TabRow /\ t.event = e /\ t.base = incident[e] /\ t.seen = Len(log[e])
  BY <1>2 DEF TabRow
<1> HIDE DEF t
<1>4. HasRead(t, log[e], incident[e])
  BY <1>1, <1>2, <1>3 DEF HasRead
<1>5. tab'[r] = t /\ tab' \in [Tabs -> TabRow \cup {NoTab}] /\ \A q \in Tabs \ {r} : tab'[q] = tab[q]
  BY <1>1, <1>3 DEF IncidentInv, IncidentShapes
<1>6. IncidentVarsTyped'
  BY <1>1, <1>5 DEF IncidentInv, IncidentTypeOK, IncidentVarsTyped, IncidentShapes
<1>7. Timelines'
  BY <1>1 DEF IncidentInv, Timelines
<1>8. TabsHaveRead'
  BY <1>1, <1>3, <1>4, <1>5 DEF IncidentInv, TabsHaveRead
<1>9. IncidentTypeOK'
  BY <1>6, ShapesSuffice, PTL
<1> QED BY <1>6, <1>7, <1>8, <1>9 DEF IncidentVarsTyped, IncidentInv

LEMMA RecordStep ==
  ASSUME IncidentInv, NEW r \in Tabs, NEW c \in Column, NEW v \in ValuesOf(c), Record(r, c, v),
         c = "status" => Follows(tab[r].base[c], v)
  PROVE  IncidentInv'
<1> DEFINE t == tab[r]
           e == tab[r].event
           x == Entry(c, v, tab[r].seen, TRUE)
           w == IF v # tab[r].base[c] THEN v ELSE incident[e][c]
<1>1. t \in TabRow /\ t # NoTab
  BY DEF Record, IncidentInv, IncidentShapes
<1>2. e \in Events /\ t.base \in IncidentRow /\ t.seen \in Nat
  BY <1>1 DEF TabRow
<1>3. incident[e] \in IncidentRow /\ log[e] \in Seq(LogEntry) /\ HasRead(t, log[e], incident[e])
  BY <1>1, <1>2 DEF IncidentInv, IncidentTypeOK, IncidentShapes, TabsHaveRead
<1>4. x \in LogEntry
  BY <1>2, EntryTyped
<1>5. w \in ValuesOf(c)
  BY <1>3, ColumnTyped
<1> DEFINE row2 == [incident[e] EXCEPT ![c] = w]
           l2 == Append(log[e], x)
<1>6. row2 \in IncidentRow /\ row2[c] = w /\ \A d \in Column \ {c} : row2[d] = incident[e][d]
  BY <1>3, <1>5, ColumnSet
<1>7. /\ incident' = [incident EXCEPT ![e] = row2]
      /\ log' = [log EXCEPT ![e] = l2]
      /\ audited' = [audited EXCEPT ![e] = audited[e] + 1]
      /\ tab' = [tab EXCEPT ![r] = NoTab]
      /\ UNCHANGED creation
  <2>1. incident' = [incident EXCEPT ![e][c] = w]
    BY <1>2 DEF Record, IncidentInv, IncidentTypeOK
  <2> QED BY <2>1, <1>2 DEF Record, IncidentInv, IncidentTypeOK, IncidentShapes
<1>8. /\ l2 \in Seq(LogEntry) /\ Len(l2) = Len(log[e]) + 1
      /\ (\A k \in 1..Len(log[e]) : l2[k] = log[e][k])
      /\ l2[Len(log[e]) + 1] = x
  <2> HIDE DEF x
  <2> QED BY <1>3, <1>4
<1>9. OneMore(log[e], incident[e], l2, row2, t, c, v)
  <2> HIDE DEF l2, row2
  <2> QED BY <1>2, <1>3, <1>6, <1>8 DEF OneMore
<1> HIDE DEF l2, row2, e, x, w
<1>10. incident'[e] = row2 /\ log'[e] = l2 /\ audited'[e] = audited[e] + 1 /\ tab'[r] = NoTab
       /\ (\A f \in Events \ {e} :
            incident'[f] = incident[f] /\ log'[f] = log[f] /\ audited'[f] = audited[f])
       /\ (\A q \in Tabs \ {r} : tab'[q] = tab[q])
  BY <1>2, <1>7 DEF IncidentInv, IncidentTypeOK, IncidentShapes
<1>11. IncidentVarsTyped'
  <2>1. creation' \in [Events -> [at : {"none", "started", "resolved", "done"},
                              assignee : Engineers \cup {Unassigned}]]
    BY <1>7 DEF IncidentInv, IncidentTypeOK
  <2>2. incident' \in [Events -> IncidentRow]
    BY <1>6, <1>7 DEF IncidentInv, IncidentTypeOK
  <2>3. log' \in [Events -> Seq(LogEntry)]
    BY <1>7, <1>8 DEF IncidentInv, IncidentShapes
  <2>4. audited' \in [Events -> Nat]
    BY <1>2, <1>7 DEF IncidentInv, IncidentTypeOK
  <2>5. tab' \in [Tabs -> TabRow \cup {NoTab}]
    BY <1>7 DEF IncidentInv, IncidentShapes
  <2> QED BY <2>1, <2>2, <2>3, <2>4, <2>5 DEF IncidentVarsTyped, IncidentShapes
<1>12. Timelines'
  <2>1. /\ creation[e].at # "done" => log[e] = <<>>
        /\ TellsValues(log[e], incident[e]) /\ TellsStages(log[e])
        /\ audited[e] = Cardinality(ByEngineers(log[e]))
    BY <1>2 DEF IncidentInv, Timelines
  <2>2. TellsValues(l2, row2)
    BY <1>9, <2>1, MoreTells
  <2>3. TellsStages(l2)
    BY <1>9, <2>1, MoreStages
  <2>4. Cardinality(ByEngineers(l2)) = audited[e] + 1
    BY <1>9, <2>1, MoreManual
  <2>5. creation[e].at = "done"
    BY <1>3, <2>1 DEF HasRead
  <2>6. ASSUME NEW f \in Events
        PROVE  /\ creation'[f].at # "done" => log'[f] = <<>>
               /\ TellsValues(log'[f], incident'[f])
               /\ TellsStages(log'[f])
               /\ audited'[f] = Cardinality(ByEngineers(log'[f]))
    <3>1. CASE f = e
      BY <3>1, <1>7, <1>10, <2>2, <2>3, <2>4, <2>5
    <3>2. CASE f # e
      BY <3>2, <1>7, <1>10 DEF IncidentInv, Timelines
    <3> QED BY <3>1, <3>2
  <2> QED BY <2>6 DEF Timelines
<1>13. TabsHaveRead'
  <2> SUFFICES ASSUME NEW q \in Tabs, tab'[q] # NoTab
               PROVE  HasRead(tab'[q], log'[tab'[q].event], incident'[tab'[q].event])
      BY DEF TabsHaveRead
  <2>1. q # r /\ tab'[q] = tab[q] /\ tab[q] # NoTab
    BY <1>10
  <2>2. tab[q] \in TabRow
    BY <2>1 DEF IncidentInv, IncidentShapes
  <2>3. tab[q].event \in Events /\ tab[q].seen \in Nat
    BY <2>2 DEF TabRow
  <2>4. HasRead(tab[q], log[tab[q].event], incident[tab[q].event])
    BY <2>1 DEF IncidentInv, TabsHaveRead
  <2>5. CASE tab[q].event = e
    <3>1. HasRead(tab[q], l2, row2)
      BY <1>9, <2>3, <2>4, <2>5, MoreRead
    <3> QED BY <3>1, <1>10, <2>1, <2>5
  <2>6. CASE tab[q].event # e
    BY <2>6, <1>10, <2>1, <2>3, <2>4
  <2> QED BY <2>5, <2>6
<1>14. IncidentTypeOK'
  BY <1>11, ShapesSuffice, PTL
<1> QED BY <1>11, <1>12, <1>13, <1>14 DEF IncidentVarsTyped, IncidentInv

\* Requests of engineers are recorded, refused or fail; creations go on or end with the process.
LEMMA EngineerStep ==
  ASSUME IncidentInv, NEW r \in Tabs,
         \/ UpdateStatus(r) \/ Assign(r) \/ UpdateNotes(r)
         \/ SetFalsePositive(r) \/ Ignore(r) \/ ActOnUser(r)
  PROVE  IncidentInv'
<1>0. /\ "status" \in Column /\ "assigned_to" \in Column /\ "notes" \in Column
      /\ "false_positive" \in Column /\ "account" \in Column
  BY DEF Column
<1>1. CASE UpdateStatus(r)
  <2>1. PICK new \in Stages : Follows(tab[r].base.status, new) /\ Record(r, "status", new)
    BY <1>1 DEF UpdateStatus
  <2>2. new \in ValuesOf("status")
    BY DEF ValuesOf
  <2>3. tab[r].base["status"] = tab[r].base.status
    OBVIOUS
  <2>4. "status" = "status" => Follows(tab[r].base["status"], new)
    BY <2>1, <2>3
  <2> QED BY <1>0, <2>1, <2>2, <2>4, RecordStep
<1>2. CASE Assign(r)
  <2>1. tab[r] \in TabRow
    BY <1>2 DEF Assign, Record, IncidentInv, IncidentShapes
  <2>2. tab[r].by \in ValuesOf("assigned_to")
    BY <2>1 DEF TabRow, ValuesOf
  <2> QED BY <1>0, <1>2, <2>2, RecordStep DEF Assign
<1>3. CASE UpdateNotes(r)
  <2>1. PICK text \in Notes : Record(r, "notes", text)
    BY <1>3 DEF UpdateNotes
  <2>2. text \in ValuesOf("notes")
    BY DEF ValuesOf
  <2> QED BY <1>0, <2>1, <2>2, RecordStep
<1>4. CASE SetFalsePositive(r)
  <2>1. PICK flag \in {"yes", "no"} : Record(r, "false_positive", flag)
    BY <1>4 DEF SetFalsePositive
  <2>2. flag \in ValuesOf("false_positive")
    BY DEF ValuesOf
  <2> QED BY <1>0, <2>1, <2>2, RecordStep
<1>5. CASE Ignore(r)
  <2>1. "yes" \in ValuesOf("false_positive")
    BY DEF ValuesOf
  <2> QED BY <1>0, <1>5, <2>1, RecordStep DEF Ignore
<1>6. CASE ActOnUser(r)
  <2>1. PICK new \in {"ACTIVE", "SUSPENDED", "BLOCKED"} : Record(r, "account", new)
    BY <1>6 DEF ActOnUser
  <2>2. new \in ValuesOf("account")
    BY DEF ValuesOf
  <2> QED BY <1>0, <2>1, <2>2, RecordStep
<1> QED BY <1>1, <1>2, <1>3, <1>4, <1>5, <1>6

LEMMA CreationStep ==
  ASSUME IncidentInv, NEW e \in Events, Detect(e) \/ ResolveAssignee(e) \/ CreationFails(e)
  PROVE  IncidentInv'
<1>1. creation \in [Events -> [at : {"none", "started", "resolved", "done"},
                              assignee : Engineers \cup {Unassigned}]]
  BY DEF IncidentInv, IncidentTypeOK
<1>2. /\ UNCHANGED <<incident, log, audited, tab>>
      /\ creation[e].at # "done"
      /\ \E a \in {"started", "resolved", "done"}, g \in Engineers \cup {Unassigned} :
           creation' = [creation EXCEPT ![e] = [at |-> a, assignee |-> g]]
  <2>1. CASE Detect(e)
    <3>1. creation' = [creation EXCEPT ![e] = [at |-> "started", assignee |-> creation[e].assignee]]
      <4>1. ASSUME NEW x \in [at : {"none", "started", "resolved", "done"},
                              assignee : Engineers \cup {Unassigned}]
            PROVE  [x EXCEPT !.at = "started"] = [at |-> "started", assignee |-> x.assignee]
        OBVIOUS
      <4>2. creation[e] \in [at : {"none", "started", "resolved", "done"},
                              assignee : Engineers \cup {Unassigned}]
        BY <1>1
      <4>3. creation' = [creation EXCEPT ![e] = [creation[e] EXCEPT !.at = "started"]]
        BY <1>1, <2>1 DEF Detect
      <4> QED BY <4>1, <4>2, <4>3
    <3>2. creation[e].assignee \in Engineers \cup {Unassigned}
      BY <1>1
    <3> QED BY <2>1, <3>1, <3>2 DEF Detect
  <2>2. CASE ResolveAssignee(e)
    <3>1. PICK active \in SUBSET Engineers :
            creation' = [creation EXCEPT ![e] =
              [at |-> "resolved", assignee |-> IF active = {} THEN Unassigned ELSE LeastLoaded(active)]]
      BY <2>2 DEF ResolveAssignee
    <3>2. (IF active = {} THEN Unassigned ELSE LeastLoaded(active)) \in Engineers \cup {Unassigned}
      BY LeastLoadedTyped
    <3> QED BY <2>2, <3>1, <3>2 DEF ResolveAssignee
  <2>3. CASE CreationFails(e)
    BY <2>3 DEF CreationFails
  <2> QED BY <2>1, <2>2, <2>3
<1>3. PICK a \in {"started", "resolved", "done"}, g \in Engineers \cup {Unassigned} :
        creation' = [creation EXCEPT ![e] = [at |-> a, assignee |-> g]]
  BY <1>2
<1>4. [at |-> a, assignee |-> g] \in [at : {"none", "started", "resolved", "done"},
                              assignee : Engineers \cup {Unassigned}]
  OBVIOUS
<1>5. \A f \in Events :
        /\ creation'[f] \in [at : {"none", "started", "resolved", "done"},
                             assignee : Engineers \cup {Unassigned}]
        /\ creation'[f].at # "done" => creation[f].at # "done"
  BY <1>1, <1>2, <1>3, <1>4
<1>6. creation' \in [Events -> {creation'[f] : f \in Events}]
  BY <1>1, <1>3
<1>7. /\ tab' \in [Tabs -> {tab'[r] : r \in Tabs}]
      /\ \A r \in Tabs : tab'[r] = tab[r] \/ tab'[r] = NoTab
  BY <1>2 DEF IncidentInv, IncidentShapes
<1>8. UNCHANGED <<incident, log, audited>>
  BY <1>2
<1> QED BY <1>5, <1>6, <1>7, <1>8, IncidentFrame

LEMMA IncidentStep == IncidentInv /\ [NextIncident]_incidentVars => IncidentInv'
<1> SUFFICES ASSUME IncidentInv, [NextIncident]_incidentVars PROVE IncidentInv'
    OBVIOUS
<1>0. /\ creation \in [Events -> [at : {"none", "started", "resolved", "done"},
                              assignee : Engineers \cup {Unassigned}]]
      /\ tab \in [Tabs -> TabRow \cup {NoTab}]
  BY DEF IncidentInv, IncidentTypeOK, IncidentShapes
<1>1. CASE UNCHANGED incidentVars
  BY <1>1 DEF incidentVars, IncidentInv, IncidentTypeOK, IncidentShapes, Timelines, TabsHaveRead
<1>2. ASSUME NEW e \in Events, Detect(e) \/ ResolveAssignee(e) \/ CreationFails(e) PROVE IncidentInv'
  BY <1>2, CreationStep
<1>3. ASSUME NEW e \in Events, CreateIncident(e) PROVE IncidentInv'
  BY <1>3, CreateIncidentStep
<1>4. ASSUME NEW r \in Tabs, NEW e \in Events, NEW g \in Engineers, OpenIncident(r, e, g)
      PROVE  IncidentInv'
  BY <1>4, OpenStep
<1>5. ASSUME NEW r \in Tabs,
             \/ UpdateStatus(r) \/ Assign(r) \/ UpdateNotes(r)
             \/ SetFalsePositive(r) \/ Ignore(r) \/ ActOnUser(r)
      PROVE  IncidentInv'
  BY <1>5, EngineerStep
<1>6. ASSUME NEW r \in Tabs, CloseTab(r) PROVE IncidentInv'
  <2>1. UNCHANGED <<incident, log, audited>> /\ creation' = creation
    BY <1>6 DEF CloseTab
  <2>2. /\ tab' \in [Tabs -> {tab'[q] : q \in Tabs}]
        /\ \A q \in Tabs : tab'[q] = tab[q] \/ tab'[q] = NoTab
    BY <1>0, <1>6 DEF CloseTab
  <2>3. \A e \in Events :
          /\ creation'[e] \in [at : {"none", "started", "resolved", "done"},
                               assignee : Engineers \cup {Unassigned}]
          /\ creation'[e].at # "done" => creation[e].at # "done"
    BY <1>0, <2>1
  <2>4. creation' \in [Events -> {creation'[e] : e \in Events}]
    BY <1>0, <2>1
  <2> QED BY <2>1, <2>2, <2>3, <2>4, IncidentFrame
<1>7. CASE RestartIncidents
  <2>1. UNCHANGED <<incident, log, audited>>
    BY <1>7 DEF RestartIncidents
  <2>2. /\ tab' \in [Tabs -> {tab'[q] : q \in Tabs}]
        /\ \A q \in Tabs : tab'[q] = tab[q] \/ tab'[q] = NoTab
    BY <1>7 DEF RestartIncidents
  <2>3. \A e \in Events :
          /\ creation'[e] \in [at : {"none", "started", "resolved", "done"},
                               assignee : Engineers \cup {Unassigned}]
          /\ creation'[e].at # "done" => creation[e].at # "done"
    BY <1>0, <1>7 DEF RestartIncidents
  <2>4. creation' \in [Events -> {creation'[e] : e \in Events}]
    BY <1>7 DEF RestartIncidents
  <2> QED BY <2>1, <2>2, <2>3, <2>4, IncidentFrame
<1> QED BY <1>1, <1>2, <1>3, <1>4, <1>5, <1>6, <1>7 DEF NextIncident

\* A nonempty part of a log has a last entry.
LEMMA LastIs ==
  ASSUME NEW l \in Seq(LogEntry), NEW c, About(l, c) # {}
  PROVE  \E k \in About(l, c) : \A j \in About(l, c) : j <= k
<1>1. PICK n \in Nat : n = Len(l)
  OBVIOUS
<1>2. About(l, c) \subseteq 1..n
  BY <1>1 DEF About
<1> DEFINE after == {n - k : k \in About(l, c)}
<1>3. after \subseteq Nat /\ after # {}
  BY <1>2
<1>4. PICK d \in after : \A x \in after : d <= x
  <2> HIDE DEF after
  <2> QED BY <1>3, Least
<1>5. PICK k \in About(l, c) : d = n - k
  BY <1>4
<1>6. ASSUME NEW j \in About(l, c) PROVE j <= k
  <2>1. d <= n - j
    BY <1>4
  <2> QED BY <1>2, <1>5, <2>1
<1> QED BY <1>5, <1>6

LEMMA TimelinesTrue == IncidentInv => TimelineIsTrue
<1> SUFFICES ASSUME IncidentInv, NEW e \in Events
             PROVE  /\ \A c \in Column :
                         Sequential(e, c) /\ EntriesOf(e, c) # {} =>
                           incident[e][c] = log[e][LastEntry(e, c)].value
                    /\ Sequential(e, "status") =>
                         \A j, k \in EntriesOf(e, "status") :
                           j < k /\ (\A m \in EntriesOf(e, "status") : m <= j \/ m >= k)
                             => Follows(log[e][j].value, log[e][k].value)
                    /\ audited[e] = Cardinality({k \in DOMAIN log[e] : log[e][k].manual})
    BY DEF TimelineIsTrue
<1>0. \A c : EntriesOf(e, c) = About(log[e], c) /\ (Sequential(e, c) <=> InSequence(log[e], c))
  BY DEF EntriesOf, About, Sequential, InSequence
<1>1. TellsValues(log[e], incident[e]) /\ TellsStages(log[e]) /\ log[e] \in Seq(LogEntry)
      /\ audited[e] = Cardinality(ByEngineers(log[e]))
  BY DEF IncidentInv, Timelines, IncidentShapes
<1>2. ASSUME NEW c \in Column, Sequential(e, c), EntriesOf(e, c) # {}
      PROVE  incident[e][c] = log[e][LastEntry(e, c)].value
  <2>1. \E k \in EntriesOf(e, c) : \A j \in EntriesOf(e, c) : j <= k
    BY <1>0, <1>1, <1>2, LastIs
  <2>2. LastEntry(e, c) \in EntriesOf(e, c) /\ \A j \in EntriesOf(e, c) : j <= LastEntry(e, c)
    BY <2>1 DEF LastEntry
  <2> QED BY <1>0, <1>1, <1>2, <2>2 DEF TellsValues, IsLast
<1>3. Sequential(e, "status") =>
         \A j, k \in EntriesOf(e, "status") :
           j < k /\ (\A m \in EntriesOf(e, "status") : m <= j \/ m >= k)
             => Follows(log[e][j].value, log[e][k].value)
  BY <1>0, <1>1 DEF TellsStages
<1>4. audited[e] = Cardinality({k \in DOMAIN log[e] : log[e][k].manual})
  BY <1>1 DEF ByEngineers
<1> QED BY <1>2, <1>3, <1>4

\* Incidents, their logs and the requests under way have their types in every reachable state
\* (services/incident_management_service.py).
THEOREM IncidentTypesHold == IncidentSpec => []IncidentTypeOK
<1>1. IncidentInv => IncidentTypeOK
  BY DEF IncidentInv
<1> QED BY <1>1, IncidentStart, IncidentStep, PTL DEF IncidentSpec

\* An incident's log tells what became of it, for any number of engineers who work on it at the same
\* time: as long as the changes of a column were made one after the other, the last entry about it is
\* its value, and each stage follows from the one before (services/incident_management_service.py).
THEOREM TimelineStays == IncidentSpec => []TimelineIsTrue
BY TimelinesTrue, IncidentStart, IncidentStep, PTL DEF IncidentSpec
================================================================================
