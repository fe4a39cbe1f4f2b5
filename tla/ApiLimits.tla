------------------------------- MODULE ApiLimits -------------------------------
(***************************************************************************)
(* The rate limits in front of the backend's routes, for one caller: a      *)
(* sliding window over all requests, and for the routes of one rule (chat,  *)
(* upload, project creation, login) a window of their own and a limit on    *)
(* the requests under way.  Everything is kept in the memory of a process;  *)
(* callers and rules share nothing.  What refusals lead to is in            *)
(* AccountStatus (OverLimit).                                               *)
(***************************************************************************)
EXTENDS Naturals, Sequences, FiniteSets

CONSTANTS
  ApiCalls,        \* requests served at the same time
  GlobalRequests,  \* requests in a window
  RuleRequests,    \* requests of the rule in a window
  WindowSeconds,   \* the length of both windows
  MaxInFlight,     \* requests of the rule under way; 0 is no limit
  LastMoment       \* bound: the clock

ASSUME ApiAssumption ==
  /\ GlobalRequests \in Nat \ {0}
  /\ RuleRequests \in Nat \ {0}
  /\ WindowSeconds \in Nat \ {0}
  /\ MaxInFlight \in Nat
  /\ LastMoment \in Nat

VARIABLES
  moment,     \* the clock
  allEvents,  \* the bucket of the global limiter
  ruleEvents, \* the bucket of the rule's limiter
  inFlight,   \* requests of the rule under way, as counted
  served,       \* the requests being served
  history     \* history: the requests that were let through since the process started

apiVars == <<moment, allEvents, ruleEvents, inFlight, served, history>>

InitApi ==
  /\ moment = 0
  /\ allEvents = <<>>
  /\ ruleEvents = <<>>
  /\ inFlight = 0
  /\ served = [c \in ApiCalls |-> "idle"]
  /\ history = <<>>

OutOfWindow(t) == t + WindowSeconds < moment

\* The events that still count: those at the front are popped until one has not expired.
Live(bucket) ==
  LET stops  == {n \in 0..Len(bucket) : n = Len(bucket) \/ ~OutOfWindow(bucket[n + 1])}
      popped == CHOOSE n \in stops : \A m \in stops : n <= m
  IN SubSeq(bucket, popped + 1, Len(bucket))

\* The limiter allows the request and remembers it, or only forgets what is old.
Allows(bucket, max) == Len(Live(bucket)) < max

Checked(bucket, max) ==
  IF Allows(bucket, max) THEN Append(Live(bucket), moment) ELSE Live(bucket)

Acquires == MaxInFlight = 0 \/ inFlight < MaxInFlight

\* Nothing is awaited between the first check and the start of the handler.  A request that
\* one limiter refuses has been counted by those before it.
Dispatch(c, kind) ==
  LET all  == Allows(allEvents, GlobalRequests)
      rule == kind = "rule" => Allows(ruleEvents, RuleRequests)
      slot == kind = "rule" => Acquires
  IN /\ served[c] = "idle"
     /\ allEvents' = Checked(allEvents, GlobalRequests)
     /\ ruleEvents' = IF all /\ kind = "rule" THEN Checked(ruleEvents, RuleRequests) ELSE ruleEvents
     /\ IF all /\ rule /\ slot
        THEN /\ served' = [served EXCEPT ![c] = kind]
             /\ history' = Append(history, [t |-> moment, kind |-> kind])
             /\ inFlight' = IF kind = "rule" /\ MaxInFlight > 0 THEN inFlight + 1 ELSE inFlight
        ELSE UNCHANGED <<served, history, inFlight>>
     /\ UNCHANGED moment

\* The handler answers or raises.
Respond(c) ==
  /\ served[c] # "idle"
  /\ served' = [served EXCEPT ![c] = "idle"]
  /\ inFlight' = IF served[c] = "rule" /\ inFlight > 0 THEN inFlight - 1 ELSE inFlight
  /\ UNCHANGED <<moment, allEvents, ruleEvents, history>>

Elapse ==
  /\ moment < LastMoment
  /\ moment' = moment + 1
  /\ UNCHANGED <<allEvents, ruleEvents, inFlight, served, history>>

Reboot ==
  /\ allEvents' = <<>>
  /\ ruleEvents' = <<>>
  /\ inFlight' = 0
  /\ served' = [c \in ApiCalls |-> "idle"]
  /\ history' = <<>>
  /\ UNCHANGED moment

NextApi ==
  \/ \E c \in ApiCalls : Respond(c) \/ \E kind \in {"rule", "other"} : Dispatch(c, kind)
  \/ Elapse
  \/ Reboot

ApiSpec == InitApi /\ [][NextApi]_apiVars

ApiTypeOK ==
  /\ moment \in Nat
  /\ allEvents \in Seq(Nat) /\ ruleEvents \in Seq(Nat)
  /\ inFlight \in Nat
  /\ served \in [ApiCalls -> {"idle", "rule", "other"}]
  /\ history \in Seq([t : Nat, kind : {"rule", "other"}])

Within(kinds, from) ==
  {i \in 1..Len(history) :
     /\ history[i].kind \in kinds
     /\ history[i].t >= from /\ history[i].t <= from + WindowSeconds}

\* Wherever a window is laid over the requests that one process let through, it holds no more
\* than the limits of the caller and of the rule, and no more requests of the rule are under way
\* than it allows (InMemoryRateLimiter, SecurityRateLimitMiddleware.dispatch).
WindowIsKept ==
  /\ \A from \in 0..moment :
       /\ Cardinality(Within({"rule", "other"}, from)) <= GlobalRequests
       /\ Cardinality(Within({"rule"}, from)) <= RuleRequests
  /\ MaxInFlight > 0 => Cardinality({c \in ApiCalls : served[c] = "rule"}) <= MaxInFlight
================================================================================
