----------------------------- MODULE WebhookLimits -----------------------------
(***************************************************************************)
(* How many Telegram updates of one bot are handled at the same time.  A    *)
(* counter in Redis, shared by the processes of the backend, is incremented *)
(* and decremented around each update; a call to Redis that fails sends the *)
(* update to a counter in memory.  Increment, expiry and decrement are      *)
(* separate calls, and the key expires when no update has come for a time.  *)
(***************************************************************************)
EXTENDS Integers, FiniteSets

CONSTANTS
  Deliveries,  \* updates of the bot that one process handles at the same time
  Limit,       \* telegram_webhook_max_in_flight
  MaxFaults    \* bound: failing calls to Redis, and deaths of the process

ASSUME LimitAssumption ==
  /\ IsFiniteSet(Deliveries)
  /\ Limit \in Nat \ {0}
  /\ MaxFaults \in Nat

VARIABLES
  counter,      \* Redis: the number, and whether the key has a time to live
  local,        \* the counter in memory
  delivery,     \* what is being done with each update
  faults,       \* faults so far
  leaked,       \* history: increments that nothing will undo, since the key last expired
  forgotten,    \* history: updates that were counted when the key last expired
  misreleased   \* history: updates counted in Redis and taken from the counter in memory

limitVars == <<counter, local, delivery, faults, leaked, forgotten, misreleased>>

DeliveryStages == {"idle", "asked", "within", "beyond", "refusing", "redis", "memory"}

Absent == [n |-> 0, key |-> "absent"]

Stage(stages) == {d \in Deliveries : delivery[d] \in stages}

\* The updates that the counter in Redis should count.
Counted == Stage({"within", "beyond", "refusing", "redis"})

InitLimits ==
  /\ counter = Absent
  /\ local = 0
  /\ delivery = [d \in Deliveries |-> "idle"]
  /\ faults = 0
  /\ leaked = 0
  /\ forgotten = 0
  /\ misreleased = 0

Move(d, stage) == delivery' = [delivery EXCEPT ![d] = stage]

\* INCR and DECR create a missing key, without a time to live.
Add(k) == [n |-> counter.n + k, key |-> IF counter.key = "absent" THEN "lasting" ELSE counter.key]

\* The call had its effect on the key, or not.
Perhaps(k, done) == IF done THEN Add(k) ELSE counter

Fails ==
  /\ faults < MaxFaults
  /\ faults' = faults + 1

\* The limit per process.
AcquireMemory(d) ==
  IF local >= Limit
  THEN Move(d, "idle") /\ UNCHANGED local
  ELSE Move(d, "memory") /\ local' = local + 1

ReleaseMemory == local' = IF local > 0 THEN local - 1 ELSE 0

\* Redis is asked, or it is not configured or cannot be reached.  The requests of this minute
\* are counted first, in Redis or in memory: an update beyond their limit is refused with
\* nothing counted here.
Ask(d) ==
  /\ delivery[d] = "idle"
  /\ \/ Move(d, "asked") /\ UNCHANGED local
     \/ AcquireMemory(d)
  /\ UNCHANGED <<counter, faults, leaked, forgotten, misreleased>>

Increment(d) ==
  /\ delivery[d] = "asked"
  /\ \/ /\ counter' = Add(1)
        /\ Move(d, IF counter.n + 1 > Limit THEN "beyond" ELSE "within")
        /\ UNCHANGED <<local, faults, leaked>>
     \/ \E done \in BOOLEAN :
          /\ Fails
          /\ counter' = Perhaps(1, done)
          /\ leaked' = IF done THEN leaked + 1 ELSE leaked
          /\ AcquireMemory(d)
  /\ UNCHANGED <<forgotten, misreleased>>

\* EXPIRE does nothing to a key that has gone.  Then the number that INCR returned decides.
SetExpiry(d) ==
  LET timed == IF counter.key = "absent" THEN counter ELSE [counter EXCEPT !.key = "expiring"]
  IN /\ delivery[d] \in {"within", "beyond"}
     /\ \/ /\ counter' = timed
           /\ Move(d, IF delivery[d] = "beyond" THEN "refusing" ELSE "redis")
           /\ UNCHANGED <<local, faults, leaked>>
        \/ /\ Fails
           /\ counter' \in {counter, timed}
           /\ leaked' = leaked + 1
           /\ AcquireMemory(d)
     /\ UNCHANGED <<forgotten, misreleased>>

\* A refused update is taken from the counter.  If that fails, it goes to the counter in memory.
Undo_Skipped(d) ==
  /\ delivery[d] = "refusing"
  /\ Move(d, "idle")
  /\ UNCHANGED <<counter, local, faults, leaked, forgotten, misreleased>>

Undo(d) ==
  /\ delivery[d] = "refusing"
  /\ \/ /\ counter' = Add(-1)
        /\ Move(d, "idle")
        /\ UNCHANGED <<local, faults, leaked>>
     \/ \E done \in BOOLEAN :
          /\ Fails
          /\ counter' = Perhaps(-1, done)
          /\ leaked' = IF done THEN leaked ELSE leaked + 1
          /\ AcquireMemory(d)
  /\ UNCHANGED <<forgotten, misreleased>>

\* The update has been handled.  A decrement that fails is made in memory.
ReleaseRedis(d) ==
  /\ delivery[d] = "redis"
  /\ Move(d, "idle")
  /\ \/ /\ counter' = Add(-1)
        /\ UNCHANGED <<local, faults, leaked, misreleased>>
     \/ \E done \in BOOLEAN :
          /\ Fails
          /\ counter' = Perhaps(-1, done)
          /\ leaked' = IF done THEN leaked ELSE leaked + 1
          /\ ReleaseMemory
          /\ misreleased' = misreleased + 1
  /\ UNCHANGED forgotten

Release(d) ==
  /\ delivery[d] = "memory"
  /\ Move(d, "idle")
  /\ ReleaseMemory
  /\ UNCHANGED <<counter, faults, leaked, forgotten, misreleased>>

\* No update has been counted for the time to live.
KeyExpires ==
  /\ counter.key = "expiring"
  /\ counter' = Absent
  /\ leaked' = 0
  /\ forgotten' = Cardinality(Counted)
  /\ UNCHANGED <<local, delivery, faults, misreleased>>

ProcessDies ==
  /\ Fails
  /\ delivery' = [d \in Deliveries |-> "idle"]
  /\ local' = 0
  /\ leaked' = leaked + Cardinality(Counted)
  /\ misreleased' = 0
  /\ UNCHANGED <<counter, forgotten>>

NextLimit ==
  \/ \E d \in Deliveries :
       \/ Ask(d) \/ Increment(d) \/ SetExpiry(d) \/ Undo(d)
       \/ ReleaseRedis(d) \/ Release(d)
  \/ KeyExpires
  \/ ProcessDies

LimitSpec == InitLimits /\ [][NextLimit]_limitVars

LimitsTypeOK ==
  /\ counter \in [n : Int, key : {"absent", "lasting", "expiring"}]
  /\ counter.key = "absent" => counter.n = 0
  /\ local \in 0..Limit
  /\ delivery \in [Deliveries -> DeliveryStages]
  /\ {faults, leaked, forgotten, misreleased} \subseteq Nat

\* No more updates are handled than the limit allows, beyond those the expired key forgot and
\* those released from the wrong counter; and the counter in Redis holds nothing but the updates
\* being handled and what a failed call or a death left behind, so that a bot without such
\* faults is never refused for updates that have ended (_acquire_limit, _release_limit).
InFlightIsBounded ==
  /\ Cardinality(Stage({"redis"})) <= Limit + forgotten
  /\ Cardinality(Stage({"memory"})) <= Limit + misreleased
  /\ counter.n <= Cardinality(Counted) + leaked
================================================================================
