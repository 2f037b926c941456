----------------------------- MODULE RedisLock -----------------------------
(***************************************************************************)
(* RedisLock and reservation_lock: one lock key of one event, the workers  *)
(* that compete for it, and the Redis node that stores it.                 *)
(*                                                                         *)
(* A command and its answer are two steps: a worker may read the answer    *)
(* late or never.  Time is counted in ticks of the key's TTL.              *)
(***************************************************************************)
EXTENDS Naturals

CONSTANTS
  Workers,
  Uuids,      \* lock values; uuid4 never repeats a value in use
  Retry,      \* attempts per acquire
  Ttl,        \* ticks a key lives (LOCK_TTL_MS)
  NoValue, Free, Orphan

ASSUME RetryAssumption == Retry \in Nat \ {0}
ASSUME TtlAssumption   == Ttl \in Nat \ {0}
ASSUME NoValueAssumption == NoValue \notin Uuids
ASSUME OwnerAssumption   == Free \notin Workers /\ Orphan \notin Workers /\ Free # Orphan

VARIABLES
  key,      \* the value stored under the lock key
  ttl,      \* ticks until Redis deletes it
  pc,
  value,    \* lock_value of the worker's RedisLock object
  attempt,  \* attempts the worker has made
  age       \* ticks since Redis executed the worker's successful SET

vars == <<key, ttl, pc, value, attempt, age>>

Places == {"out", "try", "won", "lost", "sleep", "in", "release"}

TypeOK ==
  /\ key \in Uuids \cup {NoValue}
  /\ ttl \in 0..Ttl
  /\ pc \in [Workers -> Places]
  /\ value \in [Workers -> Uuids \cup {NoValue}]
  /\ attempt \in [Workers -> 0..Retry]
  /\ age \in [Workers -> 0..Ttl]

Init ==
  /\ key = NoValue
  /\ ttl = 0
  /\ pc = [w \in Workers |-> "out"]
  /\ value = [w \in Workers |-> NoValue]
  /\ attempt = [w \in Workers |-> 0]
  /\ age = [w \in Workers |-> 0]

-----------------------------------------------------------------------------

\* the worker is done with its RedisLock object
Drop(w) ==
  /\ pc' = [pc EXCEPT ![w] = "out"]
  /\ value' = [value EXCEPT ![w] = NoValue]
  /\ attempt' = [attempt EXCEPT ![w] = 0]
  /\ age' = [age EXCEPT ![w] = 0]

Acquire(w, u) ==
  /\ pc[w] = "out"
  /\ u # key /\ \A v \in Workers : value[v] # u
  /\ pc' = [pc EXCEPT ![w] = "try"]
  /\ value' = [value EXCEPT ![w] = u]
  /\ UNCHANGED <<key, ttl, attempt, age>>

\* mutant: SET without NX
SetAny(w) ==
  /\ pc[w] = "try"
  /\ attempt' = [attempt EXCEPT ![w] = @ + 1]
  /\ key' = value[w]
  /\ ttl' = Ttl
  /\ pc' = [pc EXCEPT ![w] = "won"]
  /\ age' = [age EXCEPT ![w] = 0]
  /\ UNCHANGED value

\* SET key value NX PX ttl, executed by Redis
SetNx(w) ==
  /\ pc[w] = "try"
  /\ attempt' = [attempt EXCEPT ![w] = @ + 1]
  /\ UNCHANGED value
  /\ IF key = NoValue
     THEN /\ key' = value[w]
          /\ ttl' = Ttl
          /\ pc' = [pc EXCEPT ![w] = "won"]
          /\ age' = [age EXCEPT ![w] = 0]
     ELSE /\ pc' = [pc EXCEPT ![w] = "lost"]
          /\ UNCHANGED <<key, ttl, age>>

ReadWon(w) ==
  /\ pc[w] = "won"
  /\ pc' = [pc EXCEPT ![w] = "in"]
  /\ UNCHANGED <<key, ttl, value, attempt, age>>

\* mutant: one attempt too many
ReadLostLate(w) ==
  /\ pc[w] = "lost" /\ attempt[w] <= Retry
  /\ pc' = [pc EXCEPT ![w] = "sleep"]
  /\ UNCHANGED <<key, ttl, value, attempt, age>>

\* not the last attempt: sleep and back off
ReadLost(w) ==
  /\ pc[w] = "lost" /\ attempt[w] < Retry
  /\ pc' = [pc EXCEPT ![w] = "sleep"]
  /\ UNCHANGED <<key, ttl, value, attempt, age>>

Wake(w) ==
  /\ pc[w] = "sleep"
  /\ pc' = [pc EXCEPT ![w] = "try"]
  /\ UNCHANGED <<key, ttl, value, attempt, age>>

\* mutant: the last attempt is not recognised
GiveUpNever(w) ==
  /\ pc[w] = "lost" /\ attempt[w] > Retry
  /\ Drop(w)
  /\ UNCHANGED <<key, ttl>>

\* LockAcquireError after the last attempt
GiveUp(w) ==
  /\ pc[w] = "lost" /\ attempt[w] = Retry
  /\ Drop(w)
  /\ UNCHANGED <<key, ttl>>

\* the answer of SET times out: the error leaves acquire, nobody calls release
AnswerLost(w) ==
  /\ pc[w] \in {"won", "lost"}
  /\ Drop(w)
  /\ UNCHANGED <<key, ttl>>

\* the block under reservation_lock is over, with or without an exception
Leave(w) ==
  /\ pc[w] = "in"
  /\ pc' = [pc EXCEPT ![w] = "release"]
  /\ UNCHANGED <<key, ttl, value, attempt, age>>

\* mutant: DEL without comparing the value
ReleaseAny(w) ==
  /\ pc[w] = "release"
  /\ key' = NoValue /\ ttl' = 0
  /\ Drop(w)

\* RELEASE_SCRIPT: delete the key only while it holds the worker's value
Release(w) ==
  /\ pc[w] = "release"
  /\ IF key = value[w] THEN key' = NoValue /\ ttl' = 0
                       ELSE UNCHANGED <<key, ttl>>
  /\ Drop(w)

\* the script never reaches Redis
ReleaseLost(w) ==
  /\ pc[w] = "release"
  /\ Drop(w)
  /\ UNCHANGED <<key, ttl>>

Crash(w) ==
  /\ pc[w] # "out"
  /\ Drop(w)
  /\ UNCHANGED <<key, ttl>>

Owning(w) == pc[w] \in {"won", "in", "release"}

\* mutant: SET without PX
TickNoPx ==
  /\ key # NoValue \/ \E w \in Workers : Owning(w) /\ age[w] < Ttl
  /\ ttl' = IF ttl = 0 THEN 0 ELSE ttl - 1
  /\ age' = [w \in Workers |-> IF Owning(w) /\ age[w] < Ttl THEN age[w] + 1 ELSE age[w]]
  /\ UNCHANGED <<key, pc, value, attempt>>

\* a tick of the clock; Redis deletes the key in the tick that ends its TTL
Tick ==
  /\ key # NoValue \/ \E w \in Workers : Owning(w) /\ age[w] < Ttl
  /\ ttl' = IF ttl = 0 THEN 0 ELSE ttl - 1
  /\ key' = IF ttl <= 1 THEN NoValue ELSE key
  /\ age' = [w \in Workers |-> IF Owning(w) /\ age[w] < Ttl THEN age[w] + 1 ELSE age[w]]
  /\ UNCHANGED <<pc, value, attempt>>

Step(w) ==
  \/ SetNx(w) \/ ReadWon(w) \/ ReadLost(w) \/ Wake(w) \/ GiveUp(w)
  \/ Leave(w) \/ Release(w)

Next ==
  \/ \E w \in Workers :
       \/ \E u \in Uuids : Acquire(w, u)
       \/ Step(w)
       \/ AnswerLost(w) \/ ReleaseLost(w) \/ Crash(w)
  \/ Tick

Spec == Init /\ [][Next]_vars

\* a thread in acquire or release runs on, and time passes
FairSpec == Spec /\ WF_vars(Tick) /\ \A w \in Workers : WF_vars(Step(w))

-----------------------------------------------------------------------------

\* As long as less than the TTL has passed since its SET was executed, a worker that
\* won the lock still owns the key, whatever other workers lost, timed out, released
\* late or crashed in between: two workers are inside together only after one of
\* them has stayed longer than LOCK_TTL_MS.
Exclusive ==
  \A v, w \in Workers :
    Owning(v) /\ Owning(w) /\ age[v] < Ttl /\ age[w] < Ttl => v = w

\* Every call of acquire returns, with the lock or with an error.
AcquireReturns == \A w \in Workers : pc[w] = "try" ~> pc[w] \in {"in", "out"}

\* No value stays under the key for ever: a key whose owner crashed, or whose release
\* never arrived, goes away.
KeyGoesAway == \A u \in Uuids : key = u ~> key # u

\* The lock as the services use it.
Lock == INSTANCE EventLock WITH
  Expirable <- TRUE,
  owner  <- IF key = NoValue THEN Free
            ELSE IF \E w \in Workers : Owning(w) /\ value[w] = key
                 THEN CHOOSE w \in Workers : Owning(w) /\ value[w] = key
                 ELSE Orphan,
  inside <- {w \in Workers : Owning(w)}
LockSpec == Lock!Spec
=============================================================================
