-------------------------- MODULE RedisLockProofs --------------------------
(***************************************************************************)
(* The Redis lock excludes within its TTL, for every number of workers,    *)
(* values and attempts and every TTL.                                      *)
(***************************************************************************)
EXTENDS RedisLock, TLAPS

\* a further attempt is only made while there is one left; every acquire starts anew
Attempts ==
  \A w \in Workers : /\ pc[w] \in {"try", "sleep"} => attempt[w] < Retry
                     /\ pc[w] = "out" => attempt[w] = 0

\* a worker under way has a value of its own
Values ==
  /\ \A w \in Workers : pc[w] # "out" => value[w] \in Uuids
  /\ \A v, w \in Workers : value[v] = value[w] /\ value[w] \in Uuids => v = w

\* a key that is there has time left, and a worker that won less than the TTL ago
\* finds its value under it, with the rest of the TTL
Owns ==
  /\ key # NoValue => ttl > 0
  /\ \A w \in Workers : Owning(w) /\ age[w] < Ttl => key = value[w] /\ ttl = Ttl - age[w]

LockInv == TypeOK /\ Attempts /\ Values /\ Owns

\* A system without a key has nothing to keep.
LEMMA LockInit == Init => LockInv
  BY RetryAssumption, TtlAssumption, NoValueAssumption
  DEF Init, LockInv, TypeOK, Attempts, Values, Owns, Owning, Places

\* A worker that drops its RedisLock object leaves the claims of the others alone.
LEMMA DropKeeps ==
  ASSUME LockInv, NEW w \in Workers, Drop(w), UNCHANGED <<key, ttl>>
  PROVE  LockInv'
  BY RetryAssumption, TtlAssumption, NoValueAssumption
  DEF Drop, LockInv, TypeOK, Attempts, Values, Owns, Owning, Places

LEMMA LockStep == LockInv /\ [Next]_vars => LockInv'
<1> SUFFICES ASSUME LockInv, [Next]_vars PROVE LockInv'
  OBVIOUS
<1> USE RetryAssumption, TtlAssumption, NoValueAssumption
<1>1. ASSUME NEW w \in Workers, NEW u \in Uuids, Acquire(w, u) PROVE LockInv'
  <2>0. attempt[w] = 0
    BY <1>1 DEF Acquire, LockInv, TypeOK, Attempts
  <2>1. TypeOK' /\ Attempts'
    BY <1>1, <2>0 DEF Acquire, LockInv, TypeOK, Attempts, Places
  <2>2. Values'
    BY <1>1 DEF Acquire, LockInv, TypeOK, Values
  <2>3. Owns'
    BY <1>1 DEF Acquire, LockInv, TypeOK, Owns, Owning
  <2> QED
    BY <2>1, <2>2, <2>3 DEF LockInv
<1>2. ASSUME NEW w \in Workers, SetNx(w) PROVE LockInv'
  <2>a. value[w] \in Uuids /\ attempt[w] < Retry /\ attempt[w] \in Nat
    BY <1>2 DEF SetNx, LockInv, TypeOK, Attempts, Values
  <2>b. TypeOK'
    BY <1>2, <2>a DEF SetNx, LockInv, TypeOK, Places
  <2>c. Attempts' /\ Values'
    BY <1>2 DEF SetNx, LockInv, TypeOK, Attempts, Values
  <2>1. TypeOK' /\ Attempts' /\ Values'
    BY <2>b, <2>c
  <2>2. CASE key = NoValue
    <3>1. \A v \in Workers : ~(Owning(v) /\ age[v] < Ttl)
      BY <2>2 DEF LockInv, Owns, Values, Owning
    <3>2. Owns'
      BY <1>2, <2>2, <3>1 DEF SetNx, LockInv, TypeOK, Owns, Owning
    <3> QED
      BY <2>1, <3>2 DEF LockInv
  <2>3. CASE key # NoValue
    BY <1>2, <2>1, <2>3 DEF SetNx, LockInv, TypeOK, Owns, Owning
  <2> QED
    BY <2>2, <2>3
<1>3. ASSUME NEW w \in Workers, ReadWon(w) \/ ReadLost(w) \/ Wake(w) \/ Leave(w) PROVE LockInv'
  BY <1>3 DEF ReadWon, ReadLost, Wake, Leave, LockInv, TypeOK, Attempts, Values, Owns, Owning, Places
<1>4. ASSUME NEW w \in Workers, GiveUp(w) \/ AnswerLost(w) \/ ReleaseLost(w) \/ Crash(w)
      PROVE  LockInv'
  BY <1>4, DropKeeps DEF GiveUp, AnswerLost, ReleaseLost, Crash
<1>5. ASSUME NEW w \in Workers, Release(w) PROVE LockInv'
  <2>1. CASE key = value[w]
    <3>1. \A v \in Workers \ {w} : ~(Owning(v) /\ age[v] < Ttl)
      BY <1>5, <2>1 DEF Release, LockInv, Owns, Values, Owning
    <3>2. TypeOK' /\ Attempts' /\ Values'
      BY <1>5 DEF Release, Drop, LockInv, TypeOK, Attempts, Values, Places
    <3>3. Owns'
      BY <1>5, <2>1, <3>1 DEF Release, Drop, LockInv, TypeOK, Owns, Owning
    <3> QED
      BY <3>2, <3>3 DEF LockInv
  <2>2. CASE key # value[w]
    BY <1>5, <2>2, DropKeeps DEF Release
  <2> QED
    BY <2>1, <2>2
<1>6. CASE Tick
  <2>1. TypeOK' /\ Attempts' /\ Values'
    BY <1>6 DEF Tick, LockInv, TypeOK, Attempts, Values, Places
  <2>2. key' # NoValue => ttl' > 0
    BY <1>6 DEF Tick, LockInv, TypeOK, Owns
  <2>3. ASSUME NEW w \in Workers, Owning(w)', age'[w] < Ttl
        PROVE  key' = value'[w] /\ ttl' = Ttl - age'[w]
    <3>1. Owning(w) /\ age[w] < Ttl /\ age'[w] = age[w] + 1
      BY <1>6, <2>3 DEF Tick, LockInv, TypeOK, Owning
    <3>2. key = value[w] /\ ttl = Ttl - age[w] /\ age[w] \in Nat
      BY <3>1 DEF LockInv, TypeOK, Owns
    <3> QED
      BY <1>6, <2>3, <3>1, <3>2 DEF Tick
  <2> QED
    BY <2>1, <2>2, <2>3 DEF LockInv, Owns
<1>7. CASE UNCHANGED vars
  BY <1>7 DEF vars, LockInv, TypeOK, Attempts, Values, Owns, Owning
<1> QED
  BY <1>1, <1>2, <1>3, <1>4, <1>5, <1>6, <1>7 DEF Next, Step

\* Types of the lock; no worker makes more than Retry attempts.
THEOREM TypeCorrect == Spec => []TypeOK
<1>1. LockInv => TypeOK
  BY DEF LockInv
<1> QED
  BY LockInit, LockStep, <1>1, PTL DEF Spec

\* Mutual exclusion of reservation_lock within LOCK_TTL_MS: a late release, a lost
\* answer, a crash or another worker never takes the key from a worker that won it
\* less than the TTL ago.
THEOREM Excludes == Spec => []Exclusive
<1>1. LockInv => Exclusive
  BY DEF LockInv, Values, Owns, Exclusive, Owning
<1> QED
  BY LockInit, LockStep, <1>1, PTL DEF Spec

-----------------------------------------------------------------------------
(* The lock of Redis implements the lock the services rely on.             *)

Lockers == {w \in Workers : Owning(w)}

\* the owner as EventLock sees it: who has set the key, or Orphan when the worker has
\* dropped its lock object
Owner == IF key = NoValue THEN Free
         ELSE IF \E w \in Workers : Owning(w) /\ value[w] = key
              THEN CHOOSE w \in Workers : Owning(w) /\ value[w] = key
              ELSE Orphan

\* No two workers have one value: the owner is the worker that has the key's.
LEMMA OwnerCases ==
  ASSUME TypeOK, Values
  PROVE  /\ key = NoValue => Owner = Free
         /\ \A w \in Workers : Owning(w) /\ value[w] = key => Owner = w
         /\ key # NoValue /\ (\A w \in Workers : Owning(w) => value[w] # key) => Owner = Orphan
<1> USE NoValueAssumption
<1>1. ASSUME NEW w \in Workers, Owning(w), value[w] = key PROVE Owner = w
  <2>1. key \in Uuids /\ key # NoValue
    BY <1>1 DEF Values, Owning
  <2>2. \A v \in Workers : Owning(v) /\ value[v] = key => v = w
    BY <1>1, <2>1 DEF Values
  <2>3. QED
    BY <1>1, <2>1, <2>2 DEF Owner
<1>2. QED
  BY <1>1 DEF Owner

\* a step that leaves the key and the owners alone
LEMMA OwnerStays ==
  ASSUME TypeOK, Values, TypeOK', Values', key' = key, Lockers' = Lockers,
         \A w \in Lockers : value'[w] = value[w]
  PROVE  UNCHANGED Lock!state
<1>1. Owner' = Owner
  <2>1. CASE key = NoValue
    BY <2>1, OwnerCases DEF Owner
  <2>2. ASSUME NEW w \in Workers, Owning(w), value[w] = key PROVE Owner' = Owner
    <3>1. Owner = w
      BY <2>2, OwnerCases
    <3>2. Owning(w)' /\ value'[w] = key'
      BY <2>2 DEF Lockers
    <3>3. Owner' = w
      <4>1. \A v \in Workers : Owning(v)' /\ value'[v] = key' => v = w
        BY <2>2, <3>2 DEF Values, Owning
      <4>2. key' # NoValue
        BY <2>2, NoValueAssumption DEF Values, Owning
      <4>3. QED
        BY <3>2, <4>1, <4>2 DEF Owner
    <3>4. QED
      BY <3>1, <3>3
  <2>3. CASE key # NoValue /\ \A w \in Workers : Owning(w) => value[w] # key
    BY <2>3 DEF Owner, Lockers
  <2>4. QED
    BY <2>1, <2>2, <2>3
<1>2. QED
  BY <1>1 DEF Lock!state, Owner, Lockers

\* a worker that is gone or has given its lock object up, with the key left to its TTL
LEMMA DropIsVanish ==
  ASSUME LockInv, LockInv', NEW w \in Workers, Drop(w), key' = key
  PROVE  Lock!Vanish(w) \/ UNCHANGED Lock!state
<1> USE NoValueAssumption, OwnerAssumption DEF LockInv
<1>1. /\ ~Owning(w)' /\ \A v \in Workers \ {w} : value'[v] = value[v]
      /\ \A v \in Workers \ {w} : Owning(v)' <=> Owning(v)
  BY DEF Drop, Owning, TypeOK
<1>2. CASE ~Owning(w)
  <2>1. Lockers' = Lockers /\ \A v \in Lockers : value'[v] = value[v]
    BY <1>1, <1>2 DEF Lockers
  <2>2. QED
    BY <2>1, OwnerStays
<1>3. CASE Owning(w)
  <2>1. w \in Lockers /\ Lockers' = Lockers \ {w}
    BY <1>1, <1>3 DEF Lockers
  <2>2. Owner' = IF Owner = w THEN Orphan ELSE Owner
    <3>1. CASE value[w] = key
      <4>1. Owner = w /\ key # NoValue
        BY <1>3, <3>1, OwnerCases DEF Values, Owning
      <4>2. \A v \in Workers : Owning(v)' => value'[v] # key'
        BY <1>1, <1>3, <3>1 DEF Values, Owning
      <4>3. QED
        BY <4>1, <4>2 DEF Owner
    <3>2. CASE value[w] # key
      <4>1. CASE key = NoValue
        BY <4>1, OwnerCases DEF Owner
      <4>2. ASSUME NEW v \in Workers, Owning(v), value[v] = key
            PROVE  Owner = v /\ Owner' = v /\ v # w
        <5>1. Owner = v /\ v # w
          BY <3>2, <4>2, OwnerCases
        <5>2. Owning(v)' /\ value'[v] = key'
          BY <1>1, <4>2, <5>1
        <5>3. \A x \in Workers : Owning(x)' /\ value'[x] = key' => x = v
          BY <1>1, <4>2, <5>2 DEF Values, Owning
        <5>4. key' # NoValue
          BY <4>2 DEF Values, Owning
        <5>5. QED
          BY <5>1, <5>2, <5>3, <5>4 DEF Owner
      <4>3. CASE key # NoValue /\ \A v \in Workers : Owning(v) => value[v] # key
        <5>1. \A v \in Workers : Owning(v)' => value'[v] # key'
          BY <1>1, <4>3
        <5>2. QED
          BY <4>3, <5>1 DEF Owner
      <4>4. QED
        BY <4>1, <4>2, <4>3
    <3>3. QED
      BY <3>1, <3>2
  <2>3. QED
    BY <2>1, <2>2 DEF Lock!Vanish, Owner, Lockers
<1>4. QED
  BY <1>2, <1>3

LEMMA LockRefines ==
  ASSUME LockInv, LockInv', [Next]_vars
  PROVE  Lock!Next \/ UNCHANGED Lock!state
<1> USE NoValueAssumption, OwnerAssumption DEF LockInv
<1>1. ASSUME NEW w \in Workers, NEW u \in Uuids, Acquire(w, u) PROVE UNCHANGED Lock!state
  <2>1. key' = key /\ Lockers' = Lockers /\ \A v \in Lockers : value'[v] = value[v]
    BY <1>1 DEF Acquire, Lockers, Owning, TypeOK
  <2>2. QED
    BY <2>1, OwnerStays
<1>2. ASSUME NEW w \in Workers, SetNx(w) PROVE Lock!Next \/ UNCHANGED Lock!state
  <2>1. CASE key = NoValue
    <3>1. /\ w \notin Lockers /\ Lockers' = Lockers \cup {w}
          /\ Owning(w)' /\ key' = value'[w] /\ key' # NoValue
      BY <1>2, <2>1 DEF SetNx, Lockers, Owning, TypeOK, Values
    <3>2. Owner = Free /\ Owner' = w
      <4>1. \A v \in Workers : Owning(v)' /\ value'[v] = key' => v = w
        BY <3>1 DEF Values, Owning
      <4>2. Owner' = w
        BY <3>1, <4>1 DEF Owner
      <4>3. QED
        BY <2>1, <4>2 DEF Owner
    <3>3. Lock!Enter(w)
      BY <3>1, <3>2 DEF Lock!Enter, Owner, Lockers
    <3>4. QED
      BY <3>3 DEF Lock!Next
  <2>2. CASE key # NoValue
    <3>1. key' = key /\ Lockers' = Lockers /\ value' = value
      BY <1>2, <2>2 DEF SetNx, Lockers, Owning, TypeOK
    <3>2. QED
      BY <3>1, OwnerStays
  <2>3. QED
    BY <2>1, <2>2
<1>3. ASSUME NEW w \in Workers, ReadWon(w) \/ ReadLost(w) \/ Wake(w) \/ Leave(w)
      PROVE  UNCHANGED Lock!state
  <2>1. key' = key /\ Lockers' = Lockers /\ value' = value
    BY <1>3 DEF ReadWon, ReadLost, Wake, Leave, Lockers, Owning, TypeOK
  <2>2. QED
    BY <2>1, OwnerStays
<1>4. ASSUME NEW w \in Workers, GiveUp(w) \/ AnswerLost(w) \/ ReleaseLost(w) \/ Crash(w)
      PROVE  Lock!Next \/ UNCHANGED Lock!state
  BY <1>4, DropIsVanish DEF GiveUp, AnswerLost, ReleaseLost, Crash, Lock!Next
<1>5. ASSUME NEW w \in Workers, Release(w) PROVE Lock!Next
  <2>1. /\ w \in Lockers /\ Lockers' = Lockers \ {w} /\ Owning(w)
        /\ \A v \in Workers \ {w} : value'[v] = value[v]
        /\ \A v \in Workers \ {w} : Owning(v)' <=> Owning(v)
    BY <1>5 DEF Release, Drop, Lockers, Owning, TypeOK
  <2>2. CASE key = value[w]
    <3>1. Owner = w /\ Owner' = Free
      BY <1>5, <2>1, <2>2, OwnerCases DEF Release, Owner
    <3>2. Lock!Leave(w)
      BY <2>1, <3>1 DEF Lock!Leave, Owner, Lockers
    <3>3. QED
      BY <3>2 DEF Lock!Next
  <2>3. CASE key # value[w]
    <3>1. Drop(w) /\ key' = key
      BY <1>5, <2>3 DEF Release
    <3>2. Lock!Vanish(w) \/ UNCHANGED Lock!state
      BY <3>1, DropIsVanish
    <3>3. ~UNCHANGED Lock!state
      BY <2>1 DEF Lock!state, Lockers
    <3>4. QED
      BY <3>2, <3>3 DEF Lock!Next
  <2>4. QED
    BY <2>2, <2>3
<1>6. CASE Tick
  <2>1. Lockers' = Lockers /\ value' = value
    BY <1>6 DEF Tick, Lockers, Owning
  <2>2. CASE key' = key
    BY <2>1, <2>2, OwnerStays
  <2>3. CASE key' # key
    <3>1. key' = NoValue /\ key # NoValue
      BY <1>6, <2>3 DEF Tick
    <3>2. Owner # Free
      BY <3>1, OwnerCases
    <3>3. Owner' = Free
      BY <3>1 DEF Owner
    <3>4. Lock!Expire
      BY <2>1, <3>2, <3>3 DEF Lock!Expire, Owner, Lockers
    <3>5. QED
      BY <3>4 DEF Lock!Next
  <2>4. QED
    BY <2>2, <2>3
<1>7. CASE UNCHANGED vars
  <2>1. key' = key /\ Lockers' = Lockers /\ value' = value
    BY <1>7 DEF vars, Lockers, Owning
  <2>2. QED
    BY <2>1, OwnerStays
<1>8. QED
  BY <1>1, <1>2, <1>3, <1>4, <1>5, <1>6, <1>7 DEF Next, Step

\* The Redis lock is an event lock that may expire under its owner: the services may
\* rely on what EventLock promises, and on no more.
THEOREM ImplementsLock == Spec => LockSpec
<1>1. Init => Lock!Init
  BY DEF Init, Lock!Init, Owning
<1>2. LockInv /\ LockInv' /\ [Next]_vars => [Lock!Next]_(Lock!state)
  BY LockRefines
<1>3. QED
  BY <1>1, <1>2, LockInit, LockStep, PTL DEF Spec, LockSpec, Lock!Spec
=============================================================================
