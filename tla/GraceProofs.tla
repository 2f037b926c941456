---------------------------- MODULE GraceProofs ----------------------------
(***************************************************************************)
(* The grace timers for every set of replicas, users and sockets and every *)
(* length of the grace period: the counts and timers are those of the      *)
(* sockets, and when all sockets of a user arrive at one replica, no hold   *)
(* is given up before its time.                                            *)
(***************************************************************************)
EXTENDS GraceRelease, FiniteSetTheorems, TLAPS

\* a user has one timer at a replica, or none
Timers == {<<>>} \cup {<<k>> : k \in 0..Grace}

Shaped == \A r \in Replicas, u \in Users : armed[r][u] \in Timers

Inv == TypeOK /\ Shaped /\ TimersTracked

\* what the code computes from a list of timers, for a list of at most one
LEMMA OneTimer ==
  /\ Timers \subseteq Seq(0..Grace)
  /\ <<>> \in Timers /\ Append(<<>>, Grace) \in Timers /\ Append(<<>>, Grace) # <<>>
  /\ Len(Append(<<>>, Grace)) = 1 /\ Head(Append(<<>>, Grace)) = Grace
  /\ \A q \in Timers : q # <<>> =>
       /\ Len(q) = 1 /\ Head(q) \in 0..Grace /\ q = <<Head(q)>>
       /\ SubSeq(q, 1, Len(q) - 1) = <<>> /\ Tail(q) = <<>>
<1> USE SocketsAssumption
<1>1. ASSUME NEW k \in 0..Grace
      PROVE  /\ <<k>> \in Seq(0..Grace) /\ <<k>> # <<>> /\ Len(<<k>>) = 1 /\ Head(<<k>>) = k
             /\ SubSeq(<<k>>, 1, 0) = <<>> /\ Tail(<<k>>) = <<>>
  OBVIOUS
<1>2. Append(<<>>, Grace) = <<Grace>> /\ Grace \in 0..Grace
  OBVIOUS
<1>e. <<>> \in Seq(0..Grace)
  OBVIOUS
<1>3. Timers \subseteq Seq(0..Grace) /\ <<>> \in Timers /\ <<Grace>> \in Timers
  BY <1>1, <1>2, <1>e DEF Timers
<1>4. ASSUME NEW q \in Timers, q # <<>>
      PROVE  /\ Len(q) = 1 /\ Head(q) \in 0..Grace /\ q = <<Head(q)>>
             /\ SubSeq(q, 1, Len(q) - 1) = <<>> /\ Tail(q) = <<>>
  <2>1. PICK k \in 0..Grace : q = <<k>>
    BY <1>4 DEF Timers
  <2>2. Len(q) = 1 /\ Head(q) = k /\ SubSeq(q, 1, 0) = <<>> /\ Tail(q) = <<>>
    BY <1>1, <2>1
  <2>3. QED
    BY <2>1, <2>2
<1>5. QED
  BY <1>1, <1>2, <1>3, <1>4

\* a timer after a tick
Ticked(q) == [i \in 1..Len(q) |-> IF q[i] = 0 THEN 0 ELSE q[i] - 1]

LEMMA TickedTimer ==
  ASSUME NEW q \in Timers
  PROVE  /\ Ticked(q) \in Timers /\ (Ticked(q) = <<>> <=> q = <<>>)
         /\ q # <<>> => Head(Ticked(q)) = IF Head(q) = 0 THEN 0 ELSE Head(q) - 1
<1> USE SocketsAssumption
<1>1. CASE q = <<>>
  BY <1>1 DEF Ticked, Timers
<1>2. ASSUME NEW k \in 0..Grace, q = <<k>> PROVE Ticked(q) = <<IF k = 0 THEN 0 ELSE k - 1>>
  BY <1>2 DEF Ticked
<1>3. QED
  BY <1>1, <1>2 DEF Timers

LEMMA Found ==
  ASSUME NEW r, NEW u PROVE IsFiniteSet(At(r, u)) /\ Cardinality(At(r, u)) \in Nat
BY SocketsAssumption, FS_Subset, FS_CardinalityType DEF At

LEMMA InvInit == Init => Inv
<1> SUFFICES ASSUME Init PROVE Inv
  OBVIOUS
<1>1. TypeOK
  BY SocketsAssumption DEF Init, TypeOK
<1>2. Shaped
  BY DEF Init, Shaped, Timers
<1>3. \A r \in Replicas, u \in Users : At(r, u) = {}
  BY SocketsAssumption DEF Init, At
<1>4. TimersTracked
  BY <1>3, FS_EmptySet DEF Init, TimersTracked
<1>5. QED
  BY <1>1, <1>2, <1>4 DEF Inv

(* A socket that comes or goes changes the count of its user at its replica. *)
LEMMA ConnectInv ==
  ASSUME Inv, NEW s \in Sockets, NEW r \in Replicas, Connect(s, r)
  PROVE  Inv'
<1> USE SocketsAssumption DEF Inv
<1> DEFINE u == UserOf[s]
<1>0. u \in Users /\ count[r][u] \in Nat /\ armed[r][u] \in Timers
  BY DEF TypeOK, Shaped
<1>1. /\ At(r, u)' = At(r, u) \cup {s} /\ s \notin At(r, u)
      /\ \A q \in Replicas, v \in Users : <<q, v>> # <<r, u>> => At(q, v)' = At(q, v)
  BY DEF Connect, At, TypeOK
<1>2. /\ count'[r][u] = count[r][u] + 1 /\ known'[r][u] = FALSE
      /\ armed'[r][u] = <<>>
      /\ \A q \in Replicas, v \in Users : <<q, v>> # <<r, u>> =>
           count'[q][v] = count[q][v] /\ known'[q][v] = known[q][v] /\ armed'[q][v] = armed[q][v]
  <2>1. armed[r][u] = <<>> => ~known[r][u]
    BY <1>0 DEF TimersTracked
  <2>2. armed[r][u] # <<>> => known[r][u] /\ SubSeq(armed[r][u], 1, Len(armed[r][u]) - 1) = <<>>
    BY <1>0, OneTimer DEF TimersTracked
  <2>3. QED
    BY <1>0, <2>1, <2>2 DEF Connect, TypeOK
<1>3. Shaped'
  BY <1>2, OneTimer DEF Shaped
<1>4. TypeOK'
  <2>1. armed' \in [Replicas -> [Users -> Seq(0..Grace)]]
    BY <1>3, OneTimer DEF Connect, TypeOK, Shaped
  <2>2. on' \in [Sockets -> Replicas \cup {Nowhere}]
    BY DEF Connect, TypeOK
  <2>3. count' \in [Replicas -> [Users -> Nat]] /\ known' \in [Replicas -> [Users -> BOOLEAN]]
    BY <1>0 DEF Connect, TypeOK
  <2>4. QED
    BY <1>0, <2>1, <2>2, <2>3 DEF Connect, TypeOK
<1>5. TimersTracked'
  BY <1>0, <1>1, <1>2, Found, FS_AddElement DEF TimersTracked
<1>6. QED
  BY <1>3, <1>4, <1>5

LEMMA DisconnectInv ==
  ASSUME Inv, NEW s \in Sockets, Disconnect(s)
  PROVE  Inv'
<1> USE SocketsAssumption DEF Inv
<1>r. PICK r \in Replicas : on[s] = r
  BY DEF Disconnect, TypeOK
<1> DEFINE u == UserOf[s]
           last == count[r][u] <= 1
<1>0. u \in Users /\ count[r][u] \in Nat /\ armed[r][u] \in Timers
  BY DEF TypeOK, Shaped
<1>1. /\ At(r, u)' = At(r, u) \ {s} /\ s \in At(r, u)
      /\ \A q \in Replicas, v \in Users : <<q, v>> # <<r, u>> => At(q, v)' = At(q, v)
  BY <1>r DEF Disconnect, At, TypeOK
<1>2. count[r][u] # 0
  BY <1>0, <1>1, Found, FS_EmptySet DEF TimersTracked
<1>3. armed[r][u] = <<>> /\ ~known[r][u]
  BY <1>0, <1>2 DEF TimersTracked
<1>a. /\ count' = [count EXCEPT ![r][u] = IF last THEN 0 ELSE @ - 1]
      /\ armed' = IF last THEN [armed EXCEPT ![r][u] = Append(@, Grace)] ELSE armed
      /\ known' = [known EXCEPT ![r][u] = @ \/ last]
  BY <1>r DEF Disconnect
<1>4. /\ count'[r][u] = count[r][u] - 1
      /\ last => known'[r][u] /\ armed'[r][u] = Append(<<>>, Grace) /\ count'[r][u] = 0
      /\ ~last => ~known'[r][u] /\ armed'[r][u] = <<>>
      /\ \A q \in Replicas, v \in Users : <<q, v>> # <<r, u>> =>
           count'[q][v] = count[q][v] /\ known'[q][v] = known[q][v] /\ armed'[q][v] = armed[q][v]
  <2>1. CASE last
    <3>1. /\ count' = [count EXCEPT ![r][u] = 0]
          /\ armed' = [armed EXCEPT ![r][u] = Append(@, Grace)]
          /\ known' = [known EXCEPT ![r][u] = TRUE]
      BY <1>a, <2>1 DEF TypeOK
    <3>2. count[r][u] = 1
      BY <1>0, <1>2, <2>1
    <3>3. count'[r][u] = 0 /\ known'[r][u] /\ armed'[r][u] = Append(<<>>, Grace)
      BY <1>3, <3>1 DEF TypeOK
    <3>4. \A q \in Replicas, v \in Users : <<q, v>> # <<r, u>> =>
            count'[q][v] = count[q][v] /\ known'[q][v] = known[q][v] /\ armed'[q][v] = armed[q][v]
      BY <3>1 DEF TypeOK
    <3>5. QED
      BY <2>1, <3>2, <3>3, <3>4
  <2>2. CASE ~last
    BY <1>0, <1>2, <1>3, <1>a, <2>2 DEF TypeOK
  <2>3. QED
    BY <2>1, <2>2
<1>5. Shaped'
  BY <1>4, OneTimer DEF Shaped
<1>6. TypeOK'
  <2>1. armed' \in [Replicas -> [Users -> Seq(0..Grace)]]
    BY <1>5, OneTimer DEF Disconnect, TypeOK, Shaped
  <2>2. on' \in [Sockets -> Replicas \cup {Nowhere}]
    BY DEF Disconnect, TypeOK
  <2>3. count' \in [Replicas -> [Users -> Nat]] /\ known' \in [Replicas -> [Users -> BOOLEAN]]
    BY <1>0, <1>2 DEF Disconnect, TypeOK
  <2>4. QED
    BY <2>1, <2>2, <2>3 DEF Disconnect, TypeOK
<1>7. TimersTracked'
  <2> SUFFICES ASSUME NEW q \in Replicas, NEW v \in Users
               PROVE  /\ count'[q][v] = Cardinality(At(q, v))'
                      /\ armed'[q][v] # <<>> => Len(armed'[q][v]) = 1 /\ known'[q][v] /\ count'[q][v] = 0
                      /\ known'[q][v] => armed'[q][v] # <<>>
    BY DEF TimersTracked
  <2>1. CASE <<q, v>> = <<r, u>>
    <3>1. Cardinality(At(r, u)') = Cardinality(At(r, u)) - 1
      <4>1. IsFiniteSet(At(r, u)) /\ s \in At(r, u) /\ At(r, u)' = At(r, u) \ {s}
        BY <1>1, Found
      <4>2. Cardinality(At(r, u) \ {s}) = Cardinality(At(r, u)) - 1
        BY <4>1, FS_RemoveElement
      <4>3. QED
        BY <4>1, <4>2
    <3>2. count[r][u] = Cardinality(At(r, u))
      BY <1>0 DEF TimersTracked
    <3>3. QED
      BY <1>0, <1>4, <2>1, <3>1, <3>2, OneTimer
  <2>2. CASE <<q, v>> # <<r, u>>
    BY <1>1, <1>4, <2>2 DEF TimersTracked
  <2>3. QED
    BY <2>1, <2>2
<1>8. QED
  BY <1>5, <1>6, <1>7

LEMMA FireInv ==
  ASSUME Inv, NEW r \in Replicas, NEW u \in Users, Fire(r, u)
  PROVE  Inv'
<1> USE SocketsAssumption DEF Inv
<1>1. /\ known'[r][u] = FALSE /\ armed'[r][u] = <<>>
      /\ \A q \in Replicas, v \in Users : <<q, v>> # <<r, u>> =>
           known'[q][v] = known[q][v] /\ armed'[q][v] = armed[q][v]
  BY OneTimer DEF Fire, TypeOK, Shaped
<1>2. Shaped'
  BY <1>1, OneTimer DEF Shaped
<1>3. TypeOK'
  <2>1. armed' \in [Replicas -> [Users -> Seq(0..Grace)]]
    BY <1>2, OneTimer DEF Fire, TypeOK, Shaped
  <2>2. QED
    BY <2>1 DEF Fire, TypeOK
<1>4. TimersTracked'
  <2> SUFFICES ASSUME NEW q \in Replicas, NEW v \in Users
               PROVE  /\ count'[q][v] = Cardinality(At(q, v))'
                      /\ armed'[q][v] # <<>> => Len(armed'[q][v]) = 1 /\ known'[q][v] /\ count'[q][v] = 0
                      /\ known'[q][v] => armed'[q][v] # <<>>
    BY DEF TimersTracked
  <2>1. At(q, v)' = At(q, v) /\ count' = count
    BY DEF Fire, At
  <2>2. QED
    BY <1>1, <2>1 DEF TimersTracked
<1>5. QED
  BY <1>2, <1>3, <1>4

LEMMA StopInv ==
  ASSUME Inv, NEW r \in Replicas, Stop(r)
  PROVE  Inv'
<1> USE SocketsAssumption DEF Inv
<1>1. \A u \in Users : At(r, u)' = {} /\ \A q \in Replicas \ {r} : At(q, u)' = At(q, u)
  BY DEF Stop, At, TypeOK
<1>2. \A u \in Users : /\ count'[r][u] = 0 /\ armed'[r][u] = <<>> /\ ~known'[r][u]
                       /\ \A q \in Replicas \ {r} : /\ count'[q][u] = count[q][u]
                                                    /\ armed'[q][u] = armed[q][u]
                                                    /\ known'[q][u] = known[q][u]
  BY DEF Stop, TypeOK
<1>3. Shaped'
  BY <1>2, OneTimer DEF Shaped
<1>4. TypeOK'
  <2>1. armed' \in [Replicas -> [Users -> Seq(0..Grace)]]
    BY <1>3, OneTimer DEF Stop, TypeOK, Shaped
  <2>2. on' \in [Sockets -> Replicas \cup {Nowhere}]
    BY DEF Stop, TypeOK
  <2>3. count' \in [Replicas -> [Users -> Nat]] /\ known' \in [Replicas -> [Users -> BOOLEAN]]
    BY DEF Stop, TypeOK
  <2>4. calls' \in SUBSET (Replicas \X Users) /\ failed' \in SUBSET Users
    BY DEF Stop, TypeOK
  <2>5. QED
    BY <2>1, <2>2, <2>3, <2>4 DEF Stop, TypeOK
<1>5. TimersTracked'
  <2> SUFFICES ASSUME NEW q \in Replicas, NEW v \in Users
               PROVE  /\ count'[q][v] = Cardinality(At(q, v))'
                      /\ armed'[q][v] # <<>> => Len(armed'[q][v]) = 1 /\ known'[q][v] /\ count'[q][v] = 0
                      /\ known'[q][v] => armed'[q][v] # <<>>
    BY DEF TimersTracked
  <2>1. CASE q = r
    BY <1>1, <1>2, <2>1, FS_EmptySet
  <2>2. CASE q # r
    BY <1>1, <1>2, <2>2 DEF TimersTracked
  <2>3. QED
    BY <2>1, <2>2
<1>6. QED
  BY <1>3, <1>4, <1>5

LEMMA TickFacts ==
  ASSUME Inv, Tick
  PROVE  /\ \A r \in Replicas, u \in Users : armed'[r][u] = Ticked(armed[r][u])
         /\ \A u \in Users : /\ ~Present(u) /\ away[u] # Grace => away'[u] = away[u] + 1
                             /\ Present(u) \/ away[u] = Grace => away'[u] = away[u]
         /\ Inv'
<1> USE SocketsAssumption DEF Inv
<1>1. \A r \in Replicas, u \in Users : armed'[r][u] = Ticked(armed[r][u])
  BY DEF Tick, Ticked
<1>2. \A u \in Users : /\ ~Present(u) /\ away[u] # Grace => away'[u] = away[u] + 1
                       /\ Present(u) \/ away[u] = Grace => away'[u] = away[u]
  BY DEF Tick
<1>3. Shaped'
  BY <1>1, TickedTimer DEF Shaped
<1>4. TypeOK'
  <2>1. armed' \in [Replicas -> [Users -> Seq(0..Grace)]]
    <3>1. armed' = [q \in Replicas |-> [v \in Users |-> Ticked(armed[q][v])]]
      BY DEF Tick, Ticked
    <3>2. \A q \in Replicas, v \in Users : Ticked(armed[q][v]) \in Seq(0..Grace)
      BY <1>1, <1>3, OneTimer DEF Shaped
    <3>3. QED
      BY <3>1, <3>2
  <2>2. away' \in [Users -> 0..Grace]
    BY DEF Tick, TypeOK
  <2>3. QED
    BY <2>1, <2>2 DEF Tick, TypeOK
<1>5. TimersTracked'
  <2> SUFFICES ASSUME NEW r \in Replicas, NEW u \in Users
               PROVE  /\ count'[r][u] = Cardinality(At(r, u))'
                      /\ armed'[r][u] # <<>> => Len(armed'[r][u]) = 1 /\ known'[r][u] /\ count'[r][u] = 0
                      /\ known'[r][u] => armed'[r][u] # <<>>
    BY DEF TimersTracked
  <2>1. At(r, u)' = At(r, u) /\ count' = count /\ known' = known
    BY DEF Tick, At
  <2>2. armed'[r][u] = <<>> <=> armed[r][u] = <<>>
    BY <1>1, TickedTimer DEF Shaped
  <2>3. armed'[r][u] # <<>> => Len(armed'[r][u]) = 1
    BY <1>3, OneTimer DEF Shaped
  <2>4. QED
    BY <2>1, <2>2, <2>3 DEF TimersTracked
<1>6. QED
  BY <1>1, <1>2, <1>3, <1>4, <1>5

(* A request, a hold and the ends of both leave counts and timers alone.   *)
LEMMA RestInv ==
  ASSUME Inv,
         \/ \E r \in Replicas, u \in Users : CallRuns(r, u) \/ CallFails(r, u)
         \/ \E u \in Users : Hold(u) \/ HoldEnds(u)
         \/ UNCHANGED vars
  PROVE  Inv' /\ UNCHANGED <<local, away>> /\ calls' \subseteq calls
<1>1. UNCHANGED <<on, count, armed, known, away>> /\ calls' \subseteq calls
      /\ (holding \in SUBSET Users => holding' \in SUBSET Users)
      /\ (failed \in SUBSET Users => failed' \in SUBSET Users)
  BY DEF CallRuns, CallFails, Hold, HoldEnds, vars, local
<1>2. TypeOK'
  BY <1>1 DEF Inv, TypeOK
<1>3. Shaped' /\ TimersTracked'
  BY <1>1 DEF Inv, Shaped, TimersTracked, At
<1>4. QED
  BY <1>1, <1>2, <1>3 DEF Inv, local

LEMMA InvStep == Inv /\ [Next]_vars => Inv'
BY ConnectInv, DisconnectInv, FireInv, StopInv, TickFacts, RestInv DEF Next

(* Counts and timers have their types, in every behaviour.                 *)
THEOREM TypesHold == Spec => []TypeOK
<1>1. Inv => TypeOK
  BY DEF Inv
<1>2. QED
  BY <1>1, InvInit, InvStep, PTL DEF Spec

(* A replica counts exactly the sockets it has; a user without a socket    *)
(* there has one timer at most, which a reconnect would cancel.            *)
THEOREM TimersAreTracked == Spec => []TimersTracked
<1>1. Inv => TimersTracked
  BY DEF Inv
<1>2. QED
  BY <1>1, InvInit, InvStep, PTL DEF Spec

-----------------------------------------------------------------------------
(* One replica for each user.                                              *)

OneReplica == \A u \in Users : \A q, r \in Reach[u] : q = r

\* sockets and timers are where their user arrives, and a timer that runs has as much
\* to go as the user has not yet been away
Timely ==
  /\ \A s \in Sockets : on[s] # Nowhere => on[s] \in Reach[UserOf[s]]
  /\ \A r \in Replicas, u \in Users : armed[r][u] # <<>> =>
       r \in Reach[u] /\ ~Present(u) /\ away[u] + Head(armed[r][u]) >= Grace

LEMMA TimelyStep ==
  ASSUME OneReplica, Inv, Timely, [Next]_vars
  PROVE  Timely'
<1> USE SocketsAssumption DEF Timely
<1>0. Inv'
  BY InvStep
<1>1. ASSUME NEW s \in Sockets, NEW r \in Replicas, Connect(s, r) PROVE Timely'
  <2> DEFINE u == UserOf[s]
  <2>1. /\ \A x \in Sockets \ {s} : on'[x] = on[x]
        /\ on'[s] = r /\ r \in Reach[u] /\ u \in Users
        /\ \A v \in Users \ {u} : away'[v] = away[v]
    BY <1>1 DEF Connect, Inv, TypeOK
  <2>2. armed'[r][u] = <<>>
    <3>1. Cardinality(At(r, u)') = count'[r][u] /\ s \in At(r, u)'
      BY <1>0, <2>1 DEF Inv, TimersTracked, At
    <3>2. count'[r][u] # 0
      <4>1. IsFiniteSet(At(r, u)')
        BY FS_Subset DEF At
      <4>2. QED
        BY <3>1, <4>1, FS_EmptySet
    <3>3. QED
      BY <1>0, <2>1, <3>2 DEF Inv, TimersTracked
  <2>3. \A q \in Replicas, v \in Users : <<q, v>> # <<r, u>> => armed'[q][v] = armed[q][v]
    BY <1>1 DEF Connect, Inv, TypeOK
  <2>4. \A v \in Users \ {u} : Present(v)' <=> Present(v)
    BY <2>1 DEF Present
  <2>5. \A q \in Replicas : armed'[q][u] = <<>>
    BY <2>1, <2>2, <2>3 DEF OneReplica
  <2>6. QED
    BY <2>1, <2>3, <2>4, <2>5
<1>2. ASSUME NEW s \in Sockets, Disconnect(s) PROVE Timely'
  <2>r. PICK r \in Replicas : on[s] = r
    BY <1>2 DEF Disconnect, Inv, TypeOK
  <2> DEFINE u == UserOf[s]
  <2>0. u \in Users /\ r \in Reach[u] /\ away[u] \in 0..Grace
        /\ count[r][u] \in Nat /\ on'[s] = Nowhere /\ away' = away
    BY <1>2, <2>r DEF Disconnect, Inv, TypeOK
  <2>1. \A x \in Sockets \ {s} : on'[x] = on[x]
    BY <1>2 DEF Disconnect, Inv, TypeOK
  <2>2. \A v \in Users : Present(v)' => Present(v)
    BY <2>0, <2>1 DEF Present
  <2>3. armed[r][u] = <<>>
    BY <2>0, <2>r DEF Present
  <2>4. \A q \in Replicas, v \in Users : <<q, v>> # <<r, u>> => armed'[q][v] = armed[q][v]
    BY <1>2, <2>r DEF Disconnect, Inv, TypeOK
  <2>5. armed'[r][u] # <<>> => armed'[r][u] = Append(<<>>, Grace) /\ count'[r][u] = 0
    BY <1>2, <2>r, <2>0, <2>3 DEF Disconnect, Inv, TypeOK
  <2>6. armed'[r][u] # <<>> => ~Present(u)'
    <3> SUFFICES ASSUME armed'[r][u] # <<>>, NEW x \in Sockets, UserOf[x] = u, on'[x] # Nowhere
                 PROVE  FALSE
      BY DEF Present
    <3>1. on'[x] = r
      BY <2>0, <2>1 DEF OneReplica
    <3>2. x \in At(r, u)' /\ IsFiniteSet(At(r, u)')
      <4>1. At(r, u)' \subseteq Sockets /\ x \in At(r, u)'
        BY <3>1 DEF At
      <4>2. QED
        BY <4>1, FS_Subset
    <3>3. Cardinality(At(r, u)') = 0
      <4>1. count'[r][u] = Cardinality(At(r, u)')
        BY <1>0, <2>0 DEF Inv, TimersTracked
      <4>2. QED
        BY <2>5, <4>1
    <3>4. QED
      BY <3>2, <3>3, FS_EmptySet
  <2>7. QED
    BY <2>0, <2>1, <2>2, <2>4, <2>5, <2>6, OneTimer
<1>3. ASSUME NEW r \in Replicas, NEW u \in Users, Fire(r, u) PROVE Timely'
  <2>1. armed'[r][u] = <<>>
        /\ \A q \in Replicas, v \in Users : <<q, v>> # <<r, u>> => armed'[q][v] = armed[q][v]
    BY <1>3, OneTimer DEF Fire, Inv, TypeOK, Shaped
  <2>2. on' = on /\ away' = away
    BY <1>3 DEF Fire
  <2>3. QED
    BY <2>1, <2>2 DEF Present
<1>4. ASSUME NEW r \in Replicas, Stop(r) PROVE Timely'
  <2>1. \A s \in Sockets : on'[s] = on[s] \/ on'[s] = Nowhere
    BY <1>4 DEF Stop, Inv, TypeOK
  <2>2. away' = away /\ \A q \in Replicas, u \in Users : armed'[q][u] \in {armed[q][u], <<>>}
    BY <1>4 DEF Stop, Inv, TypeOK
  <2>3. \A u \in Users : Present(u)' => Present(u)
    BY <2>1 DEF Present
  <2>4. QED
    BY <2>1, <2>2, <2>3
<1>5. CASE Tick
  <2>1. on' = on /\ \A u \in Users : Present(u)' <=> Present(u)
    BY <1>5 DEF Tick, Present
  <2>2. ASSUME NEW r \in Replicas, NEW u \in Users, armed'[r][u] # <<>>
        PROVE  r \in Reach[u] /\ ~Present(u)' /\ away'[u] + Head(armed'[r][u]) >= Grace
    <3>1. armed[r][u] \in Timers /\ armed[r][u] # <<>> /\ away[u] \in 0..Grace
      BY <1>5, <2>2, TickFacts, TickedTimer DEF Inv, Shaped, TypeOK
    <3>2. Head(armed'[r][u]) = IF Head(armed[r][u]) = 0 THEN 0 ELSE Head(armed[r][u]) - 1
      BY <1>5, <3>1, TickFacts, TickedTimer
    <3>3. away'[u] = IF away[u] = Grace THEN Grace ELSE away[u] + 1
      BY <1>5, <3>1, TickFacts
    <3>4. Head(armed[r][u]) \in 0..Grace
      BY <3>1, OneTimer
    <3>5. QED
      BY <2>1, <3>1, <3>2, <3>3, <3>4
  <2>3. QED
    BY <2>1, <2>2
<1>6. CASE \/ \E r \in Replicas, u \in Users : CallRuns(r, u) \/ CallFails(r, u)
           \/ \E u \in Users : Hold(u) \/ HoldEnds(u)
           \/ UNCHANGED vars
  BY <1>6, RestInv DEF local, Present
<1>7. QED
  BY <1>1, <1>2, <1>3, <1>4, <1>5, <1>6 DEF Next

(* While every user's sockets arrive at one replica (the cookie affinity   *)
(* of the ingress), the release of a user's holds is asked for only after  *)
(* a whole grace period without a socket of that user anywhere.            *)
THEOREM GraceIsKept == ASSUME OneReplica PROVE Spec => GraceKept
<1> DEFINE Kept == \A r \in Replicas, u \in Users :
                     <<r, u>> \in calls' \ calls => away[u] = Grace /\ ~Present(u)
<1>1. Init => Timely
  BY DEF Init, Timely
<1>2. Inv /\ Timely /\ [Next]_vars => Timely'
  BY TimelyStep
<1>3. ASSUME Inv, Timely, [Next]_vars PROVE Kept
  <2>1. ASSUME NEW r \in Replicas, NEW u \in Users, Fire(r, u) PROVE Kept
    <3>1. armed[r][u] # <<>> /\ Head(armed[r][u]) = 0 /\ calls' = calls \cup {<<r, u>>}
      BY <2>1 DEF Fire
    <3>2. away[u] = Grace /\ ~Present(u)
      BY <1>3, <3>1, SocketsAssumption DEF Timely, Inv, TypeOK
    <3>3. QED
      BY <3>1, <3>2
  <2>2. (\A r \in Replicas, u \in Users : ~Fire(r, u)) => calls' \subseteq calls
    BY <1>3 DEF Next, Connect, Disconnect, CallRuns, CallFails, Stop, Hold, HoldEnds, Tick, vars
  <2>3. QED
    BY <2>1, <2>2
<1>4. QED
  BY <1>1, <1>2, <1>3, InvInit, InvStep, PTL DEF Spec, GraceKept
=============================================================================
