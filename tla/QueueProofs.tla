---------------------------- MODULE QueueProofs ----------------------------
(***************************************************************************)
(* What holds of the waiting queue for every set of users, requests and    *)
(* streams: the types, one token for each place, and, while no user has    *)
(* two join requests under way, first come first served.                   *)
(***************************************************************************)
EXTENDS QueueAdmission, TLAPS

\* a request or stream that is under way serves a user
Busy ==
  /\ \A j \in Joins : join[j].at # "idle" => join[j].user \in Users
  /\ \A s \in Streams : stream[s].at # "off" => stream[s].user \in Users

Places(u) == IF u \in Queued THEN admitted[u] + 1 ELSE admitted[u]

\* every token, and the place a user still has, stands for one time it was added
Counts == \A u \in Users : Places(u) <= joined[u]

Inv == TypeOK /\ Busy /\ Counts

JoinTypes   == [at : {"idle", "read", "add", "rank", "answer"}, time : 0..clock,
                user : Users \cup {NoUser}, before : SUBSET Users]
StreamTypes == [at : {"off", "look", "consume", "send"}, open : BOOLEAN,
                user : Users \cup {NoUser}, token : BOOLEAN]

\* no two requests serve one user
Single == \A j, k \in Joins : join[j].at # "idle" /\ join[k].user = join[j].user => j = k

\* a request that is about to add its user finds it outside the queue
Outside == \A j \in Joins : join[j].at \in {"read", "add"} => join[j].user \notin Queued

\* those who were there before are there, with an earlier score
Ordered ==
  /\ \A u \in Users : \A v \in before[u] : v \in Queued /\ score[v] < score[u]
  /\ \A j \in Joins : join[j].at = "add" =>
       \A v \in join[j].before : v \in Queued /\ score[v] < join[j].time
  /\ \A u \in Users : u \notin Queued => before[u] = {}

OrderInv == Inv /\ Single /\ Outside /\ Ordered

\* A system that starts has types, users and counts in order.
LEMMA InvInit == Init => Inv
  BY NoUserAssumption
  DEF Init, Inv, TypeOK, Busy, Counts, Places, Queued, Joining, NoJoin, NoStream

\* A record that changes in one field keeps the type of the others.
LEMMA OpenTypes ==
  ASSUME NEW q \in StreamTypes PROVE [q EXCEPT !.open = FALSE] \in StreamTypes
  BY DEF StreamTypes

LEMMA BeforeTypes ==
  ASSUME NEW q \in JoinTypes, NEW U
  PROVE  LET p == [q EXCEPT !.before = @ \ U] IN
           p \in JoinTypes /\ p.at = q.at /\ p.user = q.user /\ p.time = q.time
             /\ p.before = q.before \ U
  BY DEF JoinTypes

\* Taking users out of the queue leaves the requests where they are.
LEMMA RemoveJoins ==
  ASSUME join \in [Joins -> JoinTypes], NEW U, Remove(U)
  PROVE  /\ join' \in [Joins -> JoinTypes]
         /\ \A j \in Joins : /\ join'[j].at = join[j].at
                             /\ join'[j].user = join[j].user
                             /\ join'[j].time = join[j].time
                             /\ join'[j].before = join[j].before \ U
  BY BeforeTypes DEF Remove

\* No step of a request, a stream, a user or a fault disturbs them.
LEMMA InvStep == Inv /\ [Next]_vars => Inv'
<1> SUFFICES ASSUME Inv, [Next]_vars PROVE Inv'
  OBVIOUS
<1> USE NoUserAssumption DEF Inv, TypeOK, Busy, Counts, Places, Queued, Joining, NoJoin, NoStream
<1>1. ASSUME NEW j \in Joins, NEW u \in Users, StartJoin(j, u) PROVE Inv'
  <2> DEFINE r == [at |-> IF u \in Queued THEN "answer" ELSE "read", user |-> u,
                   time |-> 0, before |-> {}]
  <2>a. r \in JoinTypes' /\ JoinTypes' = JoinTypes
    BY <1>1 DEF StartJoin, JoinTypes
  <2>b. join' = [join EXCEPT ![j] = r]
    <3> HIDE DEF Inv, TypeOK, Busy, Counts, Places, Queued
    <3> QED BY <1>1 DEF StartJoin
  <2>1. join' \in [Joins -> JoinTypes']
    BY <2>a, <2>b DEF JoinTypes
  <2>2. TypeOK'
    BY <1>1, <2>1 DEF StartJoin, JoinTypes
  <2>3. Busy'
    BY <1>1 DEF StartJoin
  <2>4. Counts'
    BY <1>1 DEF StartJoin
  <2> QED
    BY <2>2, <2>3, <2>4
<1>2. ASSUME NEW j \in Joins, ReadClock(j) PROVE Inv'
  <2>1. clock' \in Nat /\ score' \in [Users -> 0..clock']
    BY <1>2 DEF ReadClock
  <2> DEFINE r == [at |-> "add", user |-> join[j].user, time |-> clock + 1,
                   before |-> Queued \ {join[j].user}]
  <2>a. join \in [Joins -> JoinTypes] /\ JoinTypes \subseteq JoinTypes' /\ r \in JoinTypes'
    BY <1>2 DEF ReadClock, JoinTypes
  <2>b. join' = [join EXCEPT ![j] = r]
    BY <1>2 DEF ReadClock
  <2>2. join' \in [Joins -> JoinTypes']
    <3> HIDE DEF Inv, TypeOK, JoinTypes, r
    <3> QED BY <2>a, <2>b
  <2>3. TypeOK'
    BY <1>2, <2>1, <2>2 DEF ReadClock, JoinTypes
  <2>4. Busy'
    BY <1>2 DEF ReadClock
  <2>5. Counts'
    BY <1>2 DEF ReadClock
  <2> QED
    BY <2>3, <2>4, <2>5
<1>3. ASSUME NEW j \in Joins, Add(j) PROVE Inv'
  <2> DEFINE r == [at |-> "rank", user |-> join[j].user, time |-> 0, before |-> {}]
  <2>a. r \in JoinTypes' /\ JoinTypes' = JoinTypes
    BY <1>3 DEF Add, JoinTypes
  <2>b. join' = [join EXCEPT ![j] = r]
    <3> HIDE DEF Inv, TypeOK, Busy, Counts, Places, Queued
    <3> QED BY <1>3 DEF Add
  <2>1. join' \in [Joins -> JoinTypes']
    BY <2>a, <2>b DEF JoinTypes
  <2>2. TypeOK'
    BY <1>3, <2>1 DEF Add, JoinTypes
  <2>3. Busy'
    BY <1>3 DEF Add
  <2>4. Counts'
    BY <1>3 DEF Add
  <2> QED
    BY <2>2, <2>3, <2>4
<1>4. ASSUME NEW j \in Joins, Rank(j) PROVE Inv'
  BY <1>4 DEF Rank
<1>5. ASSUME NEW j \in Joins, Answer(j) PROVE Inv'
  BY <1>5 DEF Answer
<1>6. ASSUME NEW u \in Users, Leave(u) PROVE Inv'
  BY <1>6 DEF Leave, Remove
<1>7. ASSUME NEW s \in Streams, NEW u \in Users, OpenStream(s, u) PROVE Inv'
  BY <1>7 DEF OpenStream
<1>8. ASSUME NEW s \in Streams, Look(s) PROVE Inv'
  BY <1>8 DEF Look
<1>9. ASSUME NEW s \in Streams, Consume(s) PROVE Inv'
  <2>1. CASE ~First(stream[s].user)
    <3>1. stream' \in [Streams -> StreamTypes]
      BY <1>9, <2>1 DEF Consume, StreamTypes
    <3> QED
      BY <1>9, <2>1, <3>1 DEF Consume, StreamTypes
  <2>2. CASE First(stream[s].user)
    <3> DEFINE u == stream[s].user
               q == [at |-> "send", open |-> stream[s].open, user |-> u, token |-> TRUE]
    <3>1. q \in StreamTypes /\ u \in Users /\ u \in Queued
      BY <1>9, <2>2 DEF Consume, First, StreamTypes
    <3>2. stream' = [stream EXCEPT ![s] = q]
      BY <1>9, <2>2 DEF Consume
    <3>3. stream' \in [Streams -> StreamTypes]
      BY <3>1, <3>2 DEF StreamTypes
    <3>4. join' \in [Joins -> JoinTypes] /\ \A j \in Joins : /\ join'[j].at = join[j].at
                                                         /\ join'[j].user = join[j].user
      BY <1>9, <2>2, RemoveJoins DEF Consume, JoinTypes
    <3>5. /\ score' = [v \in Users |-> IF v = u THEN 0 ELSE score[v]]
          /\ admitted' = [admitted EXCEPT ![u] = @ + 1]
          /\ UNCHANGED <<clock, ticket, joined>>
      BY <1>9, <2>2 DEF Consume, Remove
    <3>6. score' \in [Users -> 0..clock'] /\ admitted' \in [Users -> Nat]
      BY <3>1, <3>5
    <3>7. before' \in [Users -> SUBSET Users]
      BY <1>9, <2>2 DEF Consume, Remove
    <3>8. TypeOK'
      BY <3>3, <3>4, <3>5, <3>6, <3>7 DEF StreamTypes, JoinTypes
    <3>9. Busy'
      BY <3>1, <3>2, <3>4
    <3>10. Counts'
      BY <3>1, <3>5
    <3> QED
      BY <3>8, <3>9, <3>10
  <2> QED
    BY <2>1, <2>2
<1>10. ASSUME NEW s \in Streams, Send(s) \/ Disconnect(s) \/ CrashStream(s) PROVE Inv'
  <2>1. stream' \in [Streams -> StreamTypes]
    <3>1. CASE Disconnect(s)
      <4>1. [stream[s] EXCEPT !.open = FALSE] \in StreamTypes
        BY OpenTypes DEF StreamTypes
      <4> QED
        BY <3>1, <4>1 DEF Disconnect, StreamTypes
    <3>2. CASE Send(s) \/ CrashStream(s)
      <4> NoStream \in StreamTypes
        BY DEF StreamTypes
      <4> QED
        BY <3>2 DEF Send, CrashStream, StreamTypes
    <3> QED
      BY <1>10, <3>1, <3>2
  <2>2. TypeOK'
    BY <1>10, <2>1 DEF Send, Disconnect, CrashStream, StreamTypes
  <2>3. Busy'
    BY <1>10 DEF Send, Disconnect, CrashStream
  <2>4. Counts'
    BY <1>10 DEF Send, Disconnect, CrashStream
  <2> QED
    BY <2>2, <2>3, <2>4
<1>11. ASSUME NEW j \in Joins, CrashJoin(j) PROVE Inv'
  BY <1>11 DEF CrashJoin
<1>12. CASE KeyExpires
  BY <1>12 DEF KeyExpires, Remove
<1>13. CASE UNCHANGED vars
  BY <1>13 DEF vars
<1> QED
  BY <1>1, <1>2, <1>3, <1>4, <1>5, <1>6, <1>7, <1>8, <1>9, <1>10, <1>11, <1>12, <1>13
  DEF Next, JoinStep, StreamStep

\* Types of the whole state, for every number of users, requests and streams.
THEOREM TypeCorrect == Spec => []TypeOK
<1>1. Inv => TypeOK
  BY DEF Inv
<1> QED
  BY InvInit, InvStep, <1>1, PTL DEF Spec

\* consume_token issues at most one access token for each time a user was added,
\* even when a user has several join requests under way.
THEOREM TokensCounted == Spec => []OneTokenPerPlace
<1>1. Inv => OneTokenPerPlace
  BY DEF Inv, TypeOK, Counts, Places, OneTokenPerPlace
<1> QED
  BY InvInit, InvStep, <1>1, PTL DEF Spec

-----------------------------------------------------------------------------
(* Order.                                                                  *)

LEMMA OrderInit == Init => OrderInv
  BY InvInit, NoUserAssumption
  DEF Init, OrderInv, Single, Outside, Ordered, Queued, Joining, NoJoin

\* Nobody is first while someone who was there before still waits.
LEMMA FirstIsAlone ==
  ASSUME OrderInv, NEW u \in Users, First(u)
  PROVE  before[u] = {}
<1>1. ASSUME NEW v \in before[u] PROVE FALSE
  <2>1. v \in Queued /\ score[v] < score[u] /\ score[u] <= score[v]
    BY DEF OrderInv, Ordered, First
  <2>2. score[u] \in Nat /\ score[v] \in Nat
    BY <2>1 DEF OrderInv, Inv, TypeOK, Queued
  <2> QED
    BY <2>1, <2>2
<1> QED
  BY <1>1

\* Users that leave the queue, one by one or all at once, leave the order intact.
LEMMA RemoveKeepsOrder ==
  ASSUME OrderInv, NEW U \in SUBSET Users, Remove(U)
  PROVE  Single' /\ Outside' /\ Ordered'
<1> USE DEF OrderInv, Inv, TypeOK
<1>1. \A j \in Joins : /\ join'[j].at = join[j].at
                       /\ join'[j].user = join[j].user
                       /\ join'[j].time = join[j].time
                       /\ join'[j].before = join[j].before \ U
  BY RemoveJoins DEF JoinTypes
<1>2. Queued' = Queued \ U /\ \A u \in Users \ U : score'[u] = score[u]
  BY DEF Remove, Queued
<1>3. Single' /\ Outside'
  BY <1>1, <1>2 DEF Single, Outside
<1>4. \A u \in Users : before'[u] = IF u \in U THEN {} ELSE before[u] \ U
  BY DEF Remove
<1>5. ASSUME NEW u \in Users, NEW v \in before'[u]
      PROVE  v \in Queued' /\ score'[v] < score'[u]
  <2>1. u \notin U /\ v \in before[u] /\ v \in Users \ U
    BY <1>4
  <2>2. v \in Queued /\ score[v] < score[u]
    BY <2>1 DEF Ordered
  <2> QED
    BY <1>2, <2>1, <2>2
<1>6. ASSUME NEW j \in Joins, join'[j].at = "add", NEW v \in join'[j].before
      PROVE  v \in Queued' /\ score'[v] < join'[j].time
  <2>1. join[j].at = "add" /\ v \in join[j].before /\ v \in Users \ U
    BY <1>1, <1>6
  <2>2. v \in Queued /\ score[v] < join[j].time
    BY <2>1 DEF Ordered
  <2> QED
    BY <1>1, <1>2, <2>1, <2>2
<1>7. \A u \in Users : u \notin Queued' => before'[u] = {}
  BY <1>2, <1>4 DEF Ordered
<1>8. Ordered'
  BY <1>5, <1>6, <1>7 DEF Ordered
<1> QED
  BY <1>3, <1>8

\* The order survives every step, as long as a user joins one request at a time.
LEMMA OrderStep == ASSUME ~TwoJoins, OrderInv, [Next]_vars PROVE OrderInv'
<1> SUFFICES Single' /\ Outside' /\ Ordered'
  BY InvStep DEF OrderInv
<1> USE NoUserAssumption DEF OrderInv, Inv, TypeOK, Busy, Joining, NoJoin
<1>1. ASSUME NEW j \in Joins, NEW u \in Users, StartJoin(j, u) PROVE Single' /\ Outside' /\ Ordered'
  BY <1>1 DEF StartJoin, Single, Outside, Ordered, Queued
<1>2. ASSUME NEW j \in Joins, ReadClock(j) PROVE Single' /\ Outside' /\ Ordered'
  BY <1>2 DEF ReadClock, Single, Outside, Ordered, Queued
<1>3. ASSUME NEW j \in Joins, Add(j) PROVE Single' /\ Outside' /\ Ordered'
  BY <1>3 DEF Add, Single, Outside, Ordered, Queued
<1>4. ASSUME NEW j \in Joins, Rank(j) PROVE Single' /\ Outside' /\ Ordered'
  BY <1>4 DEF Rank, Single, Outside, Ordered, Queued
<1>5. ASSUME NEW j \in Joins, Answer(j) \/ CrashJoin(j) PROVE Single' /\ Outside' /\ Ordered'
  <2>1. join' = [join EXCEPT ![j] = NoJoin] /\ UNCHANGED <<score, before>>
    BY <1>5 DEF Answer, CrashJoin
  <2> QED
    BY <2>1 DEF Single, Outside, Ordered, Queued
<1>6. ASSUME NEW u \in Users, Leave(u) PROVE Single' /\ Outside' /\ Ordered'
  BY <1>6, RemoveKeepsOrder DEF Leave
<1>7. CASE KeyExpires
  BY <1>7, RemoveKeepsOrder DEF KeyExpires
<1>8. ASSUME NEW s \in Streams, Consume(s) PROVE Single' /\ Outside' /\ Ordered'
  <2>1. CASE First(stream[s].user)
    BY <1>8, <2>1, RemoveKeepsOrder DEF Consume, First, Queued
  <2>2. CASE ~First(stream[s].user)
    BY <1>8, <2>2 DEF Consume, Single, Outside, Ordered, Queued
  <2> QED
    BY <2>1, <2>2
<1>9. CASE UNCHANGED <<score, clock, join, before>>
  BY <1>9 DEF Single, Outside, Ordered, Queued
<1>10. ASSUME NEW s \in Streams, NEW u \in Users, OpenStream(s, u)
       PROVE  UNCHANGED <<score, clock, join, before>>
  BY <1>10 DEF OpenStream
<1>11. ASSUME NEW s \in Streams, Look(s) \/ Send(s) \/ Disconnect(s) \/ CrashStream(s)
       PROVE  UNCHANGED <<score, clock, join, before>>
  BY <1>11 DEF Look, Send, Disconnect, CrashStream
<1> QED
  BY <1>1, <1>2, <1>3, <1>4, <1>5, <1>6, <1>7, <1>8, <1>9, <1>10, <1>11
  DEF Next, JoinStep, StreamStep, vars

\* Only the Lua script of a user's own stream admits, and only the first user.
LEMMA AdmitsFirst ==
  ASSUME OrderInv, Next, NEW u \in Users, admitted'[u] # admitted[u]
  PROVE  First(u)
<1>1. ASSUME NEW s \in Streams, Consume(s) PROVE First(u)
  BY <1>1 DEF Consume, OrderInv, Inv, TypeOK
<1>2. \/ \E s \in Streams : Consume(s)
      \/ UNCHANGED admitted
  BY DEF Next, JoinStep, StreamStep, StartJoin, ReadClock, Add, Rank, Answer, Leave, OpenStream,
         Look, Send, Disconnect, CrashJoin, CrashStream, KeyExpires
<1> QED
  BY <1>1, <1>2

\* First come, first served: admission never passes over a user who was in the queue
\* when the admitted user's join read the clock, if no user joins twice at once.
THEOREM InOrder == ASSUME ~TwoJoins PROVE Spec => FirstComeFirstServed
<1>1. OrderInv /\ [Next]_vars => OrderInv'
  BY OrderStep
<1>2. OrderInv /\ [Next]_vars =>
        [\A u \in Users : admitted'[u] # admitted[u] => before[u] = {}]_vars
  BY AdmitsFirst, FirstIsAlone
<1> QED
  BY OrderInit, <1>1, <1>2, PTL DEF Spec, FirstComeFirstServed
=============================================================================
