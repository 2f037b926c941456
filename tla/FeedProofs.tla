----------------------------- MODULE FeedProofs -----------------------------
(***************************************************************************)
(* The seat feed of a replica, for every number of pages, streams and      *)
(* versions: as long as nobody subscribes while an UNSUBSCRIBE is on its   *)
(* way, the room of an event never loses its subscription.                 *)
(***************************************************************************)
EXTENDS SeatFeed, SequenceTheorems, TLAPS

(* Queues of commands and answers.                                         *)

LEMMA QueueAppend ==
  ASSUME NEW T, NEW q \in Seq(T), NEW x \in T
  PROVE  /\ Append(q, x) \in Seq(T)
         /\ x \in {Sub, Unsub} =>
              ~Wordless(Append(q, x)) /\ \A w \in {Sub, Unsub} : EndsIn(Append(q, x), w) <=> w = x
         /\ x \notin {Sub, Unsub} =>
              /\ Wordless(Append(q, x)) <=> Wordless(q)
              /\ \A w \in {Sub, Unsub} : EndsIn(Append(q, x), w) <=> EndsIn(q, w)
<1> DEFINE a == Append(q, x)
<1>1. /\ a \in Seq(T) /\ Len(a) = Len(q) + 1 /\ Len(q) \in Nat /\ a[Len(q) + 1] = x
      /\ \A i \in 1..Len(q) : a[i] = q[i]
  BY AppendProperties
<1> HIDE DEF a
<1>2. ASSUME x \in {Sub, Unsub}
      PROVE  ~Wordless(a) /\ \A w \in {Sub, Unsub} : EndsIn(a, w) <=> w = x
  <2>1. ~Wordless(a)
    BY <1>1, <1>2 DEF Wordless
  <2>2. EndsIn(a, x)
    BY <1>1, <1>2 DEF EndsIn
  <2>3. ASSUME NEW w \in {Sub, Unsub}, EndsIn(a, w) PROVE w = x
    <3>1. PICK i \in 1..Len(a) : a[i] = w /\ \A j \in (i + 1)..Len(a) : a[j] \notin {Sub, Unsub}
      BY <2>3 DEF EndsIn
    <3>2. i = Len(q) + 1
      BY <1>1, <1>2, <3>1
    <3>3. QED
      BY <1>1, <3>1, <3>2
  <2>4. QED
    BY <2>1, <2>2, <2>3
<1>3. ASSUME x \notin {Sub, Unsub}
      PROVE  /\ Wordless(a) <=> Wordless(q)
             /\ \A w \in {Sub, Unsub} : EndsIn(a, w) <=> EndsIn(q, w)
  <2>1. Wordless(a) <=> Wordless(q)
    BY <1>1, <1>3 DEF Wordless
  <2>2. ASSUME NEW w \in {Sub, Unsub}, EndsIn(q, w) PROVE EndsIn(a, w)
    <3>1. PICK i \in 1..Len(q) : q[i] = w /\ \A j \in (i + 1)..Len(q) : q[j] \notin {Sub, Unsub}
      BY <2>2 DEF EndsIn
    <3>2. a[i] = w /\ \A j \in (i + 1)..Len(a) : a[j] \notin {Sub, Unsub}
      BY <1>1, <1>3, <3>1
    <3>3. QED
      BY <1>1, <3>2 DEF EndsIn
  <2>3. ASSUME NEW w \in {Sub, Unsub}, EndsIn(a, w) PROVE EndsIn(q, w)
    <3>1. PICK i \in 1..Len(a) : a[i] = w /\ \A j \in (i + 1)..Len(a) : a[j] \notin {Sub, Unsub}
      BY <2>3 DEF EndsIn
    <3>2. i \in 1..Len(q) /\ q[i] = w /\ \A j \in (i + 1)..Len(q) : q[j] \notin {Sub, Unsub}
      BY <1>1, <1>3, <3>1
    <3>3. QED
      BY <3>2 DEF EndsIn
  <2>4. QED
    BY <2>1, <2>2, <2>3
<1>4. QED
  BY <1>1, <1>2, <1>3 DEF a

\* what is left of a queue ends in the same word, unless it was the one taken
LEMMA QueueTail ==
  ASSUME NEW T, NEW q \in Seq(T), q # <<>>
  PROVE  /\ Tail(q) \in Seq(T) /\ Head(q) \in T
         /\ Wordless(q) <=> Wordless(Tail(q)) /\ Head(q) \notin {Sub, Unsub}
         /\ \A w \in {Sub, Unsub} :
              EndsIn(q, w) <=> EndsIn(Tail(q), w) \/ (Wordless(Tail(q)) /\ Head(q) = w)
<1> DEFINE t == Tail(q)
<1>1. /\ t \in Seq(T) /\ Len(q) = Len(t) + 1 /\ Len(t) \in Nat
      /\ Head(q) = q[1] /\ Head(q) \in T
      /\ \A i \in 1..Len(t) : t[i] = q[i + 1]
  BY HeadTailProperties
<1> HIDE DEF t
<1>2. Wordless(q) <=> Wordless(t) /\ Head(q) \notin {Sub, Unsub}
  <2>1. ASSUME Wordless(q) PROVE Wordless(t) /\ Head(q) \notin {Sub, Unsub}
    BY <1>1, <2>1 DEF Wordless
  <2>2. ASSUME Wordless(t), Head(q) \notin {Sub, Unsub}, NEW i \in 1..Len(q)
        PROVE  q[i] \notin {Sub, Unsub}
    <3>1. i = 1 \/ (i - 1 \in 1..Len(t) /\ t[i - 1] = q[i])
      BY <1>1
    <3>2. QED
      BY <1>1, <2>2, <3>1 DEF Wordless
  <2>3. QED
    BY <2>1, <2>2 DEF Wordless
<1>3. ASSUME NEW w \in {Sub, Unsub}, EndsIn(q, w)
      PROVE  EndsIn(t, w) \/ (Wordless(t) /\ Head(q) = w)
  <2>1. PICK i \in 1..Len(q) : q[i] = w /\ \A j \in (i + 1)..Len(q) : q[j] \notin {Sub, Unsub}
    BY <1>3 DEF EndsIn
  <2>2. CASE i = 1
    BY <1>1, <2>1, <2>2 DEF Wordless
  <2>3. CASE i # 1
    <3>1. i - 1 \in 1..Len(t) /\ t[i - 1] = w
      BY <1>1, <2>1, <2>3
    <3>2. \A j \in ((i - 1) + 1)..Len(t) : t[j] \notin {Sub, Unsub}
      BY <1>1, <2>1, <2>3
    <3>3. QED
      BY <3>1, <3>2 DEF EndsIn
  <2>4. QED
    BY <2>2, <2>3
<1>4. ASSUME NEW w \in {Sub, Unsub}, EndsIn(t, w) PROVE EndsIn(q, w)
  <2>1. PICK i \in 1..Len(t) : t[i] = w /\ \A j \in (i + 1)..Len(t) : t[j] \notin {Sub, Unsub}
    BY <1>4 DEF EndsIn
  <2>2. i + 1 \in 1..Len(q) /\ q[i + 1] = w
    BY <1>1, <2>1
  <2>3. ASSUME NEW j \in ((i + 1) + 1)..Len(q) PROVE q[j] \notin {Sub, Unsub}
    <3>1. j - 1 \in (i + 1)..Len(t) /\ t[j - 1] = q[j]
      BY <1>1, <2>1, <2>3
    <3>2. QED
      BY <2>1, <3>1
  <2>4. QED
    BY <2>2, <2>3 DEF EndsIn
<1>5. ASSUME NEW w \in {Sub, Unsub}, Wordless(t), Head(q) = w PROVE EndsIn(q, w)
  <2>1. ASSUME NEW j \in (1 + 1)..Len(q) PROVE q[j] \notin {Sub, Unsub}
    <3>1. j - 1 \in 1..Len(t) /\ t[j - 1] = q[j]
      BY <1>1, <2>1
    <3>2. QED
      BY <1>5, <3>1 DEF Wordless
  <2>2. QED
    BY <1>1, <1>5, <2>1 DEF EndsIn
<1>6. QED
  BY <1>1, <1>2, <1>3, <1>4, <1>5 DEF t

-----------------------------------------------------------------------------

Words == {Sub, Unsub}

LEMMA WordsAreNoVersions ==
  Version \cap Words = {} /\ Version \in SUBSET Nat /\ 0 \in Version
BY VersionAssumption DEF Version, Words

LEMMA TypeStep == TypeOK /\ [Next]_vars => TypeOK'
<1> SUFFICES ASSUME TypeOK, [Next]_vars PROVE TypeOK'
  OBVIOUS
<1> USE DEF TypeOK, server, lists, member, streams, wire
<1>1. CASE Commit \/ Publish \/ PublishFails
  <2>1. CASE Commit
    BY <2>1, VersionAssumption DEF Commit, Version
  <2>2. CASE Publish
    <3>1. Append(fromRedis, db) \in Seq({Sub, Unsub} \cup Version)
      BY AppendProperties
    <3>2. QED
      BY <2>2, <3>1 DEF Publish
  <2>3. CASE PublishFails
    BY <2>3 DEF PublishFails
  <2>4. QED
    BY <1>1, <2>1, <2>2, <2>3
<1>2. ASSUME NEW c \in Clients, NEW n \in Version, Answer(c, n)
      PROVE  /\ view' \in [Clients -> Version]
             /\ read' \in [Clients -> [at : {"idle", "query", "fill", "listed"},
                                      key : Keys \cup {None}, seen : Version]]
  <2>1. /\ [Idle EXCEPT !.at = "listed"] = [at |-> "listed", key |-> None, seen |-> 0]
        /\ [at |-> "listed", key |-> None, seen |-> 0]
             \in [at : {"idle", "query", "fill", "listed"}, key : Keys \cup {None}, seen : Version]
    BY WordsAreNoVersions DEF Idle
  <2>2. QED
    BY <1>2, <2>1 DEF Answer
<1>3. ASSUME NEW c \in Clients, NEW k \in Keys, Lookup(c, k) PROVE TypeOK'
  <2>1. CASE cache[k] # None
    BY <1>2, <1>3, <2>1 DEF Lookup
  <2>2. CASE cache[k] = None
    <3>1. [at |-> "query", key |-> k, seen |-> 0]
            \in [at : {"idle", "query", "fill", "listed"}, key : Keys \cup {None}, seen : Version]
      BY VersionAssumption DEF Version
    <3>2. QED
      BY <1>3, <2>2, <3>1 DEF Lookup
  <2>3. QED
    BY <2>1, <2>2
<1>4. ASSUME NEW c \in Clients, Query(c) \/ Fill(c) PROVE TypeOK'
  <2>1. read[c] \in [at : {"idle", "query", "fill", "listed"}, key : Keys \cup {None},
                     seen : Version]
    OBVIOUS
  <2>2. CASE Query(c)
    BY <2>1, <2>2 DEF Query
  <2>3. CASE Fill(c)
    BY <1>2, <2>1, <2>3 DEF Fill
  <2>4. QED
    BY <1>4, <2>2, <2>3
<1>5. \A w \in {Sub, Unsub} : Append(toRedis, w) \in Seq({Sub, Unsub})
  BY AppendProperties
<1>6. ASSUME NEW c \in Clients, Join(c) \/ Leave(c) \/ Drop(c) PROVE TypeOK'
  BY <1>5, <1>6 DEF Join, Leave, Drop
<1>7. ASSUME NEW k \in Keys, Expires(k) PROVE TypeOK'
  BY <1>7 DEF Expires
<1>8. ASSUME NEW s \in Streams, OpenStream(s) \/ CloseStream(s) PROVE TypeOK'
  BY <1>8, WordsAreNoVersions DEF OpenStream, CloseStream
<1>9. CASE RedisTakes
  <2>1. Tail(toRedis) \in Seq({Sub, Unsub}) /\ Head(toRedis) \in {Sub, Unsub}
    BY <1>9, HeadTailProperties DEF RedisTakes
  <2>2. Append(fromRedis, Head(toRedis)) \in Seq({Sub, Unsub} \cup Version)
    BY <2>1, AppendProperties
  <2>3. QED
    BY <1>9, <2>1, <2>2 DEF RedisTakes
<1>10. CASE Deliver
  <2>1. /\ Tail(fromRedis) \in Seq({Sub, Unsub} \cup Version)
        /\ Head(fromRedis) \in {Sub, Unsub} \cup Version
    BY <1>10, HeadTailProperties DEF Deliver
  <2>2. view' \in [Clients -> Version] /\ heard' \in [Streams -> Version]
    BY <1>10, <2>1 DEF Deliver, ToRoom, ToStreams
  <2>3. QED
    BY <1>10, <2>1, <2>2 DEF Deliver
<1>11. CASE UNCHANGED vars
  BY <1>11 DEF vars
<1>12. QED
  BY <1>1, <1>3, <1>4, <1>6, <1>7, <1>8, <1>9, <1>10, <1>11 DEF Next

(* The caches, the pages, the streams and the two queues to and from Redis *)
(* hold what they should.                                                  *)
THEOREM FeedTypes == Spec => []TypeOK
<1>1. Init => TypeOK
  <2> SUFFICES ASSUME Init PROVE TypeOK
    OBVIOUS
  <2>1. Idle \in [at : {"idle", "query", "fill", "listed"}, key : Keys \cup {None}, seen : Version]
    BY WordsAreNoVersions DEF Idle
  <2>2. <<>> \in Seq({Sub, Unsub}) /\ <<>> \in Seq({Sub, Unsub} \cup Version)
    BY EmptySeq
  <2>3. QED
    BY <2>1, <2>2, WordsAreNoVersions DEF Init, TypeOK
<1>2. QED
  BY <1>1, TypeStep, PTL DEF Spec

-----------------------------------------------------------------------------

\* The mark says where the connection is heading: what is in force when nothing is on
\* its way, and the last word otherwise.  Redis itself is where its last answer says.
FeedInv ==
  /\ room # {} => mark
  /\ IF Silent THEN subscribed = mark /\ listening = mark
               ELSE LastWord(IF mark THEN Sub ELSE Unsub)
  /\ \A w \in Words : EndsIn(fromRedis, w) => subscribed = (w = Sub)

\* commands are words
LEMMA CommandsAreWords == TypeOK => (Wordless(toRedis) <=> toRedis = <<>>)
<1> SUFFICES ASSUME TypeOK PROVE Wordless(toRedis) <=> toRedis = <<>>
  OBVIOUS
<1>1. toRedis = <<>> \/ (toRedis # <<>> /\ 1 \in 1..Len(toRedis) /\ toRedis[1] \in {Sub, Unsub})
  BY HeadTailProperties, LenProperties, ElementOfSeq, EmptySeq DEF TypeOK
<1>2. QED
  BY <1>1, EmptySeq DEF Wordless

LEMMA FeedStep ==
  ASSUME TypeOK, FeedInv, Patient, [Next]_vars
  PROVE  FeedInv'
<1> DEFINE T == {Sub, Unsub} \cup Version
           L == IF mark THEN Sub ELSE Unsub
<1> USE DEF FeedInv, Words
<1>0. toRedis \in Seq({Sub, Unsub}) /\ fromRedis \in Seq(T) /\ db \in Version
      /\ mark \in BOOLEAN /\ subscribed \in BOOLEAN /\ listening \in BOOLEAN
  BY DEF TypeOK
<1>1. CASE Publish
  <2>1. db \notin {Sub, Unsub} /\ db \in T
    BY <1>0, WordsAreNoVersions
  <2>2. /\ Wordless(fromRedis') <=> Wordless(fromRedis)
        /\ \A w \in {Sub, Unsub} : EndsIn(fromRedis', w) <=> EndsIn(fromRedis, w)
    BY <1>0, <1>1, <2>1, QueueAppend DEF Publish
  <2>3. UNCHANGED <<room, mark, subscribed, listening, toRedis>>
    BY <1>1 DEF Publish, member
  <2>4. QED
    BY <2>2, <2>3 DEF Silent, LastWord
<1>2. ASSUME NEW c \in Clients, Join(c) PROVE FeedInv'
  <2>1. room' # {} /\ mark' = TRUE /\ UNCHANGED <<subscribed, listening, fromRedis>>
    BY <1>2 DEF Join
  <2>2. CASE mark
    BY <1>2, <2>1, <2>2 DEF Join, Silent, LastWord
  <2>3. CASE ~mark
    <3>1. ~EndsIn(toRedis, Unsub) /\ ~EndsIn(fromRedis, Unsub)
      BY <1>2 DEF Join, Unanswered, Contains, EndsIn
    <3>2. Silent /\ ~listening
      BY <2>3, <3>1 DEF LastWord
    <3>3. toRedis' = Append(toRedis, Sub)
      BY <1>2, <2>3, <3>2 DEF Join
    <3>4. ~Wordless(toRedis') /\ EndsIn(toRedis', Sub)
      BY <1>0, <3>3, QueueAppend
    <3>5. QED
      BY <2>1, <3>4 DEF Silent, LastWord
  <2>4. QED
    BY <1>0, <2>2, <2>3
<1>3. ASSUME NEW c \in Clients, Leave(c) PROVE FeedInv'
  <2>1. UNCHANGED <<subscribed, listening, fromRedis>>
    BY <1>3 DEF Leave
  <2>2. CASE room = {c} /\ ~ghosts /\ mark
    <3>1. room' = {} /\ mark' = FALSE /\ toRedis' = Append(toRedis, Unsub)
      BY <1>3, <2>2 DEF Leave
    <3>2. ~Wordless(toRedis') /\ EndsIn(toRedis', Unsub)
      BY <1>0, <3>1, QueueAppend
    <3>3. QED
      BY <2>1, <3>1, <3>2 DEF Silent, LastWord
  <2>3. CASE ~(room = {c} /\ ~ghosts /\ mark)
    <3>1. mark' = mark /\ toRedis' = toRedis /\ (room' # {} => room # {})
      BY <1>0, <1>3, <2>3 DEF Leave
    <3>2. QED
      BY <2>1, <3>1 DEF Silent, LastWord
  <2>4. QED
    BY <2>2, <2>3
<1>4. CASE RedisTakes
  <2> DEFINE h == Head(toRedis)
  <2>1. /\ toRedis # <<>> /\ toRedis' = Tail(toRedis) /\ subscribed' = (h = Sub)
        /\ fromRedis' = Append(fromRedis, h) /\ UNCHANGED <<room, mark, listening>>
    BY <1>4 DEF RedisTakes, member
  <2>2. /\ h \in {Sub, Unsub} /\ h \in T
        /\ \A w \in {Sub, Unsub} :
             EndsIn(toRedis, w) <=> EndsIn(toRedis', w) \/ (Wordless(toRedis') /\ h = w)
    BY <1>0, <2>1, QueueTail
  <2>3. ~Silent /\ ~Wordless(toRedis)
    BY <2>1, CommandsAreWords DEF Silent
  <2>4. EndsIn(toRedis, L)
    BY <2>3 DEF LastWord
  <2>5. ~Wordless(fromRedis') /\ \A w \in {Sub, Unsub} : EndsIn(fromRedis', w) <=> w = h
    BY <1>0, <2>1, <2>2, QueueAppend
  <2>6. LastWord(L)'
    BY <2>1, <2>2, <2>4, <2>5 DEF LastWord
  <2>7. QED
    BY <2>1, <2>5, <2>6 DEF Silent
<1>5. CASE Deliver
  <2> DEFINE h == Head(fromRedis)
  <2>1. /\ fromRedis # <<>> /\ fromRedis' = Tail(fromRedis)
        /\ UNCHANGED <<room, mark, subscribed, toRedis>>
        /\ listening' = IF h \in {Sub, Unsub} THEN h = Sub ELSE listening
    BY <1>5 DEF Deliver, member
  <2>2. /\ Wordless(fromRedis) <=> Wordless(fromRedis') /\ h \notin {Sub, Unsub}
        /\ \A w \in {Sub, Unsub} :
             EndsIn(fromRedis, w) <=> EndsIn(fromRedis', w) \/ (Wordless(fromRedis') /\ h = w)
    BY <1>0, <2>1, QueueTail
  <2>3. \A w \in Words : EndsIn(fromRedis', w) => subscribed' = (w = Sub)
    BY <2>1, <2>2
  <2>4. CASE Silent
    BY <2>1, <2>2, <2>3, <2>4 DEF Silent
  <2>5. CASE ~Silent /\ ~Silent'
    <3>1. LastWord(L)'
      BY <2>1, <2>2, <2>5 DEF LastWord, Silent
    <3>2. QED
      BY <2>1, <2>3, <2>5, <3>1
  <2>6. CASE ~Silent /\ Silent'
    <3>1. ~EndsIn(toRedis, L) /\ ~EndsIn(fromRedis', L)
      BY <2>1, <2>6 DEF Silent, Wordless, EndsIn
    <3>2. EndsIn(fromRedis, L) /\ h = L
      BY <2>2, <2>6, <3>1 DEF LastWord
    <3>3. subscribed' = mark' /\ listening' = mark'
      BY <1>0, <2>1, <3>2, VersionAssumption
    <3>4. QED
      BY <2>1, <2>3, <2>6, <3>3
  <2>7. QED
    BY <2>4, <2>5, <2>6
<1>6. CASE /\ UNCHANGED <<mark, subscribed, listening, toRedis, fromRedis>>
           /\ room' \subseteq room
  BY <1>6 DEF Silent, LastWord
<1>7. ASSUME NEW c \in Clients, Query(c) \/ Fill(c) \/ Drop(c) PROVE FeedInv'
  BY <1>6, <1>7 DEF Query, Fill, Drop, member, wire
<1>8. QED
  BY <1>1, <1>2, <1>3, <1>4, <1>5, <1>6, <1>7
     DEF Next, vars, Commit, PublishFails, Lookup, Expires, OpenStream, CloseStream, member, wire

LEMMA FeedInvariant ==
  ASSUME Patient
  PROVE  Spec => [](TypeOK /\ FeedInv)
<1>1. Init => FeedInv
  <2> SUFFICES ASSUME Init PROVE FeedInv
    OBVIOUS
  <2>1. Silent /\ \A w \in Words : ~EndsIn(fromRedis, w)
    BY EmptySeq DEF Init, Silent, Wordless, EndsIn
  <2>2. QED
    BY <2>1 DEF Init, FeedInv
<1>2. TypeOK /\ FeedInv /\ [Next]_vars => FeedInv'
  BY FeedStep
<1>3. QED
  BY <1>1, <1>2, FeedTypes, PTL DEF Spec

(* While a socket is in the room Redis sends the channel and the client    *)
(* listens, or the last word on its way sees to it: the subscriptions of   *)
(* event-service.js are not lost by any order of leaving, dropping,        *)
(* joining and answering, if a page that joins waits for the answer to an  *)
(* UNSUBSCRIBE that is on its way.                                         *)
THEOREM RoomsHaveFeed ==
  ASSUME Patient
  PROVE  Spec => []RoomHasFeed
<1>1. FeedInv => RoomHasFeed
  BY DEF FeedInv, RoomHasFeed
<1>2. QED
  BY <1>1, FeedInvariant, PTL
=============================================================================
