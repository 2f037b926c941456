--------------------------- MODULE QueueAdmission ---------------------------
(***************************************************************************)
(* The waiting queue of one event: a Redis sorted set of users scored by   *)
(* the time they joined.  Whoever is first gets an access token, and only  *)
(* through a stream of its own (GET /queue/sse).                           *)
(*                                                                         *)
(* A step is one Redis command, the reading of the clock before ZADD, or   *)
(* an event of a connection: handlers of different processes come between  *)
(* any two of them.  Clocks of processes agree and never give one time     *)
(* twice.  The size of the queue, which is displayed and logged, and the   *)
(* position in the queue token, which nobody reads, are left out.          *)
(***************************************************************************)
EXTENDS Naturals, FiniteSets

CONSTANTS
  Users,
  Joins,      \* requests POST /queue/join that can be served at once
  Streams,    \* connections GET /queue/sse that can be open at once
  MaxTime,    \* bound on the readings of the clock
  TwoJoins,   \* may a user have two join requests under way?
  Faults,     \* "crash", "ttl": processes die, the key of the queue expires
  NoUser

ASSUME NoUserAssumption  == NoUser \notin Users
ASSUME MaxTimeAssumption == MaxTime \in Nat
ASSUME FaultsAssumption  == TwoJoins \in BOOLEAN /\ Faults \subseteq {"crash", "ttl"}

VARIABLES
  score,    \* queue:{event_id}: each user's score, 0 for a user who is not in it
  clock,    \* the last time.time() a join has read
  join,     \* the join requests
  stream,   \* the streams
  ticket,   \* users whose browser has a queue token
  joined,   \* how often each user was added to the queue
  admitted, \* how many access tokens were issued to each user
  before    \* for each user in the queue, those who were in it when the user's
            \* time was read and have not left since

vars == <<score, clock, join, stream, ticket, joined, admitted, before>>

Joining(u, p) == [at |-> p, user |-> u, time |-> 0, before |-> {}]
NoJoin   == Joining(NoUser, "idle")
NoStream == [at |-> "off", user |-> NoUser, open |-> FALSE, token |-> FALSE]

TypeOK ==
  /\ clock \in Nat
  /\ score \in [Users -> 0..clock]
  /\ join \in [Joins -> [at : {"idle", "read", "add", "rank", "answer"}, time : 0..clock,
                         user : Users \cup {NoUser}, before : SUBSET Users]]
  /\ stream \in [Streams -> [at : {"off", "look", "consume", "send"}, open : BOOLEAN,
                             user : Users \cup {NoUser}, token : BOOLEAN]]
  /\ ticket \in SUBSET Users
  /\ joined \in [Users -> Nat]
  /\ admitted \in [Users -> Nat]
  /\ before \in [Users -> SUBSET Users]

Init ==
  /\ score    = [u \in Users |-> 0]
  /\ clock    = 0
  /\ join     = [j \in Joins |-> NoJoin]
  /\ stream   = [s \in Streams |-> NoStream]
  /\ ticket   = {}
  /\ joined   = [u \in Users |-> 0]
  /\ admitted = [u \in Users |-> 0]
  /\ before   = [u \in Users |-> {}]

-----------------------------------------------------------------------------

Queued == {u \in Users : score[u] # 0}

\* mutant: rank 0 is read as no rank
FirstMissed(u) == u \in Queued /\ Cardinality({v \in Queued : score[v] < score[u]}) = 1

\* ZRANK is 0, position 1
First(u) == u \in Queued /\ \A v \in Queued : score[u] <= score[v]

\* ZREM of the users U
Remove(U) ==
  /\ score'  = [u \in Users |-> IF u \in U THEN 0 ELSE score[u]]
  /\ before' = [u \in Users |-> IF u \in U THEN {} ELSE before[u] \ U]
  /\ join'   = [j \in Joins |-> [join[j] EXCEPT !.before = @ \ U]]

-----------------------------------------------------------------------------
(* join_queue: ZRANK, then for a new user ZADD with EXPIRE and ZRANK.      *)

\* mutant: every join is added, the rank is not asked for
StartJoinAlways(j, u) ==
  /\ join[j].at = "idle"
  /\ TwoJoins \/ \A k \in Joins : join[k].user # u
  /\ join' = [join EXCEPT ![j] = Joining(u, "read")]
  /\ UNCHANGED <<score, clock, stream, ticket, joined, admitted, before>>

StartJoin(j, u) ==
  /\ join[j].at = "idle"
  /\ TwoJoins \/ \A k \in Joins : join[k].user # u
  /\ join' = [join EXCEPT ![j] = Joining(u, IF u \in Queued THEN "answer" ELSE "read")]
  /\ UNCHANGED <<score, clock, stream, ticket, joined, admitted, before>>

\* mutant: the reading is rounded up
ReadClockAhead(j) ==
  /\ join[j].at = "read"
  /\ clock < MaxTime
  /\ join' = [join EXCEPT ![j].at = "add", ![j].time = clock + 1,
                          ![j].before = Queued \ {join[j].user}]
  /\ UNCHANGED <<score, clock, stream, ticket, joined, admitted, before>>

ReadClock(j) ==
  /\ join[j].at = "read"
  /\ clock < MaxTime
  /\ clock' = clock + 1
  /\ join' = [join EXCEPT ![j].at = "add", ![j].time = clock + 1,
                          ![j].before = Queued \ {join[j].user}]
  /\ UNCHANGED <<score, stream, ticket, joined, admitted, before>>

Add(j) ==
  LET u == join[j].user IN
  /\ join[j].at = "add"
  /\ score'  = [score EXCEPT ![u] = join[j].time]
  /\ joined' = [joined EXCEPT ![u] = IF u \in Queued THEN @ ELSE @ + 1]
  /\ before' = [before EXCEPT ![u] = IF u \in Queued THEN @ ELSE join[j].before]
  /\ join'   = [join EXCEPT ![j] = Joining(u, "rank")]
  /\ UNCHANGED <<clock, stream, ticket, admitted>>

\* a position of None does not fit QueueJoinResponse: the request fails
Rank(j) ==
  /\ join[j].at = "rank"
  /\ join' = [join EXCEPT ![j] = IF @.user \in Queued THEN [@ EXCEPT !.at = "answer"] ELSE NoJoin]
  /\ UNCHANGED <<score, clock, stream, ticket, joined, admitted, before>>

Answer(j) ==
  /\ join[j].at = "answer"
  /\ ticket' = ticket \cup {join[j].user}
  /\ join' = [join EXCEPT ![j] = NoJoin]
  /\ UNCHANGED <<score, clock, stream, joined, admitted, before>>

\* DELETE /queue/leave
Leave(u) ==
  /\ u \in ticket \cap Queued
  /\ Remove({u})
  /\ UNCHANGED <<clock, stream, ticket, joined, admitted>>

-----------------------------------------------------------------------------
(* event_stream: every two seconds, until it has something final to say.   *)

OpenStream(s, u) ==
  /\ stream[s].at = "off"
  /\ u \in ticket
  /\ stream' = [stream EXCEPT ![s] = [NoStream EXCEPT !.at = "look", !.user = u, !.open = TRUE]]
  /\ UNCHANGED <<score, clock, join, ticket, joined, admitted, before>>

\* the loop: disconnected or not in the queue ends it, a position behind the first
\* is reported and asked for again
Look(s) ==
  LET u == stream[s].user IN
  /\ stream[s].at = "look"
  /\ stream' = [stream EXCEPT ![s] =
       IF ~stream[s].open \/ u \notin Queued THEN NoStream
       ELSE IF First(u) THEN [@ EXCEPT !.at = "consume"] ELSE @]
  /\ UNCHANGED <<score, clock, join, ticket, joined, admitted, before>>

\* mutant: ZREM without asking for the rank again
ConsumeAny(s) ==
  LET u == stream[s].user IN
  /\ stream[s].at = "consume"
  /\ Remove({u})
  /\ admitted' = [admitted EXCEPT ![u] = @ + 1]
  /\ stream' = [stream EXCEPT ![s].at = "send", ![s].token = TRUE]
  /\ UNCHANGED <<clock, ticket, joined>>

\* the Lua script of consume_from_queue_atomic, then the access token
Consume(s) ==
  LET u == stream[s].user IN
  /\ stream[s].at = "consume"
  /\ IF First(u)
     THEN /\ Remove({u})
          /\ admitted' = [admitted EXCEPT ![u] = @ + 1]
          /\ stream' = [stream EXCEPT ![s].at = "send", ![s].token = TRUE]
     ELSE /\ stream' = [stream EXCEPT ![s].at = "send"]
          /\ UNCHANGED <<score, before, join, admitted>>
  /\ UNCHANGED <<clock, ticket, joined>>

\* "ready", with the token or with null; nobody may be listening any more
Send(s) ==
  /\ stream[s].at = "send"
  /\ stream' = [stream EXCEPT ![s] = NoStream]
  /\ UNCHANGED <<score, clock, join, ticket, joined, admitted, before>>

Disconnect(s) ==
  /\ stream[s].open
  /\ stream' = [stream EXCEPT ![s].open = FALSE]
  /\ UNCHANGED <<score, clock, join, ticket, joined, admitted, before>>

-----------------------------------------------------------------------------
(* Faults.                                                                 *)

\* a process dies, or a Redis command raises, and the request or stream ends
CrashJoin(j) ==
  /\ "crash" \in Faults
  /\ join[j].at # "idle"
  /\ join' = [join EXCEPT ![j] = NoJoin]
  /\ UNCHANGED <<score, clock, stream, ticket, joined, admitted, before>>

CrashStream(s) ==
  /\ "crash" \in Faults
  /\ stream[s].at # "off"
  /\ stream' = [stream EXCEPT ![s] = NoStream]
  /\ UNCHANGED <<score, clock, join, ticket, joined, admitted, before>>

\* QUEUE_TTL has passed since the last join; how long that is does not matter here
KeyExpires ==
  /\ "ttl" \in Faults
  /\ Queued # {}
  /\ Remove(Users)
  /\ UNCHANGED <<clock, stream, ticket, joined, admitted>>

-----------------------------------------------------------------------------

JoinStep(j)   == ReadClock(j) \/ Add(j) \/ Rank(j) \/ Answer(j)
StreamStep(s) == Look(s) \/ Consume(s) \/ Send(s)

Next ==
  \/ \E j \in Joins : JoinStep(j) \/ CrashJoin(j) \/ \E u \in Users : StartJoin(j, u)
  \/ \E s \in Streams : \/ StreamStep(s) \/ Disconnect(s) \/ CrashStream(s)
                        \/ \E u \in Users : OpenStream(s, u)
  \/ \E u \in Users : Leave(u)
  \/ KeyExpires

Spec == Init /\ [][Next]_vars

\* the loop of a stream goes on; browsers, requests and faults owe nothing
FairSpec == Spec /\ \A s \in Streams : WF_vars(StreamStep(s))

-----------------------------------------------------------------------------
(* Properties.                                                             *)

\* Nobody is admitted while someone waits who was in the queue before this user's
\* join had even read the clock (add_to_queue, consume_from_queue_atomic).
FirstComeFirstServed ==
  [][\A u \in Users : admitted'[u] # admitted[u] => before[u] = {}]_vars

\* One access token at most for each time a user was added to the queue, whatever
\* streams, processes and reconnects compete for it (consume_token).
OneTokenPerPlace == \A u \in Users : admitted[u] <= joined[u]

\* A stream says "ready" only to a user who is through: with the access token, or
\* admitted by another stream (queue_sse: at position 1 issue the token and end).
ReadyIsThrough ==
  \A s \in Streams :
    stream[s].at = "send" => stream[s].token \/ stream[s].user \notin Queued

\* From some point on every user has a stream that stays open while it waits.
Attended ==
  \A u \in Users : \E s \in Streams :
    <>[](u \in Queued => stream[s].user = u /\ stream[s].open)

\* Then the queue moves: nobody stays in it for ever.  Without it the queue stands,
\* since only the first user's own stream can admit the first user.
QueueMoves == Attended => \A u \in Users : u \in Queued ~> u \notin Queued
=============================================================================
