------------------------------ MODULE SeatFeed ------------------------------
(***************************************************************************)
(* How a change of an event's seats reaches its readers: the cached seat    *)
(* lists of core-api and the live feed of one websocket-service replica     *)
(* (replicas share nothing).                                               *)
(*                                                                         *)
(* The seats of the event are a version number that every commit raises.   *)
(* The replica runs on one thread: a handler is one step.  Its Redis        *)
(* connection answers commands and brings messages in one order.           *)
(***************************************************************************)
EXTENDS Naturals, Sequences, SequencesExt

CONSTANTS
  Clients,     \* pages that ask for a seat list and may subscribe with a socket
  Streams,     \* pages that listen with server-sent events instead
  Keys,        \* cache:seats:{event_id}, cache:available-seats:{event_id}
  MaxVersion,  \* bound on the number of commits
  Patient,     \* does a subscription wait until an UNSUBSCRIBE is answered?
  Faults,      \* the faults that occur: "redis", "drop"
  Sub, Unsub,  \* the commands to Redis, and its answers to them
  None

ASSUME VersionAssumption ==
  MaxVersion \in Nat /\ {Sub, Unsub, None} \cap Nat = {} /\ Sub # Unsub

VARIABLES
  db,          \* the committed version
  unsent,      \* has a worker committed db and not yet published it?
  lost,        \* the versions whose publish failed
  cache,       \* the cached list under each key, or None
  read,        \* the request of each page
  view,        \* the version each page shows
  room,        \* sockets in the room of the event
  ghosts,      \* does the subscriber set hold sockets that are gone?
  open,        \* the streams that are connected
  sse,         \* sseClients of the event: where messages are fanned out to
  heard,       \* the last version a stream was sent, 0 for none
  mark,        \* is the channel in subscribedChannels?
  listening,   \* has the Redis client a listener for the channel?
  subscribed,  \* does Redis send the channel to the replica?
  toRedis, fromRedis  \* the replica's connection to Redis

server == <<db, unsent, lost>>
lists  == <<cache, read>>
member == <<room, ghosts, mark>>
streams == <<open, sse, heard>>
wire   == <<listening, subscribed, toRedis, fromRedis>>
vars   == <<server, lists, view, member, streams, wire>>

Version == 0..MaxVersion
Idle == [at |-> "idle", key |-> None, seen |-> 0]

TypeOK ==
  /\ db \in Version /\ unsent \in BOOLEAN /\ lost \in SUBSET Version
  /\ cache \in [Keys -> Version \cup {None}]
  /\ read \in [Clients ->
                   [at : {"idle", "query", "fill", "listed"}, key : Keys \cup {None}, seen : Version]]
  /\ view \in [Clients -> Version]
  /\ open \in SUBSET Streams /\ sse \in SUBSET Streams
  /\ heard \in [Streams -> Version]
  /\ room \in SUBSET Clients /\ ghosts \in BOOLEAN /\ mark \in BOOLEAN
  /\ listening \in BOOLEAN /\ subscribed \in BOOLEAN
  /\ toRedis \in Seq({Sub, Unsub})
  /\ fromRedis \in Seq({Sub, Unsub} \cup Version)

Init ==
  /\ db = 0 /\ unsent = FALSE /\ lost = {}
  /\ cache = [k \in Keys |-> None]
  /\ read = [r \in Clients |-> Idle]
  /\ view = [c \in Clients |-> 0]
  /\ open = {} /\ sse = {} /\ heard = [s \in Streams |-> 0]
  /\ room = {} /\ ghosts = FALSE /\ mark = FALSE
  /\ listening = FALSE /\ subscribed = FALSE
  /\ toRedis = <<>> /\ fromRedis = <<>>

-----------------------------------------------------------------------------
(* The writing side: reservation_service, one worker at a time under the    *)
(* event lock.                                                             *)

Commit ==
  /\ db < MaxVersion /\ ~unsent
  /\ db' = db + 1 /\ unsent' = TRUE
  /\ UNCHANGED <<lost, lists, view, member, streams, wire>>

\* one transaction deletes the cached lists and publishes
Publish ==
  /\ unsent /\ unsent' = FALSE
  /\ cache' = [k \in Keys |-> None]
  /\ fromRedis' = IF subscribed THEN Append(fromRedis, db) ELSE fromRedis
  /\ UNCHANGED <<db, lost, read, view, member, streams, listening, subscribed, toRedis>>

\* Redis fails or the worker dies: neither happens, and nobody tries again
PublishFails ==
  /\ "redis" \in Faults
  /\ unsent /\ unsent' = FALSE
  /\ lost' = lost \cup {db}
  /\ UNCHANGED <<db, lists, view, member, streams, wire>>

-----------------------------------------------------------------------------
(* The seat list endpoints; a page shows what it has read.                 *)

Answer(c, n) ==
  /\ read' = [read EXCEPT ![c] = [Idle EXCEPT !.at = "listed"]]
  /\ view' = [view EXCEPT ![c] = n]

\* mutant: the cached value is answered without looking whether there is one
LookupBlind(c, k) ==
  /\ read[c].at \in {"idle", "listed"}
  /\ Answer(c, cache[k])
  /\ UNCHANGED <<server, cache, member, streams, wire>>

Lookup(c, k) ==
  /\ read[c].at \in {"idle", "listed"}
  /\ IF cache[k] # None
     THEN Answer(c, cache[k])
     ELSE read' = [read EXCEPT ![c] = [at |-> "query", key |-> k, seen |-> 0]]
          /\ UNCHANGED view
  /\ UNCHANGED <<server, cache, member, streams, wire>>

Query(c) ==
  /\ read[c].at = "query"
  /\ read' = [read EXCEPT ![c].at = "fill", ![c].seen = db]
  /\ UNCHANGED <<server, cache, view, member, streams, wire>>

\* the list read earlier is stored whatever has been committed since
Fill(c) ==
  /\ read[c].at = "fill"
  /\ cache' = [cache EXCEPT ![read[c].key] = read[c].seen]
  /\ Answer(c, read[c].seen)
  /\ UNCHANGED <<server, member, streams, wire>>

\* mutant: SET without EX
Stays(k) == cache[k] # None /\ UNCHANGED vars

\* SEAT_CACHE_TTL ends
Expires(k) ==
  /\ cache[k] # None
  /\ cache' = [cache EXCEPT ![k] = None]
  /\ UNCHANGED <<server, read, view, member, streams, wire>>

-----------------------------------------------------------------------------
(* The replica: rooms, the mark and the Redis subscription.                *)

Unanswered == Contains(toRedis, Unsub) \/ Contains(fromRedis, Unsub)

\* subscribe_event: both handlers.  The Redis client sends no command for a channel
\* it still has a listener for
Join(c) ==
  /\ read[c].at = "listed" /\ c \notin room
  /\ ~Patient \/ ~Unanswered
  /\ room' = room \cup {c}
  /\ mark' = TRUE
  /\ toRedis' = IF mark \/ listening THEN toRedis ELSE Append(toRedis, Sub)
  /\ UNCHANGED <<server, lists, view, streams, ghosts, listening, subscribed, fromRedis>>

\* mutant: the channel stays marked as subscribed
LeaveMarked(c) ==
  LET empty == room = {c} /\ ~ghosts IN
  /\ c \in room
  /\ room' = room \ {c}
  /\ toRedis' = IF empty THEN Append(toRedis, Unsub) ELSE toRedis
  /\ UNCHANGED <<server, lists, view, streams, ghosts, mark, listening, subscribed, fromRedis>>

\* mutant: the feed ends with the first who leaves
LeaveFirst(c) ==
  /\ c \in room /\ mark
  /\ room' = room \ {c}
  /\ mark' = FALSE
  /\ toRedis' = Append(toRedis, Unsub)
  /\ UNCHANGED <<server, lists, view, streams, ghosts, listening, subscribed, fromRedis>>

\* unsubscribe_event: the last subscriber takes the subscription along
Leave(c) ==
  LET empty == room = {c} /\ ~ghosts IN
  /\ c \in room
  /\ room' = room \ {c}
  /\ mark' = (mark /\ ~empty)
  /\ toRedis' = IF empty /\ mark THEN Append(toRedis, Unsub) ELSE toRedis
  /\ UNCHANGED <<server, lists, view, streams, ghosts, listening, subscribed, fromRedis>>

\* a socket is lost: it leaves the room, and its id stays in the subscriber set.
\* The page reconnects with a new socket and subscribes, without a new list
Drop(c) ==
  /\ "drop" \in Faults
  /\ c \in room
  /\ room' = room \ {c}
  /\ ghosts' = TRUE
  /\ UNCHANGED <<server, lists, view, streams, mark, wire>>

(* The streams of sse-routes.js.  They have no subscription of their own.   *)

OpenStream(s) ==
  /\ s \notin open
  /\ open' = open \cup {s} /\ sse' = sse \cup {s}
  /\ heard' = [heard EXCEPT ![s] = 0]
  /\ UNCHANGED <<server, lists, view, member, wire>>

CloseStream(s) ==
  /\ s \in open
  /\ open' = open \ {s} /\ sse' = sse \ {s}
  /\ heard' = [heard EXCEPT ![s] = 0]
  /\ UNCHANGED <<server, lists, view, member, wire>>

-----------------------------------------------------------------------------
(* The replica's connection to Redis.                                      *)

RedisTakes ==
  /\ toRedis # <<>>
  /\ toRedis' = Tail(toRedis)
  /\ subscribed' = (Head(toRedis) = Sub)
  /\ fromRedis' = Append(fromRedis, Head(toRedis))
  /\ UNCHANGED <<server, lists, view, member, streams, listening>>

ToRoom(m) ==
  view' = [c \in Clients |-> IF c \in room /\ read[c].at = "listed" THEN m ELSE view[c]]

ToStreams(m) == heard' = [s \in Streams |-> IF s \in sse THEN m ELSE heard[s]]

\* an answer, or a message that is sent to the room and to the streams
Deliver ==
  /\ fromRedis # <<>>
  /\ fromRedis' = Tail(fromRedis)
  /\ LET m == Head(fromRedis) IN
       IF m \in {Sub, Unsub}
       THEN listening' = (m = Sub) /\ UNCHANGED <<view, heard>>
       ELSE /\ IF listening THEN ToRoom(m) /\ ToStreams(m) ELSE UNCHANGED <<view, heard>>
            /\ UNCHANGED listening
  /\ UNCHANGED <<server, lists, member, open, sse, subscribed, toRedis>>

-----------------------------------------------------------------------------

Next ==
  \/ Commit \/ Publish \/ PublishFails
  \/ \E c \in Clients, k \in Keys : Lookup(c, k)
  \/ \E c \in Clients : Query(c) \/ Fill(c) \/ Join(c) \/ Leave(c) \/ Drop(c)
  \/ \E k \in Keys : Expires(k)
  \/ \E s \in Streams : OpenStream(s) \/ CloseStream(s)
  \/ RedisTakes \/ Deliver

(* A worker that has committed goes on to publish, a request that has begun is *)
(* answered, Redis ends keys and serves its connections.                       *)
Fairness ==
  /\ WF_vars(Publish)
  /\ \A c \in Clients : WF_vars(Query(c)) /\ WF_vars(Fill(c))
  /\ \A k \in Keys : WF_vars(Expires(k))
  /\ WF_vars(RedisTakes) /\ WF_vars(Deliver)

Spec == Init /\ [][Next]_vars /\ Fairness

-----------------------------------------------------------------------------
(* Properties.                                                             *)

Live(c) == c \in room /\ read[c].at = "listed"
Fed == subscribed /\ listening /\ toRedis = <<>>

\* A stale list, stored by a request that had queried before the commit or left by a
\* publish that failed, does not stay: once the seats no longer change, the caches
\* end up empty or current.
CacheCatchesUp ==
  \A k \in Keys, n \in Version : <>[](db = n) => <>[](cache[k] \in {None, n})

\* the last command or answer in a queue, and in the two together: what Redis has sent
\* takes effect before what it has still to take
EndsIn(q, w) ==
  \E i \in 1..Len(q) : q[i] = w /\ \A j \in (i + 1)..Len(q) : q[j] \notin {Sub, Unsub}
Wordless(q) == \A i \in 1..Len(q) : q[i] \notin {Sub, Unsub}
LastWord(w) == EndsIn(toRedis, w) \/ (Wordless(toRedis) /\ EndsIn(fromRedis, w))
Silent == Wordless(toRedis) /\ Wordless(fromRedis)

\* While a socket is in the room, Redis sends the channel and the client listens, or
\* the last word on its way sees to it: no leaving and joining loses the feed.
RoomHasFeed ==
  room # {} => mark /\ IF Silent THEN subscribed /\ listening ELSE LastWord(Sub)

\* A change that is committed while a page is live and fed appears on the page, unless
\* the publish failed or the page is no longer live; who else leaves or drops does not
\* matter.
LiveSeesChange ==
  \A c \in Clients, n \in Version :
    (db = n /\ unsent /\ Live(c) /\ Fed) ~> (view[c] >= n \/ ~Live(c) \/ n \in lost)

\* "The same seat updates as the WebSocket" (sse-routes.js): while sockets are in the
\* room, a stream that is open is sent every change that is published, whichever sockets
\* leave or drop.
StreamSeesChange ==
  \A s \in Streams, n \in Version :
    (db = n /\ unsent /\ s \in open /\ room # {} /\ Fed)
      ~> (heard[s] >= n \/ s \notin open \/ room = {} \/ n \in lost)
=============================================================================
