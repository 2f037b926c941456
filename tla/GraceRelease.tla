---------------------------- MODULE GraceRelease ----------------------------
(***************************************************************************)
(* Grace timers of websocket-service (socket-service.js): when the last     *)
(* socket of a user is gone for a while, core-api is asked to release the   *)
(* user's holds (the request is StartRelease of module Reservation).       *)
(*                                                                         *)
(* Each replica is one thread with counts and timers of its own.  A timer   *)
(* that the map pendingReleases does not know any more cannot be cancelled. *)
(***************************************************************************)
EXTENDS Naturals, Sequences, FiniteSets

CONSTANTS
  Replicas, Users, Sockets,
  UserOf,   \* the user whose token a socket brings
  Reach,    \* the replicas at which the sockets of a user arrive
  Grace,    \* DISCONNECT_GRACE_MS, in ticks
  Faults,   \* the faults that occur: "call", "stop"
  Nowhere

ASSUME SocketsAssumption ==
  /\ IsFiniteSet(Sockets)
  /\ UserOf \in [Sockets -> Users]
  /\ Reach \in [Users -> SUBSET Replicas]
  /\ Nowhere \notin Replicas
  /\ Grace \in Nat \ {0}

VARIABLES
  on,      \* the replica a socket is connected to, or Nowhere
  count,   \* userSocketCount of each replica; 0 stands for no entry
  armed,   \* the timers of a user that run: the ticks left, oldest first
  known,   \* has pendingReleases an entry for the user?  Then it is the newest timer
  calls,   \* release requests on their way: <<replica, user>>
  holding, \* the users with seats on hold
  away,    \* ticks since the last socket of a user has gone, up to Grace
  failed   \* the users whose last timer or request was lost

vars  == <<on, count, armed, known, calls, holding, away, failed>>
local == <<on, count, armed, known>>

TypeOK ==
  /\ on \in [Sockets -> Replicas \cup {Nowhere}]
  /\ count \in [Replicas -> [Users -> Nat]]
  /\ armed \in [Replicas -> [Users -> Seq(0..Grace)]]
  /\ known \in [Replicas -> [Users -> BOOLEAN]]
  /\ calls \in SUBSET (Replicas \X Users)
  /\ holding \in SUBSET Users
  /\ away \in [Users -> 0..Grace]
  /\ failed \in SUBSET Users

Init ==
  /\ on = [s \in Sockets |-> Nowhere]
  /\ count = [r \in Replicas |-> [u \in Users |-> 0]]
  /\ armed = [r \in Replicas |-> [u \in Users |-> <<>>]]
  /\ known = [r \in Replicas |-> [u \in Users |-> FALSE]]
  /\ calls = {} /\ holding = {} /\ failed = {}
  /\ away = [u \in Users |-> Grace]

At(r, u)   == {s \in Sockets : on[s] = r /\ UserOf[s] = u}
Present(u) == \E s \in Sockets : UserOf[s] = u /\ on[s] # Nowhere

-----------------------------------------------------------------------------

\* mutant: a reconnect does not cancel the timer
ConnectOnly(s, r) ==
  LET u == UserOf[s] IN
  /\ on[s] = Nowhere /\ r \in Reach[u]
  /\ on' = [on EXCEPT ![s] = r]
  /\ count' = [count EXCEPT ![r][u] = @ + 1]
  /\ away' = [away EXCEPT ![u] = 0]
  /\ failed' = failed \ {u}
  /\ UNCHANGED <<armed, known, calls, holding>>

\* handleConnection: count the socket and cancel the timer the map knows
Connect(s, r) ==
  LET u == UserOf[s] IN
  /\ on[s] = Nowhere /\ r \in Reach[u]
  /\ on' = [on EXCEPT ![s] = r]
  /\ count' = [count EXCEPT ![r][u] = @ + 1]
  /\ armed' = IF known[r][u] THEN [armed EXCEPT ![r][u] = SubSeq(@, 1, Len(@) - 1)] ELSE armed
  /\ known' = [known EXCEPT ![r][u] = FALSE]
  /\ away' = [away EXCEPT ![u] = 0]
  /\ failed' = failed \ {u}
  /\ UNCHANGED <<calls, holding>>

\* mutant: every socket that goes starts a timer
DisconnectAny(s) ==
  LET r == on[s]  u == UserOf[s] IN
  /\ r # Nowhere
  /\ on' = [on EXCEPT ![s] = Nowhere]
  /\ count' = [count EXCEPT ![r][u] = @ - 1]
  /\ armed' = [armed EXCEPT ![r][u] = Append(@, Grace)]
  /\ known' = [known EXCEPT ![r][u] = TRUE]
  /\ UNCHANGED <<calls, holding, away, failed>>

\* handleDisconnection: the last socket of the user at this replica starts a timer
Disconnect(s) ==
  LET r == on[s]
      u == UserOf[s]
      last == count[r][u] <= 1
  IN
  /\ r # Nowhere
  /\ on' = [on EXCEPT ![s] = Nowhere]
  /\ count' = [count EXCEPT ![r][u] = IF last THEN 0 ELSE @ - 1]
  /\ armed' = IF last THEN [armed EXCEPT ![r][u] = Append(@, Grace)] ELSE armed
  /\ known' = [known EXCEPT ![r][u] = @ \/ last]
  /\ UNCHANGED <<calls, holding, away, failed>>

\* mutant: the timer is lost
FireNot(r, u) ==
  /\ armed[r][u] # <<>> /\ Head(armed[r][u]) = 0
  /\ armed' = [armed EXCEPT ![r][u] = Tail(@)]
  /\ known' = [known EXCEPT ![r][u] = FALSE]
  /\ UNCHANGED <<on, count, calls, holding, away, failed>>

\* _releaseUserHolds up to the request
Fire(r, u) ==
  /\ armed[r][u] # <<>> /\ Head(armed[r][u]) = 0
  /\ armed' = [armed EXCEPT ![r][u] = Tail(@)]
  /\ known' = [known EXCEPT ![r][u] = FALSE]
  /\ calls' = calls \cup {<<r, u>>}
  /\ UNCHANGED <<on, count, holding, away, failed>>

\* core-api releases the holds ...
CallRuns(r, u) ==
  /\ <<r, u>> \in calls
  /\ calls' = calls \ {<<r, u>>}
  /\ holding' = holding \ {u}
  /\ UNCHANGED <<local, away, failed>>

\* ... or the request fails, or releases nothing, and is not made again
CallFails(r, u) ==
  /\ "call" \in Faults
  /\ <<r, u>> \in calls
  /\ calls' = calls \ {<<r, u>>}
  /\ failed' = failed \cup {u}
  /\ UNCHANGED <<local, holding, away>>

\* the replica is stopped or dies: its sockets are closed, counts and timers are gone
Stop(r) ==
  /\ "stop" \in Faults
  /\ on' = [s \in Sockets |-> IF on[s] = r THEN Nowhere ELSE on[s]]
  /\ count' = [count EXCEPT ![r] = [u \in Users |-> 0]]
  /\ armed' = [armed EXCEPT ![r] = [u \in Users |-> <<>>]]
  /\ known' = [known EXCEPT ![r] = [u \in Users |-> FALSE]]
  /\ calls' = {c \in calls : c[1] # r}
  /\ failed' = failed \cup {u \in Users : armed[r][u] # <<>> \/ <<r, u>> \in calls}
  /\ UNCHANGED <<holding, away>>

\* a user takes seats, from a page whose socket may be anywhere
Hold(u) ==
  /\ u \notin holding
  /\ holding' = holding \cup {u}
  /\ UNCHANGED <<local, calls, away, failed>>

\* a hold ends otherwise: paid, cancelled or expired
HoldEnds(u) ==
  /\ u \in holding
  /\ holding' = holding \ {u}
  /\ UNCHANGED <<local, calls, away, failed>>

\* mutant: a timer that is due counts on
TickOn ==
  /\ armed' = [r \in Replicas |-> [u \in Users |->
                 [i \in 1..Len(armed[r][u]) |-> armed[r][u][i] - 1]]]
  /\ away' = [u \in Users |-> IF Present(u) \/ away[u] = Grace THEN away[u] ELSE away[u] + 1]
  /\ <<armed', away'>> # <<armed, away>>
  /\ UNCHANGED <<on, count, known, calls, holding, failed>>

Tick ==
  /\ armed' = [r \in Replicas |-> [u \in Users |->
                 [i \in 1..Len(armed[r][u]) |-> IF armed[r][u][i] = 0 THEN 0 ELSE armed[r][u][i] - 1]]]
  /\ away' = [u \in Users |-> IF Present(u) \/ away[u] = Grace THEN away[u] ELSE away[u] + 1]
  /\ <<armed', away'>> # <<armed, away>>
  /\ UNCHANGED <<on, count, known, calls, holding, failed>>

Next ==
  \/ \E s \in Sockets, r \in Replicas : Connect(s, r)
  \/ \E s \in Sockets : Disconnect(s)
  \/ \E r \in Replicas, u \in Users : Fire(r, u) \/ CallRuns(r, u) \/ CallFails(r, u)
  \/ \E r \in Replicas : Stop(r)
  \/ \E u \in Users : Hold(u) \/ HoldEnds(u)
  \/ Tick

(* Time goes on, timers fire, and a request ends in one way or the other. *)
Fairness ==
  /\ WF_vars(Tick)
  /\ \A r \in Replicas, u \in Users :
       WF_vars(Fire(r, u)) /\ WF_vars(CallRuns(r, u) \/ CallFails(r, u))

Spec == Init /\ [][Next]_vars
FairSpec == Spec /\ Fairness

-----------------------------------------------------------------------------
(* Properties.                                                             *)

\* The bookkeeping of handleConnection and handleDisconnection: a replica counts
\* exactly the sockets a user has there; a timer runs only while there are none, there
\* is one at most, and it is the one that a reconnect would cancel.
TimersTracked ==
  \A r \in Replicas, u \in Users :
    /\ count[r][u] = Cardinality(At(r, u))
    /\ armed[r][u] # <<>> => Len(armed[r][u]) = 1 /\ known[r][u] /\ count[r][u] = 0
    /\ known[r][u] => armed[r][u] # <<>>

\* A user's holds are given up only after a whole grace period without a socket
\* anywhere, provided that all sockets of a user arrive at one replica.
GraceKept ==
  [][\A r \in Replicas, u \in Users :
       <<r, u>> \in calls' \ calls => away[u] = Grace /\ ~Present(u)]_vars

\* A user who leaves with seats on hold does not keep them: while no socket of the user
\* comes back and no replica or request fails, the timer ends the hold.
AbandonedHoldEnds ==
  \A r \in Replicas, u \in Users :
    (u \in holding /\ armed[r][u] # <<>>)
      ~> (u \notin holding \/ Present(u) \/ u \in failed)
=============================================================================
