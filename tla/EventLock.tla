----------------------------- MODULE EventLock -----------------------------
(***************************************************************************)
(* The lock of one event as the services rely on it: at most one worker    *)
(* enters at a time, unless the lock expires under its owner; an owner     *)
(* that vanishes leaves the lock to nobody until it expires.               *)
(***************************************************************************)
CONSTANTS Workers, Free, Orphan,
          Expirable   \* does the lock expire while its owner is inside?

VARIABLES owner, inside

state == <<owner, inside>>

Init == owner = Free /\ inside = {}

Enter(w) ==
  /\ owner = Free /\ w \notin inside
  /\ owner' = w
  /\ inside' = inside \cup {w}

\* the owner hands the lock back; one that lost it meanwhile takes it from nobody
Leave(w) ==
  /\ w \in inside
  /\ inside' = inside \ {w}
  /\ owner' = IF owner = w THEN Free ELSE owner

\* a crash, or a release that does not reach Redis
Vanish(w) ==
  /\ w \in inside
  /\ inside' = inside \ {w}
  /\ owner' = IF owner = w THEN Orphan ELSE owner

\* the key was set for a worker that never learned of it
Stray == owner = Free /\ owner' = Orphan /\ UNCHANGED inside

Expire ==
  /\ owner # Free
  /\ owner = Orphan \/ Expirable
  /\ owner' = Free
  /\ UNCHANGED inside

Next == (\E w \in Workers : Enter(w) \/ Leave(w) \/ Vanish(w)) \/ Stray \/ Expire

Spec == Init /\ [][Next]_state

\* Unless the lock can expire, whoever is inside owns it, so nobody else is.
Exclusive == ~Expirable => \A w \in inside : owner = w
=============================================================================
