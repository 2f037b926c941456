---------------------------- MODULE Reservation ----------------------------
(***************************************************************************)
(* Seat holds, reservations and payments of core-api.                      *)
(*                                                                         *)
(* Every process of core-api runs request handlers and one cleanup thread. *)
(* They share the PostgreSQL tables (seats, reservations, payments), one   *)
(* Redis lock per event and one Redis channel per event.  A step of this   *)
(* module is one call that another process can observe or that can be      *)
(* overtaken by another process: a lock command, a SELECT ... FOR UPDATE,  *)
(* a commit, a publish, the answer of the payment gateway.                 *)
(*                                                                         *)
(* Transactions run at READ COMMITTED: a worker's buffered writes become   *)
(* visible at its commit, row locks are kept until commit or rollback, and *)
(* a rollback happens only after the Redis lock has been given up.         *)
(***************************************************************************)
EXTENDS Naturals, FiniteSets

CONSTANTS
  Handlers,  \* request handlers, one transaction each (event loop of a process)
  Cleaners,  \* cleanup threads, one per process (main.py _cleanup_loop)
  Users, Seats, Events,
  EventOf,   \* the event a seat belongs to
  Rids,      \* reservation ids that can be drawn
  Pids,      \* payment ids that can be drawn
  Ops,       \* the operations this instance exercises
  Overlap,   \* may two operations that finish a reservation run at once on it?
  Faults,    \* the faults that occur: "lapse", "crash", "redis", "db"
  NoUser, NoEvent, NoRid, NoPid,
  Free,      \* value of a lock nobody holds
  Orphan     \* value of a lock whose owner is gone; only its TTL ends it

Workers == Handlers \cup Cleaners
LoopOps == {"release", "cleanup"}
AllOps  == {"hold", "cancel", "pay"} \cup LoopOps

ASSUME EventOfAssumption == EventOf \in [Seats -> Events]
ASSUME WorkersAssumption == Handlers \cap Cleaners = {}
ASSUME OpsAssumption     == Ops \subseteq AllOps /\ Overlap \in BOOLEAN
ASSUME NullAssumption ==
  /\ NoUser \notin Users
  /\ NoEvent \notin Events
  /\ NoRid \notin Rids
  /\ NoPid \notin Pids
  /\ Free \notin Workers
  /\ Orphan \notin Workers
  /\ Free # Orphan

SeatLimit == 4      \* schemas/reservation_schema.py: at most 4 seats per hold

VARIABLES
  seat,    \* seats.status
  heldBy,  \* seats.held_by
  res,     \* the reservations table; status "absent" before the insert commits
  due,     \* reservations whose expires_at has passed
  pay,     \* the payments table, with what the gateway did to the card
  lock,    \* lock:reservation:{event_id}
  feed,    \* the last status published for each seat on seat_updates:{event_id}
  pc,      \* where each worker is
  job,     \* the request a worker serves and the ORM state of its session
  rows     \* the seat rows a worker's open transaction has locked

vars   == <<seat, heldBy, res, due, pay, lock, feed, pc, job, rows>>
tables == <<seat, heldBy, res, pay>>

SeatStatus == {"available", "hold", "sold"}
ResStatus  == {"absent", "held", "completed", "cancelled"}
Places     == {"idle", "charge", "confirm", "loop", "acquire", "check", "recheck",
               "select", "commit", "publish", "unlock", "abort", "rollback", "record"}

Absent == [status |-> "absent", user |-> NoUser, event |-> NoEvent, seats |-> {}]
Unpaid == [status |-> "absent", rid |-> NoRid, charged |-> FALSE]
NoJob  == [op |-> "none", user |-> NoUser, event |-> NoEvent, seats |-> {},
           rid |-> NoRid, pid |-> NoPid, todo |-> {}, orm |-> "expired",
           seen |-> "absent"]

Reservations == [status : ResStatus, user : Users \cup {NoUser},
                 event : Events \cup {NoEvent}, seats : SUBSET Seats]
Payments     == [status : {"absent", "pending", "completed", "failed"},
                 rid : Rids \cup {NoRid}, charged : BOOLEAN]
Jobs         == [op : AllOps \cup {"none"}, user : Users \cup {NoUser},
                 event : Events \cup {NoEvent}, seats : SUBSET Seats,
                 rid : Rids \cup {NoRid}, pid : Pids \cup {NoPid},
                 todo : SUBSET Rids, orm : {"listed", "expired"}, seen : ResStatus]

TypeOK ==
  /\ seat \in [Seats -> SeatStatus]
  /\ heldBy \in [Seats -> Users \cup {NoUser}]
  /\ res \in [Rids -> Reservations]
  /\ due \in SUBSET Rids
  /\ pay \in [Pids -> Payments]
  /\ lock \in [Events -> Workers \cup {Free, Orphan}]
  /\ feed \in [Seats -> SeatStatus]
  /\ pc \in [Workers -> Places]
  /\ job \in [Workers -> Jobs]
  /\ rows \in [Workers -> SUBSET Seats]

Init ==
  /\ seat   = [s \in Seats |-> "available"]
  /\ heldBy = [s \in Seats |-> NoUser]
  /\ res    = [r \in Rids |-> Absent]
  /\ due    = {}
  /\ pay    = [p \in Pids |-> Unpaid]
  /\ lock   = [e \in Events |-> Free]
  /\ feed   = [s \in Seats |-> "available"]
  /\ pc     = [w \in Workers |-> "idle"]
  /\ job    = [w \in Workers |-> NoJob]
  /\ rows   = [w \in Workers |-> {}]

-----------------------------------------------------------------------------
(* What the queries return, and what a worker is busy with.                *)

Held(r)  == res[r].status = "held"

\* get_held_by_user_and_event: held and not past expires_at
LiveHolds(u, e) ==
  {r \in Rids : Held(r) /\ res[r].user = u /\ res[r].event = e /\ r \notin due}

\* get_held_by_user
HeldBy(u) == {r \in Rids : Held(r) /\ res[r].user = u}

\* get_expired_held
ExpiredHeld == {r \in Rids : Held(r) /\ r \in due}

Touched(w) == {job[w].rid} \cup job[w].todo
MayTouch(R) == Overlap \/ \A w \in Workers : Touched(w) \cap R = {}

\* a uuid4 nobody has drawn
Drawable(r) == res[r].status = "absent" /\ \A w \in Workers : job[w].rid # r

GoTo(w, p) == pc' = [pc EXCEPT ![w] = p]
Become(w, j) == job' = [job EXCEPT ![w] = j]

\* a request ends, or a loop turns to its next reservation; orm says whether the
\* session still has the objects its list query loaded or a commit or a rollback
\* has expired them all
Finish(w, orm) ==
  IF job[w].op \in LoopOps
  THEN /\ GoTo(w, "loop")
       /\ Become(w, [job[w] EXCEPT !.rid = NoRid, !.event = NoEvent, !.seen = "absent",
                                   !.orm = orm])
  ELSE /\ GoTo(w, "idle")
       /\ Become(w, NoJob)

-----------------------------------------------------------------------------
(* Requests: the reads and checks made before the lock is asked for.       *)

Accept(w, o, p, j) ==
  /\ o \in Ops
  /\ pc[w] = "idle"
  /\ GoTo(w, p)
  /\ Become(w, [j EXCEPT !.op = o])
  /\ UNCHANGED <<due, lock, feed, rows>>

\* POST /reservations; the event comes from the access token
StartHold(w, u, e, S, r) ==
  /\ S # {} /\ Cardinality(S) <= SeatLimit
  /\ Drawable(r)
  /\ Accept(w, "hold", "acquire",
            [NoJob EXCEPT !.user = u, !.event = e, !.seats = S, !.rid = r])
  /\ UNCHANGED tables

\* DELETE /reservations/{id} by its owner: the status is checked before the lock
StartCancel(w, r) ==
  /\ Held(r) /\ MayTouch({r})
  /\ Accept(w, "cancel", "acquire", [NoJob EXCEPT !.rid = r, !.event = res[r].event])
  /\ UNCHANGED tables

\* POST /payments by the owner with the right amount: a pending row is committed
StartPay(w, r, p) ==
  /\ Held(r) /\ r \notin due /\ MayTouch({r})
  /\ pay[p] = Unpaid
  /\ pay' = [pay EXCEPT ![p] = [status |-> "pending", rid |-> r, charged |-> FALSE]]
  /\ Accept(w, "pay", "charge",
            [NoJob EXCEPT !.rid = r, !.pid = p, !.event = res[r].event])
  /\ UNCHANGED <<seat, heldBy, res>>

StartLoop(w, o, R) ==
  /\ R # {} /\ MayTouch(R)
  /\ Accept(w, o, "loop", [NoJob EXCEPT !.todo = R, !.orm = "listed"])
  /\ UNCHANGED tables

\* POST /reservations/internal/release-user
StartRelease(w, u) == StartLoop(w, "release", HeldBy(u))

\* _run_cleanup, every 30 seconds in every process
StartCleanup(w) == StartLoop(w, "cleanup", ExpiredHeld)

-----------------------------------------------------------------------------
(* The payment gateway, and the re-read in complete_reservation.           *)

PgApprove(w) ==
  /\ pc[w] = "charge"
  /\ pay' = [pay EXCEPT ![job[w].pid].charged = TRUE]
  /\ GoTo(w, "confirm")
  /\ UNCHANGED <<seat, heldBy, res, due, lock, feed, job, rows>>

\* mutant: a declined payment goes on as if it had been approved
DeclineIgnored(w) ==
  /\ pc[w] = "charge"
  /\ pay' = [pay EXCEPT ![job[w].pid].status = "failed"]
  /\ GoTo(w, "confirm")
  /\ UNCHANGED <<seat, heldBy, res, due, lock, feed, job, rows>>

PgDecline(w) ==
  /\ pc[w] = "charge"
  /\ pay' = [pay EXCEPT ![job[w].pid].status = "failed"]
  /\ Finish(w, "expired")
  /\ UNCHANGED <<seat, heldBy, res, due, lock, feed, rows>>

\* mutant: the error of the second check is swallowed
ConfirmIgnored(w) ==
  /\ pc[w] = "confirm"
  /\ GoTo(w, IF Held(job[w].rid) /\ job[w].rid \notin due THEN "acquire" ELSE "record")
  /\ UNCHANGED <<tables, due, lock, feed, job, rows>>

\* the status is read again after the charge, but still before the lock
Confirm(w) ==
  /\ pc[w] = "confirm"
  /\ GoTo(w, IF Held(job[w].rid) /\ job[w].rid \notin due THEN "acquire" ELSE "rollback")
  /\ UNCHANGED <<tables, due, lock, feed, job, rows>>

-----------------------------------------------------------------------------
(* The loops of release_expired_holds and release_user_holds.              *)

\* reservation.event_id: an object listed and never expired keeps the status it
\* was listed with, an object expired by a commit or rollback is read again here,
\* before the lock
NextReservation(w, r) ==
  /\ pc[w] = "loop"
  /\ r \in job[w].todo
  /\ GoTo(w, "acquire")
  /\ Become(w, [job[w] EXCEPT !.todo = @ \ {r}, !.rid = r, !.event = res[r].event,
                              !.seen = IF job[w].orm = "listed" THEN "held" ELSE res[r].status])
  /\ UNCHANGED <<tables, due, lock, feed, rows>>

LoopDone(w) ==
  /\ pc[w] = "loop"
  /\ job[w].todo = {}
  /\ GoTo(w, "idle")
  /\ Become(w, NoJob)
  /\ UNCHANGED <<tables, due, lock, feed, rows>>

-----------------------------------------------------------------------------
(* The section under the Redis lock.                                       *)

\* where the section begins for each operation
FirstPlace(o) == CASE o = "hold" -> "check" [] o \in LoopOps -> "recheck" [] OTHER -> "select"

\* mutant: SET without NX
AcquireTaken(w) ==
  /\ pc[w] = "acquire"
  /\ lock' = [lock EXCEPT ![job[w].event] = w]
  /\ GoTo(w, FirstPlace(job[w].op))
  /\ UNCHANGED <<tables, due, feed, job, rows>>

AcquireLock(w) ==
  LET e == job[w].event IN
  /\ pc[w] = "acquire"
  /\ lock[e] = Free
  /\ lock' = [lock EXCEPT ![e] = w]
  /\ GoTo(w, FirstPlace(job[w].op))
  /\ UNCHANGED <<tables, due, feed, job, rows>>

\* mutant: the work is done although the lock was not acquired
GiveUpIgnored(w) ==
  /\ pc[w] = "acquire"
  /\ lock[job[w].event] # Free
  /\ GoTo(w, FirstPlace(job[w].op))
  /\ UNCHANGED <<tables, due, lock, feed, job, rows>>

\* three attempts found the key taken: LockAcquireError
GiveUp(w) ==
  /\ pc[w] = "acquire"
  /\ lock[job[w].event] # Free
  /\ GoTo(w, "rollback")
  /\ UNCHANGED <<tables, due, lock, feed, job, rows>>

CheckDuplicate(w) ==
  /\ pc[w] = "check"
  /\ GoTo(w, IF LiveHolds(job[w].user, job[w].event) # {} THEN "abort" ELSE "select")
  /\ UNCHANGED <<tables, due, lock, feed, job, rows>>

\* fresh = get_by_id(...) returns the object the session already has: the status
\* tested is the one seen when the object was last loaded
Recheck(w) ==
  /\ pc[w] = "recheck"
  /\ GoTo(w, IF job[w].seen = "held" THEN "select" ELSE "unlock")
  /\ UNCHANGED <<tables, due, lock, feed, job, rows>>

RowsWanted(w) ==
  IF job[w].op = "hold" THEN {s \in job[w].seats : EventOf[s] = job[w].event}
                        ELSE res[job[w].rid].seats

\* mutant: the seats are counted, their status is not looked at
HoldableAny(w, S) == S = job[w].seats

Holdable(w, S) == S = job[w].seats /\ \A s \in S : seat[s] = "available"

\* mutant: SELECT without FOR UPDATE
SelectUnlocked(w) ==
  LET S == RowsWanted(w) IN
  /\ pc[w] = "select"
  /\ rows' = [rows EXCEPT ![w] = S]
  /\ GoTo(w, IF job[w].op = "hold" /\ ~Holdable(w, S) THEN "abort" ELSE "commit")
  /\ UNCHANGED <<tables, due, lock, feed, job>>

SelectForUpdate(w) ==
  LET S == RowsWanted(w) IN
  /\ pc[w] = "select"
  /\ \A v \in Workers \ {w} : rows[v] \cap S = {}
  /\ rows' = [rows EXCEPT ![w] = S]
  /\ GoTo(w, IF job[w].op = "hold" /\ ~Holdable(w, S) THEN "abort" ELSE "commit")
  /\ UNCHANGED <<tables, due, lock, feed, job>>

\* mutant: the status of the reservation is written to the seat
StatusMixed(o) == CASE o = "hold" -> "held" [] o = "pay" -> "sold" [] OTHER -> "available"

\* mutant: the seats of an ended hold are not reset
StatusKept(o) == IF o = "pay" THEN "sold" ELSE "hold"

\* the seat status an operation writes and publishes
NewStatus(o) == CASE o = "hold" -> "hold" [] o = "pay" -> "sold" [] OTHER -> "available"

\* mutant: an ended hold frees its seats but its reservation is not updated
RowKept(w) ==
  IF job[w].op = "hold"
  THEN [status |-> "held", user |-> job[w].user, event |-> job[w].event, seats |-> rows[w]]
  ELSE [res[job[w].rid] EXCEPT !.status = IF job[w].op = "pay" THEN "completed" ELSE @]

\* the reservation row after the commit of worker w
NewRow(w) ==
  IF job[w].op = "hold"
  THEN [status |-> "held", user |-> job[w].user, event |-> job[w].event, seats |-> rows[w]]
  ELSE [res[job[w].rid] EXCEPT !.status = IF job[w].op = "pay" THEN "completed"
                                                             ELSE "cancelled"]

\* the writes of a transaction, visible at once; they do not look at the
\* current status of the row again
Apply(w) ==
  /\ pc[w] = "commit"
  /\ seat' = [s \in Seats |-> IF s \in rows[w] THEN NewStatus(job[w].op) ELSE seat[s]]
  /\ heldBy' = [s \in Seats |-> IF s \notin rows[w] THEN heldBy[s]
                                ELSE IF job[w].op = "hold" THEN job[w].user ELSE NoUser]
  /\ res' = [res EXCEPT ![job[w].rid] = NewRow(w)]
  /\ rows' = [rows EXCEPT ![w] = {}]
  /\ Become(w, [job[w] EXCEPT !.orm = "expired"])
  /\ UNCHANGED <<due, pay, lock, feed>>

Commit(w) == Apply(w) /\ GoTo(w, "publish")

\* hold keys, cache invalidation and publish, still under the lock
Publish(w) ==
  /\ pc[w] = "publish"
  /\ feed' = [s \in Seats |-> IF s \in res[job[w].rid].seats THEN NewStatus(job[w].op)
                                                             ELSE feed[s]]
  /\ GoTo(w, "unlock")
  /\ UNCHANGED <<tables, due, lock, job, rows>>

\* the release script deletes the key only while it holds the worker's own uuid
ReleaseOwn(w) ==
  lock' = [lock EXCEPT ![job[w].event] = IF @ = w THEN Free ELSE @]

Unlock(w) ==
  /\ pc[w] = "unlock"
  /\ ReleaseOwn(w)
  /\ IF job[w].op = "pay" THEN GoTo(w, "record") /\ UNCHANGED job
                          ELSE Finish(w, job[w].orm)
  /\ UNCHANGED <<tables, due, feed, rows>>

\* an exception leaves the section: the lock goes first ...
Abort(w) ==
  /\ pc[w] = "abort"
  /\ ReleaseOwn(w)
  /\ GoTo(w, "rollback")
  /\ UNCHANGED <<tables, due, feed, job, rows>>

\* ... and the transaction, with its row locks, after it
Rollback(w) ==
  /\ pc[w] = "rollback"
  /\ rows' = [rows EXCEPT ![w] = {}]
  /\ Finish(w, "expired")
  /\ UNCHANGED <<tables, due, lock, feed>>

\* process_payment after complete_reservation has returned
Record(w) ==
  /\ pc[w] = "record"
  /\ pay' = [pay EXCEPT ![job[w].pid].status = "completed"]
  /\ Finish(w, "expired")
  /\ UNCHANGED <<seat, heldBy, res, due, lock, feed, rows>>

-----------------------------------------------------------------------------
(* Time and faults.                                                        *)

Expire(r) ==
  /\ Held(r) /\ r \notin due
  /\ due' = due \cup {r}
  /\ UNCHANGED <<tables, lock, feed, pc, job, rows>>

\* a statement raises.  A whole pass ends when the error comes from the read of the
\* next reservation, which is outside the try, or from a flush of the cleanup: its
\* handler logs an attribute of an object that the failed flush has expired
StatementFails(w) ==
  /\ "db" \in Faults
  /\ \/ /\ pc[w] \in {"check", "recheck", "select", "commit"}
        /\ GoTo(w, "abort")
        /\ UNCHANGED job
     \/ /\ pc[w] \in {"confirm", "record"}
        /\ GoTo(w, "rollback")
        /\ UNCHANGED job
     \/ /\ pc[w] = "commit" /\ job[w].op = "cleanup"
        /\ GoTo(w, "abort")
        /\ Become(w, [job[w] EXCEPT !.todo = {}])
     \/ /\ pc[w] = "loop" /\ job[w].todo # {} /\ job[w].orm = "expired"
        /\ GoTo(w, "idle")
        /\ Become(w, NoJob)
  /\ UNCHANGED <<tables, due, lock, feed, rows>>

\* the commit takes effect but its answer is lost
CommitAnswerLost(w) == "db" \in Faults /\ Apply(w) /\ GoTo(w, "abort")

\* SET NX raises; it may have taken effect
AcquireFails(w) ==
  LET e == job[w].event IN
  /\ "redis" \in Faults
  /\ pc[w] = "acquire"
  /\ \/ UNCHANGED lock
     \/ lock[e] = Free /\ lock' = [lock EXCEPT ![e] = Orphan]
  /\ GoTo(w, "rollback")
  /\ UNCHANGED <<tables, due, feed, job, rows>>

\* setting the hold keys raises before the commit of a hold, or deleting them after
\* the commit of another operation; a failed publish is swallowed
RedisFails(w) ==
  /\ "redis" \in Faults
  /\ \/ pc[w] = "commit" /\ job[w].op = "hold" /\ GoTo(w, "abort")
     \/ pc[w] = "publish" /\ job[w].op # "hold" /\ GoTo(w, "abort")
     \/ pc[w] = "publish" /\ GoTo(w, "unlock")
  /\ UNCHANGED <<tables, due, lock, feed, job, rows>>

\* the release script is not executed: the key stays until its TTL
UnlockFails(w) ==
  /\ "redis" \in Faults
  /\ pc[w] \in {"unlock", "abort"}
  /\ lock' = [lock EXCEPT ![job[w].event] = IF @ = w THEN Orphan ELSE @]
  /\ GoTo(w, "rollback")
  /\ UNCHANGED <<tables, due, feed, job, rows>>

\* the process dies: PostgreSQL rolls back, Redis keeps the key
Crash(w) ==
  /\ "crash" \in Faults
  /\ pc[w] # "idle"
  /\ GoTo(w, "idle")
  /\ Become(w, NoJob)
  /\ rows' = [rows EXCEPT ![w] = {}]
  /\ lock' = [e \in Events |-> IF lock[e] = w THEN Orphan ELSE lock[e]]
  /\ UNCHANGED <<tables, due, feed>>

\* the TTL of a lock ends while its owner is still in the section
Lapse(e) ==
  /\ "lapse" \in Faults
  /\ lock[e] \in Workers
  /\ lock' = [lock EXCEPT ![e] = Free]
  /\ UNCHANGED <<tables, due, feed, pc, job, rows>>

\* mutant: SET without PX
OrphanStays(e) == lock[e] = Orphan /\ UNCHANGED vars

OrphanExpires(e) ==
  /\ lock[e] = Orphan
  /\ lock' = [lock EXCEPT ![e] = Free]
  /\ UNCHANGED <<tables, due, feed, pc, job, rows>>

-----------------------------------------------------------------------------

Request(w) ==
  \/ \E u \in Users, e \in Events, S \in SUBSET Seats, r \in Rids : StartHold(w, u, e, S, r)
  \/ \E r \in Rids : StartCancel(w, r)
  \/ \E r \in Rids, p \in Pids : StartPay(w, r, p)
  \/ \E u \in Users : StartRelease(w, u)

Advance(w) ==
  \/ PgApprove(w) \/ PgDecline(w) \/ Confirm(w)
  \/ \E r \in Rids : NextReservation(w, r)
  \/ LoopDone(w)
  \/ AcquireLock(w) \/ GiveUp(w) \/ CheckDuplicate(w) \/ Recheck(w)
  \/ SelectForUpdate(w) \/ Commit(w) \/ Publish(w) \/ Unlock(w)
  \/ Abort(w) \/ Rollback(w) \/ Record(w)

Fault(w) ==
  \/ StatementFails(w) \/ CommitAnswerLost(w) \/ AcquireFails(w)
  \/ RedisFails(w) \/ UnlockFails(w) \/ Crash(w)

\* nothing to do: every worker is between two requests
Quiet == (\A w \in Workers : pc[w] = "idle") /\ UNCHANGED vars

Next ==
  \/ \E w \in Handlers : Request(w)
  \/ \E w \in Cleaners : StartCleanup(w)
  \/ \E w \in Workers : Advance(w) \/ Fault(w)
  \/ \E r \in Rids : Expire(r)
  \/ \E e \in Events : Lapse(e) \/ OrphanExpires(e)
  \/ Quiet

Spec == Init /\ [][Next]_vars

(* What the threads must do for the system to make progress: a request or a *)
(* cleanup that has started runs on, every cleanup thread starts again      *)
(* (main.py _cleanup_loop), and Redis ends keys whose TTL is over.  Users,  *)
(* faults and clocks owe nothing.                                           *)
Fairness ==
  /\ \A w \in Workers : WF_vars(Advance(w))
  /\ \A w \in Cleaners : WF_vars(StartCleanup(w))
  /\ \A e \in Events : WF_vars(OrphanExpires(e))

FairSpec == Spec /\ Fairness

-----------------------------------------------------------------------------
(* Properties.                                                             *)

Live(r) == res[r].status \in {"held", "completed"}
LiveFor(s) == {r \in Rids : Live(r) /\ s \in res[r].seats}

\* The seat table and the reservation table, written together by hold_seats and by
\* the four operations that end a hold, never drift apart: a seat is available and
\* nobody's, or exactly one live reservation has it, and its status and held_by are
\* those of that reservation.
SeatLedger ==
  \A s \in Seats :
    \/ seat[s] = "available" /\ heldBy[s] = NoUser /\ LiveFor(s) = {}
    \/ \E r \in Rids :
         /\ LiveFor(s) = {r}
         /\ \/ Held(r) /\ seat[s] = "hold" /\ heldBy[s] = res[r].user
            \/ ~Held(r) /\ seat[s] = "sold" /\ heldBy[s] = NoUser

\* A reservation is only ever created over seats that are available at the moment
\* its transaction commits (hold_seats: SELECT FOR UPDATE, the check, the commit),
\* even when the Redis lock has lapsed and other operations run in between.
HoldTakesFreeSeats ==
  [][\A r \in Rids : res[r].status = "absent" /\ res'[r].status = "held"
       => \A s \in res'[r].seats : seat[s] = "available"]_vars

\* A user never has two unexpired holds for one event (the check in hold_seats).
\* The check and the insert are two statements: only the Redis lock joins them.
OneLiveHold == \A u \in Users, e \in Events : \A q, r \in LiveHolds(u, e) : q = r

\* Whatever is published of a seat is its status in the database at that moment: the
\* lock keeps the publishes of an event in the order of its commits, and no crash or
\* failure lets an old status out later.
FeedOrder == [][\A s \in Seats : feed'[s] # feed[s] => feed'[s] = seat'[s]]_vars

\* Whatever races or fails, a seat is sold and a reservation completed only after the
\* gateway has charged a payment for it, and a failed payment was never charged.
SoldWasCharged ==
  /\ \A r \in Rids : res[r].status = "completed" =>
       \E p \in Pids : pay[p].rid = r /\ pay[p].charged
  /\ \A s \in Seats : seat[s] = "sold" =>
       \E p \in Pids : pay[p].charged /\ s \in res[pay[p].rid].seats
  /\ \A p \in Pids : pay[p].status = "failed" => ~pay[p].charged

\* A payment that reads "completed" still buys something: its reservation is
\* completed and all its seats are sold (process_payment steps 4 and 5).
PaymentBacked ==
  \A p \in Pids : pay[p].status = "completed" =>
    /\ res[pay[p].rid].status = "completed"
    /\ \A s \in res[pay[p].rid].seats : seat[s] = "sold"

\* A sale is final: no later step of anyone frees a sold seat or reopens or cancels
\* a completed reservation.
SaleIsFinal ==
  [][/\ \A s \in Seats : seat[s] = "sold" => seat'[s] = "sold"
     /\ \A r \in Rids : res[r].status = "completed" => res'[r] = res[r]]_vars

\* A charge ends up on a payment that says so once its request is over
\* (process_payment: success, then complete_reservation, then status completed).
ChargeRecorded ==
  \A p \in Pids : pay[p].charged /\ (\A w \in Workers : job[w].pid # p)
    => pay[p].status = "completed"

\* No seat is in two live reservations at once ("no duplicate reservations").
NoDoubleBooking == \A s \in Seats : \A q, r \in LiveFor(s) : q = r

\* steps of a system that receives no request and in which nothing fails
Undisturbed ==
  \/ \E w \in Cleaners : StartCleanup(w)
  \/ \E w \in Workers : Advance(w)
  \/ \E r \in Rids : Expire(r)
  \/ \E e \in Events : OrphanExpires(e)

\* From some point on no new request arrives and nothing fails.
TrafficPauses == <>[][Undisturbed]_vars

\* Once traffic pauses, an expired hold is not held for ever: whatever requests,
\* crashes and lost locks came before, some cleanup pass releases it.  Under endless
\* traffic the code promises less: a pass gives up on a lock it finds taken.
ExpiredHoldEnds ==
  TrafficPauses => \A r \in Rids : (Held(r) /\ r \in due) ~> ~Held(r)

\* The workers keep to the protocol of the event lock, which RedisLock implements:
\* enter when it is free, leave or vanish, never take it from another owner.
InSection == {"check", "recheck", "select", "commit", "publish", "unlock", "abort"}
LockOf(e) == INSTANCE EventLock WITH
  Expirable <- "lapse" \in Faults,
  owner  <- lock[e],
  inside <- {w \in Workers : pc[w] \in InSection /\ job[w].event = e}
LockProtocol ==
  [][\A e \in Events : LockOf(e)!Next \/ UNCHANGED LockOf(e)!state]_vars

\* The sale of seats that users see, implemented by the two tables together: which
\* reservation has a seat is read from reservations, its status from seats.
Sale == INSTANCE SeatSale WITH
  Nobody <- NoRid,
  state  <- seat,
  holder <- [s \in Seats |-> IF LiveFor(s) = {} THEN NoRid ELSE CHOOSE r \in LiveFor(s) : TRUE],
  ended  <- {r \in Rids : res[r].status = "cancelled"}
SaleSpec == Sale!Spec
=============================================================================
