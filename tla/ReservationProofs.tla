------------------------- MODULE ReservationProofs -------------------------
(***************************************************************************)
(* Theorems about Reservation for every set of workers, users, seats and   *)
(* ids, with their proofs.                                                 *)
(***************************************************************************)
EXTENDS Reservation, TLAPS

(* Null values and statuses are members of the types they stand in.        *)
LEMMA NullTypes ==
  /\ Absent \in Reservations
  /\ Unpaid \in Payments
  /\ NoJob \in Jobs
BY DEF Absent, Unpaid, NoJob, Reservations, Payments, Jobs, ResStatus, AllOps

(* The end of a request leaves a job and a place of the right type.        *)
LEMMA FinishType ==
  ASSUME TypeOK, NEW w \in Workers, NEW o \in {"listed", "expired"}, Finish(w, o)
  PROVE  /\ pc' \in [Workers -> Places]
         /\ job' \in [Workers -> Jobs]
<1>1. [job[w] EXCEPT !.rid = NoRid, !.event = NoEvent, !.seen = "absent", !.orm = o] \in Jobs
  <2>1. job[w] \in Jobs
    BY DEF TypeOK
  <2>2. QED
    BY <2>1 DEF Jobs, ResStatus
<1>2. QED
  BY <1>1, NullTypes DEF TypeOK, Finish, GoTo, Become, Places

(* It leaves the other workers alone, and keeps what a loop has still to do. *)
Finished(w) ==
  /\ \A v \in Workers \ {w} : pc'[v] = pc[v] /\ job'[v] = job[v]
  /\ job[w].op \notin LoopOps => pc'[w] = "idle" /\ job'[w] = NoJob
  /\ job[w].op \in LoopOps => /\ pc'[w] = "loop"
                              /\ job'[w].op = job[w].op
                              /\ job'[w].rid = NoRid
                              /\ job'[w].todo = job[w].todo

LEMMA FinishFrame ==
  ASSUME TypeOK, NEW w \in Workers, NEW o, Finish(w, o)
  PROVE  Finished(w)
<1> USE DEF Finished
<1>1. job[w] \in Jobs
  BY DEF TypeOK
<1>2. CASE job[w].op \notin LoopOps
  BY <1>2 DEF Finish, GoTo, Become, TypeOK
<1>3. CASE job[w].op \in LoopOps
  <2> DEFINE j == [job[w] EXCEPT !.rid = NoRid, !.event = NoEvent, !.seen = "absent",
                                 !.orm = o]
  <2>1. j.op = job[w].op /\ j.rid = NoRid /\ j.todo = job[w].todo
    BY <1>1 DEF Jobs
  <2>2. pc' = [pc EXCEPT ![w] = "loop"] /\ job' = [job EXCEPT ![w] = j]
    BY <1>3 DEF Finish, GoTo, Become
  <2> HIDE DEF j
  <2>3. QED
    BY <1>3, <2>1, <2>2 DEF TypeOK
<1>4. QED
  BY <1>2, <1>3

(* A request that is accepted brings a job of the right type.              *)
LEMMA AcceptType ==
  ASSUME TypeOK, NEW w \in Workers, NEW o \in AllOps, NEW p \in Places,
         NEW j \in Jobs, Accept(w, o, p, j)
  PROVE  /\ pc' \in [Workers -> Places]
         /\ job' \in [Workers -> Jobs]
         /\ UNCHANGED <<due, lock, feed, rows>>
<1>1. [j EXCEPT !.op = o] \in Jobs
  BY DEF Jobs
<1>2. QED
  BY <1>1 DEF TypeOK, Accept, GoTo, Become

(* The writes of a transaction keep the tables in their types.             *)
LEMMA ApplyType ==
  ASSUME TypeOK, NEW w \in Workers, Apply(w)
  PROVE  /\ seat' \in [Seats -> SeatStatus]
         /\ heldBy' \in [Seats -> Users \cup {NoUser}]
         /\ res' \in [Rids -> Reservations]
         /\ rows' \in [Workers -> SUBSET Seats]
         /\ job' \in [Workers -> Jobs]
         /\ UNCHANGED <<due, pay, lock, feed>>
<1>1. NewStatus(job[w].op) \in SeatStatus
  BY DEF NewStatus, SeatStatus
<1>2. ASSUME job[w].rid \in Rids PROVE NewRow(w) \in Reservations
  <2>1. /\ job[w] \in Jobs
        /\ res[job[w].rid] \in Reservations
        /\ rows[w] \in SUBSET Seats
    BY <1>2 DEF TypeOK
  <2>2. CASE job[w].op = "hold"
    BY <2>1, <2>2 DEF NewRow, Reservations, Jobs, ResStatus
  <2>3. CASE job[w].op = "pay"
    BY <2>1, <2>3 DEF NewRow, Reservations, ResStatus
  <2>4. CASE job[w].op \notin {"hold", "pay"}
    BY <2>1, <2>4 DEF NewRow, Reservations, ResStatus
  <2>5. QED
    BY <2>2, <2>3, <2>4
<1>3. [job[w] EXCEPT !.orm = "expired"] \in Jobs
  BY DEF TypeOK, Jobs
<1>4. job[w].user \in Users \cup {NoUser}
  BY DEF TypeOK, Jobs
<1>5. QED
  BY <1>1, <1>2, <1>3, <1>4 DEF TypeOK, Apply, Become

-----------------------------------------------------------------------------

(* What a worker's place says of its request and of its transaction.       *)
JobOK(w) ==
  /\ pc[w] = "idle" => job[w] = NoJob
  /\ pc[w] = "loop" => job[w].op \in LoopOps /\ job[w].rid = NoRid
  /\ pc[w] \notin {"idle", "loop"} => job[w].op \in AllOps /\ job[w].rid \in Rids
  /\ pc[w] \in {"charge", "confirm", "record"} => job[w].op = "pay"
  /\ pc[w] = "recheck" => job[w].op \in LoopOps
  /\ job[w].op \notin LoopOps => job[w].todo = {}
  /\ job[w].op = "pay" => job[w].pid \in Pids
  /\ rows[w] # {} => pc[w] \in {"commit", "abort", "rollback"}

JobsOK == \A w \in Workers : JobOK(w)

-----------------------------------------------------------------------------

(* Every step keeps the tables, the lock, the feed and the workers' state  *)
(* in their types.                                                         *)
LEMMA TypeStep == TypeOK /\ JobsOK /\ [Next]_vars => TypeOK'
<1> SUFFICES ASSUME TypeOK, JobsOK, [Next]_vars PROVE TypeOK'
  OBVIOUS
<1> USE NullTypes
<1>1. ASSUME NEW w \in Handlers, Request(w) PROVE TypeOK'
  <2> w \in Workers
    BY DEF Workers
  <2>1. ASSUME NEW u \in Users, NEW e \in Events, NEW S \in SUBSET Seats, NEW r \in Rids,
               StartHold(w, u, e, S, r)
        PROVE  TypeOK'
    <3>1. [NoJob EXCEPT !.user = u, !.event = e, !.seats = S, !.rid = r] \in Jobs
      BY DEF NoJob, Jobs, AllOps, ResStatus
    <3>2. QED
      BY <2>1, <3>1, AcceptType DEF StartHold, TypeOK, tables, AllOps, Places
  <2>2. ASSUME NEW r \in Rids, StartCancel(w, r) PROVE TypeOK'
    <3>1. [NoJob EXCEPT !.rid = r, !.event = res[r].event] \in Jobs
      BY DEF NoJob, Jobs, AllOps, ResStatus, TypeOK, Reservations
    <3>2. QED
      BY <2>2, <3>1, AcceptType DEF StartCancel, TypeOK, tables, AllOps, Places
  <2>3. ASSUME NEW r \in Rids, NEW p \in Pids, StartPay(w, r, p) PROVE TypeOK'
    <3>1. [NoJob EXCEPT !.rid = r, !.pid = p, !.event = res[r].event] \in Jobs
      BY DEF NoJob, Jobs, AllOps, ResStatus, TypeOK, Reservations
    <3>2. [status |-> "pending", rid |-> r, charged |-> FALSE] \in Payments
      BY DEF Payments
    <3>3. pc' \in [Workers -> Places] /\ job' \in [Workers -> Jobs]
          /\ UNCHANGED <<due, lock, feed, rows>>
      BY <2>3, <3>1, AcceptType DEF StartPay, AllOps, Places
    <3>4. QED
      BY <2>3, <3>2, <3>3 DEF StartPay, TypeOK
  <2>4. ASSUME NEW u \in Users, StartRelease(w, u) PROVE TypeOK'
    <3>1. [NoJob EXCEPT !.todo = HeldBy(u), !.orm = "listed"] \in Jobs
      BY DEF NoJob, Jobs, AllOps, ResStatus, HeldBy
    <3>2. QED
      BY <2>4, <3>1, AcceptType DEF StartRelease, StartLoop, TypeOK, tables, AllOps, LoopOps, Places
  <2>5. QED
    BY <1>1, <2>1, <2>2, <2>3, <2>4 DEF Request
<1>2. ASSUME NEW w \in Cleaners, StartCleanup(w) PROVE TypeOK'
  <2>1. [NoJob EXCEPT !.todo = ExpiredHeld, !.orm = "listed"] \in Jobs
    BY DEF NoJob, Jobs, AllOps, ResStatus, ExpiredHeld
  <2>2. w \in Workers
    BY DEF Workers
  <2>3. QED
    BY <1>2, <2>1, <2>2, AcceptType
    DEF StartCleanup, StartLoop, TypeOK, tables, AllOps, LoopOps, Places
<1>3. ASSUME NEW w \in Workers, Advance(w) PROVE TypeOK'
  <2>1. CASE PgApprove(w)
    <3>1. \A p \in Pids : [pay[p] EXCEPT !.charged = TRUE] \in Payments
      BY DEF TypeOK, Payments
    <3>2. QED
      BY <2>1, <3>1 DEF PgApprove, GoTo, TypeOK, Places
  <2>2. ASSUME NEW x \in {"failed", "completed"}, NEW p \in Pids
        PROVE  [pay[p] EXCEPT !.status = x] \in Payments
    BY DEF TypeOK, Payments
  <2>3. CASE PgDecline(w)
    BY <2>3, <2>2, FinishType DEF PgDecline, TypeOK
  <2>4. CASE Confirm(w)
    BY <2>4 DEF Confirm, GoTo, TypeOK, Places, tables
  <2>5. ASSUME NEW r \in Rids, NextReservation(w, r) PROVE TypeOK'
    <3>1. /\ job[w] \in Jobs
          /\ res[r] \in Reservations
      BY DEF TypeOK
    <3>2. (IF job[w].orm = "listed" THEN "held" ELSE res[r].status) \in ResStatus
      BY <3>1 DEF Reservations, ResStatus
    <3> DEFINE x == IF job[w].orm = "listed" THEN "held" ELSE res[r].status
               j == [job[w] EXCEPT !.todo = @ \ {r}, !.rid = r, !.event = res[r].event,
                                   !.seen = x]
    <3> HIDE DEF x
    <3>3. j \in Jobs
      <4>1. x \in ResStatus /\ res[r].event \in Events \cup {NoEvent}
        BY <3>1, <3>2 DEF Reservations, x
      <4>2. QED
        BY <3>1, <4>1 DEF Jobs
    <3>4. job' = [job EXCEPT ![w] = j]
      BY <2>5 DEF NextReservation, Become, x
    <3> HIDE DEF j
    <3>5. QED
      BY <2>5, <3>3, <3>4 DEF NextReservation, GoTo, TypeOK, Places, tables
  <2>6. CASE LoopDone(w)
    BY <2>6 DEF LoopDone, GoTo, Become, TypeOK, Places, tables
  <2>7. CASE AcquireLock(w)
    BY <2>7 DEF AcquireLock, FirstPlace, GoTo, TypeOK, Places, tables
  <2>8. CASE GiveUp(w) \/ CheckDuplicate(w) \/ Recheck(w)
    BY <2>8 DEF GiveUp, CheckDuplicate, Recheck, GoTo, TypeOK, Places, tables
  <2>9. CASE SelectForUpdate(w)
    <3>1. job[w].rid \in Rids
      BY <2>9 DEF SelectForUpdate, JobsOK, JobOK
    <3>2. RowsWanted(w) \in SUBSET Seats
      BY <3>1 DEF RowsWanted, TypeOK, Jobs, Reservations
    <3>3. QED
      BY <2>9, <3>2 DEF SelectForUpdate, GoTo, TypeOK, Places, tables
  <2>10. CASE Commit(w)
    BY <2>10, ApplyType DEF Commit, GoTo, TypeOK, Places
  <2>11. CASE Publish(w)
    BY <2>11 DEF Publish, NewStatus, SeatStatus, GoTo, TypeOK, Places, tables
  <2>12. lock' \in [Events -> Workers \cup {Free, Orphan}] \/ ~ReleaseOwn(w)
    BY DEF ReleaseOwn, TypeOK
  <2>13. CASE Unlock(w)
    <3>1. pc' \in [Workers -> Places] /\ job' \in [Workers -> Jobs]
      <4>1. job[w].orm \in {"listed", "expired"}
        BY DEF TypeOK, Jobs
      <4>2. QED
        BY <2>13, <4>1, FinishType DEF Unlock, GoTo, TypeOK, Places
    <3>2. QED
      BY <2>13, <3>1, <2>12 DEF Unlock, TypeOK, tables
  <2>14. CASE Abort(w)
    BY <2>14, <2>12 DEF Abort, GoTo, TypeOK, Places, tables
  <2>15. CASE Rollback(w)
    BY <2>15, FinishType DEF Rollback, TypeOK, tables
  <2>16. CASE Record(w)
    BY <2>16, <2>2, FinishType DEF Record, TypeOK
  <2>17. QED
    BY <1>3, <2>1, <2>3, <2>4, <2>5, <2>6, <2>7, <2>8, <2>9, <2>10, <2>11, <2>13,
       <2>14, <2>15, <2>16 DEF Advance
<1>4. ASSUME NEW w \in Workers, Fault(w) PROVE TypeOK'
  <2>1. CASE StatementFails(w)
    <3>1. [job[w] EXCEPT !.todo = {}] \in Jobs
      BY DEF TypeOK, Jobs
    <3>2. pc' \in [Workers -> Places] /\ job' \in [Workers -> Jobs]
      BY <2>1, <3>1 DEF StatementFails, GoTo, Become, TypeOK, Places
    <3>3. QED
      BY <2>1, <3>2 DEF StatementFails, TypeOK, tables
  <2>2. CASE CommitAnswerLost(w)
    BY <2>2, ApplyType DEF CommitAnswerLost, GoTo, TypeOK, Places
  <2>3. CASE AcquireFails(w) \/ UnlockFails(w)
    BY <2>3 DEF AcquireFails, UnlockFails, GoTo, TypeOK, Places, tables
  <2>4. CASE RedisFails(w)
    BY <2>4 DEF RedisFails, GoTo, TypeOK, Places, tables
  <2>5. CASE Crash(w)
    BY <2>5 DEF Crash, GoTo, Become, TypeOK, Places, tables
  <2>6. QED
    BY <1>4, <2>1, <2>2, <2>3, <2>4, <2>5 DEF Fault
<1>5. CASE (\E r \in Rids : Expire(r)) \/ (\E e \in Events : Lapse(e) \/ OrphanExpires(e))
  BY <1>5 DEF Expire, Lapse, OrphanExpires, TypeOK, tables
<1>6. CASE UNCHANGED vars
  BY <1>6 DEF vars, TypeOK
<1>7. QED
  BY <1>1, <1>2, <1>3, <1>4, <1>5, <1>6 DEF Next, Quiet

(* A worker that finishes, with no row locks left, is where it should be.  *)
LEMMA FinishedJobs ==
  ASSUME TypeOK, JobsOK, NEW w \in Workers, Finished(w),
         rows' = rows \/ rows' = [rows EXCEPT ![w] = {}],
         pc[w] \notin {"commit", "abort", "rollback"} \/ rows' = [rows EXCEPT ![w] = {}]
  PROVE  JobsOK'
<1> USE DEF JobsOK, JobOK, LoopOps
<1>1. rows'[w] = {}
  BY DEF TypeOK
<1>2. JobOK(w)'
  <2>1. CASE job[w].op \in LoopOps
    BY <1>1, <2>1 DEF Finished
  <2>2. CASE job[w].op \notin LoopOps
    <3>1. pc'[w] = "idle" /\ job'[w] = NoJob
      BY <2>2 DEF Finished
    <3>2. NoJob.op = "none" /\ NoJob.todo = {}
      BY DEF NoJob
    <3>3. QED
      BY <1>1, <3>1, <3>2
  <2>3. QED
    BY <2>1, <2>2
<1>3. ASSUME NEW v \in Workers \ {w} PROVE JobOK(v)'
  BY <1>3 DEF Finished, TypeOK
<1>4. QED
  BY <1>2, <1>3

(* A step of one worker leaves the others where they are.                  *)
LEMMA JobStep == TypeOK /\ JobsOK /\ [Next]_vars => JobsOK'
<1> SUFFICES ASSUME TypeOK, JobsOK, [Next]_vars PROVE JobsOK'
  OBVIOUS
<1> USE DEF JobsOK, JobOK, AllOps, LoopOps, GoTo, Become
<1>1. ASSUME NEW w \in Handlers, Request(w) PROVE JobsOK'
  <2> w \in Workers
    BY DEF Workers
  <2>1. ASSUME NEW u \in Users, NEW e \in Events, NEW S \in SUBSET Seats, NEW r \in Rids,
               StartHold(w, u, e, S, r)
        PROVE  JobsOK'
    BY <2>1 DEF StartHold, Accept, TypeOK, NoJob
  <2>2. ASSUME NEW r \in Rids, StartCancel(w, r) PROVE JobsOK'
    BY <2>2 DEF StartCancel, Accept, TypeOK, NoJob
  <2>3. ASSUME NEW r \in Rids, NEW p \in Pids, StartPay(w, r, p) PROVE JobsOK'
    BY <2>3 DEF StartPay, Accept, TypeOK, NoJob
  <2>4. ASSUME NEW u \in Users, StartRelease(w, u) PROVE JobsOK'
    BY <2>4 DEF StartRelease, StartLoop, Accept, TypeOK, NoJob
  <2>5. QED
    BY <1>1, <2>1, <2>2, <2>3, <2>4 DEF Request
<1>2. ASSUME NEW w \in Cleaners, StartCleanup(w) PROVE JobsOK'
  BY <1>2 DEF StartCleanup, StartLoop, Accept, TypeOK, NoJob, Workers
<1>3. ASSUME NEW w \in Workers, Advance(w) PROVE JobsOK'
  <2>1. CASE PgApprove(w) \/ Confirm(w)
    BY <2>1 DEF PgApprove, Confirm, TypeOK
  <2>2. CASE PgDecline(w) \/ Record(w)
    <3>1. Finished(w)
      BY <2>2, FinishFrame DEF PgDecline, Record
    <3>2. QED
      BY <2>2, <3>1, FinishedJobs DEF PgDecline, Record
  <2>3. ASSUME NEW r \in Rids, NextReservation(w, r) PROVE JobsOK'
    BY <2>3 DEF NextReservation, TypeOK, Jobs
  <2>4. CASE LoopDone(w)
    BY <2>4 DEF LoopDone, TypeOK, NoJob
  <2>5. CASE AcquireLock(w)
    BY <2>5 DEF AcquireLock, FirstPlace, TypeOK
  <2>6. CASE GiveUp(w) \/ CheckDuplicate(w) \/ Recheck(w)
    BY <2>6 DEF GiveUp, CheckDuplicate, Recheck, TypeOK
  <2>7. CASE SelectForUpdate(w)
    BY <2>7 DEF SelectForUpdate, TypeOK
  <2>8. CASE Commit(w)
    BY <2>8 DEF Commit, Apply, TypeOK, Jobs
  <2>9. CASE Publish(w)
    BY <2>9 DEF Publish, TypeOK
  <2>10. CASE Unlock(w)
    <3>1. CASE job[w].op = "pay"
      BY <2>10, <3>1 DEF Unlock, TypeOK
    <3>2. CASE job[w].op # "pay"
      <4>1. Finished(w)
        BY <2>10, <3>2, FinishFrame DEF Unlock
      <4>2. QED
        BY <2>10, <4>1, FinishedJobs DEF Unlock
    <3>3. QED
      BY <3>1, <3>2
  <2>11. CASE Abort(w)
    BY <2>11 DEF Abort, TypeOK
  <2>12. CASE Rollback(w)
    <3>1. Finished(w)
      BY <2>12, FinishFrame DEF Rollback
    <3>2. QED
      BY <2>12, <3>1, FinishedJobs DEF Rollback, TypeOK
  <2>13. QED
    BY <1>3, <2>1, <2>2, <2>3, <2>4, <2>5, <2>6, <2>7, <2>8, <2>9, <2>10, <2>11, <2>12
    DEF Advance
<1>4. ASSUME NEW w \in Workers, Fault(w) PROVE JobsOK'
  <2>1. CASE StatementFails(w)
    <3>1. CASE pc[w] \in {"check", "recheck", "select", "commit", "confirm", "record"}
      BY <2>1, <3>1 DEF StatementFails, TypeOK, Jobs
    <3>2. CASE pc[w] = "loop"
      BY <2>1, <3>2 DEF StatementFails, TypeOK, NoJob
    <3>3. QED
      BY <2>1, <3>1, <3>2 DEF StatementFails
  <2>2. CASE CommitAnswerLost(w)
    BY <2>2 DEF CommitAnswerLost, Apply, TypeOK, Jobs
  <2>3. CASE AcquireFails(w) \/ UnlockFails(w) \/ RedisFails(w)
    BY <2>3 DEF AcquireFails, UnlockFails, RedisFails, TypeOK
  <2>4. CASE Crash(w)
    BY <2>4 DEF Crash, TypeOK, NoJob
  <2>5. QED
    BY <1>4, <2>1, <2>2, <2>3, <2>4 DEF Fault
<1>5. CASE \/ \E r \in Rids : Expire(r)
           \/ \E e \in Events : Lapse(e) \/ OrphanExpires(e)
           \/ UNCHANGED vars
  BY <1>5 DEF Expire, Lapse, OrphanExpires, vars
<1>6. QED
  BY <1>1, <1>2, <1>3, <1>4, <1>5 DEF Next, Quiet

(* The state of the tables, of Redis and of every worker has its type in   *)
(* every behaviour.                                                        *)
THEOREM TypeCorrect == Spec => [](TypeOK /\ JobsOK)
<1>1. Init => TypeOK /\ JobsOK
  BY NullTypes DEF Init, TypeOK, SeatStatus, Places, JobsOK, JobOK, NoJob, AllOps, LoopOps
<1>2. QED
  BY <1>1, TypeStep, JobStep, PTL DEF Spec

-----------------------------------------------------------------------------
(* Row locks.  Only a commit writes the seat and reservation tables, only  *)
(* SELECT FOR UPDATE locks rows, and no other step brings a worker to its  *)
(* commit or changes what it is going to commit.                           *)

Still ==
  /\ UNCHANGED <<seat, heldBy, res>>
  /\ \A w \in Workers : rows'[w] = rows[w] \/ rows'[w] = {}
  /\ \A w \in Workers : pc'[w] = "commit" =>
       pc[w] = "commit" /\ job'[w] = job[w] /\ rows'[w] = rows[w]

Writes(w) == Apply(w) /\ pc' \in {[pc EXCEPT ![w] = "publish"], [pc EXCEPT ![w] = "abort"]}

LEMMA OtherSteps ==
  ASSUME TypeOK, [Next]_vars
  PROVE  Still \/ \E w \in Workers : Writes(w) \/ SelectForUpdate(w)
<1> USE DEF Still, GoTo, Become, tables
<1>1. ASSUME NEW w \in Handlers, Request(w) PROVE Still
  BY <1>1 DEF Request, StartHold, StartCancel, StartPay, StartRelease, StartLoop, Accept,
              Workers, TypeOK
<1>2. ASSUME NEW w \in Cleaners, StartCleanup(w) PROVE Still
  BY <1>2 DEF StartCleanup, StartLoop, Accept, Workers, TypeOK
<1>3. ASSUME NEW w \in Workers, Advance(w), ~Commit(w), ~SelectForUpdate(w) PROVE Still
  <2>1. CASE PgApprove(w) \/ Confirm(w) \/ LoopDone(w) \/ \E r \in Rids : NextReservation(w, r)
    BY <2>1 DEF PgApprove, Confirm, LoopDone, NextReservation, TypeOK
  <2>2. CASE PgDecline(w) \/ Record(w) \/ Rollback(w)
    <3>1. Finished(w)
      BY <2>2, FinishFrame DEF PgDecline, Record, Rollback
    <3>2. QED
      BY <2>2, <3>1 DEF PgDecline, Record, Rollback, Finished, TypeOK
  <2>3. CASE AcquireLock(w)
    BY <2>3 DEF AcquireLock, FirstPlace, TypeOK
  <2>4. CASE GiveUp(w) \/ CheckDuplicate(w) \/ Recheck(w) \/ Publish(w) \/ Abort(w)
    BY <2>4 DEF GiveUp, CheckDuplicate, Recheck, Publish, Abort, TypeOK
  <2>5. CASE Unlock(w)
    <3>1. CASE job[w].op = "pay"
      BY <2>5, <3>1 DEF Unlock, TypeOK
    <3>2. CASE job[w].op # "pay"
      <4>1. Finished(w)
        BY <2>5, <3>2, FinishFrame DEF Unlock
      <4>2. QED
        BY <2>5, <4>1 DEF Unlock, Finished, TypeOK
    <3>3. QED
      BY <3>1, <3>2
  <2>6. QED
    BY <1>3, <2>1, <2>2, <2>3, <2>4, <2>5 DEF Advance
<1>4. ASSUME NEW w \in Workers, Fault(w), ~CommitAnswerLost(w) PROVE Still
  <2>1. CASE StatementFails(w)
    BY <2>1 DEF StatementFails, TypeOK
  <2>2. CASE AcquireFails(w) \/ RedisFails(w) \/ UnlockFails(w) \/ Crash(w)
    BY <2>2 DEF AcquireFails, RedisFails, UnlockFails, Crash, TypeOK
  <2>3. QED
    BY <1>4, <2>1, <2>2 DEF Fault
<1>5. CASE \/ \E r \in Rids : Expire(r)
           \/ \E e \in Events : Lapse(e) \/ OrphanExpires(e)
           \/ UNCHANGED vars
  BY <1>5 DEF Expire, Lapse, OrphanExpires, vars
<1>6. QED
  BY <1>1, <1>2, <1>3, <1>4, <1>5 DEF Next, Quiet, Commit, CommitAnswerLost, Writes

(* No row is locked twice, and a hold at its commit has locked seats that  *)
(* are still available.                                                    *)
RowsDisjoint == \A v, w \in Workers : v # w => rows[v] \cap rows[w] = {}
HoldReady ==
  \A w \in Workers : pc[w] = "commit" /\ job[w].op = "hold" =>
    rows[w] = job[w].seats /\ \A s \in rows[w] : seat[s] = "available"
RowLocks == RowsDisjoint /\ HoldReady

LEMMA RowLocksStep == TypeOK /\ RowLocks /\ [Next]_vars => RowLocks'
<1> SUFFICES ASSUME TypeOK, RowLocks, [Next]_vars PROVE RowLocks'
  OBVIOUS
<1> USE DEF RowLocks, RowsDisjoint, HoldReady
<1>1. CASE Still
  BY <1>1 DEF Still
<1>2. ASSUME NEW w \in Workers, Writes(w) PROVE RowLocks'
  <2>1. pc'[w] # "commit" /\ \A v \in Workers \ {w} : pc'[v] = pc[v] /\ job'[v] = job[v]
    BY <1>2 DEF Writes, Apply, Become, TypeOK
  <2>2. rows' = [rows EXCEPT ![w] = {}] /\ \A s \in Seats \ rows[w] : seat'[s] = seat[s]
    BY <1>2 DEF Writes, Apply
  <2>3. QED
    BY <2>1, <2>2 DEF TypeOK
<1>3. ASSUME NEW w \in Workers, SelectForUpdate(w) PROVE RowLocks'
  BY <1>3 DEF SelectForUpdate, Holdable, GoTo, TypeOK, tables
<1>4. QED
  BY <1>1, <1>2, <1>3, OtherSteps

LEMMA RowLocksInv == Spec => [](TypeOK /\ JobsOK /\ RowLocks)
<1>1. Init => RowLocks
  BY DEF Init, RowLocks, RowsDisjoint, HoldReady
<1>2. QED
  BY <1>1, RowLocksStep, TypeCorrect, PTL DEF Spec

(* Every hold takes seats that are available when it commits: for any      *)
(* number of workers, with lapsing locks, crashes and failures, the row    *)
(* locks alone are enough.                                                 *)
THEOREM HoldsTakeFreeSeats == Spec => HoldTakesFreeSeats
<1> DEFINE FreeTaken == \A r \in Rids :
             res[r].status = "absent" /\ res'[r].status = "held"
               => \A s \in res'[r].seats : seat[s] = "available"
<1>1. ASSUME TypeOK, JobsOK, RowLocks, [Next]_vars PROVE FreeTaken
  <2>1. ASSUME Still \/ \E w \in Workers : SelectForUpdate(w) PROVE FreeTaken
    BY <2>1 DEF Still, SelectForUpdate, tables
  <2>2. ASSUME NEW w \in Workers, Writes(w) PROVE FreeTaken
    <3> SUFFICES ASSUME NEW r \in Rids, res[r].status = "absent", res'[r].status = "held"
                 PROVE  \A s \in res'[r].seats : seat[s] = "available"
      OBVIOUS
    <3>1. pc[w] = "commit" /\ res' = [res EXCEPT ![job[w].rid] = NewRow(w)]
      BY <2>2 DEF Writes, Apply
    <3>2. r = job[w].rid /\ res'[r] = NewRow(w)
      BY <3>1 DEF TypeOK
    <3>3. CASE job[w].op = "hold"
      BY <3>1, <3>2, <3>3, <1>1 DEF NewRow, RowLocks, HoldReady
    <3>4. CASE job[w].op # "hold"
      BY <3>2, <3>4 DEF NewRow, TypeOK, Reservations
    <3>5. QED
      BY <3>3, <3>4
  <2>3. QED
    BY <1>1, <2>1, <2>2, OtherSteps
<1>2. QED
  BY <1>1, RowLocksInv, PTL DEF Spec, HoldTakesFreeSeats
=============================================================================
