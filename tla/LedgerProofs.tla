---------------------------- MODULE LedgerProofs ----------------------------
(***************************************************************************)
(* The seat table and the reservation table agree, a sale is final and a   *)
(* completed payment has bought its seats: for every number of workers and *)
(* with every fault, as long as no two operations that finish the same     *)
(* reservation overlap.  When they do overlap the three fail: the code     *)
(* checks a reservation before it has the lock, and not again under it.    *)
(***************************************************************************)
EXTENDS ReservationProofs

\* between its first check of a reservation and the commit that relies on it
Committed == {"charge", "confirm", "acquire", "check", "recheck", "select", "commit"}

\* no two workers are busy with one reservation
Apart ==
  /\ \A v, w \in Workers : v # w => Touched(v) \cap Touched(w) \subseteq {NoRid}
  /\ \A w \in Workers : job[w].rid \notin job[w].todo

\* what a worker has checked of its reservation still holds when it commits
Checked(w) ==
  /\ pc[w] \in Committed => res[job[w].rid].status =
       IF job[w].op = "hold" THEN "absent" ELSE "held"
  /\ \A r \in job[w].todo : Held(r)
  /\ pc[w] = "commit" /\ job[w].op # "hold" => rows[w] = res[job[w].rid].seats

\* a completed payment, and a payment whose request has committed the sale, belong
\* to a completed reservation
Settled ==
  /\ \A w \in Workers : job[w].op = "pay" =>
       /\ pay[job[w].pid].rid = job[w].rid
       /\ pc[w] \in {"publish", "unlock", "record"} => res[job[w].rid].status = "completed"
  /\ \A p \in Pids : pay[p].status = "completed" =>
       pay[p].rid \in Rids /\ res[pay[p].rid].status = "completed"

LedgerInv == Apart /\ (\A w \in Workers : Checked(w)) /\ SeatLedger /\ Settled

-----------------------------------------------------------------------------

(* What a request that is accepted is busy with.                           *)
LEMMA AcceptJob ==
  ASSUME TypeOK, NEW w \in Workers, NEW o, NEW p, NEW j \in Jobs, Accept(w, o, p, j)
  PROVE  /\ pc[w] = "idle" /\ pc'[w] = p
         /\ job'[w].op = o /\ job'[w].rid = j.rid /\ job'[w].pid = j.pid
         /\ job'[w].todo = j.todo /\ job'[w].seats = j.seats
         /\ \A v \in Workers \ {w} : pc'[v] = pc[v] /\ job'[v] = job[v]
         /\ rows' = rows
<1>1. [j EXCEPT !.op = o].op = o /\ [j EXCEPT !.op = o].rid = j.rid
      /\ [j EXCEPT !.op = o].pid = j.pid /\ [j EXCEPT !.op = o].todo = j.todo
      /\ [j EXCEPT !.op = o].seats = j.seats
  BY DEF Jobs
<1>2. job'[w] = [j EXCEPT !.op = o]
  BY DEF Accept, Become, TypeOK
<1>3. QED
  BY <1>1, <1>2 DEF Accept, GoTo, Become, TypeOK

\* the new requests: worker w takes up a reservation that nobody else is busy with
Begun(w) ==
  /\ UNCHANGED <<seat, heldBy, res, rows>>
  /\ pc[w] = "idle" /\ pc'[w] \in {"acquire", "charge", "loop"}
  /\ \A v \in Workers \ {w} : pc'[v] = pc[v] /\ job'[v] = job[v]
  /\ Touched(w)' \subseteq Rids \cup {NoRid}
  /\ job'[w].rid \notin job'[w].todo
  /\ \A v \in Workers \ {w} : Touched(v) \cap Touched(w)' \subseteq {NoRid}
  /\ pc'[w] # "loop" => res[job'[w].rid].status =
       IF job'[w].op = "hold" THEN "absent" ELSE "held"
  /\ \A r \in job'[w].todo : Held(r)
  /\ job'[w].op = "hold" => job'[w].seats # {}

LEMMA RequestBegins ==
  ASSUME TypeOK, ~Overlap, \A v \in Workers : Checked(v), NEW w \in Handlers, Request(w)
  PROVE  Begun(w)
<1> w \in Workers
  BY DEF Workers
<1> USE DEF Begun, Touched
<1>1. ASSUME NEW u \in Users, NEW e \in Events, NEW S \in SUBSET Seats, NEW r \in Rids,
             StartHold(w, u, e, S, r)
      PROVE  Begun(w)
  <2> DEFINE j == [NoJob EXCEPT !.user = u, !.event = e, !.seats = S, !.rid = r]
  <2>1. j \in Jobs /\ j.rid = r /\ j.todo = {} /\ j.seats = S
    BY DEF NoJob, Jobs, AllOps, ResStatus
  <2>2. Accept(w, "hold", "acquire", j) /\ Drawable(r) /\ UNCHANGED tables /\ S # {}
    BY <1>1 DEF StartHold
  <2> HIDE DEF j
  <2>3. \A v \in Workers : r \notin job[v].todo
    BY <2>2 DEF Drawable, Checked, Held
  <2>4. QED
    BY <2>1, <2>2, <2>3, AcceptJob DEF Drawable, tables
<1>2. ASSUME NEW r \in Rids, StartCancel(w, r) PROVE Begun(w)
  <2> DEFINE j == [NoJob EXCEPT !.rid = r, !.event = res[r].event]
  <2>1. j \in Jobs /\ j.rid = r /\ j.todo = {}
    BY DEF NoJob, Jobs, AllOps, ResStatus, TypeOK, Reservations
  <2>2. Accept(w, "cancel", "acquire", j) /\ Held(r) /\ MayTouch({r}) /\ UNCHANGED tables
    BY <1>2 DEF StartCancel
  <2> HIDE DEF j
  <2>3. QED
    BY <2>1, <2>2, AcceptJob DEF MayTouch, Held, tables
<1>3. ASSUME NEW r \in Rids, NEW p \in Pids, StartPay(w, r, p) PROVE Begun(w)
  <2> DEFINE j == [NoJob EXCEPT !.rid = r, !.pid = p, !.event = res[r].event]
  <2>1. j \in Jobs /\ j.rid = r /\ j.todo = {}
    BY DEF NoJob, Jobs, AllOps, ResStatus, TypeOK, Reservations
  <2>2. Accept(w, "pay", "charge", j) /\ Held(r) /\ MayTouch({r})
        /\ UNCHANGED <<seat, heldBy, res>>
    BY <1>3 DEF StartPay
  <2> HIDE DEF j
  <2>3. QED
    BY <2>1, <2>2, AcceptJob DEF MayTouch, Held
<1>4. ASSUME NEW u \in Users, StartRelease(w, u) PROVE Begun(w)
  <2> DEFINE j == [NoJob EXCEPT !.todo = HeldBy(u), !.orm = "listed"]
  <2>1. j \in Jobs /\ j.rid = NoRid /\ j.todo = HeldBy(u) /\ HeldBy(u) \subseteq Rids
    BY DEF NoJob, Jobs, AllOps, ResStatus, HeldBy
  <2>2. Accept(w, "release", "loop", j) /\ MayTouch(HeldBy(u)) /\ UNCHANGED tables
    BY <1>4 DEF StartRelease, StartLoop
  <2> HIDE DEF j
  <2>3. QED
    BY <2>1, <2>2, AcceptJob, NullAssumption DEF MayTouch, HeldBy, tables
<1>5. QED
  BY <1>1, <1>2, <1>3, <1>4 DEF Request

LEMMA CleanupBegins ==
  ASSUME TypeOK, ~Overlap, NEW w \in Cleaners, StartCleanup(w)
  PROVE  Begun(w)
<1> w \in Workers
  BY DEF Workers
<1> USE DEF Begun, Touched
<1> DEFINE j == [NoJob EXCEPT !.todo = ExpiredHeld, !.orm = "listed"]
<1>1. j \in Jobs /\ j.rid = NoRid /\ j.todo = ExpiredHeld /\ ExpiredHeld \subseteq Rids
  BY DEF NoJob, Jobs, AllOps, ResStatus, ExpiredHeld
<1>2. Accept(w, "cleanup", "loop", j) /\ MayTouch(ExpiredHeld) /\ UNCHANGED tables
  BY DEF StartCleanup, StartLoop
<1> HIDE DEF j
<1>3. QED
  BY <1>1, <1>2, AcceptJob, NullAssumption DEF MayTouch, ExpiredHeld, tables

-----------------------------------------------------------------------------

Selling == {"publish", "unlock", "record"}

\* a step of worker w that writes neither table and begins no request
Goes(w) ==
  /\ UNCHANGED <<seat, heldBy, res>>
  /\ \A v \in Workers \ {w} : pc'[v] = pc[v] /\ job'[v] = job[v] /\ rows'[v] = rows[v]
  /\ Touched(w)' \subseteq Touched(w) \cup {NoRid}
  /\ job'[w].rid \notin job'[w].todo
  /\ Checked(w)'
  /\ job'[w].op \in {"hold", "pay"} => job'[w] = job[w]
  /\ job'[w].op = "pay" /\ pc'[w] \in Selling => pc[w] \in Selling
  /\ job'[w].op = "hold" /\ pc'[w] = "commit" => rows'[w] = job[w].seats

LEMMA FinishGoes ==
  ASSUME TypeOK, JobsOK, Apart, NEW w \in Workers, Checked(w), NEW o, Finish(w, o),
         UNCHANGED <<seat, heldBy, res>>, \A v \in Workers \ {w} : rows'[v] = rows[v]
  PROVE  Goes(w)
<1>1. Finished(w)
  BY FinishFrame
<1>2. job[w].todo \subseteq Rids
  BY DEF TypeOK, Jobs
<1>3. CASE job[w].op \in LoopOps
  <2>1. /\ pc'[w] = "loop" /\ job'[w].op = job[w].op /\ job'[w].rid = NoRid
        /\ job'[w].todo = job[w].todo
    BY <1>1, <1>3 DEF Finished
  <2>2. Checked(w)'
    BY <2>1 DEF Checked, Committed, Held
  <2>3. QED
    BY <1>1, <1>2, <1>3, <2>1, <2>2, NullAssumption DEF Goes, Finished, Touched, LoopOps
<1>4. CASE job[w].op \notin LoopOps
  <2>1. pc'[w] = "idle" /\ job'[w] = NoJob
    BY <1>1, <1>4 DEF Finished
  <2>2. NoJob.op = "none" /\ NoJob.rid = NoRid /\ NoJob.todo = {}
    BY DEF NoJob
  <2>3. Checked(w)'
    BY <2>1, <2>2 DEF Checked, Committed
  <2>4. QED
    BY <1>1, <2>1, <2>2, <2>3 DEF Goes, Finished, Touched
<1>5. QED
  BY <1>3, <1>4

\* a step that keeps the job, the row locks and the tables, and does not bring the
\* worker closer to a commit or to the end of a sale than it was
LEMMA MoveGoes ==
  ASSUME TypeOK, JobsOK, Apart, NEW w \in Workers, Checked(w), NEW p, GoTo(w, p),
         UNCHANGED <<seat, heldBy, res, job, rows>>,
         p \in Committed => pc[w] \in Committed,
         p \in Selling /\ job[w].op = "pay" => pc[w] \in Selling,
         p # "commit"
  PROVE  Goes(w)
<1>1. /\ pc'[w] = p /\ \A v \in Workers \ {w} : pc'[v] = pc[v]
  BY DEF GoTo, TypeOK
<1>2. Checked(w)'
  BY <1>1 DEF Checked, Held
<1>3. QED
  BY <1>1, <1>2 DEF Goes, Apart, Touched

LEMMA AdvanceGoes ==
  ASSUME TypeOK, JobsOK, Apart, NEW w \in Workers, Checked(w), Advance(w), ~Commit(w)
  PROVE  Goes(w)
<1> USE DEF tables, Committed, Selling
<1>1. CASE PgApprove(w) \/ Confirm(w)
  BY <1>1, MoveGoes DEF PgApprove, Confirm
<1>2. CASE PgDecline(w) \/ Record(w)
  BY <1>2, FinishGoes DEF PgDecline, Record
<1>3. ASSUME NEW r \in Rids, NextReservation(w, r) PROVE Goes(w)
  <2>1. /\ pc'[w] = "acquire" /\ job'[w].op = job[w].op /\ job'[w].rid = r
        /\ job'[w].todo = job[w].todo \ {r}
        /\ \A v \in Workers \ {w} : pc'[v] = pc[v] /\ job'[v] = job[v]
    BY <1>3 DEF NextReservation, GoTo, Become, TypeOK, Jobs
  <2>2. job[w].op \in LoopOps
    BY <1>3 DEF NextReservation, JobsOK, JobOK
  <2>3. UNCHANGED <<seat, heldBy, res, rows>> /\ r \in job[w].todo
    BY <1>3 DEF NextReservation
  <2>4. Checked(w)'
    BY <2>1, <2>2, <2>3 DEF Checked, Held, LoopOps
  <2>5. QED
    BY <2>1, <2>2, <2>3, <2>4 DEF Goes, Touched, LoopOps
<1>4. CASE LoopDone(w)
  <2>1. /\ pc'[w] = "idle" /\ job'[w].op = "none" /\ job'[w].rid = NoRid
        /\ job'[w].todo = {}
        /\ \A v \in Workers \ {w} : pc'[v] = pc[v] /\ job'[v] = job[v]
    BY <1>4 DEF LoopDone, GoTo, Become, TypeOK, NoJob
  <2>2. QED
    BY <1>4, <2>1 DEF LoopDone, Goes, Touched, Checked
<1>5. CASE AcquireLock(w)
  BY <1>5, MoveGoes DEF AcquireLock, FirstPlace
<1>6. CASE GiveUp(w) \/ CheckDuplicate(w) \/ Recheck(w) \/ Publish(w) \/ Abort(w)
  <2>1. pc[w] = "recheck" => job[w].op # "pay"
    BY DEF JobsOK, JobOK, LoopOps
  <2>2. QED
    BY <1>6, <2>1, MoveGoes DEF GiveUp, CheckDuplicate, Recheck, Publish, Abort
<1>7. CASE SelectForUpdate(w)
  <2>1. /\ pc[w] = "select" /\ pc'[w] \in {"abort", "commit"}
        /\ job' = job /\ rows'[w] = RowsWanted(w)
        /\ \A v \in Workers \ {w} : pc'[v] = pc[v] /\ rows'[v] = rows[v]
        /\ UNCHANGED <<seat, heldBy, res>>
        /\ job[w].op = "hold" /\ pc'[w] = "commit" => rows'[w] = job[w].seats
    BY <1>7 DEF SelectForUpdate, GoTo, TypeOK, Holdable
  <2>2. Checked(w)'
    BY <2>1 DEF Checked, Held, RowsWanted
  <2>3. QED
    BY <2>1, <2>2 DEF Goes, Apart, Touched
<1>8. CASE Unlock(w)
  <2>1. CASE job[w].op = "pay"
    BY <1>8, <2>1, MoveGoes DEF Unlock
  <2>2. CASE job[w].op # "pay"
    BY <1>8, <2>2, FinishGoes DEF Unlock
  <2>3. QED
    BY <2>1, <2>2
<1>9. CASE Rollback(w)
  BY <1>9, FinishGoes DEF Rollback, TypeOK
<1>10. QED
  BY <1>1, <1>2, <1>3, <1>4, <1>5, <1>6, <1>7, <1>8, <1>9 DEF Advance

LEMMA FaultGoes ==
  ASSUME TypeOK, JobsOK, Apart, NEW w \in Workers, Checked(w), Fault(w),
         ~CommitAnswerLost(w)
  PROVE  Goes(w)
<1> USE DEF tables, Committed, Selling
<1>1. ASSUME GoTo(w, "idle"), Become(w, NoJob), UNCHANGED <<seat, heldBy, res>>,
             \A v \in Workers \ {w} : rows'[v] = rows[v]
      PROVE  Goes(w)
  <2>1. /\ pc'[w] = "idle" /\ job'[w].op = "none" /\ job'[w].rid = NoRid
        /\ job'[w].todo = {}
        /\ \A v \in Workers \ {w} : pc'[v] = pc[v] /\ job'[v] = job[v]
    BY <1>1 DEF GoTo, Become, TypeOK, NoJob
  <2>2. QED
    BY <1>1, <2>1 DEF Goes, Touched, Checked
<1>2. CASE StatementFails(w)
  <2>1. CASE pc[w] = "loop"
    BY <1>1, <1>2, <2>1 DEF StatementFails
  <2>2. CASE pc[w] # "loop" /\ job' = job
    BY <1>2, <2>2, MoveGoes DEF StatementFails
  <2>3. CASE pc[w] # "loop" /\ job' # job
    <3>1. /\ pc'[w] = "abort" /\ job'[w].op = "cleanup" /\ job'[w].rid = job[w].rid
          /\ job'[w].todo = {}
          /\ \A v \in Workers \ {w} : pc'[v] = pc[v] /\ job'[v] = job[v]
      BY <1>2, <2>3 DEF StatementFails, GoTo, Become, TypeOK, Jobs
    <3>2. UNCHANGED <<seat, heldBy, res, rows>>
      BY <1>2 DEF StatementFails
    <3>3. QED
      BY <3>1, <3>2 DEF Goes, Touched, Checked
  <2>4. QED
    BY <2>1, <2>2, <2>3
<1>3. CASE AcquireFails(w) \/ RedisFails(w) \/ UnlockFails(w)
  BY <1>3, MoveGoes DEF AcquireFails, RedisFails, UnlockFails
<1>4. CASE Crash(w)
  BY <1>1, <1>4 DEF Crash, TypeOK
<1>5. QED
  BY <1>2, <1>3, <1>4 DEF Fault

-----------------------------------------------------------------------------
(* A commit rewrites one reservation and the rows it has locked: the seats *)
(* of that reservation, which is held, or seats that are all available.    *)

Wrote(w) ==
  LET r == job[w].rid IN
  /\ r \in Rids /\ pc[w] = "commit"
  /\ seat' = [s \in Seats |-> IF s \in rows[w] THEN NewStatus(job[w].op) ELSE seat[s]]
  /\ heldBy' = [s \in Seats |-> IF s \notin rows[w] THEN heldBy[s]
                                ELSE IF job[w].op = "hold" THEN job[w].user ELSE NoUser]
  /\ \A q \in Rids \ {r} : res'[q] = res[q]
  /\ res'[r].seats = rows[w]
  /\ job[w].op = "hold" => /\ res[r].status = "absent" /\ res'[r].status = "held"
                           /\ res'[r].user = job[w].user
                           /\ \A s \in rows[w] : seat[s] = "available"
  /\ job[w].op # "hold" => /\ res[r].status = "held" /\ res[r].seats = rows[w]
                           /\ res'[r].status = IF job[w].op = "pay" THEN "completed"
                                                                    ELSE "cancelled"

LEMMA CommitWrites ==
  ASSUME TypeOK, JobsOK, RowLocks, NEW w \in Workers, Checked(w), Writes(w)
  PROVE  Wrote(w)
<1>1. pc[w] = "commit" /\ job[w].rid \in Rids /\ res[job[w].rid] \in Reservations
  BY DEF Writes, Apply, JobsOK, JobOK, TypeOK
<1>2. res' = [res EXCEPT ![job[w].rid] = NewRow(w)]
  BY DEF Writes, Apply
<1>3. res'[job[w].rid] = NewRow(w) /\ \A q \in Rids \ {job[w].rid} : res'[q] = res[q]
  BY <1>1, <1>2 DEF TypeOK
<1>4. CASE job[w].op = "hold"
  <2>1. /\ NewRow(w).status = "held" /\ NewRow(w).user = job[w].user
        /\ NewRow(w).seats = rows[w]
    BY <1>4 DEF NewRow
  <2>2. /\ \A s \in rows[w] : seat[s] = "available"
        /\ res[job[w].rid].status = "absent"
    BY <1>1, <1>4 DEF RowLocks, HoldReady, Checked, Committed
  <2>3. QED
    BY <1>1, <1>3, <1>4, <2>1, <2>2 DEF Wrote, Writes, Apply
<1>5. CASE job[w].op # "hold"
  <2>1. /\ NewRow(w).status = IF job[w].op = "pay" THEN "completed" ELSE "cancelled"
        /\ NewRow(w).seats = res[job[w].rid].seats
    BY <1>1, <1>5 DEF NewRow, Reservations
  <2>2. /\ res[job[w].rid].status = "held" /\ res[job[w].rid].seats = rows[w]
    BY <1>1, <1>5 DEF Checked, Committed
  <2>3. QED
    BY <1>1, <1>3, <1>5, <2>1, <2>2 DEF Wrote, Writes, Apply
<1>6. QED
  BY <1>4, <1>5

\* which reservations have a seat, before and after
LEMMA LiveForWrote ==
  ASSUME TypeOK, NEW w \in Workers, Wrote(w), NEW s \in Seats
  PROVE  /\ s \notin rows[w] => LiveFor(s)' = LiveFor(s)
         /\ s \in rows[w] /\ job[w].op = "hold" => LiveFor(s)' = LiveFor(s) \cup {job[w].rid}
         /\ s \in rows[w] /\ job[w].op = "pay" => LiveFor(s)' = LiveFor(s)
         /\ s \in rows[w] /\ job[w].op \notin {"hold", "pay"} =>
              LiveFor(s)' = LiveFor(s) \ {job[w].rid}
         /\ s \in rows[w] /\ job[w].op # "hold" => job[w].rid \in LiveFor(s)
BY DEF Wrote, LiveFor, Live

LEMMA LedgerWrote ==
  ASSUME TypeOK, SeatLedger, NEW w \in Workers, Wrote(w)
  PROVE  SeatLedger'
<1> SUFFICES ASSUME NEW s \in Seats
             PROVE  \/ seat'[s] = "available" /\ heldBy'[s] = NoUser /\ LiveFor(s)' = {}
                    \/ \E r \in Rids :
                         /\ LiveFor(s)' = {r}
                         /\ \/ Held(r)' /\ seat'[s] = "hold" /\ heldBy'[s] = res'[r].user
                            \/ ~Held(r)' /\ seat'[s] = "sold" /\ heldBy'[s] = NoUser
  BY DEF SeatLedger
<1>1. \/ seat[s] = "available" /\ heldBy[s] = NoUser /\ LiveFor(s) = {}
      \/ \E r \in Rids :
           /\ LiveFor(s) = {r}
           /\ \/ Held(r) /\ seat[s] = "hold" /\ heldBy[s] = res[r].user
              \/ ~Held(r) /\ seat[s] = "sold" /\ heldBy[s] = NoUser
  BY DEF SeatLedger
<1>2. CASE s \notin rows[w]
  <2>1. seat'[s] = seat[s] /\ heldBy'[s] = heldBy[s] /\ LiveFor(s)' = LiveFor(s)
    BY <1>2, LiveForWrote DEF Wrote
  <2>2. \A r \in LiveFor(s) : res'[r] = res[r]
    <3>1. job[w].rid \notin LiveFor(s)
      BY <1>2 DEF Wrote, LiveFor, Live
    <3>2. QED
      BY <3>1 DEF Wrote, LiveFor
  <2>3. QED
    BY <1>1, <2>1, <2>2 DEF Held
<1>3. CASE s \in rows[w] /\ job[w].op = "hold"
  <2>1. seat[s] = "available" /\ LiveFor(s) = {}
    BY <1>1, <1>3 DEF Wrote
  <2>2. LiveFor(s)' = {job[w].rid}
    BY <1>3, <2>1, LiveForWrote
  <2>3. QED
    BY <1>3, <2>2 DEF Wrote, Held, NewStatus
<1>4. CASE s \in rows[w] /\ job[w].op = "pay"
  <2>1. LiveFor(s)' = {job[w].rid}
    BY <1>1, <1>4, LiveForWrote
  <2>2. QED
    BY <1>4, <2>1 DEF Wrote, Held, NewStatus
<1>5. CASE s \in rows[w] /\ job[w].op \notin {"hold", "pay"}
  <2>1. LiveFor(s)' = {}
    BY <1>1, <1>5, LiveForWrote
  <2>2. QED
    BY <1>5, <2>1 DEF Wrote, NewStatus
<1>6. QED
  BY <1>2, <1>3, <1>4, <1>5

-----------------------------------------------------------------------------
(* The invariant is kept by the three kinds of steps of workers.           *)

LEMMA BegunKeeps ==
  ASSUME TypeOK, JobsOK, Apart, \A v \in Workers : Checked(v), NEW w \in Workers, Begun(w)
  PROVE  Apart' /\ \A v \in Workers : Checked(v)'
<1>1. Apart'
  BY DEF Begun, Apart, Touched
<1>2. ASSUME NEW v \in Workers \ {w} PROVE Checked(v)'
  BY <1>2 DEF Begun, Checked, Held
<1>3. Checked(w)'
  BY DEF Begun, Checked, Held, Committed
<1>4. QED
  BY <1>1, <1>2, <1>3

LEMMA GoesKeeps ==
  ASSUME TypeOK, JobsOK, Apart, \A v \in Workers : Checked(v), NEW w \in Workers, Goes(w)
  PROVE  Apart' /\ \A v \in Workers : Checked(v)'
<1>1. Apart'
  BY DEF Goes, Apart, Touched
<1>2. ASSUME NEW v \in Workers \ {w} PROVE Checked(v)'
  BY <1>2 DEF Goes, Checked, Held
<1>3. QED
  BY <1>1, <1>2 DEF Goes

LEMMA WritesKeeps ==
  ASSUME TypeOK, JobsOK, RowLocks, Apart, \A v \in Workers : Checked(v),
         NEW w \in Workers, Writes(w)
  PROVE  Apart' /\ \A v \in Workers : Checked(v)'
<1>1. Wrote(w)
  BY CommitWrites
<1>2. /\ pc'[w] \in {"publish", "abort"}
      /\ \A v \in Workers \ {w} : pc'[v] = pc[v] /\ job'[v] = job[v] /\ rows'[v] = rows[v]
  BY DEF Writes, Apply, Become, TypeOK
<1>3. job'[w].rid = job[w].rid /\ job'[w].todo = job[w].todo
  BY DEF Writes, Apply, Become, TypeOK, Jobs
<1>4. Apart'
  BY <1>2, <1>3 DEF Apart, Touched
<1>5. ASSUME NEW v \in Workers PROVE \A r \in job[v].todo : Held(r)'
  <2>1. job[w].rid \in Rids /\ job[v].todo \subseteq Rids
    BY <1>1 DEF Wrote, TypeOK, Jobs
  <2>2. job[w].rid \notin job[v].todo
    BY <2>1, NullAssumption DEF Apart, Touched
  <2>3. QED
    BY <1>1, <2>1, <2>2 DEF Wrote, Checked, Held
<1>6. Checked(w)'
  BY <1>2, <1>3, <1>5 DEF Checked, Committed
<1>7. ASSUME NEW v \in Workers \ {w} PROVE Checked(v)'
  <2>1. pc[v] \in Committed => job[v].rid \in Rids \ {job[w].rid}
    <3>1. pc[v] \in Committed => job[v].rid \in Rids
      BY DEF JobsOK, JobOK, Committed
    <3>2. QED
      BY <3>1, <1>7, NullAssumption DEF Apart, Touched
  <2>2. pc[v] \in Committed => res'[job[v].rid] = res[job[v].rid]
    BY <1>1, <2>1 DEF Wrote
  <2>3. "commit" \in Committed
    BY DEF Committed
  <2>4. QED
    BY <1>2, <1>5, <2>2, <2>3 DEF Checked
<1>8. QED
  BY <1>4, <1>6, <1>7

\* a payment is in the hands of one worker at most, and stays with its reservation
LEMMA SettledStep ==
  ASSUME TypeOK, JobsOK, RowLocks, Apart, \A v \in Workers : Checked(v), Settled,
         [Next]_vars, ~Overlap
  PROVE  Settled'
<1> USE DEF Settled
<1>1. \A v \in Workers : job[v].op = "pay" => job[v].rid \in Rids /\ job[v].pid \in Pids
  BY DEF JobsOK, JobOK, NoJob, LoopOps
<1>2. ASSUME NEW w \in Handlers, Request(w) PROVE Settled'
  <2> w \in Workers
    BY DEF Workers
  <2>1. Begun(w)
    BY <1>2, RequestBegins
  <2>2. ASSUME NEW r \in Rids, NEW p \in Pids, StartPay(w, r, p) PROVE Settled'
    <3>1. /\ job'[w].op = "pay" /\ job'[w].rid = r /\ job'[w].pid = p
          /\ pc'[w] = "charge"
      <4> DEFINE j == [NoJob EXCEPT !.rid = r, !.pid = p, !.event = res[r].event]
      <4>1. j \in Jobs /\ j.rid = r /\ j.pid = p
        BY DEF NoJob, Jobs, AllOps, ResStatus, TypeOK, Reservations
      <4>2. Accept(w, "pay", "charge", j)
        BY <2>2 DEF StartPay
      <4> HIDE DEF j
      <4>3. QED
        BY <4>1, <4>2, AcceptJob
    <3>2. /\ pay'[p].rid = r /\ pay'[p].status = "pending"
          /\ \A q \in Pids \ {p} : pay'[q] = pay[q]
      BY <2>2 DEF StartPay, TypeOK
    <3>3. \A v \in Workers : job[v].op = "pay" => job[v].pid # p
      BY <1>1, <2>2, NullAssumption DEF StartPay, Unpaid
    <3>4. QED
      BY <1>1, <2>1, <3>1, <3>2, <3>3 DEF Begun, Selling
  <2>3. ASSUME NEW o \in AllOps \ {"pay"}, NEW q \in Places, NEW j \in Jobs,
               Accept(w, o, q, j), UNCHANGED tables
        PROVE  Settled'
    BY <2>1, <2>3, AcceptJob DEF Begun, tables
  <2>4. ASSUME NEW u \in Users, NEW e \in Events, NEW S \in SUBSET Seats, NEW r \in Rids,
               StartHold(w, u, e, S, r)
        PROVE  Settled'
    <3>1. [NoJob EXCEPT !.user = u, !.event = e, !.seats = S, !.rid = r] \in Jobs
      BY DEF NoJob, Jobs, AllOps, ResStatus
    <3>2. QED
      BY <2>3, <2>4, <3>1 DEF StartHold, AllOps, Places
  <2>5. ASSUME NEW r \in Rids, StartCancel(w, r) PROVE Settled'
    <3>1. [NoJob EXCEPT !.rid = r, !.event = res[r].event] \in Jobs
      BY DEF NoJob, Jobs, AllOps, ResStatus, TypeOK, Reservations
    <3>2. QED
      BY <2>3, <2>5, <3>1 DEF StartCancel, AllOps, Places
  <2>6. ASSUME NEW u \in Users, StartRelease(w, u) PROVE Settled'
    <3>1. [NoJob EXCEPT !.todo = HeldBy(u), !.orm = "listed"] \in Jobs
      BY DEF NoJob, Jobs, AllOps, ResStatus, HeldBy
    <3>2. QED
      BY <2>3, <2>6, <3>1 DEF StartRelease, StartLoop, AllOps, LoopOps, Places
  <2>7. QED
    BY <1>2, <2>2, <2>4, <2>5, <2>6 DEF Request
<1>3. ASSUME NEW w \in Cleaners, StartCleanup(w) PROVE Settled'
  <2> w \in Workers
    BY DEF Workers
  <2>1. Begun(w)
    BY <1>3, CleanupBegins
  <2>2. [NoJob EXCEPT !.todo = ExpiredHeld, !.orm = "listed"] \in Jobs
    BY DEF NoJob, Jobs, AllOps, ResStatus, ExpiredHeld
  <2>3. job'[w].op = "cleanup" /\ pay' = pay
    BY <1>3, <2>2, AcceptJob DEF StartCleanup, StartLoop, tables
  <2>4. QED
    BY <2>1, <2>3 DEF Begun
<1>4. ASSUME NEW w \in Workers, Goes(w), pay' = pay PROVE Settled'
  BY <1>4 DEF Goes, Selling
<1>5. ASSUME NEW w \in Workers, Goes(w), PgApprove(w) \/ PgDecline(w) \/ Record(w)
      PROVE  Settled'
  <2>1. job[w].op = "pay"
    BY <1>5 DEF PgApprove, PgDecline, Record, JobsOK, JobOK
  <2>2. /\ \A p \in Pids : pay'[p].rid = pay[p].rid
        /\ \A p \in Pids : pay'[p].status = "completed" /\ pay[p].status # "completed" =>
             p = job[w].pid /\ pc[w] = "record"
    BY <1>5 DEF PgApprove, PgDecline, Record, TypeOK, Payments
  <2>3. QED
    BY <1>1, <1>5, <2>1, <2>2 DEF Goes, Selling
<1>6. ASSUME NEW w \in Workers, Writes(w) PROVE Settled'
  <2>1. Wrote(w)
    BY <1>6, CommitWrites
  <2>2. /\ pc[w] = "commit" /\ pay' = pay
        /\ \A v \in Workers \ {w} : pc'[v] = pc[v] /\ job'[v] = job[v]
    BY <1>6 DEF Writes, Apply, Become, TypeOK
  <2>3. job'[w].rid = job[w].rid /\ job'[w].op = job[w].op /\ job'[w].pid = job[w].pid
    BY <1>6 DEF Writes, Apply, Become, TypeOK, Jobs
  <2>4. \A r \in Rids : res[r].status = "completed" => res'[r].status = "completed"
    BY <2>1 DEF Wrote
  <2>5. job[w].op = "pay" => res'[job[w].rid].status = "completed"
    BY <2>1 DEF Wrote
  <2>6. QED
    BY <1>1, <2>2, <2>3, <2>4, <2>5
<1>7. CASE \/ \E r \in Rids : Expire(r)
           \/ \E e \in Events : Lapse(e) \/ OrphanExpires(e)
           \/ UNCHANGED vars
  BY <1>7 DEF Expire, Lapse, OrphanExpires, vars, tables
<1>8. ASSUME NEW w \in Workers, Advance(w) PROVE Settled'
  <2>1. CASE Commit(w)
    BY <1>6, <2>1 DEF Commit, Writes, GoTo
  <2>2. CASE ~Commit(w)
    <3>1. Goes(w)
      BY <1>8, <2>2, AdvanceGoes
    <3>2. pay' = pay \/ PgApprove(w) \/ PgDecline(w) \/ Record(w)
      BY <1>8, <2>2 DEF Advance, Confirm, NextReservation, LoopDone, AcquireLock, GiveUp,
           CheckDuplicate, Recheck, SelectForUpdate, Publish, Unlock, Abort, Rollback, tables
    <3>3. QED
      BY <1>4, <1>5, <3>1, <3>2
  <2>3. QED
    BY <2>1, <2>2
<1>9. ASSUME NEW w \in Workers, Fault(w) PROVE Settled'
  <2>1. CASE CommitAnswerLost(w)
    BY <1>6, <2>1 DEF CommitAnswerLost, Writes, GoTo
  <2>2. CASE ~CommitAnswerLost(w)
    <3>1. Goes(w)
      BY <1>9, <2>2, FaultGoes
    <3>2. pay' = pay
      BY <1>9, <2>2 DEF Fault, StatementFails, AcquireFails, RedisFails, UnlockFails, Crash,
           tables
    <3>3. QED
      BY <1>4, <3>1, <3>2
  <2>3. QED
    BY <2>1, <2>2
<1>10. QED
  BY <1>2, <1>3, <1>7, <1>8, <1>9 DEF Next, Quiet

-----------------------------------------------------------------------------

Rest == UNCHANGED <<seat, heldBy, res, pc, job, rows>>

LEMMA StepKinds ==
  ASSUME TypeOK, JobsOK, ~Overlap, Apart, \A v \in Workers : Checked(v), [Next]_vars
  PROVE  Rest \/ \E w \in Workers : Begun(w) \/ Goes(w) \/ Writes(w)
<1>1. ASSUME NEW w \in Handlers, Request(w) PROVE w \in Workers /\ Begun(w)
  BY <1>1, RequestBegins DEF Workers
<1>2. ASSUME NEW w \in Cleaners, StartCleanup(w) PROVE w \in Workers /\ Begun(w)
  BY <1>2, CleanupBegins DEF Workers
<1>3. ASSUME NEW w \in Workers, Advance(w) PROVE Goes(w) \/ Writes(w)
  BY <1>3, AdvanceGoes DEF Commit, Writes, GoTo
<1>4. ASSUME NEW w \in Workers, Fault(w) PROVE Goes(w) \/ Writes(w)
  BY <1>4, FaultGoes DEF CommitAnswerLost, Writes, GoTo
<1>5. CASE \/ \E r \in Rids : Expire(r)
           \/ \E e \in Events : Lapse(e) \/ OrphanExpires(e)
           \/ UNCHANGED vars
  BY <1>5 DEF Rest, Expire, Lapse, OrphanExpires, vars, tables
<1>6. QED
  BY <1>1, <1>2, <1>3, <1>4, <1>5 DEF Next, Quiet

LEMMA LedgerStep ==
  ASSUME TypeOK, JobsOK, RowLocks, LedgerInv, ~Overlap, [Next]_vars
  PROVE  LedgerInv'
<1>1. Settled'
  BY SettledStep DEF LedgerInv
<1>2. CASE Rest
  <2>1. Apart' /\ \A v \in Workers : Checked(v)'
    BY <1>2 DEF Rest, LedgerInv, Apart, Touched, Checked, Held
  <2>2. SeatLedger'
    BY <1>2 DEF Rest, LedgerInv, SeatLedger, LiveFor, Live, Held
  <2>3. QED
    BY <1>1, <2>1, <2>2 DEF LedgerInv
<1>3. ASSUME NEW w \in Workers, Begun(w) \/ Goes(w) PROVE LedgerInv'
  <2>1. Apart' /\ \A v \in Workers : Checked(v)'
    BY <1>3, BegunKeeps, GoesKeeps DEF LedgerInv
  <2>2. UNCHANGED <<seat, heldBy, res>>
    BY <1>3 DEF Begun, Goes
  <2>3. SeatLedger'
    BY <2>2 DEF LedgerInv, SeatLedger, LiveFor, Live, Held
  <2>4. QED
    BY <1>1, <2>1, <2>3 DEF LedgerInv
<1>4. ASSUME NEW w \in Workers, Writes(w) PROVE LedgerInv'
  <2>1. Apart' /\ \A v \in Workers : Checked(v)'
    BY <1>4, WritesKeeps DEF LedgerInv
  <2>2. SeatLedger'
    BY <1>4, CommitWrites, LedgerWrote DEF LedgerInv
  <2>3. QED
    BY <1>1, <2>1, <2>2 DEF LedgerInv
<1>5. QED
  BY <1>2, <1>3, <1>4, StepKinds DEF LedgerInv

LEMMA LedgerInit == Init => LedgerInv
<1> SUFFICES ASSUME Init PROVE LedgerInv
  OBVIOUS
<1>1. \A w \in Workers : pc[w] = "idle" /\ job[w].op = "none" /\ job[w].rid = NoRid
                         /\ job[w].todo = {}
  BY DEF Init, NoJob
<1>2. \A r \in Rids : res[r].status = "absent"
  BY DEF Init, Absent
<1>3. \A p \in Pids : pay[p].status = "absent"
  BY DEF Init, Unpaid
<1>4. Apart /\ Settled /\ \A w \in Workers : Checked(w)
  BY <1>1, <1>3 DEF Apart, Touched, Settled, Checked, Committed
<1>5. SeatLedger
  BY <1>2 DEF Init, SeatLedger, LiveFor, Live
<1>6. QED
  BY <1>4, <1>5 DEF LedgerInv

LEMMA LedgerInvariant ==
  ASSUME ~Overlap
  PROVE  Spec => [](TypeOK /\ JobsOK /\ RowLocks /\ LedgerInv)
<1>1. TypeOK /\ JobsOK /\ RowLocks /\ LedgerInv /\ [Next]_vars => LedgerInv'
  BY LedgerStep
<1>2. QED
  BY <1>1, LedgerInit, RowLocksInv, PTL DEF Spec

(* The two tables agree about every seat, whatever lapses, crashes or      *)
(* fails.                                                                  *)
THEOREM LedgersAgree ==
  ASSUME ~Overlap
  PROVE  Spec => []SeatLedger
<1>1. LedgerInv => SeatLedger
  BY DEF LedgerInv
<1>2. QED
  BY <1>1, LedgerInvariant, PTL

(* A completed payment always has its reservation and its seats.           *)
THEOREM PaymentsBacked ==
  ASSUME ~Overlap
  PROVE  Spec => []PaymentBacked
<1>1. ASSUME TypeOK, LedgerInv PROVE PaymentBacked
  <2> SUFFICES ASSUME NEW p \in Pids, pay[p].status = "completed"
               PROVE  /\ res[pay[p].rid].status = "completed"
                      /\ \A s \in res[pay[p].rid].seats : seat[s] = "sold"
    BY DEF PaymentBacked
  <2>1. pay[p].rid \in Rids /\ res[pay[p].rid].status = "completed"
    BY <1>1 DEF LedgerInv, Settled
  <2>2. \A s \in res[pay[p].rid].seats : s \in Seats /\ pay[p].rid \in LiveFor(s)
    BY <1>1, <2>1 DEF TypeOK, Reservations, LiveFor, Live
  <2>3. \A s \in res[pay[p].rid].seats : seat[s] = "sold"
    BY <1>1, <2>1, <2>2 DEF LedgerInv, SeatLedger, Held
  <2>4. QED
    BY <2>1, <2>3
<1>2. QED
  BY <1>1, LedgerInvariant, PTL

(* No step frees a sold seat or touches a completed reservation.           *)
THEOREM SalesAreFinal ==
  ASSUME ~Overlap
  PROVE  Spec => SaleIsFinal
<1> DEFINE Final == /\ \A s \in Seats : seat[s] = "sold" => seat'[s] = "sold"
                    /\ \A r \in Rids : res[r].status = "completed" => res'[r] = res[r]
<1>1. ASSUME TypeOK, JobsOK, RowLocks, LedgerInv, [Next]_vars PROVE Final
  <2>1. CASE UNCHANGED <<seat, res>>
    BY <2>1
  <2>2. ASSUME NEW w \in Workers, Wrote(w) PROVE Final
    <3>1. \A r \in Rids : res[r].status = "completed" => res'[r] = res[r]
      BY <2>2 DEF Wrote
    <3>2. \A s \in rows[w] : s \in Seats /\ seat[s] # "sold"
      <4>1. CASE job[w].op = "hold"
        BY <2>2, <4>1, <1>1 DEF Wrote, TypeOK
      <4>2. CASE job[w].op # "hold"
        BY <2>2, <4>2, <1>1 DEF Wrote, TypeOK, LedgerInv, SeatLedger, LiveFor, Live, Held
      <4>3. QED
        BY <4>1, <4>2
    <3>3. QED
      BY <2>2, <3>1, <3>2 DEF Wrote
  <2>3. QED
    BY <1>1, <2>1, <2>2, StepKinds, CommitWrites DEF LedgerInv, Rest, Begun, Goes
<1>2. QED
  BY <1>1, LedgerInvariant, PTL DEF Spec, SaleIsFinal

-----------------------------------------------------------------------------
(* The two tables together are the sale of seats that SeatSale promises.   *)

\* Only the refinement needs to know that nobody reserves nothing: a SeatSale takes,
\* sells and gives back at least one seat.
Filled ==
  /\ \A r \in Rids : res[r].status # "absent" => res[r].seats # {}
  /\ \A w \in Workers : job[w].op = "hold" =>
       job[w].seats # {} /\ (pc[w] = "commit" => rows[w] # {})

LEMMA FilledStep ==
  ASSUME TypeOK, JobsOK, RowLocks, LedgerInv, Filled, ~Overlap, [Next]_vars
  PROVE  Filled'
<1> USE DEF Filled
<1>1. CASE Rest
  BY <1>1 DEF Rest
<1>2. ASSUME NEW w \in Workers, Begun(w) PROVE Filled'
  BY <1>2 DEF Begun
<1>3. ASSUME NEW w \in Workers, Goes(w) PROVE Filled'
  BY <1>3 DEF Goes
<1>4. ASSUME NEW w \in Workers, Writes(w) PROVE Filled'
  <2>1. Wrote(w) /\ Checked(w)
    BY <1>4, CommitWrites DEF LedgerInv
  <2>2. /\ pc'[w] # "commit" /\ job'[w].op = job[w].op /\ job'[w].seats = job[w].seats
        /\ \A v \in Workers \ {w} : pc'[v] = pc[v] /\ job'[v] = job[v] /\ rows'[v] = rows[v]
    BY <1>4 DEF Writes, Apply, Become, TypeOK, Jobs
  <2>3. rows[w] # {}
    BY <2>1 DEF Wrote
  <2>4. QED
    BY <2>1, <2>2, <2>3 DEF Wrote
<1>5. QED
  BY <1>1, <1>2, <1>3, <1>4, StepKinds DEF LedgerInv

LEMMA FilledInvariant ==
  ASSUME ~Overlap
  PROVE  Spec => [](TypeOK /\ JobsOK /\ RowLocks /\ LedgerInv /\ Filled)
<1>1. Init => Filled
  BY DEF Init, Filled, Absent, NoJob
<1>2. TypeOK /\ JobsOK /\ RowLocks /\ LedgerInv /\ Filled /\ [Next]_vars => Filled'
  BY FilledStep
<1>3. QED
  BY <1>1, <1>2, LedgerInvariant, PTL DEF Spec

\* the holder of a seat in the mapping of Sale
Holder == [s \in Seats |-> IF LiveFor(s) = {} THEN NoRid ELSE CHOOSE r \in LiveFor(s) : TRUE]

\* a seat in a live reservation has it for its holder
LEMMA HolderOfSeat ==
  ASSUME SeatLedger, NEW s \in Seats
  PROVE  /\ \A r \in Rids : Holder[s] = r <=> r \in LiveFor(s)
         /\ LiveFor(s) = {} <=> Holder[s] = NoRid
         /\ seat[s] = "available" <=> Holder[s] = NoRid
<1>1. Holder[s] = IF LiveFor(s) = {} THEN NoRid ELSE CHOOSE r \in LiveFor(s) : TRUE
  BY DEF Holder
<1>2. CASE LiveFor(s) = {}
  BY <1>1, <1>2, NullAssumption DEF SeatLedger
<1>3. ASSUME NEW q \in Rids, LiveFor(s) = {q} PROVE Holder[s] = q
  BY <1>1, <1>3
<1>4. QED
  BY <1>2, <1>3, NullAssumption DEF SeatLedger

LEMMA HolderOfSeatNext ==
  ASSUME SeatLedger', NEW s \in Seats
  PROVE  /\ \A r \in Rids : Holder'[s] = r <=> r \in LiveFor(s)'
         /\ LiveFor(s)' = {} <=> Holder'[s] = NoRid
<1>1. Holder'[s] = IF LiveFor(s)' = {} THEN NoRid ELSE CHOOSE r \in LiveFor(s)' : TRUE
  BY DEF Holder
<1>2. CASE LiveFor(s)' = {}
  BY <1>1, <1>2, NullAssumption
<1>3. ASSUME NEW q \in Rids, LiveFor(s)' = {q} PROVE Holder'[s] = q
  BY <1>1, <1>3
<1>4. QED
  BY <1>2, <1>3, NullAssumption DEF SeatLedger

LEMMA HolderKept ==
  ASSUME SeatLedger, SeatLedger', NEW s \in Seats, LiveFor(s)' = LiveFor(s)
  PROVE  Holder'[s] = Holder[s]
<1>1. CASE LiveFor(s) = {}
  BY <1>1, HolderOfSeat, HolderOfSeatNext
<1>2. ASSUME NEW q \in Rids, LiveFor(s) = {q} PROVE Holder'[s] = Holder[s]
  <2>1. Holder[s] = q
    BY <1>2, HolderOfSeat
  <2>2. Holder'[s] = q
    BY <1>2, HolderOfSeatNext
  <2>3. QED
    BY <2>1, <2>2
<1>3. QED
  BY <1>1, <1>2 DEF SeatLedger

\* The commit of a hold takes its seats, the commit of a payment sells them, and every
\* other commit gives them back.
LEMMA CommitIsSale ==
  ASSUME TypeOK, TypeOK', SeatLedger, SeatLedger', Filled, NEW w \in Workers, Wrote(w)
  PROVE  Sale!Next
<1> USE DEF Sale!Next
<1>0. PICK r \in Rids : r = job[w].rid
  BY DEF Wrote
<1>1. r \in Rids /\ rows[w] \in SUBSET Seats /\ rows[w] # {}
  BY <1>0 DEF Wrote, Filled, TypeOK
<1>2. seat' = [s \in Seats |-> IF s \in rows[w] THEN NewStatus(job[w].op) ELSE seat[s]]
  BY DEF Wrote
<1>3. \A s \in Seats \ rows[w] : Holder'[s] = Holder[s]
  <2>1. \A s \in Seats \ rows[w] : LiveFor(s)' = LiveFor(s)
    BY LiveForWrote
  <2>2. QED
    BY <2>1, HolderKept
<1>4. DOMAIN Holder = Seats /\ DOMAIN Holder' = Seats
  BY DEF Holder
<1>5. CASE job[w].op = "hold"
  <2>1. Sale!Of(r) = {}
    BY <1>0, <1>1, <1>5, HolderOfSeat DEF Sale!Of, Holder, Wrote, LiveFor, Live
  <2>2. \A s \in rows[w] : seat[s] = "available" /\ Holder[s] = NoRid
    BY <1>1, <1>5, HolderOfSeat DEF Wrote
  <2>3. \A s \in rows[w] : Holder'[s] = r
    BY <1>0, <1>1, <1>5, LiveForWrote, HolderOfSeatNext
  <2>4. Holder' = [s \in Seats |-> IF s \in rows[w] THEN r ELSE Holder[s]]
    BY <1>1, <1>3, <1>4, <2>3 DEF Holder
  <2>5. /\ r \notin {q \in Rids : res[q].status = "cancelled"}
        /\ {q \in Rids : res'[q].status = "cancelled"}
             = {q \in Rids : res[q].status = "cancelled"}
    BY <1>0, <1>5 DEF Wrote
  <2>6. Sale!Take(r, rows[w])
    BY <1>1, <1>2, <1>5, <2>1, <2>2, <2>4, <2>5 DEF Sale!Take, Holder, NewStatus
  <2>7. QED
    BY <1>1, <2>6
<1>6. CASE job[w].op # "hold"
  <2>1. Sale!Of(r) = rows[w]
    <3>1. \A s \in Seats : s \in rows[w] <=> r \in LiveFor(s)
      BY <1>0, <1>1, <1>6 DEF Wrote, LiveFor, Live
    <3>2. QED
      BY <1>1, <3>1, HolderOfSeat DEF Sale!Of, Holder
  <2>2. \A s \in rows[w] : seat[s] = "hold"
    BY <1>1, <1>6 DEF Wrote, SeatLedger, LiveFor, Live, Held
  <2>3. CASE job[w].op = "pay"
    <3>1. Holder' = Holder
      <4>1. \A s \in rows[w] : Holder'[s] = Holder[s]
        <5>1. \A s \in rows[w] : LiveFor(s)' = LiveFor(s)
          BY <1>1, <2>3, LiveForWrote
        <5>2. QED
          BY <1>1, <5>1, HolderKept
      <4>2. QED
        BY <1>1, <1>3, <4>1 DEF Holder
    <3>2. {q \in Rids : res'[q].status = "cancelled"}
            = {q \in Rids : res[q].status = "cancelled"}
      BY <2>3 DEF Wrote
    <3>3. Sale!Sell(r)
      BY <1>1, <1>2, <2>1, <2>2, <2>3, <3>1, <3>2 DEF Sale!Sell, Holder, NewStatus
    <3>4. QED
      BY <1>1, <3>3
  <2>4. CASE job[w].op # "pay"
    <3>1. \A s \in rows[w] : Holder'[s] = NoRid
      <4>1. \A s \in rows[w] : LiveFor(s)' = {}
        BY <1>1, <1>6, <2>4, LiveForWrote DEF SeatLedger
      <4>2. QED
        BY <1>1, <4>1, HolderOfSeatNext
    <3>2. Holder' = [s \in Seats |-> IF s \in rows[w] THEN NoRid ELSE Holder[s]]
      BY <1>1, <1>3, <1>4, <3>1 DEF Holder
    <3>3. {q \in Rids : res'[q].status = "cancelled"}
            = {q \in Rids : res[q].status = "cancelled"} \cup {r}
      BY <1>0, <1>1, <1>6, <2>4 DEF Wrote
    <3>4. Sale!GiveBack(r)
      BY <1>1, <1>2, <1>6, <2>1, <2>2, <2>4, <3>2, <3>3 DEF Sale!GiveBack, Holder, NewStatus
    <3>5. QED
      BY <1>1, <3>4
  <2>5. QED
    BY <2>3, <2>4
<1>7. QED
  BY <1>5, <1>6

\* The seat table and the reservation table, with all their workers, locks, faults and
\* retries, implement the sale of SeatSale (SeatSale.tla): seats are taken, sold and
\* given back reservation by reservation, each in one step.
THEOREM ImplementsSale ==
  ASSUME ~Overlap
  PROVE  Spec => SaleSpec
<1> DEFINE Inv == TypeOK /\ JobsOK /\ RowLocks /\ LedgerInv /\ Filled
<1>1. Init => Sale!Init
  <2> SUFFICES ASSUME Init PROVE Sale!Init
    OBVIOUS
  <2>1. \A s \in Seats : LiveFor(s) = {}
    BY DEF Init, Absent, LiveFor, Live
  <2>2. {r \in Rids : res[r].status = "cancelled"} = {}
    BY DEF Init, Absent
  <2>3. QED
    BY <2>1, <2>2 DEF Init, Sale!Init
<1>2. ASSUME Inv, Inv', [Next]_vars PROVE [Sale!Next]_(Sale!sale)
  <2>1. CASE UNCHANGED <<seat, res>>
    <3>1. \A s \in Seats : LiveFor(s)' = LiveFor(s)
      BY <2>1 DEF LiveFor, Live
    <3>2. \A s \in Seats : Holder'[s] = Holder[s]
      BY <1>2, <3>1, HolderKept DEF LedgerInv
    <3>3. Holder' = Holder
      BY <3>2 DEF Holder
    <3>4. QED
      BY <2>1, <3>3 DEF Sale!sale, Holder
  <2>2. ASSUME NEW w \in Workers, Writes(w) PROVE Sale!Next
    BY <1>2, <2>2, CommitWrites, CommitIsSale DEF LedgerInv
  <2>3. Rest \/ \E w \in Workers : Begun(w) \/ Goes(w) \/ Writes(w)
    BY <1>2, StepKinds DEF LedgerInv
  <2>4. QED
    BY <2>1, <2>2, <2>3 DEF Rest, Begun, Goes
<1>3. QED
  BY <1>1, <1>2, FilledInvariant, PTL DEF Spec, SaleSpec, Sale!Spec
=============================================================================
