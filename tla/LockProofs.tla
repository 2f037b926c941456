----------------------------- MODULE LockProofs -----------------------------
(***************************************************************************)
(* Charges, and what the event lock is for.  For every number of workers   *)
(* and under every fault: nothing is sold without a charge, and a worker   *)
(* under the lock owns it until it leaves, unless its TTL ends under it;   *)
(* and while no TTL does, no user has two unexpired holds for an event,    *)
(* and the feed shows the commits of an event in their order.              *)
(***************************************************************************)
EXTENDS ReservationProofs

(* Charges.  The seats of a reservation are written once, a charge is      *)
(* never taken back, and a payment is in the hands of one worker.          *)

\* before the commit of its operation
Before == {"charge", "confirm", "acquire", "check", "recheck", "select", "commit"}

\* what a worker relies on: its reservations exist unless it is about to create one,
\* the rows it has locked are their seats, and past the gateway its payment is charged
Traced(w) ==
  /\ job[w].op # "hold" => \A r \in Touched(w) \ {NoRid} : res[r].status # "absent"
  /\ job[w].op = "hold" /\ pc[w] \in Before => res[job[w].rid].status = "absent"
  /\ job[w].op # "hold" /\ pc[w] = "commit" => rows[w] = res[job[w].rid].seats
  /\ job[w].op = "pay" => /\ pay[job[w].pid].rid = job[w].rid
                          /\ pc[w] = "charge" => pay[job[w].pid].status = "pending"
                          /\ pay[job[w].pid].charged <=> pc[w] # "charge"

\* ids are drawn for one request
Single ==
  \A v, w \in Workers : v # w =>
    /\ job[v].op = "hold" /\ job[w].op = "hold" => job[v].rid # job[w].rid
    /\ job[v].op = "pay" /\ job[w].op = "pay" => job[v].pid # job[w].pid

\* a payment names a reservation that exists
Named ==
  \A p \in Pids :
    /\ pay[p].rid # NoRid => res[pay[p].rid].status # "absent"
    /\ pay[p].charged => pay[p].rid # NoRid

ChargeInv == Single /\ (\A w \in Workers : Traced(w)) /\ Named /\ SoldWasCharged

-----------------------------------------------------------------------------
(* The steps, by what they do to reservations, payments and workers.        *)

Others(w) ==
  \A v \in Workers \ {w} : pc'[v] = pc[v] /\ job'[v] = job[v] /\ rows'[v] = rows[v]

\* a request begins with ids nobody else has drawn, or with reservations that exist
Starts(w) ==
  /\ UNCHANGED <<seat, res>> /\ Others(w)
  /\ pc[w] = "idle" /\ pc'[w] # "commit"
  /\ job'[w].op # "hold" => \A r \in Touched(w)' \ {NoRid} : res[r].status # "absent"
  /\ job'[w].op = "hold" => /\ res[job'[w].rid].status = "absent"
                            /\ \A v \in Workers : job[v].rid # job'[w].rid
  /\ IF job'[w].op = "pay"
     THEN LET p == job'[w].pid IN
          /\ pc'[w] = "charge"
          /\ p \in Pids /\ pay[p] = Unpaid /\ job'[w].rid \in Rids
          /\ pay' = [pay EXCEPT ![p] = [status |-> "pending", rid |-> job'[w].rid,
                                        charged |-> FALSE]]
     ELSE pay' = pay

\* a request goes on: it may give up its ids, or take one it had listed
Continues(w) ==
  /\ UNCHANGED <<seat, res>> /\ Others(w)
  /\ Touched(w)' \subseteq Touched(w) \cup {NoRid}
  /\ job'[w].op \in {job[w].op, "none"}
  /\ job'[w].op = "hold" => job'[w].rid = job[w].rid /\ (pc'[w] \in Before => pc[w] \in Before)
  /\ job'[w].op # "hold" /\ pc'[w] = "commit" => rows'[w] = res[job'[w].rid].seats
  /\ job'[w].op = "pay" => /\ job'[w].rid = job[w].rid /\ job'[w].pid = job[w].pid
                           /\ pc'[w] # "charge"

\* what the steps of a request do to payments
Paid(w) ==
  LET p == job[w].pid IN
  \/ pay' = pay /\ (job'[w].op = "pay" => pc[w] # "charge")
  \/ /\ pc[w] = "charge" /\ pay' = [pay EXCEPT ![p].charged = TRUE]
  \/ /\ pc[w] = "charge" /\ pay' = [pay EXCEPT ![p].status = "failed"] /\ job'[w].op = "none"
  \/ /\ pc[w] = "record" /\ pay' = [pay EXCEPT ![p].status = "completed"]
     /\ job'[w].op = "none"

LEMMA AcceptStarts ==
  ASSUME TypeOK, NEW w \in Workers, NEW o \in AllOps, NEW p \in Places, NEW j \in Jobs,
         Accept(w, o, p, j)
  PROVE  /\ pc[w] = "idle" /\ pc'[w] = p /\ Others(w)
         /\ job'[w].op = o /\ job'[w].rid = j.rid /\ job'[w].pid = j.pid
         /\ job'[w].todo = j.todo
<1> DEFINE k == [j EXCEPT !.op = o]
<1>1. k.op = o /\ k.rid = j.rid /\ k.pid = j.pid /\ k.todo = j.todo
  BY DEF Jobs
<1>2. pc[w] = "idle" /\ pc' = [pc EXCEPT ![w] = p] /\ job' = [job EXCEPT ![w] = k]
      /\ rows' = rows
  BY DEF Accept, GoTo, Become
<1> HIDE DEF k
<1>3. QED
  BY <1>1, <1>2 DEF TypeOK, Others

LEMMA RequestStarts ==
  ASSUME TypeOK, NEW w \in Handlers, Request(w)
  PROVE  Starts(w)
<1> w \in Workers
  BY DEF Workers
<1>1. ASSUME NEW u \in Users, NEW e \in Events, NEW S \in SUBSET Seats, NEW r \in Rids,
             StartHold(w, u, e, S, r)
      PROVE  Starts(w)
  <2> DEFINE j == [NoJob EXCEPT !.user = u, !.event = e, !.seats = S, !.rid = r]
  <2>1. j \in Jobs /\ j.rid = r
    BY DEF NoJob, Jobs, AllOps, ResStatus
  <2>2. Accept(w, "hold", "acquire", j) /\ Drawable(r) /\ UNCHANGED tables
    BY <1>1 DEF StartHold
  <2> HIDE DEF j
  <2>3. QED
    BY <2>1, <2>2, AcceptStarts DEF Starts, Drawable, tables, AllOps, Places
<1>2. ASSUME NEW r \in Rids, StartCancel(w, r) PROVE Starts(w)
  <2> DEFINE j == [NoJob EXCEPT !.rid = r, !.event = res[r].event]
  <2>1. j \in Jobs /\ j.rid = r /\ j.todo = {}
    BY DEF NoJob, Jobs, AllOps, ResStatus, TypeOK, Reservations
  <2>2. Accept(w, "cancel", "acquire", j) /\ Held(r) /\ UNCHANGED tables
    BY <1>2 DEF StartCancel
  <2> HIDE DEF j
  <2>3. QED
    BY <2>1, <2>2, AcceptStarts DEF Starts, Touched, Held, tables, AllOps, Places
<1>3. ASSUME NEW r \in Rids, NEW p \in Pids, StartPay(w, r, p) PROVE Starts(w)
  <2> DEFINE j == [NoJob EXCEPT !.rid = r, !.pid = p, !.event = res[r].event]
  <2>1. j \in Jobs /\ j.rid = r /\ j.pid = p /\ j.todo = {}
    BY DEF NoJob, Jobs, AllOps, ResStatus, TypeOK, Reservations
  <2>2. /\ Accept(w, "pay", "charge", j) /\ Held(r) /\ UNCHANGED <<seat, res>>
        /\ pay[p] = Unpaid
        /\ pay' = [pay EXCEPT ![p] = [status |-> "pending", rid |-> r, charged |-> FALSE]]
    BY <1>3 DEF StartPay
  <2> HIDE DEF j
  <2>3. /\ pc[w] = "idle" /\ pc'[w] = "charge" /\ Others(w)
        /\ job'[w].op = "pay" /\ job'[w].rid = r /\ job'[w].pid = p /\ job'[w].todo = {}
    BY <2>1, <2>2, AcceptStarts DEF AllOps, Places
  <2>4. \A q \in Touched(w)' : res[q].status # "absent"
    BY <2>2, <2>3 DEF Touched, Held
  <2>5. QED
    BY <2>2, <2>3, <2>4 DEF Starts
<1>4. ASSUME NEW u \in Users, StartRelease(w, u) PROVE Starts(w)
  <2> DEFINE j == [NoJob EXCEPT !.todo = HeldBy(u), !.orm = "listed"]
  <2>1. j \in Jobs /\ j.rid = NoRid /\ j.todo = HeldBy(u)
    BY DEF NoJob, Jobs, AllOps, ResStatus, HeldBy
  <2>2. Accept(w, "release", "loop", j) /\ UNCHANGED tables
    BY <1>4 DEF StartRelease, StartLoop
  <2> HIDE DEF j
  <2>3. QED
    BY <2>1, <2>2, AcceptStarts DEF Starts, Touched, HeldBy, Held, tables, AllOps, LoopOps, Places
<1>5. QED
  BY <1>1, <1>2, <1>3, <1>4 DEF Request

LEMMA CleanupStarts ==
  ASSUME TypeOK, NEW w \in Cleaners, StartCleanup(w)
  PROVE  Starts(w)
<1> w \in Workers
  BY DEF Workers
<1> DEFINE j == [NoJob EXCEPT !.todo = ExpiredHeld, !.orm = "listed"]
<1>1. j \in Jobs /\ j.rid = NoRid /\ j.todo = ExpiredHeld
  BY DEF NoJob, Jobs, AllOps, ResStatus, ExpiredHeld
<1>2. Accept(w, "cleanup", "loop", j) /\ UNCHANGED tables
  BY DEF StartCleanup, StartLoop
<1> HIDE DEF j
<1>3. QED
  BY <1>1, <1>2, AcceptStarts DEF Starts, Touched, ExpiredHeld, Held, tables, AllOps, LoopOps, Places

(* A worker that finishes has given up its ids; a loop keeps its list.      *)
LEMMA FinishContinues ==
  ASSUME TypeOK, JobsOK, NEW w \in Workers, Finished(w), UNCHANGED <<seat, res>>,
         \A v \in Workers \ {w} : rows'[v] = rows[v]
  PROVE  Continues(w) /\ job'[w].op # "pay"
<1>1. NoJob.op = "none" /\ NoJob.rid = NoRid /\ NoJob.todo = {}
  BY DEF NoJob
<1>2. CASE job[w].op \in LoopOps
  BY <1>2 DEF Finished, Continues, Others, Touched, LoopOps
<1>3. CASE job[w].op \notin LoopOps
  BY <1>1, <1>3 DEF Finished, Continues, Others, Touched
<1>4. QED
  BY <1>2, <1>3

(* A worker that keeps its request, on its way or out of it.                *)
LEMMA SameJob ==
  ASSUME TypeOK, JobsOK, NEW w \in Workers, NEW p \in Places \ {"charge", "commit"},
         pc' = [pc EXCEPT ![w] = p], job' = job, UNCHANGED <<seat, res>>,
         rows' = rows, p \in Before => pc[w] \in Before
  PROVE  Continues(w)
BY DEF Continues, Others, Touched, TypeOK

LEMMA AdvanceContinues ==
  ASSUME TypeOK, JobsOK, NEW w \in Workers, Advance(w), ~Commit(w)
  PROVE  Continues(w) /\ Paid(w)
<1> USE DEF JobsOK, JobOK
<1>1. CASE PgApprove(w)
  <2>1. Continues(w)
    BY <1>1, SameJob DEF PgApprove, GoTo, Places, Before
  <2>2. QED
    BY <1>1, <2>1 DEF PgApprove, Paid
<1>2. CASE PgDecline(w)
  <2>1. Finished(w)
    BY <1>2, FinishFrame DEF PgDecline
  <2>2. Continues(w) /\ job'[w].op = "none"
    <3>1. job'[w] = NoJob
      BY <1>2, <2>1 DEF PgDecline, Finished, LoopOps
    <3>2. Continues(w)
      BY <1>2, <2>1, FinishContinues DEF PgDecline
    <3>3. QED
      BY <3>1, <3>2 DEF NoJob
  <2>3. QED
    BY <1>2, <2>2 DEF PgDecline, Paid
<1>3. CASE Confirm(w) \/ AcquireLock(w) \/ GiveUp(w) \/ CheckDuplicate(w) \/ Recheck(w)
  <2>1. PICK p \in Places \ {"charge", "commit"} : pc' = [pc EXCEPT ![w] = p]
    BY <1>3 DEF Confirm, AcquireLock, FirstPlace, GiveUp, CheckDuplicate, Recheck, GoTo, Places
  <2>2. pc[w] \in Before \ {"charge"} /\ UNCHANGED <<tables, job, rows>>
    BY <1>3 DEF Confirm, AcquireLock, GiveUp, CheckDuplicate, Recheck, Before
  <2>3. Continues(w)
    BY <2>1, <2>2, SameJob DEF tables
  <2>4. QED
    BY <2>2, <2>3 DEF Paid, tables
<1>4. ASSUME NEW r \in Rids, NextReservation(w, r) PROVE Continues(w) /\ Paid(w)
  <2> DEFINE j == [job[w] EXCEPT !.todo = @ \ {r}, !.rid = r, !.event = res[r].event,
                      !.seen = IF job[w].orm = "listed" THEN "held" ELSE res[r].status]
  <2>1. j.op = job[w].op /\ j.rid = r /\ j.todo = job[w].todo \ {r}
    BY DEF TypeOK, Jobs
  <2>2. job' = [job EXCEPT ![w] = j] /\ pc' = [pc EXCEPT ![w] = "acquire"]
        /\ pc[w] = "loop" /\ r \in job[w].todo /\ UNCHANGED <<tables, rows>>
    BY <1>4 DEF NextReservation, GoTo, Become
  <2> HIDE DEF j
  <2>3. QED
    BY <2>1, <2>2 DEF Continues, Paid, Others, Touched, LoopOps, TypeOK, tables
<1>5. CASE LoopDone(w)
  BY <1>5 DEF LoopDone, GoTo, Become, NoJob, Continues, Paid, Others, Touched, TypeOK, tables
<1>6. CASE SelectForUpdate(w)
  BY <1>6 DEF SelectForUpdate, RowsWanted, GoTo, Continues, Paid, Others, Touched, Before,
              TypeOK, tables
<1>7. CASE Publish(w) \/ Abort(w)
  <2>1. PICK p \in {"unlock", "rollback"} : pc' = [pc EXCEPT ![w] = p]
    BY <1>7 DEF Publish, Abort, GoTo
  <2>2. pc[w] # "charge" /\ UNCHANGED <<tables, job, rows>>
    BY <1>7 DEF Publish, Abort
  <2>3. Continues(w)
    BY <2>1, <2>2, SameJob DEF tables, Places, Before
  <2>4. QED
    BY <2>2, <2>3 DEF Paid, tables
<1>8. CASE Unlock(w)
  <2>1. CASE job[w].op = "pay"
    <3>1. pc' = [pc EXCEPT ![w] = "record"] /\ pc[w] = "unlock"
          /\ UNCHANGED <<tables, job, rows>>
      BY <1>8, <2>1 DEF Unlock, GoTo
    <3>2. Continues(w)
      BY <3>1, SameJob DEF tables, Places, Before
    <3>3. QED
      BY <3>1, <3>2 DEF Paid, tables
  <2>2. CASE job[w].op # "pay"
    <3>1. Finished(w)
      BY <1>8, <2>2, FinishFrame DEF Unlock
    <3>2. QED
      BY <1>8, <3>1, FinishContinues DEF Unlock, Paid, tables
  <2>3. QED
    BY <2>1, <2>2
<1>9. CASE Rollback(w)
  <2>1. Finished(w)
    BY <1>9, FinishFrame DEF Rollback
  <2>2. QED
    BY <1>9, <2>1, FinishContinues DEF Rollback, Paid, tables, TypeOK
<1>10. CASE Record(w)
  <2>1. Finished(w)
    BY <1>10, FinishFrame DEF Record
  <2>2. Continues(w) /\ job'[w].op = "none"
    <3>1. job'[w] = NoJob
      BY <1>10, <2>1 DEF Record, Finished, LoopOps
    <3>2. Continues(w)
      BY <1>10, <2>1, FinishContinues DEF Record
    <3>3. QED
      BY <3>1, <3>2 DEF NoJob
  <2>3. QED
    BY <1>10, <2>2 DEF Record, Paid
<1>11. QED
  BY <1>1, <1>2, <1>3, <1>4, <1>5, <1>6, <1>7, <1>8, <1>9, <1>10 DEF Advance

LEMMA FaultContinues ==
  ASSUME TypeOK, JobsOK, NEW w \in Workers, Fault(w), ~CommitAnswerLost(w)
  PROVE  Continues(w) /\ Paid(w)
<1> USE DEF JobsOK, JobOK
<1>1. ASSUME NEW p \in {"abort", "rollback", "unlock"}, pc' = [pc EXCEPT ![w] = p],
             UNCHANGED <<tables, job, rows>>, pc[w] # "charge"
      PROVE  Continues(w) /\ Paid(w)
  <2>1. Continues(w)
    BY <1>1, SameJob DEF tables, Places, Before
  <2>2. QED
    BY <1>1, <2>1 DEF Paid, tables
<1>2. ASSUME pc' = [pc EXCEPT ![w] = "idle"], job' = [job EXCEPT ![w] = NoJob],
             UNCHANGED tables, \A v \in Workers \ {w} : rows'[v] = rows[v]
      PROVE  Continues(w) /\ Paid(w)
  BY <1>2 DEF NoJob, Continues, Paid, Others, Touched, TypeOK, tables
<1>3. CASE StatementFails(w)
  <2>0. UNCHANGED <<tables, rows>>
    BY <1>3 DEF StatementFails
  <2>1. CASE /\ pc[w] # "charge" /\ job' = job
             /\ pc' \in {[pc EXCEPT ![w] = "abort"], [pc EXCEPT ![w] = "rollback"]}
    BY <2>0, <2>1, <1>1
  <2>2. CASE pc[w] = "commit" /\ pc' = [pc EXCEPT ![w] = "abort"]
             /\ job' = [job EXCEPT ![w] = [job[w] EXCEPT !.todo = {}]] /\ job[w].op = "cleanup"
    <3> DEFINE j == [job[w] EXCEPT !.todo = {}]
    <3>1. j.op = "cleanup" /\ j.rid = job[w].rid /\ j.todo = {}
      BY <2>2 DEF TypeOK, Jobs
    <3>2. job' = [job EXCEPT ![w] = j]
      BY <2>2
    <3> HIDE DEF j
    <3>3. QED
      BY <1>3, <2>2, <3>1, <3>2 DEF StatementFails, Continues, Paid, Others, Touched, TypeOK, tables
  <2>3. CASE pc' = [pc EXCEPT ![w] = "idle"] /\ job' = [job EXCEPT ![w] = NoJob]
    BY <1>3, <2>3, <1>2 DEF StatementFails
  <2>4. QED
    BY <1>3, <2>1, <2>2, <2>3 DEF StatementFails, GoTo, Become
<1>4. CASE AcquireFails(w) \/ RedisFails(w) \/ UnlockFails(w)
  BY <1>4, <1>1 DEF AcquireFails, RedisFails, UnlockFails, GoTo
<1>5. CASE Crash(w)
  BY <1>5, <1>2 DEF Crash, GoTo, Become, TypeOK
<1>6. QED
  BY <1>3, <1>4, <1>5 DEF Fault

-----------------------------------------------------------------------------
(* Every step keeps the invariant.                                         *)

LEMMA StartsKeep ==
  ASSUME TypeOK, JobsOK, JobsOK', ChargeInv, NEW w \in Workers, Starts(w)
  PROVE  ChargeInv'
<1> USE DEF ChargeInv
<1>1. Single'
  BY DEF Starts, Others, Single, Traced, JobsOK, JobOK, TypeOK, Unpaid
<1>2. Traced(w)'
  BY DEF Starts, Traced, TypeOK, Touched
<1>3. ASSUME NEW v \in Workers \ {w} PROVE Traced(v)'
  BY <1>3 DEF Starts, Others, Traced, TypeOK, Touched, JobsOK, JobOK, Unpaid
<1>4. Named'
  BY NullAssumption DEF Starts, Named, TypeOK, Touched
<1>5. SoldWasCharged'
  BY DEF Starts, SoldWasCharged, TypeOK, Unpaid
<1>6. QED
  BY <1>1, <1>2, <1>3, <1>4, <1>5

LEMMA ContinuesKeep ==
  ASSUME TypeOK, JobsOK, JobsOK', ChargeInv, NEW w \in Workers, Continues(w), Paid(w)
  PROVE  ChargeInv'
<1> USE DEF ChargeInv
<1> DEFINE p == job[w].pid
<1>1. pc[w] = "charge" => /\ job[w].op = "pay" /\ p \in Pids /\ job[w].rid \in Rids
                          /\ pay[p].rid = job[w].rid
                          /\ pay[p].status = "pending" /\ ~pay[p].charged
  BY DEF Traced, JobsOK, JobOK
<1>2. pc[w] = "record" => job[w].op = "pay" /\ p \in Pids /\ pay[p].charged
  BY DEF Traced, JobsOK, JobOK
<1>3. ASSUME NEW q \in Pids
      PROVE  /\ pay'[q].rid = pay[q].rid
             /\ pay[q].charged => pay'[q].charged
             /\ pay'[q] # pay[q] => q = p /\ job[w].op = "pay"
             /\ ~pay[q].charged /\ pay'[q].charged => pay'[q].status # "failed" /\ pay[q].rid \in Rids
             /\ pay'[q].status = "failed" => pay[q].status = "failed" \/ ~pay'[q].charged
             /\ pay'[q].charged /\ pay'[q].status = "failed" => pay[q].charged /\ pay[q].status = "failed"
  <2>1. pay[q] \in Payments /\ (p \in Pids => pay[p] \in Payments)
    BY DEF TypeOK
  <2>2. CASE pay' = pay
    BY <2>2
  <2>3. CASE pc[w] = "charge" /\ pay' = [pay EXCEPT ![p].charged = TRUE]
    BY <1>1, <2>1, <2>3 DEF TypeOK, Payments
  <2>4. CASE pc[w] = "charge" /\ pay' = [pay EXCEPT ![p].status = "failed"]
    BY <1>1, <2>1, <2>4 DEF TypeOK, Payments
  <2>5. CASE pc[w] = "record" /\ pay' = [pay EXCEPT ![p].status = "completed"]
    BY <1>2, <2>1, <2>5 DEF TypeOK, Payments
  <2>6. QED
    BY <2>2, <2>3, <2>4, <2>5 DEF Paid
<1>4. job'[w].op = "pay" => job[w].op = "pay" /\ pay'[p].charged
  <2> SUFFICES ASSUME job'[w].op = "pay" PROVE job[w].op = "pay" /\ pay'[p].charged
    OBVIOUS
  <2>1. job[w].op = "pay" /\ p \in Pids
    BY DEF Continues, JobsOK, JobOK
  <2>2. CASE pc[w] # "charge"
    BY <1>3, <2>1, <2>2 DEF Traced
  <2>3. CASE pc[w] = "charge"
    BY <1>1, <2>1, <2>3 DEF Paid, TypeOK, Payments
  <2>4. QED
    BY <2>1, <2>2, <2>3
<1>5. Single'
  BY DEF Continues, Others, Single
<1>6. Traced(w)'
  <2>1. job'[w].op # "hold" => \A r \in Touched(w)' \ {NoRid} : res'[r].status # "absent"
    <3>1. job'[w].op # "hold" /\ job[w].op = "hold" => job'[w].op = "none"
      BY DEF Continues
    <3>2. job'[w].op = "none" => Touched(w)' \ {NoRid} = {}
      BY DEF JobsOK, JobOK, Touched, NoJob, AllOps, LoopOps
    <3>3. QED
      BY <3>1, <3>2 DEF Continues, Traced
  <2>2. job'[w].op = "hold" /\ pc'[w] \in Before => res'[job'[w].rid].status = "absent"
    BY DEF Continues, Traced
  <2>3. job'[w].op # "hold" /\ pc'[w] = "commit" => rows'[w] = res'[job'[w].rid].seats
    BY DEF Continues
  <2>4. job'[w].op = "pay" => /\ pay'[job'[w].pid].rid = job'[w].rid
                              /\ pc'[w] # "charge" /\ pay'[job'[w].pid].charged
    BY <1>3, <1>4 DEF Continues, Traced, JobsOK, JobOK
  <2>5. QED
    BY <2>1, <2>2, <2>3, <2>4 DEF Traced
<1>7. ASSUME NEW v \in Workers \ {w} PROVE Traced(v)'
  <2>1. job[v].op = "pay" => pay'[job[v].pid] = pay[job[v].pid]
    BY <1>3, <1>7 DEF Single, JobsOK, JobOK
  <2>2. QED
    BY <1>7, <2>1 DEF Continues, Others, Traced, Touched
<1>8. Named'
  BY <1>3, NullAssumption DEF Continues, Named
<1>9. SoldWasCharged'
  BY <1>3 DEF Continues, SoldWasCharged
<1>10. QED
  BY <1>5, <1>6, <1>7, <1>8, <1>9

LEMMA WritesKeep ==
  ASSUME TypeOK, TypeOK', JobsOK, JobsOK', ChargeInv, NEW w \in Workers, Writes(w)
  PROVE  ChargeInv'
<1> USE DEF ChargeInv
<1> DEFINE r == job[w].rid
           k == [job[w] EXCEPT !.orm = "expired"]
<1>1. /\ k.op = job[w].op /\ k.rid = r /\ k.pid = job[w].pid /\ k.todo = job[w].todo
      /\ k.event = job[w].event
  BY DEF TypeOK, Jobs
<1>2. /\ pc[w] = "commit" /\ job' = [job EXCEPT ![w] = k]
      /\ pc' \in {[pc EXCEPT ![w] = "publish"], [pc EXCEPT ![w] = "abort"]}
      /\ rows' = [rows EXCEPT ![w] = {}]
      /\ res' = [res EXCEPT ![r] = NewRow(w)]
      /\ seat' = [s \in Seats |-> IF s \in rows[w] THEN NewStatus(job[w].op) ELSE seat[s]]
      /\ UNCHANGED pay
  BY DEF Writes, Apply, Become
<1> HIDE DEF k
<1>3. r \in Rids /\ job[w].op \in AllOps
  BY <1>2 DEF JobsOK, JobOK
<1>4. /\ res'[r].status # "absent" /\ \A q \in Rids \ {r} : res'[q] = res[q]
      /\ job[w].op # "hold" => res'[r].seats = res[r].seats /\ rows[w] = res[r].seats
      /\ job[w].op = "hold" => res[r].status = "absent" /\ res'[r].status = "held"
      /\ res'[r].status = "completed" <=> job[w].op = "pay"
  <2>1. res'[r] = NewRow(w) /\ \A q \in Rids \ {r} : res'[q] = res[q]
    BY <1>2, <1>3 DEF TypeOK
  <2>2. CASE job[w].op = "hold"
    BY <1>2, <2>1, <2>2 DEF NewRow, Traced, Before
  <2>3. CASE job[w].op # "hold"
    <3>1. res[r] \in Reservations /\ res[r].status # "absent" /\ rows[w] = res[r].seats
      BY <1>2, <1>3, <2>3, NullAssumption DEF Traced, Touched, TypeOK
    <3>2. QED
      BY <2>1, <2>3, <3>1 DEF NewRow, Reservations
  <2>4. QED
    BY <2>2, <2>3
<1>5. Single'
  BY <1>1, <1>2 DEF Single, TypeOK
<1>6. Traced(w)'
  BY <1>1, <1>2, <1>3, <1>4 DEF Traced, Touched, Before, TypeOK
<1>7. ASSUME NEW v \in Workers \ {w} PROVE Traced(v)'
  <2>1. job'[v] = job[v] /\ pc'[v] = pc[v] /\ rows'[v] = rows[v] /\ Touched(v)' = Touched(v)
    BY <1>2, <1>7 DEF Touched, TypeOK
  <2>2. Touched(v) \ {NoRid} \subseteq Rids
    BY DEF Touched, TypeOK, Jobs
  <2>3. job[v].op = "hold" /\ pc[v] \in Before => job[v].rid # r
    <3>1. CASE job[w].op = "hold"
      BY <1>7, <3>1 DEF Single
    <3>2. CASE job[w].op # "hold"
      <4>1. res[r].status # "absent"
        BY <1>3, <3>2, NullAssumption DEF Traced, Touched
      <4>2. QED
        BY <4>1 DEF Traced
    <3>3. QED
      BY <3>1, <3>2
  <2>4. job[v].op # "hold" /\ pc[v] = "commit" =>
          job[v].rid \in Rids /\ res[job[v].rid].status # "absent"
    BY NullAssumption DEF Traced, Touched, JobsOK, JobOK
  <2>5. job[v].op = "hold" /\ pc[v] \in Before => job[v].rid \in Rids
    BY DEF Before, JobsOK, JobOK
  <2>6. QED
    BY <1>2, <1>4, <2>1, <2>2, <2>3, <2>4, <2>5 DEF Traced
<1>8. Named'
  BY <1>2, <1>4 DEF Named, TypeOK, Payments
<1>9. SoldWasCharged'
  <2>1. CASE job[w].op = "pay"
    <3> DEFINE p == job[w].pid
    <3>1. p \in Pids /\ pay[p].rid = r /\ pay[p].charged /\ rows[w] = res'[r].seats
      BY <1>2, <1>4, <2>1 DEF Traced, JobsOK, JobOK
    <3>2. ASSUME NEW q \in Pids, pay[q].charged PROVE res'[pay[q].rid].seats = res[pay[q].rid].seats
      BY <1>4, <2>1, <3>2 DEF TypeOK, Payments, Named
    <3>3. QED
      BY <1>2, <1>3, <1>4, <3>1, <3>2 DEF SoldWasCharged
  <2>2. CASE job[w].op # "pay"
    <3>1. NewStatus(job[w].op) # "sold"
      BY <2>2 DEF NewStatus
    <3>2. ASSUME NEW q \in Pids, pay[q].charged PROVE res'[pay[q].rid].seats = res[pay[q].rid].seats
      BY <1>4, <2>2, <3>2 DEF TypeOK, Payments, Named
    <3>3. QED
      BY <1>2, <1>3, <1>4, <2>2, <3>1, <3>2 DEF SoldWasCharged
  <2>3. QED
    BY <2>1, <2>2
<1>10. QED
  BY <1>5, <1>6, <1>7, <1>8, <1>9

LEMMA ChargeStep == TypeOK /\ JobsOK /\ ChargeInv /\ [Next]_vars => ChargeInv'
<1> SUFFICES ASSUME TypeOK, JobsOK, ChargeInv, [Next]_vars PROVE ChargeInv'
  OBVIOUS
<1>0. TypeOK' /\ JobsOK'
  BY TypeStep, JobStep
<1>1. ASSUME NEW w \in Handlers, Request(w) PROVE ChargeInv'
  BY <1>0, <1>1, RequestStarts, StartsKeep DEF Workers
<1>2. ASSUME NEW w \in Cleaners, StartCleanup(w) PROVE ChargeInv'
  BY <1>0, <1>2, CleanupStarts, StartsKeep DEF Workers
<1>3. ASSUME NEW w \in Workers, Advance(w), ~Commit(w) PROVE ChargeInv'
  BY <1>0, <1>3, AdvanceContinues, ContinuesKeep
<1>4. ASSUME NEW w \in Workers, Fault(w), ~CommitAnswerLost(w) PROVE ChargeInv'
  BY <1>0, <1>4, FaultContinues, ContinuesKeep
<1>5. ASSUME NEW w \in Workers, Commit(w) \/ CommitAnswerLost(w) PROVE ChargeInv'
  <2>1. Writes(w)
    BY <1>5 DEF Commit, CommitAnswerLost, Writes, GoTo
  <2>2. QED
    BY <1>0, <2>1, WritesKeep
<1>6. CASE \/ \E r \in Rids : Expire(r)
           \/ \E e \in Events : Lapse(e) \/ OrphanExpires(e)
           \/ UNCHANGED vars
  <2>1. UNCHANGED <<seat, res, pay, pc, job, rows>>
    BY <1>6 DEF Expire, Lapse, OrphanExpires, vars, tables
  <2>2. QED
    BY <2>1 DEF ChargeInv, Single, Traced, Touched, Named, SoldWasCharged
<1>7. QED
  BY <1>1, <1>2, <1>3, <1>4, <1>5, <1>6 DEF Next, Quiet

(* Whatever requests overlap and whatever fails, a seat is sold and a      *)
(* reservation completed only after the gateway has charged a payment for  *)
(* it, and a payment that failed was never charged (process_payment and    *)
(* complete_reservation).                                                  *)
THEOREM SalesAreCharged == Spec => []SoldWasCharged
<1>1. Init => ChargeInv
  BY NullAssumption
  DEF Init, ChargeInv, Single, Traced, Touched, Named, SoldWasCharged, NoJob, Absent, Unpaid
<1>2. ChargeInv => SoldWasCharged
  BY DEF ChargeInv
<1>3. QED
  BY <1>1, <1>2, ChargeStep, TypeCorrect, PTL DEF Spec

-----------------------------------------------------------------------------
(* The event lock.                                                         *)

\* the places at which a request has its event
Span == {"charge", "confirm", "acquire"} \cup InSection

Inside(w) == pc[w] \in InSection

\* a reservation is for one event, and so are its seats
Filed ==
  \A r \in Rids : res[r].status # "absent" =>
    res[r].event \in Events /\ \A s \in res[r].seats : EventOf[s] = res[r].event

\* what a worker takes and writes belongs to the event it asks the lock for
Sited(w) ==
  /\ pc[w] \in Span => /\ job[w].event \in Events
                       /\ job[w].op # "hold" => res[job[w].rid].event = job[w].event
  /\ pc[w] = "commit" => \A s \in rows[w] : EventOf[s] = job[w].event

\* the lock is set for a worker only while that worker is inside
OwnersInside ==
  \A e \in Events, w \in Workers : lock[e] = w => Inside(w) /\ job[w].event = e

\* a worker inside owns its lock
LockOwned == \A w \in Workers : Inside(w) => lock[job[w].event] = w

SiteInv == Filed /\ (\A w \in Workers : Sited(w)) /\ OwnersInside

-----------------------------------------------------------------------------
(* The steps of a worker, by what they do to its request and to the lock.  *)

Alone(w) == \A v \in Workers \ {w} : pc'[v] = pc[v] /\ job'[v] = job[v] /\ rows'[v] = rows[v]

Same(w) ==
  /\ job'[w].op = job[w].op /\ job'[w].rid = job[w].rid
  /\ job'[w].event = job[w].event /\ job'[w].user = job[w].user

Begins(w) ==
  /\ ~Inside(w) /\ ~Inside(w)' /\ lock' = lock
  /\ job'[w].event \in Events
  /\ job'[w].op # "hold" => res[job'[w].rid].event = job'[w].event

GoesOn(w) ==
  /\ pc[w] \in Span /\ Same(w) /\ lock' = lock
  /\ pc'[w] # "publish" /\ (Inside(w) <=> Inside(w)')
  /\ pc'[w] = "select" /\ job[w].op = "hold" => LiveHolds(job[w].user, job[w].event) = {}
  /\ pc'[w] = "commit" => pc[w] = "select" /\ rows'[w] = RowsWanted(w)

Enters(w) ==
  LET e == job[w].event IN
  /\ pc[w] = "acquire" /\ pc'[w] \in {"check", "recheck", "select"} /\ Same(w)
  /\ pc'[w] = "select" => job[w].op # "hold"
  /\ lock[e] = Free /\ lock' = [lock EXCEPT ![e] = w]

Leaves(w) ==
  LET e == job[w].event IN
  /\ Inside(w) /\ pc'[w] \notin Span
  /\ \E x \in {Free, Orphan} : lock' = [lock EXCEPT ![e] = IF @ = w THEN x ELSE @]

Ends(w) ==
  LET e == job[w].event IN
  /\ pc'[w] \notin Span
  /\ \/ ~Inside(w) /\ lock' = lock
     \/ pc[w] = "acquire" /\ lock[e] = Free /\ lock' = [lock EXCEPT ![e] = Orphan]
     \/ lock' = [x \in Events |-> IF lock[x] = w THEN Orphan ELSE lock[x]]

Turn(w) ==
  /\ Alone(w) /\ UNCHANGED <<seat, res, due>>
  /\ Begins(w) \/ GoesOn(w) \/ Enters(w) \/ Leaves(w) \/ Ends(w)

LEMMA AcceptTurn ==
  ASSUME TypeOK, NEW w \in Workers, NEW o \in AllOps, NEW p \in {"acquire", "charge", "loop"},
         NEW j \in Jobs, Accept(w, o, p, j), UNCHANGED <<seat, res>>,
         p # "loop" => j.event \in Events /\ (o # "hold" => res[j.rid].event = j.event)
  PROVE  Turn(w)
<1> DEFINE k == [j EXCEPT !.op = o]
<1>1. k.op = o /\ k.rid = j.rid /\ k.event = j.event
  BY DEF Jobs
<1>2. pc[w] = "idle" /\ pc' = [pc EXCEPT ![w] = p] /\ job' = [job EXCEPT ![w] = k]
      /\ UNCHANGED <<due, lock, rows>>
  BY DEF Accept, GoTo, Become
<1> HIDE DEF k
<1>3. CASE p = "loop"
  BY <1>2, <1>3 DEF Turn, Alone, Ends, Inside, Span, InSection, TypeOK
<1>4. CASE p # "loop"
  BY <1>1, <1>2, <1>4 DEF Turn, Alone, Begins, Inside, InSection, TypeOK
<1>5. QED
  BY <1>3, <1>4

LEMMA RequestTurn ==
  ASSUME TypeOK, Filed, NEW w \in Handlers, Request(w)
  PROVE  Turn(w)
<1> w \in Workers
  BY DEF Workers
<1>1. ASSUME NEW u \in Users, NEW e \in Events, NEW S \in SUBSET Seats, NEW r \in Rids,
             StartHold(w, u, e, S, r)
      PROVE  Turn(w)
  <2> DEFINE j == [NoJob EXCEPT !.user = u, !.event = e, !.seats = S, !.rid = r]
  <2>1. j \in Jobs /\ j.event = e
    BY DEF NoJob, Jobs, AllOps, ResStatus
  <2>2. Accept(w, "hold", "acquire", j) /\ UNCHANGED tables
    BY <1>1 DEF StartHold
  <2> HIDE DEF j
  <2>3. QED
    BY <2>1, <2>2, AcceptTurn DEF tables, AllOps
<1>2. ASSUME NEW r \in Rids, StartCancel(w, r) PROVE Turn(w)
  <2> DEFINE j == [NoJob EXCEPT !.rid = r, !.event = res[r].event]
  <2>1. j \in Jobs /\ j.rid = r /\ j.event = res[r].event
    BY DEF NoJob, Jobs, AllOps, ResStatus, TypeOK, Reservations
  <2>2. Accept(w, "cancel", "acquire", j) /\ Held(r) /\ UNCHANGED tables
    BY <1>2 DEF StartCancel
  <2> HIDE DEF j
  <2>3. QED
    BY <2>1, <2>2, AcceptTurn DEF tables, AllOps, Filed, Held
<1>3. ASSUME NEW r \in Rids, NEW p \in Pids, StartPay(w, r, p) PROVE Turn(w)
  <2> DEFINE j == [NoJob EXCEPT !.rid = r, !.pid = p, !.event = res[r].event]
  <2>1. j \in Jobs /\ j.rid = r /\ j.event = res[r].event
    BY DEF NoJob, Jobs, AllOps, ResStatus, TypeOK, Reservations
  <2>2. Accept(w, "pay", "charge", j) /\ Held(r) /\ UNCHANGED <<seat, res>>
    BY <1>3 DEF StartPay
  <2> HIDE DEF j
  <2>3. QED
    BY <2>1, <2>2, AcceptTurn DEF AllOps, Filed, Held
<1>4. ASSUME NEW u \in Users, StartRelease(w, u) PROVE Turn(w)
  <2> DEFINE j == [NoJob EXCEPT !.todo = HeldBy(u), !.orm = "listed"]
  <2>1. j \in Jobs
    BY DEF NoJob, Jobs, AllOps, ResStatus, HeldBy
  <2>2. Accept(w, "release", "loop", j) /\ UNCHANGED tables
    BY <1>4 DEF StartRelease, StartLoop
  <2> HIDE DEF j
  <2>3. QED
    BY <2>1, <2>2, AcceptTurn DEF tables, AllOps, LoopOps
<1>5. QED
  BY <1>1, <1>2, <1>3, <1>4 DEF Request

LEMMA CleanupTurn ==
  ASSUME TypeOK, NEW w \in Cleaners, StartCleanup(w)
  PROVE  Turn(w)
<1> w \in Workers
  BY DEF Workers
<1> DEFINE j == [NoJob EXCEPT !.todo = ExpiredHeld, !.orm = "listed"]
<1>1. j \in Jobs
  BY DEF NoJob, Jobs, AllOps, ResStatus, ExpiredHeld
<1>2. Accept(w, "cleanup", "loop", j) /\ UNCHANGED tables
  BY DEF StartCleanup, StartLoop
<1> HIDE DEF j
<1>3. QED
  BY <1>1, <1>2, AcceptTurn DEF tables, AllOps, LoopOps

LEMMA AdvanceTurn ==
  ASSUME TypeOK, JobsOK, ChargeInv, Filed, NEW w \in Workers, Advance(w), ~Commit(w)
  PROVE  Turn(w)
<1> USE DEF JobsOK, JobOK
<1>1. CASE PgApprove(w) \/ Confirm(w)
  BY <1>1 DEF PgApprove, Confirm, GoTo, Turn, Alone, GoesOn, Ends, Same, Inside, Span, InSection,
              TypeOK, tables
<1>2. CASE PgDecline(w) \/ Record(w) \/ Rollback(w)
  <2>1. Finished(w)
    BY <1>2, FinishFrame DEF PgDecline, Record, Rollback
  <2>2. pc'[w] \in {"idle", "loop"} /\ pc[w] \in {"charge", "record", "rollback"}
        /\ UNCHANGED <<seat, res, due, lock>>
        /\ \A v \in Workers \ {w} : rows'[v] = rows[v]
    BY <1>2, <2>1 DEF PgDecline, Record, Rollback, Finished, TypeOK, tables
  <2>3. QED
    BY <2>1, <2>2 DEF Finished, Turn, Alone, Ends, Inside, Span, InSection
<1>3. ASSUME NEW r \in Rids, NextReservation(w, r) PROVE Turn(w)
  <2> DEFINE j == [job[w] EXCEPT !.todo = @ \ {r}, !.rid = r, !.event = res[r].event,
                      !.seen = IF job[w].orm = "listed" THEN "held" ELSE res[r].status]
  <2>1. j.rid = r /\ j.event = res[r].event
    BY DEF TypeOK, Jobs
  <2>2. job' = [job EXCEPT ![w] = j] /\ pc' = [pc EXCEPT ![w] = "acquire"]
        /\ pc[w] = "loop" /\ r \in job[w].todo /\ UNCHANGED <<tables, due, lock, rows>>
    BY <1>3 DEF NextReservation, GoTo, Become
  <2>3. res[r].event \in Events
    BY <2>2, NullAssumption DEF ChargeInv, Traced, Touched, Filed, LoopOps
  <2> HIDE DEF j
  <2>4. QED
    BY <2>1, <2>2, <2>3 DEF Turn, Alone, Begins, Inside, InSection, TypeOK, tables
<1>4. CASE LoopDone(w) \/ GiveUp(w)
  BY <1>4 DEF LoopDone, GiveUp, GoTo, Become, Turn, Alone, Ends, Inside, Span, InSection,
              TypeOK, tables
<1>5. CASE AcquireLock(w)
  BY <1>5 DEF AcquireLock, FirstPlace, GoTo, Turn, Alone, Enters, Same, LoopOps, TypeOK, tables
<1>6. CASE CheckDuplicate(w) \/ Recheck(w)
  BY <1>6 DEF CheckDuplicate, Recheck, GoTo, Turn, Alone, GoesOn, Same, Inside, Span, InSection,
              LoopOps, TypeOK, tables
<1>7. CASE SelectForUpdate(w)
  BY <1>7 DEF SelectForUpdate, GoTo, Turn, Alone, GoesOn, Same, Inside, Span, InSection,
              TypeOK, tables
<1>8. CASE Publish(w)
  BY <1>8 DEF Publish, GoTo, Turn, Alone, GoesOn, Same, Inside, Span, InSection, TypeOK, tables
<1>9. CASE Unlock(w)
  <2>1. /\ pc[w] = "unlock" /\ UNCHANGED <<seat, res, due, rows>>
        /\ lock' = [lock EXCEPT ![job[w].event] = IF @ = w THEN Free ELSE @]
    BY <1>9 DEF Unlock, ReleaseOwn, tables
  <2>2. /\ pc'[w] \in {"idle", "loop", "record"}
        /\ \A v \in Workers \ {w} : pc'[v] = pc[v] /\ job'[v] = job[v]
    <3>1. CASE job[w].op = "pay"
      BY <1>9, <3>1 DEF Unlock, GoTo, TypeOK
    <3>2. CASE job[w].op # "pay"
      BY <1>9, <3>2, FinishFrame DEF Unlock, Finished
    <3>3. QED
      BY <3>1, <3>2
  <2>3. QED
    BY <2>1, <2>2 DEF Turn, Alone, Leaves, Inside, Span, InSection
<1>10. CASE Abort(w)
  BY <1>10 DEF Abort, ReleaseOwn, GoTo, Turn, Alone, Leaves, Inside, Span, InSection, TypeOK, tables
<1>11. QED
  BY <1>1, <1>2, <1>3, <1>4, <1>5, <1>6, <1>7, <1>8, <1>9, <1>10 DEF Advance

LEMMA FaultTurn ==
  ASSUME TypeOK, JobsOK, NEW w \in Workers, Fault(w), ~CommitAnswerLost(w)
  PROVE  Turn(w)
<1> USE DEF Turn, Alone, Inside, Span, InSection
<1>1. CASE StatementFails(w)
  <2>0. UNCHANGED <<tables, due, lock, feed, rows>>
    BY <1>1 DEF StatementFails
  <2>1. CASE pc[w] \in {"check", "recheck", "select", "commit"}
             /\ pc' = [pc EXCEPT ![w] = "abort"] /\ job' = job
    BY <2>0, <2>1 DEF GoesOn, Same, TypeOK, tables
  <2>2. CASE pc[w] \in {"confirm", "record"} /\ pc' = [pc EXCEPT ![w] = "rollback"] /\ job' = job
    BY <2>0, <2>2 DEF Ends, TypeOK, tables
  <2>3. CASE /\ pc[w] = "commit" /\ pc' = [pc EXCEPT ![w] = "abort"]
             /\ job' = [job EXCEPT ![w] = [job[w] EXCEPT !.todo = {}]]
    <3> DEFINE j == [job[w] EXCEPT !.todo = {}]
    <3>1. j.op = job[w].op /\ j.rid = job[w].rid /\ j.event = job[w].event /\ j.user = job[w].user
      BY DEF TypeOK, Jobs
    <3>2. job' = [job EXCEPT ![w] = j]
      BY <2>3
    <3> HIDE DEF j
    <3>3. QED
      BY <2>0, <2>3, <3>1, <3>2 DEF GoesOn, Same, TypeOK, tables
  <2>4. CASE pc[w] = "loop" /\ pc' = [pc EXCEPT ![w] = "idle"] /\ job' = [job EXCEPT ![w] = NoJob]
    BY <2>0, <2>4 DEF Ends, TypeOK, tables
  <2>5. QED
    BY <1>1, <2>1, <2>2, <2>3, <2>4 DEF StatementFails, GoTo, Become
<1>2. CASE AcquireFails(w)
  BY <1>2 DEF AcquireFails, GoTo, Ends, TypeOK, tables
<1>3. CASE RedisFails(w)
  BY <1>3 DEF RedisFails, GoTo, GoesOn, Same, TypeOK, tables
<1>4. CASE UnlockFails(w)
  BY <1>4 DEF UnlockFails, GoTo, Leaves, TypeOK, tables
<1>5. CASE Crash(w)
  BY <1>5 DEF Crash, GoTo, Become, Ends, TypeOK, tables
<1>6. QED
  BY <1>1, <1>2, <1>3, <1>4, <1>5 DEF Fault

\* a transaction that takes effect, and what follows it, under the lock
Written(w) ==
  /\ Writes(w) /\ Alone(w) /\ Same(w) /\ UNCHANGED <<lock, due>>
  /\ Inside(w) /\ Inside(w)' /\ pc'[w] \in {"publish", "abort"}

\* time passes
Waits ==
  /\ UNCHANGED <<seat, res, pc, job, rows>> /\ due \subseteq due'
  /\ \/ lock' = lock
     \/ \E e \in Events : Lapse(e) \/ OrphanExpires(e)

LEMMA Turns ==
  ASSUME TypeOK, JobsOK, ChargeInv, Filed, [Next]_vars
  PROVE  Waits \/ \E w \in Workers : Turn(w) \/ Written(w)
<1>1. ASSUME NEW w \in Workers, Commit(w) \/ CommitAnswerLost(w) PROVE Written(w)
  <2> DEFINE k == [job[w] EXCEPT !.orm = "expired"]
  <2>1. Writes(w)
    BY <1>1 DEF Commit, CommitAnswerLost, Writes, GoTo
  <2>2. k.op = job[w].op /\ k.rid = job[w].rid /\ k.event = job[w].event /\ k.user = job[w].user
    BY DEF TypeOK, Jobs
  <2>3. /\ pc[w] = "commit" /\ job' = [job EXCEPT ![w] = k] /\ rows' = [rows EXCEPT ![w] = {}]
        /\ UNCHANGED <<lock, due>>
        /\ pc' \in {[pc EXCEPT ![w] = "publish"], [pc EXCEPT ![w] = "abort"]}
    BY <2>1 DEF Writes, Apply, Become
  <2> HIDE DEF k
  <2>4. QED
    BY <2>1, <2>2, <2>3 DEF Written, Alone, Same, Inside, InSection, TypeOK
<1>2. CASE \/ \E r \in Rids : Expire(r)
           \/ \E e \in Events : Lapse(e) \/ OrphanExpires(e)
           \/ UNCHANGED vars
  BY <1>2 DEF Waits, Expire, Lapse, OrphanExpires, vars, tables
<1>3. QED
  BY <1>1, <1>2, RequestTurn, CleanupTurn, AdvanceTurn, FaultTurn DEF Next, Quiet, Workers

-----------------------------------------------------------------------------
(* Reservations, workers and locks belong to one event.                    *)

LEMMA SiteStep == TypeOK /\ JobsOK /\ ChargeInv /\ SiteInv /\ [Next]_vars => SiteInv'
<1> SUFFICES ASSUME TypeOK, JobsOK, ChargeInv, SiteInv, [Next]_vars PROVE SiteInv'
  OBVIOUS
<1>0. TypeOK' /\ JobsOK'
  BY TypeStep, JobStep
<1>1. CASE Waits
  <2>1. Filed' /\ \A w \in Workers : Sited(w)'
    BY <1>1 DEF Waits, SiteInv, Filed, Sited
  <2>2. OwnersInside'
    BY <1>1, NullAssumption DEF Waits, SiteInv, OwnersInside, Inside, Lapse, OrphanExpires, TypeOK
  <2>3. QED
    BY <2>1, <2>2 DEF SiteInv
<1>2. ASSUME NEW w \in Workers, Turn(w) PROVE SiteInv'
  <2>1. Filed'
    BY <1>2 DEF Turn, SiteInv, Filed
  <2>2. ASSUME NEW v \in Workers \ {w} PROVE Sited(v)'
    BY <1>2, <2>2 DEF Turn, Alone, SiteInv, Sited
  <2>3. Sited(w)'
    <3>1. CASE Begins(w)
      BY <1>2, <3>1 DEF Turn, Begins, Sited, Span, Inside, InSection
    <3>2. CASE GoesOn(w)
      <4>1. Same(w) /\ pc[w] \in Span /\ Sited(w) /\ res' = res
        BY <1>2, <3>2 DEF Turn, GoesOn, SiteInv
      <4>2. job'[w].event \in Events
            /\ (job'[w].op # "hold" => res'[job'[w].rid].event = job'[w].event)
        BY <4>1 DEF Same, Sited
      <4>3. pc'[w] = "commit" => \A s \in rows'[w] : EventOf[s] = job'[w].event
        <5> SUFFICES ASSUME pc'[w] = "commit"
                     PROVE  \A s \in RowsWanted(w) : EventOf[s] = job[w].event
          BY <3>2, <4>1 DEF GoesOn, Same
        <5>1. CASE job[w].op = "hold"
          BY <5>1 DEF RowsWanted
        <5>2. CASE job[w].op # "hold"
          <6>1. job[w].rid \in Rids
            BY <3>2 DEF GoesOn, JobsOK, JobOK
          <6>2. res[job[w].rid].status # "absent"
            BY <5>2, <6>1, NullAssumption DEF ChargeInv, Traced, Touched
          <6>3. res[job[w].rid].event = job[w].event
            BY <4>1, <5>2 DEF Sited
          <6>4. QED
            BY <5>2, <6>1, <6>2, <6>3 DEF RowsWanted, SiteInv, Filed
        <5>3. QED
          BY <5>1, <5>2
      <4>4. QED
        BY <4>2, <4>3 DEF Sited
    <3>3. CASE Enters(w)
      BY <1>2, <3>3 DEF Turn, Enters, Same, SiteInv, Sited, Span
    <3>4. CASE Leaves(w) \/ Ends(w)
      BY <3>4 DEF Leaves, Ends, Sited, Span, InSection
    <3>5. QED
      BY <1>2, <3>1, <3>2, <3>3, <3>4 DEF Turn
  <2>4. OwnersInside'
    <3> SUFFICES ASSUME NEW e \in Events, NEW v \in Workers, lock'[e] = v
                 PROVE  Inside(v)' /\ job'[v].event = e
      BY DEF OwnersInside
    <3>0. lock \in [Events -> Workers \cup {Free, Orphan}] /\ OwnersInside
      BY DEF TypeOK, SiteInv
    <3>1. CASE v # w
      <4>1. lock[e] = v
        BY <1>2, <3>0, <3>1, NullAssumption DEF Turn, Begins, GoesOn, Enters, Leaves, Ends
      <4>2. QED
        BY <1>2, <3>0, <3>1, <4>1 DEF OwnersInside, Turn, Alone, Inside
    <3>2. CASE v = w
      <4>1. CASE Enters(w)
        <5>1. job[w].event = e
          BY <3>0, <3>2, <4>1 DEF Enters, OwnersInside, Inside, InSection
        <5>2. QED
          BY <3>2, <4>1, <5>1 DEF Enters, Same, Inside, InSection
      <4>2. CASE GoesOn(w)
        BY <3>0, <3>2, <4>2 DEF GoesOn, Same, OwnersInside, Inside
      <4>3. CASE Begins(w)
        BY <3>0, <3>2, <4>3 DEF Begins, OwnersInside, Inside
      <4>4. CASE Leaves(w)
        BY <3>0, <3>2, <4>4, NullAssumption DEF Leaves, OwnersInside, Inside
      <4>5. CASE Ends(w)
        BY <3>0, <3>2, <4>5, NullAssumption DEF Ends, OwnersInside, Inside, InSection
      <4>6. QED
        BY <1>2, <4>1, <4>2, <4>3, <4>4, <4>5 DEF Turn
    <3>3. QED
      BY <3>1, <3>2
  <2>5. QED
    BY <2>1, <2>2, <2>3, <2>4 DEF SiteInv
<1>3. ASSUME NEW w \in Workers, Written(w) PROVE SiteInv'
  <2> DEFINE r == job[w].rid
  <2>1. pc[w] = "commit" /\ res' = [res EXCEPT ![r] = NewRow(w)]
    BY <1>3 DEF Written, Writes, Apply
  <2>2. r \in Rids /\ job[w].event \in Events /\ res[r] \in Reservations
        /\ \A s \in rows[w] : EventOf[s] = job[w].event
    BY <2>1 DEF JobsOK, JobOK, SiteInv, Sited, Span, InSection, TypeOK
  <2>3. res'[r].event = job[w].event /\ \A s \in res'[r].seats : EventOf[s] = job[w].event
    <3>1. res'[r] = NewRow(w)
      BY <2>1, <2>2 DEF TypeOK
    <3>2. CASE job[w].op = "hold"
      BY <2>2, <3>1, <3>2 DEF NewRow
    <3>3. CASE job[w].op # "hold"
      <4>1. res[r].status # "absent"
        BY <2>2, <3>3, NullAssumption DEF ChargeInv, Traced, Touched
      <4>2. res'[r].event = res[r].event /\ res'[r].seats = res[r].seats
        BY <2>2, <3>1, <3>3 DEF NewRow, Reservations
      <4>3. res[r].event = job[w].event
        BY <2>1, <3>3 DEF SiteInv, Sited, Span, InSection
      <4>4. QED
        BY <2>2, <4>1, <4>2, <4>3 DEF SiteInv, Filed
    <3>4. QED
      BY <3>2, <3>3
  <2>4. \A q \in Rids \ {r} : res'[q] = res[q]
    BY <2>1, <2>2 DEF TypeOK
  <2>5. Filed'
    BY <2>2, <2>3, <2>4 DEF SiteInv, Filed
  <2>6. Sited(w)'
    BY <1>3, <2>2, <2>3 DEF Written, Same, Sited
  <2>7. ASSUME NEW v \in Workers \ {w} PROVE Sited(v)'
    <3>1. pc'[v] = pc[v] /\ job'[v] = job[v] /\ rows'[v] = rows[v]
      BY <1>3, <2>7 DEF Written, Alone
    <3>2. pc[v] \in Span => job[v].rid \in Rids
      BY DEF JobsOK, JobOK, Span, InSection
    <3>3. pc[v] \in Span /\ job[v].op # "hold" => res[job[v].rid].status # "absent"
      BY <3>2, NullAssumption DEF ChargeInv, Traced, Touched
    <3>4. res[r].status # "absent" => res'[r].event = res[r].event
      <4>1. CASE job[w].op = "hold"
        BY <2>1, <4>1 DEF ChargeInv, Traced, Before
      <4>2. CASE job[w].op # "hold"
        BY <2>1, <2>3, <4>2 DEF SiteInv, Sited, Span, InSection
      <4>3. QED
        BY <4>1, <4>2
    <3>5. QED
      BY <2>4, <3>1, <3>2, <3>3, <3>4 DEF SiteInv, Sited
  <2>8. OwnersInside'
    BY <1>3 DEF Written, Alone, Same, SiteInv, OwnersInside, Inside
  <2>9. QED
    BY <2>5, <2>6, <2>7, <2>8 DEF SiteInv
<1>4. QED
  BY <1>1, <1>2, <1>3, Turns DEF SiteInv

LEMMA SiteHolds == Spec => [](TypeOK /\ JobsOK /\ ChargeInv /\ SiteInv)
<1>1. Init => ChargeInv
  BY NullAssumption
  DEF Init, ChargeInv, Single, Traced, Touched, Named, SoldWasCharged, NoJob, Absent, Unpaid
<1>2. Init => SiteInv
  BY NullAssumption
  DEF Init, SiteInv, Filed, Sited, OwnersInside, Absent, Span, InSection
<1>3. QED
  BY <1>1, <1>2, ChargeStep, SiteStep, TypeCorrect, PTL DEF Spec

-----------------------------------------------------------------------------
(* The protocol of the lock.                                               *)

In(e) == {w \in Workers : pc[w] \in InSection /\ job[w].event = e}

\* Every step keeps to the event lock, with lapsing locks as without: it enters a free
\* one, leaves or vanishes, and takes it from nobody else (reservation_lock, and what
\* a crash or a lost answer makes of it).
THEOREM ProtocolKept == Spec => LockProtocol
<1> DEFINE Protocol == \A e \in Events : LockOf(e)!Next \/ UNCHANGED LockOf(e)!state
<1>1. ASSUME TypeOK, JobsOK, ChargeInv, SiteInv, [Next]_vars PROVE Protocol
  <2> SUFFICES ASSUME NEW e \in Events PROVE LockOf(e)!Next \/ UNCHANGED LockOf(e)!state
    OBVIOUS
  <2>0. lock \in [Events -> Workers \cup {Free, Orphan}] /\ OwnersInside
    BY <1>1 DEF TypeOK, SiteInv
  <2>1. ASSUME lock'[e] = lock[e], In(e)' = In(e) PROVE UNCHANGED LockOf(e)!state
    BY <2>1 DEF LockOf!state, In
  <2>2. ASSUME NEW w \in Workers, lock[e] = Free, w \notin In(e),
               lock'[e] = w, In(e)' = In(e) \cup {w}
        PROVE  LockOf(e)!Enter(w)
    BY <2>2 DEF LockOf!Enter, In
  <2>3. ASSUME NEW w \in Workers, w \in In(e), In(e)' = In(e) \ {w},
               NEW x \in {Free, Orphan}, lock'[e] = IF lock[e] = w THEN x ELSE lock[e]
        PROVE  LockOf(e)!Leave(w) \/ LockOf(e)!Vanish(w)
    BY <2>3 DEF LockOf!Leave, LockOf!Vanish, In
  <2>4. ASSUME lock[e] = Free, lock'[e] = Orphan, In(e)' = In(e) PROVE LockOf(e)!Stray
    BY <2>4 DEF LockOf!Stray, In
  <2>5. CASE Waits
    <3>1. In(e)' = In(e)
      BY <2>5 DEF Waits, In
    <3>2. CASE lock'[e] = lock[e]
      BY <2>1, <3>1, <3>2
    <3>3. CASE lock'[e] # lock[e]
      <4>1. lock'[e] = Free /\ (lock[e] = Orphan \/ (lock[e] \in Workers /\ "lapse" \in Faults))
        <5>1. PICK x \in Events : Lapse(x) \/ OrphanExpires(x)
          BY <2>5, <3>3 DEF Waits
        <5>2. lock' = [lock EXCEPT ![x] = Free]
          BY <5>1 DEF Lapse, OrphanExpires
        <5>3. CASE Lapse(x)
          BY <2>0, <3>3, <5>2, <5>3 DEF Lapse
        <5>4. CASE OrphanExpires(x)
          BY <2>0, <3>3, <5>2, <5>4 DEF OrphanExpires
        <5>5. QED
          BY <5>1, <5>3, <5>4
      <4>2. LockOf(e)!Expire
        BY <3>1, <4>1, NullAssumption DEF LockOf!Expire, In
      <4>3. QED
        BY <4>2 DEF LockOf!Next
    <3>4. QED
      BY <3>2, <3>3
  <2>6. ASSUME NEW w \in Workers, Turn(w) \/ Written(w)
        PROVE  LockOf(e)!Next \/ UNCHANGED LockOf(e)!state
    <3>1. /\ In(e)' \ {w} = In(e) \ {w}
          /\ w \in In(e) <=> Inside(w) /\ job[w].event = e
          /\ w \in In(e)' <=> Inside(w)' /\ job'[w].event = e
      BY <2>6 DEF Turn, Written, Alone, In, Inside
    <3>2. CASE Written(w) \/ Begins(w) \/ GoesOn(w)
      BY <3>1, <3>2, <2>1 DEF Written, Begins, GoesOn, Same
    <3>3. CASE Enters(w)
      <4>1. CASE job[w].event = e
        <5>1. lock[e] = Free /\ lock'[e] = w /\ w \notin In(e) /\ w \in In(e)'
          BY <2>0, <3>1, <3>3, <4>1 DEF Enters, Same, Inside, InSection
        <5>2. QED
          BY <2>2, <3>1, <5>1 DEF LockOf!Next
      <4>2. CASE job[w].event # e
        BY <2>0, <2>1, <3>1, <3>3, <4>2 DEF Enters, Same
      <4>3. QED
        BY <4>1, <4>2
    <3>4. CASE Leaves(w)
      <4>1. PICK x \in {Free, Orphan} :
              lock' = [lock EXCEPT ![job[w].event] = IF @ = w THEN x ELSE @]
        BY <3>4 DEF Leaves
      <4>2. w \notin In(e)'
        BY <3>1, <3>4 DEF Leaves, Inside, Span
      <4>3. CASE job[w].event = e
        <5>1. w \in In(e) /\ lock'[e] = IF lock[e] = w THEN x ELSE lock[e]
          BY <2>0, <3>1, <3>4, <4>1, <4>3 DEF Leaves
        <5>2. In(e)' = In(e) \ {w}
          BY <3>1, <4>2
        <5>3. QED
          BY <2>3, <5>1, <5>2 DEF LockOf!Next
      <4>4. CASE job[w].event # e
        BY <2>0, <2>1, <3>1, <4>1, <4>2, <4>4
      <4>5. QED
        BY <4>3, <4>4
    <3>5. CASE Ends(w)
      <4>1. w \notin In(e)'
        BY <3>1, <3>5 DEF Ends, Inside, Span
      <4>2. CASE ~Inside(w) /\ lock' = lock
        BY <2>1, <3>1, <4>1, <4>2
      <4>3. CASE pc[w] = "acquire" /\ lock[job[w].event] = Free
                 /\ lock' = [lock EXCEPT ![job[w].event] = Orphan]
        <5>1. In(e)' = In(e)
          BY <3>1, <4>1, <4>3 DEF Inside, InSection
        <5>2. CASE job[w].event = e
          BY <2>0, <2>4, <4>3, <5>1, <5>2 DEF LockOf!Next
        <5>3. CASE job[w].event # e
          BY <2>0, <2>1, <4>3, <5>1, <5>3
        <5>4. QED
          BY <5>2, <5>3
      <4>4. CASE lock' = [x \in Events |-> IF lock[x] = w THEN Orphan ELSE lock[x]]
        <5>1. CASE w \in In(e)
          BY <2>3, <3>1, <4>1, <4>4, <5>1 DEF LockOf!Next
        <5>2. CASE w \notin In(e)
          <6>1. lock[e] # w
            BY <2>0, <3>1, <5>2 DEF OwnersInside
          <6>2. QED
            BY <2>1, <3>1, <4>1, <4>4, <5>2, <6>1
        <5>3. QED
          BY <5>1, <5>2
      <4>5. QED
        BY <3>5, <4>2, <4>3, <4>4 DEF Ends
    <3>6. QED
      BY <2>6, <3>2, <3>3, <3>4, <3>5 DEF Turn
  <2>7. QED
    BY <1>1, <2>5, <2>6, Turns DEF SiteInv
<1>2. QED
  BY <1>1, SiteHolds, PTL DEF Spec, LockProtocol

-----------------------------------------------------------------------------
(* While no TTL ends under its owner, the lock orders the work on an event. *)

\* a hold that has passed its check is still alone
HoldChecked ==
  \A w \in Workers : job[w].op = "hold" /\ pc[w] \in {"select", "commit"} =>
    \A u, e : u = job[w].user /\ e = job[w].event => LiveHolds(u, e) = {}

\* what is about to be published is still so
ToPublish ==
  \A w \in Workers : pc[w] = "publish" =>
    \A s \in res[job[w].rid].seats :
      EventOf[s] = job[w].event /\ seat[s] = NewStatus(job[w].op)

OrderInv == LockOwned /\ HoldChecked /\ ToPublish /\ OneLiveHold

LEMMA OwnedStep ==
  ASSUME "lapse" \notin Faults, TypeOK, JobsOK, ChargeInv, SiteInv, LockOwned, [Next]_vars
  PROVE  LockOwned'
<1>0. lock \in [Events -> Workers \cup {Free, Orphan}]
      /\ \A v \in Workers : Inside(v) => job[v].event \in Events
  BY DEF TypeOK, SiteInv, Sited, Span, Inside
<1>1. CASE Waits
  BY <1>0, <1>1, NullAssumption DEF Waits, Lapse, OrphanExpires, LockOwned, Inside
<1>2. ASSUME NEW w \in Workers, Written(w) PROVE LockOwned'
  BY <1>2 DEF Written, Alone, Same, LockOwned, Inside
<1>3. ASSUME NEW w \in Workers, Turn(w) PROVE LockOwned'
  <2>1. ASSUME NEW v \in Workers \ {w}, Inside(v)' PROVE lock'[job'[v].event] = v
    <3>1. Inside(v) /\ job'[v] = job[v] /\ lock[job[v].event] = v /\ job[v].event \in Events
      BY <1>0, <1>3, <2>1 DEF Turn, Alone, Inside, LockOwned
    <3>2. QED
      BY <1>0, <1>3, <3>1, NullAssumption DEF Turn, Begins, GoesOn, Enters, Leaves, Ends
  <2>2. Inside(w)' => lock'[job'[w].event] = w
    <3>1. CASE GoesOn(w)
      BY <3>1 DEF GoesOn, Same, LockOwned
    <3>2. CASE Enters(w)
      <4>1. job[w].event \in Events
        BY <3>2 DEF Enters, SiteInv, Sited, Span
      <4>2. QED
        BY <1>0, <3>2, <4>1 DEF Enters, Same
    <3>3. CASE Begins(w) \/ Leaves(w) \/ Ends(w)
      BY <3>3 DEF Begins, Leaves, Ends, Inside, Span
    <3>4. QED
      BY <1>3, <3>1, <3>2, <3>3 DEF Turn
  <2>3. QED
    BY <2>1, <2>2 DEF LockOwned, Inside
<1>4. QED
  BY <1>1, <1>2, <1>3, Turns DEF SiteInv

LEMMA OrderStep ==
  ASSUME "lapse" \notin Faults, TypeOK, JobsOK, ChargeInv, SiteInv, OrderInv, [Next]_vars
  PROVE  OrderInv'
<1>0. LockOwned'
  BY OwnedStep DEF OrderInv
<1>1. CASE Waits
  <2>1. \A u, e : LiveHolds(u, e)' \subseteq LiveHolds(u, e)
    BY <1>1 DEF Waits, LiveHolds, Held
  <2>2. HoldChecked'
    BY <1>1, <2>1 DEF Waits, OrderInv, HoldChecked
  <2>3. ToPublish' /\ OneLiveHold'
    BY <1>1, <2>1 DEF Waits, OrderInv, ToPublish, OneLiveHold
  <2>4. QED
    BY <1>0, <2>2, <2>3 DEF OrderInv
<1>2. ASSUME NEW w \in Workers, Turn(w) PROVE OrderInv'
  <2>1. \A u, e : LiveHolds(u, e)' = LiveHolds(u, e)
    BY <1>2 DEF Turn, LiveHolds, Held
  <2>2. ASSUME NEW v \in Workers, job'[v].op = "hold", pc'[v] \in {"select", "commit"},
               NEW u, NEW e, u = job'[v].user, e = job'[v].event
        PROVE  LiveHolds(u, e)' = {}
    <3>1. CASE v # w
      BY <1>2, <2>1, <2>2, <3>1 DEF Turn, Alone, OrderInv, HoldChecked
    <3>2. CASE v = w
      <4>1. GoesOn(w)
        BY <1>2, <2>2, <3>2
        DEF Turn, Begins, Enters, Leaves, Ends, Same, Inside, Span, InSection
      <4>2. LiveHolds(job[w].user, job[w].event) = {}
        BY <2>2, <3>2, <4>1 DEF GoesOn, Same, OrderInv, HoldChecked
      <4>3. QED
        BY <2>1, <2>2, <3>2, <4>1, <4>2 DEF GoesOn, Same
    <3>3. QED
      BY <3>1, <3>2
  <2>3. ToPublish'
    <3>1. pc'[w] # "publish"
      BY <1>2 DEF Turn, Begins, GoesOn, Enters, Leaves, Ends, Inside, Span, InSection
    <3>2. QED
      BY <1>2, <3>1 DEF Turn, Alone, OrderInv, ToPublish
  <2>4. OneLiveHold'
    BY <2>1 DEF OrderInv, OneLiveHold
  <2>5. QED
    BY <1>0, <2>2, <2>3, <2>4 DEF OrderInv, HoldChecked
<1>3. ASSUME NEW w \in Workers, Written(w) PROVE OrderInv'
  <2> DEFINE r == job[w].rid
             e == job[w].event
  <2>1. /\ pc[w] = "commit" /\ res' = [res EXCEPT ![r] = NewRow(w)] /\ due' = due
        /\ seat' = [s \in Seats |-> IF s \in rows[w] THEN NewStatus(job[w].op) ELSE seat[s]]
    BY <1>3 DEF Written, Writes, Apply
  <2>2. r \in Rids /\ e \in Events /\ res[r] \in Reservations /\ rows[w] \subseteq Seats
        /\ \A s \in rows[w] : EventOf[s] = e
    BY <2>1 DEF JobsOK, JobOK, SiteInv, Sited, Span, InSection, TypeOK
  <2>3. res'[r] = NewRow(w) /\ \A q \in Rids \ {r} : res'[q] = res[q]
    BY <2>1, <2>2 DEF TypeOK
  <2>4. job[w].op # "hold" => /\ res'[r].status # "held" /\ res'[r].seats = res[r].seats
                              /\ rows[w] = res[r].seats /\ res[r].status # "absent"
    BY <2>1, <2>2, <2>3, NullAssumption DEF NewRow, Reservations, ChargeInv, Traced, Touched
  <2>5. job[w].op = "hold" => /\ res[r].status = "absent" /\ res'[r].seats = rows[w]
                              /\ res'[r].user = job[w].user /\ res'[r].event = e
    BY <2>1, <2>3 DEF NewRow, ChargeInv, Traced, Before
  \* another worker inside works on another event
  <2>6. ASSUME NEW v \in Workers \ {w}, Inside(v) PROVE job[v].event # e
    BY <1>3, <2>6 DEF Written, OrderInv, LockOwned
  <2>7. \A u, x : LiveHolds(u, x)' \subseteq LiveHolds(u, x)
                    \cup IF job[w].op = "hold" /\ u = job[w].user /\ x = e THEN {r} ELSE {}
    BY <2>1, <2>3, <2>4, <2>5 DEF LiveHolds, Held
  <2>8. OneLiveHold'
    <3> SUFFICES ASSUME NEW u \in Users, NEW x \in Events
                 PROVE  \A p, q \in LiveHolds(u, x)' : p = q
      BY DEF OneLiveHold
    <3>1. CASE job[w].op = "hold" /\ u = job[w].user /\ x = e
      <4>1. LiveHolds(u, x) = {}
        BY <2>1, <3>1 DEF OrderInv, HoldChecked
      <4>2. QED
        BY <2>7, <3>1, <4>1
    <3>2. CASE ~(job[w].op = "hold" /\ u = job[w].user /\ x = e)
      <4>1. LiveHolds(u, x)' \subseteq LiveHolds(u, x)
        BY <2>7, <3>2
      <4>2. QED
        BY <4>1 DEF OrderInv, OneLiveHold
    <3>3. QED
      BY <3>1, <3>2
  <2>9. HoldChecked'
    <3> SUFFICES ASSUME NEW v \in Workers, job'[v].op = "hold", pc'[v] \in {"select", "commit"},
                        NEW u, NEW x, u = job'[v].user, x = job'[v].event
                 PROVE  LiveHolds(u, x)' = {}
      BY DEF HoldChecked
    <3>1. v # w /\ pc'[v] = pc[v] /\ job'[v] = job[v]
      BY <1>3 DEF Written, Alone
    <3>2. job[v].event # e
      BY <2>6, <3>1 DEF Inside, InSection
    <3>3. LiveHolds(u, x) = {} /\ x # e
      BY <3>1, <3>2 DEF OrderInv, HoldChecked
    <3>4. QED
      BY <2>7, <3>3
  <2>10. ToPublish'
    <3> SUFFICES ASSUME NEW v \in Workers, pc'[v] = "publish", NEW s \in res'[job'[v].rid].seats
                 PROVE  EventOf[s] = job'[v].event /\ seat'[s] = NewStatus(job'[v].op)
      BY DEF ToPublish
    <3>1. CASE v = w
      <4>1. job'[v].op = job[w].op /\ job'[v].rid = r /\ job'[v].event = e
        BY <1>3, <3>1 DEF Written, Same
      <4>2. s \in rows[w]
        BY <2>4, <2>5, <4>1
      <4>3. QED
        BY <2>1, <2>2, <4>1, <4>2
    <3>2. CASE v # w
      <4>1. pc[v] = "publish" /\ job'[v] = job[v] /\ Inside(v) /\ job[v].event # e
        BY <1>3, <2>6, <3>2 DEF Written, Alone, Inside, InSection
      <4>2. job[v].rid \in Rids
        BY <4>1 DEF JobsOK, JobOK
      <4>3. job[v].rid = r => job[w].op # "hold"
        <5> SUFFICES ASSUME job[v].rid = r, job[w].op = "hold" PROVE FALSE
          OBVIOUS
        <5>1. CASE job[v].op = "hold"
          BY <3>2, <5>1 DEF ChargeInv, Single
        <5>2. CASE job[v].op # "hold"
          BY <2>5, <4>2, <5>2, NullAssumption DEF ChargeInv, Traced, Touched
        <5>3. QED
          BY <5>1, <5>2
      <4>4. s \in res[job[v].rid].seats
        BY <2>3, <2>4, <4>1, <4>2, <4>3
      <4>5. EventOf[s] = job[v].event /\ seat[s] = NewStatus(job[v].op)
        BY <4>1, <4>4 DEF OrderInv, ToPublish
      <4>6. s \in Seats /\ s \notin rows[w]
        BY <2>2, <4>1, <4>2, <4>4, <4>5 DEF TypeOK, Reservations
      <4>7. QED
        BY <2>1, <4>1, <4>5, <4>6
    <3>3. QED
      BY <3>1, <3>2
  <2>11. QED
    BY <1>0, <2>8, <2>9, <2>10 DEF OrderInv
<1>4. QED
  BY <1>1, <1>2, <1>3, Turns DEF SiteInv

LEMMA OrderHolds ==
  ASSUME "lapse" \notin Faults
  PROVE  Spec => [](TypeOK /\ JobsOK /\ ChargeInv /\ SiteInv /\ OrderInv)
<1>1. Init => OrderInv
  BY DEF Init, OrderInv, LockOwned, Inside, InSection, HoldChecked, ToPublish, OneLiveHold,
         LiveHolds, Held, Absent
<1>2. TypeOK /\ JobsOK /\ ChargeInv /\ SiteInv /\ OrderInv /\ [Next]_vars => OrderInv'
  BY OrderStep
<1>3. QED
  BY <1>1, <1>2, SiteHolds, PTL DEF Spec

\* The check of hold_seats and its insert are two statements of one section: while no
\* lock runs out under its owner, no user has two unexpired holds for one event.
THEOREM OneHoldEach == ASSUME "lapse" \notin Faults PROVE Spec => []OneLiveHold
<1>1. OrderInv => OneLiveHold
  BY DEF OrderInv
<1>2. QED
  BY <1>1, OrderHolds, PTL

\* What is published of a seat is its status at that moment: no commit of another
\* worker comes between a commit and its publish (seat_updates in hold_seats, cancel,
\* complete and the release loops).
THEOREM FeedOrdered == ASSUME "lapse" \notin Faults PROVE Spec => FeedOrder
<1> DEFINE Order == \A s \in Seats : feed'[s] # feed[s] => feed'[s] = seat'[s]
<1>1. ASSUME TypeOK, OrderInv, [Next]_vars PROVE Order
  <2>1. CASE feed' = feed
    BY <2>1
  <2>2. ASSUME NEW w \in Workers, Publish(w) PROVE Order
    BY <1>1, <2>2 DEF Publish, OrderInv, ToPublish, TypeOK, tables
  <2>3. (\A w \in Workers : ~Publish(w)) => feed' = feed
    <3>1. ASSUME NEW w \in Handlers, Request(w) PROVE feed' = feed
      BY <3>1 DEF Request, StartHold, StartCancel, StartPay, StartRelease, StartLoop, Accept
    <3>2. ASSUME NEW w \in Cleaners, StartCleanup(w) PROVE feed' = feed
      BY <3>2 DEF StartCleanup, StartLoop, Accept
    <3>3. ASSUME NEW w \in Workers, Advance(w), ~Publish(w) PROVE feed' = feed
      BY <3>3 DEF Advance, PgApprove, PgDecline, Confirm, NextReservation, LoopDone, AcquireLock,
                  GiveUp, CheckDuplicate, Recheck, SelectForUpdate, Commit, Apply, Unlock, Abort,
                  Rollback, Record
    <3>4. ASSUME NEW w \in Workers, Fault(w) PROVE feed' = feed
      BY <3>4 DEF Fault, StatementFails, CommitAnswerLost, Apply, AcquireFails, RedisFails,
                  UnlockFails, Crash
    <3>5. CASE \/ \E r \in Rids : Expire(r)
               \/ \E e \in Events : Lapse(e) \/ OrphanExpires(e)
               \/ UNCHANGED vars
      BY <3>5 DEF Expire, Lapse, OrphanExpires, vars
    <3>6. QED
      BY <1>1, <3>1, <3>2, <3>3, <3>4, <3>5 DEF Next, Quiet
  <2>4. QED
    BY <2>1, <2>2, <2>3
<1>2. QED
  BY <1>1, OrderHolds, PTL DEF Spec, FeedOrder
=============================================================================
