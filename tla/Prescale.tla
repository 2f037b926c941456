------------------------------ MODULE Prescale ------------------------------
(***************************************************************************)
(* Predictive scaling of core-api: scaling_service.py and the prediction    *)
(* it asks for (prediction_service.py, traffic_forecaster.py).              *)
(*                                                                         *)
(* Every process runs a prescale pass once in a unit of time, in a thread   *)
(* of its own, and serves prediction requests: the endpoints on its event   *)
(* loop, the plan a queue's first join asks for in a background thread.     *)
(* This model lets one request at a time run beside the pass.  The threads  *)
(* share the process's forecaster: one neural network whose dropout a       *)
(* prediction switches on and off.  All processes share the minimum of the  *)
(* autoscaler (the floor) and the cached predictions in Redis.              *)
(***************************************************************************)
EXTENDS ResourceCalculator, FiniteSets

CONSTANTS
  Processes,
  Events,
  Unknown,    \* event ids that are asked for and not in the database
  Requests,   \* what clients ask for: <<process, kind, event id>>
  Peak,       \* the peak the network predicts for an event, in RPS
  Spread,     \* 1.645 standard deviations of its samples drawn with dropout
  Openings,   \* the opening times that can be given: a set of functions
  Lead, Window, After,  \* _PRESCALE_LEAD_MIN, _PRESCALE_WINDOW_MIN, _RESTORE_AFTER_MIN
  Horizon,    \* the last moment
  Faults,     \* the faults that occur: "patch", "redis", "crash"
  MaxFaults,  \* bound on their number
  None

ASSUME EventsAssumption ==
  /\ Events \cap Unknown = {}
  /\ Requests \subseteq Processes \X {"plan", "forecast"} \X (Events \cup Unknown)
ASSUME ForecastAssumption == Peak \in [Events -> Nat] /\ Spread \in [Events -> Nat]
ASSUME TimeAssumption ==
  /\ Openings \subseteq [Events -> Nat]
  /\ Lead \in Nat \ {0} /\ Window \in Nat /\ After \in Nat \ {0} /\ Horizon \in Nat
  /\ Lead <= Window
ASSUME ProcessesAssumption == IsFiniteSet(Processes) /\ MaxFaults \in Nat

Default == 2     \* _DEFAULT_MIN_REPLICAS
Cap     == 30    \* maxReplicas of the autoscaler
Kinds   == {"plan", "forecast"}

\* the answer given when a prediction fails
Mock(k) == IF k = "plan" THEN 10 ELSE 5000

Threads == Processes \X {"request", "prescale"}
ProcessOf(t) == t[1]
Looks(p) == <<p, "prescale">>

VARIABLES
  start,     \* events.start_at
  now,
  floor,     \* minReplicas of core-api-hpa
  scaled,    \* _scaled_events of each process
  pass,      \* the pass of each process in this unit of time
  instance,  \* _forecaster_instance: the thread that built it, or None
  training,  \* is the network a thread has built in training mode?
  cache,     \* prediction:resource_plan:{event_id}, prediction:forecast:{event_id}
  call,      \* the prediction each thread computes
  faults     \* number of faults so far

vars     == <<start, now, floor, scaled, pass, instance, training, cache, call, faults>>
model    == <<instance, training>>
scaling  == <<start, now, floor, scaled, pass>>

Idle  == [at |-> "idle", kind |-> "plan", event |-> None, net |-> None,
          spread |-> FALSE, result |-> 0]
Calls == [at : {"idle", "forecaster", "build", "sample", "end", "store", "answered"},
          kind : Kinds, event : Events \cup Unknown \cup {None},
          net : Threads \cup {None}, spread : BOOLEAN, result : Nat]
Passes == [at : {"due", "scale", "restore", "done"}, todo : SUBSET Events]

TypeOK ==
  /\ start \in Openings
  /\ now \in 0..Horizon
  /\ floor \in Default..Cap
  /\ scaled \in [Processes -> SUBSET Events]
  /\ pass \in [Processes -> Passes]
  /\ instance \in [Processes -> Threads \cup {None}]
  /\ training \in [Threads -> BOOLEAN]
  /\ cache \in [Kinds -> [Events -> Nat \cup {None}]]
  /\ call \in [Threads -> Calls]
  /\ faults \in 0..MaxFaults

Init ==
  /\ start \in Openings
  /\ now = 0
  /\ floor = Default
  /\ scaled = [p \in Processes |-> {}]
  /\ pass = [p \in Processes |-> [at |-> "due", todo |-> {}]]
  /\ instance = [p \in Processes |-> None]
  /\ training = [t \in Threads |-> FALSE]
  /\ cache = [k \in Kinds |-> [e \in Events |-> None]]
  /\ call = [t \in Threads |-> Idle]
  /\ faults = 0

Fault(f) == f \in Faults /\ faults < MaxFaults /\ faults' = faults + 1

-----------------------------------------------------------------------------
(* PredictionService: get_resource_plan and get_forecast.                  *)

Becomes(t, c) == call' = [call EXCEPT ![t] = c]
MoveTo(t, p)  == Becomes(t, [call[t] EXCEPT !.at = p])
Answer(t, n)  == Becomes(t, [Idle EXCEPT !.at = "answered", !.kind = call[t].kind,
                                         !.event = call[t].event, !.result = n])

\* the cache is read; an unknown event is answered with the mock, uncached
Ask(t, k, e) ==
  LET asked == [Idle EXCEPT !.kind = k, !.event = e] IN
  /\ call[t].at = "idle"
  /\ Becomes(t, IF e \in Unknown THEN [asked EXCEPT !.at = "answered", !.result = Mock(k)]
                ELSE IF cache[k][e] # None
                THEN [asked EXCEPT !.at = "answered", !.result = cache[k][e]]
                ELSE [asked EXCEPT !.at = "forecaster"])
  /\ UNCHANGED <<model, cache>>

\* _get_forecaster finds no instance and begins to build one
StartBuild(t) ==
  /\ call[t].at = "forecaster"
  /\ instance[ProcessOf(t)] = None
  /\ MoveTo(t, "build")
  /\ UNCHANGED <<scaling, model, cache, faults>>

\* the model file is loaded; the global is written, and read again to be returned
Built(t) ==
  /\ call[t].at = "build"
  /\ instance' = [instance EXCEPT ![ProcessOf(t)] = t]
  /\ training' = [training EXCEPT ![t] = FALSE]
  /\ MoveTo(t, "forecaster")
  /\ UNCHANGED <<scaling, cache, faults>>

\* predict switches dropout on ...
Begin(t) ==
  LET net == instance[ProcessOf(t)] IN
  /\ call[t].at = "forecaster"
  /\ net # None
  /\ training' = [training EXCEPT ![net] = TRUE]
  /\ Becomes(t, [call[t] EXCEPT !.at = "sample", !.net = net])
  /\ UNCHANGED <<scaling, instance, cache, faults>>

\* ... draws its samples, which differ only while nobody has switched it off ...
Sample(t) ==
  /\ call[t].at = "sample"
  /\ Becomes(t, [call[t] EXCEPT !.at = "end", !.spread = training[call[t].net]])
  /\ UNCHANGED <<scaling, model, cache, faults>>

\* ... switches it off, and the plan is computed from the upper bound of the peak:
\* what is left of the spread depends on how many samples were drawn without dropout
End(t) ==
  LET e == call[t].event IN
  /\ call[t].at = "end"
  /\ training' = [training EXCEPT ![call[t].net] = FALSE]
  /\ \E lost \in IF call[t].spread THEN {0} ELSE {0, Spread[e]} :
       Becomes(t, [call[t] EXCEPT
         !.at = "store", !.net = None, !.spread = FALSE,
         !.result = IF call[t].kind = "plan"
                    THEN Recommended(Peak[e] + Spread[e] - lost)
                    ELSE Peak[e]])
  /\ UNCHANGED <<scaling, instance, cache, faults>>

Store(t) ==
  LET c == call[t] IN
  /\ c.at = "store"
  /\ cache' = [cache EXCEPT ![c.kind][c.event] = c.result]
  /\ Answer(t, c.result)
  /\ UNCHANGED <<scaling, model, faults>>

\* SETEX raises: the mock is answered, and not cached
StoreFails(t) ==
  /\ call[t].at = "store"
  /\ Fault("redis")
  /\ Answer(t, Mock(call[t].kind))
  /\ UNCHANGED <<scaling, model, cache>>

\* the TTL of a cached prediction ends
CacheExpires(k, e) ==
  /\ cache[k][e] # None
  /\ cache' = [cache EXCEPT ![k][e] = None]
  /\ UNCHANGED <<scaling, model, call, faults>>

-----------------------------------------------------------------------------
(* The endpoints of api/v1/prediction.py, and the task that the first join  *)
(* of a queue leaves behind.                                               *)

Request(p, k, e) == Ask(<<p, "request">>, k, e) /\ UNCHANGED <<scaling, faults>>

Respond(p) ==
  /\ call[<<p, "request">>].at = "answered"
  /\ Becomes(<<p, "request">>, Idle)
  /\ UNCHANGED <<scaling, model, cache, faults>>

-----------------------------------------------------------------------------
(* run_prescale_check, in the executor thread of the process.              *)

Upcoming(p) ==
  {e \in Events \ scaled[p] : start[e] >= now + Lead /\ start[e] <= now + Window}

Opened(p) == {e \in scaled[p] : now >= start[e] + After}

PassBecomes(p, at, todo) == pass' = [pass EXCEPT ![p] = [at |-> at, todo |-> todo]]

StartPass(p) ==
  /\ pass[p].at = "due"
  /\ PassBecomes(p, "scale", Upcoming(p))
  /\ UNCHANGED <<start, now, floor, scaled, model, cache, call, faults>>

Plan(p, e) ==
  /\ pass[p].at = "scale" /\ e \in pass[p].todo
  /\ Ask(Looks(p), "plan", e)
  /\ PassBecomes(p, "scale", pass[p].todo \ {e})
  /\ UNCHANGED <<start, now, floor, scaled, faults>>

\* the read of the cache is outside the try: the pass ends
PlanFails(p) ==
  /\ pass[p].at = "scale" /\ pass[p].todo # {} /\ call[Looks(p)].at = "idle"
  /\ Fault("redis")
  /\ PassBecomes(p, "done", {})
  /\ UNCHANGED <<start, now, floor, scaled, model, cache, call>>

\* mutant: the cap of the autoscaler is not applied
RaiseUncapped(p) ==
  LET c == call[Looks(p)] IN
  /\ pass[p].at = "scale" /\ c.at = "answered"
  /\ floor' = c.result
  /\ scaled' = [scaled EXCEPT ![p] = @ \cup {c.event}]
  /\ Becomes(Looks(p), Idle)
  /\ UNCHANGED <<start, now, pass, model, cache, faults>>

\* the new minimum replaces the old one; the event is remembered
Raise(p) ==
  LET c == call[Looks(p)] IN
  /\ pass[p].at = "scale" /\ c.at = "answered"
  /\ floor' = Min({c.result, Cap})
  /\ scaled' = [scaled EXCEPT ![p] = @ \cup {c.event}]
  /\ Becomes(Looks(p), Idle)
  /\ UNCHANGED <<start, now, pass, model, cache, faults>>

\* mutant: the event is remembered although the patch failed
RaiseFailsKept(p) ==
  LET c == call[Looks(p)] IN
  /\ pass[p].at = "scale" /\ c.at = "answered"
  /\ Fault("patch")
  /\ scaled' = [scaled EXCEPT ![p] = @ \cup {c.event}]
  /\ Becomes(Looks(p), Idle)
  /\ UNCHANGED <<start, now, floor, pass, model, cache>>

RaiseFails(p) ==
  /\ pass[p].at = "scale" /\ call[Looks(p)].at = "answered"
  /\ Fault("patch")
  /\ Becomes(Looks(p), Idle)
  /\ UNCHANGED <<scaling, model, cache>>

EndScale(p) ==
  /\ pass[p] = [at |-> "scale", todo |-> {}] /\ call[Looks(p)].at = "idle"
  /\ PassBecomes(p, IF Opened(p) = {} THEN "done" ELSE "restore", Opened(p))
  /\ UNCHANGED <<start, now, floor, scaled, model, cache, call, faults>>

Forget(p, e) ==
  /\ pass[p].at = "restore" /\ e \in pass[p].todo
  /\ scaled' = [scaled EXCEPT ![p] = @ \ {e}]
  /\ PassBecomes(p, IF pass[p].todo = {e} THEN "done" ELSE "restore", pass[p].todo \ {e})
  /\ UNCHANGED <<start, now, model, cache, call>>

\* mutant: the event is forgotten without a patch
RestoreNot(p, e) == Forget(p, e) /\ UNCHANGED <<floor, faults>>

Restore(p, e) == Forget(p, e) /\ floor' = Default /\ UNCHANGED faults

\* the patch fails and the event is forgotten all the same
RestoreFails(p, e) == Forget(p, e) /\ Fault("patch") /\ UNCHANGED floor

\* the process is replaced: a new one knows no event and begins with a pass
Crash(p) ==
  /\ Fault("crash")
  /\ scaled' = [scaled EXCEPT ![p] = {}]
  /\ PassBecomes(p, "due", {})
  /\ instance' = [instance EXCEPT ![p] = None]
  /\ call' = [t \in Threads |-> IF ProcessOf(t) = p THEN Idle ELSE call[t]]
  /\ training' = [t \in Threads |-> ProcessOf(t) # p /\ training[t]]
  /\ UNCHANGED <<start, now, floor, cache>>

\* time goes on when every process has made its pass
Tick ==
  /\ now < Horizon
  /\ \A p \in Processes : pass[p].at = "done"
  /\ now' = now + 1
  /\ pass' = [p \in Processes |-> [at |-> "due", todo |-> {}]]
  /\ UNCHANGED <<start, floor, scaled, model, cache, call, faults>>

-----------------------------------------------------------------------------

Predict(t) ==
  \/ StartBuild(t) \/ Built(t) \/ Begin(t) \/ Sample(t) \/ End(t)
  \/ Store(t) \/ StoreFails(t)

Step(p) ==
  \/ Respond(p) \/ StartPass(p) \/ PlanFails(p) \/ Raise(p) \/ RaiseFails(p)
  \/ EndScale(p) \/ Crash(p)
  \/ \E e \in Events : Plan(p, e) \/ Restore(p, e) \/ RestoreFails(p, e)

Next ==
  \/ \E t \in Threads : Predict(t)
  \/ \E p \in Processes : Step(p)
  \/ \E r \in Requests : Request(r[1], r[2], r[3])
  \/ \E k \in Kinds, e \in Events : CacheExpires(k, e)
  \/ Tick

Spec == Init /\ [][Next]_vars

-----------------------------------------------------------------------------
(* Properties.                                                             *)

\* the least a plan for e can ask for: the need at its predicted peak, or the mock
\* when Redis fails
Least(e) == Min({Needed(Peak[e]), Cap} \cup IF "redis" \in Faults THEN {Mock("plan")} ELSE {})

\* no other event is scaled or restored between the first look at e and its opening
Alone(e) ==
  \A f \in Events \ {e} : start[f] + After < start[e] - Window \/ start[f] - Window > start[e]

\* Whatever threads switch dropout off in the middle of a prediction, a cached plan
\* carries one and a half times the predicted peak, and is never the mock of a failure.
PlanCovers ==
  \A e \in Events : cache["plan"][e] # None =>
    cache["plan"][e] \in Needed(Peak[e])..Needed(Peak[e] + Spread[e])

\* An event that opens far enough from the others finds the pods it needs already
\* asked for ("scaled up 5 minutes before, the pods are ready at the opening"), in spite
\* of failing patches, failing predictions and restarts.
Ready == \A e \in Events : now = start[e] /\ Alone(e) => floor >= Least(e)

\* The same for every event, however close to another it opens.
OpenedReady == \A e \in Events : now = start[e] => floor >= Least(e)

\* The minimum is back at its default when the passes are through and no event is near:
\* none will open within the window, none has opened within the last ten minutes; as
\* long as fewer things failed than there are processes.
BackToDefault ==
  /\ \A p \in Processes : pass[p].at = "done"
  /\ \A e \in Events : now + Window < start[e] \/ now >= start[e] + After
  /\ faults < Cardinality(Processes)
  => floor = Default
=============================================================================
