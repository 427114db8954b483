--------------------------- MODULE RunReplyProofs ---------------------------
(***************************************************************************)
(* The Run pipeline, its queue and its answer, for any number of Runs,     *)
(* messages, deliveries and processes.                                     *)
(*                                                                         *)
(* The queue: a Run nobody works on can be picked up again, and, where the *)
(* queue declares nobody dead who lives, a recorded cancel reaches the     *)
(* attempt that holds the Run.  The job settles by the Run's id whichever  *)
(* delivery reports, so nothing follows from a delivery's own view: the    *)
(* invariant is that an active job names a handler that is alive or dead   *)
(* with its process.  Only without stalls is the converse true, that a     *)
(* live handler is the one its job names; then nobody else can take its    *)
(* registration away.                                                      *)
(*                                                                         *)
(* The answer: a stored one is replaced by a Regenerate alone, only the    *)
(* attempt that holds the Run publishes one, a Run that reports completion *)
(* stored one, and no model loop starts over a recorded native effect.     *)
(* Each needs what an attempt that passed a fence in one transaction may   *)
(* still rely on in a later one.  Between the two the Run can be expired,  *)
(* retried on another worker and regenerated; what survives is stated per  *)
(* attempt that still holds the Run: it found a log free of native effects *)
(* until its dispatch, its turn is the one the reply names from then on,   *)
(* and a reply it found complete is complete when it settles over it.      *)
(***************************************************************************)
EXTENDS RunSafetyProofs

-----------------------------------------------------------------------------
(* Runs against the queue.                                                 *)

Known(row) == row.status # "absent"

(* What exists of a Run before its acceptance, and what names a Run.       *)
RunsKnown ==
    /\ \A r \in Runs :
        /\ ~Known(run[r]) => run[r] = AbsentRun /\ dispatching[r] = "nothing"
                             /\ job[r].state = "absent"
        /\ Known(run[r]) => run[r].message \in Messages
        /\ dispatching[r] = "enqueue" => job[r].state = "absent"
    /\ \A d \in Deliveries : del[d].pc \in LiveSteps => Known(run[del[d].run])

(* An active job names a handler of its Run that lives, or one that died.  *)
HeldBy(r, h) ==
    h \in Deliveries
    /\ (del[h].pc = "dead" \/ (del[h].run = r /\ del[h].pc \in LiveSteps))
JobsHeld == \A r \in Runs : job[r].state = "active" => HeldBy(r, job[r].holder)

(* Without stalls a live handler is the one its job names.                 *)
SoleHandler ==
    ~MayStall => \A d \in Deliveries : del[d].pc \in LiveSteps =>
        job[del[d].run].state = "active" /\ job[del[d].run].holder = d

Registered == {"recheck", "claim", "prepare", "dispatch", "stream"}
Claimed == {"prepare", "dispatch", "stream"}

(* So it keeps its registration, and sees a cancel once it was delivered.  *)
Reached(d) ==
    /\ del[d].pc \in Registered /\ del[d].process = Api =>
            registry[Api][del[d].run] = d
    /\ /\ del[d].pc \in Claimed /\ del[d].process = Api
       /\ run[del[d].run].cancelRequested /\ del[d].run \notin cancelling
       => del[d].abort # "no"
CancelsReach == ~MayStall => \A d \in Deliveries : Reached(d)

QueueInv ==
    /\ TypeInv /\ RunsKnown /\ JobsHeld /\ SoleHandler /\ CancelsReach

-----------------------------------------------------------------------------
(* Rows.  Every step but an acceptance and a cancel request leaves a Run's *)
(* message, action and cancel flag, and forgets no Run.                    *)

RowGoesOn(r) ==
    /\ run'[r].message = run[r].message /\ run'[r].action = run[r].action
    /\ run'[r].cancelRequested = run[r].cancelRequested
    /\ Known(run[r]) => Known(run'[r])
    /\ ~Known(run[r]) => run'[r] = run[r]
RowsGoOn == \A r \in Runs : RowGoesOn(r)

(* A step that writes no row lets them go on.                              *)
LEMMA QuietRows == UNCHANGED run => RowsGoOn
BY DEF RowsGoOn, RowGoesOn

(* A terminal write lets the rows go on.                                   *)
LEMMA FinishedRows ==
    ASSUME StoreOK, NEW r \in Runs, NEW s \in TerminalStatuses, NEW f,
           CanFinish(run[r], f),
           run' = [run EXCEPT ![r] = MarkFinished(@, s, f)]
    PROVE  RowsGoOn
<1>1. /\ run'[r].message = run[r].message /\ run'[r].action = run[r].action
      /\ run'[r].cancelRequested = run[r].cancelRequested /\ run'[r].status = s
  BY DEF StoreOK, MarkFinished, RunRow
<1>2. Known(run[r]) /\ Known(run'[r])
  BY <1>1 DEF CanFinish, IsActive, ActiveStatuses, TerminalStatuses, Known
<1>3. \A q \in Runs \ {r} : run'[q] = run[q]
  BY DEF StoreOK
<1> QED BY <1>1, <1>2, <1>3 DEF RowsGoOn, RowGoesOn

(* So does one outside any attempt.                                        *)
LEMMA UnfencedRows ==
    ASSUME StoreOK, NEW r \in Runs, NEW s \in TerminalStatuses,
           FinishUnfenced(r, s)
    PROVE  RowsGoOn
BY FinishedRows, QuietRows DEF FinishUnfenced, Finish, store

(* So does a claim.                                                        *)
LEMMA StartedRows ==
    ASSUME StoreOK, NEW r \in Runs, NEW d, CanStart(run[r]),
           run' = [run EXCEPT ![r] = MarkStarted(@, d)]
    PROVE  RowsGoOn
<1>1. /\ run'[r].message = run[r].message /\ run'[r].action = run[r].action
      /\ run'[r].cancelRequested = run[r].cancelRequested
      /\ run'[r].status = "running_model"
  BY DEF StoreOK, MarkStarted, RunRow
<1>2. Known(run[r]) /\ Known(run'[r])
  BY <1>1 DEF CanStart, IsActive, ActiveStatuses, Known
<1>3. \A q \in Runs \ {r} : run'[q] = run[q]
  BY DEF StoreOK
<1> QED BY <1>1, <1>2, <1>3 DEF RowsGoOn, RowGoesOn

(* Admission's expiry changes a row as a terminal write does.              *)
LEMMA ExpiredRows ==
    ASSUME StoreOK, adm \in AdmissionRow, NEW q \in Runs
    PROVE  /\ ExpiredRun[q].message = run[q].message
           /\ ExpiredRun[q].action = run[q].action
           /\ ExpiredRun[q].cancelRequested = run[q].cancelRequested
           /\ Known(run[q]) => Known(ExpiredRun[q])
           /\ ~Known(run[q]) => ExpiredRun[q] = run[q]
<1>1. CASE ~Expires
  BY <1>1 DEF ExpiredRun
<1>2. CASE Expires
  <2> DEFINE b == adm.blocker
             x == MarkFinished(run[b], "expired", None)
  <2>1. b \in Runs /\ IsActive(run[b])
    BY <1>2 DEF Expires, AdmissionRow, OrNone, CanFinish
  <2>2. ExpiredRun[q] = IF q = b THEN x ELSE run[q]
    BY <1>2, <2>1 DEF ExpiredRun, StoreOK
  <2>3. /\ x.message = run[b].message /\ x.action = run[b].action
        /\ x.cancelRequested = run[b].cancelRequested /\ x.status = "expired"
    BY <2>1 DEF StoreOK, MarkFinished, RunRow
  <2>4. Known(run[b]) /\ Known(x)
    BY <2>1, <2>3 DEF IsActive, ActiveStatuses, Known
  <2> HIDE DEF x
  <2> QED BY <2>1, <2>2, <2>3, <2>4
<1> QED BY <1>1, <1>2

(* The steps of a delivery let the rows go on.                             *)
LEMMA DeliveryRows ==
    ASSUME TypeInv, NEW d \in Deliveries, Delivery(d)
    PROVE  RowsGoOn
<1>0. StoreOK /\ HandlersOK
  BY DEF TypeInv
<1>1. CASE UNCHANGED run
  BY <1>1, QuietRows
<1>2. CASE SettleWins(d)
  <2>1. del[d].pc \in {"settle", "salvage"} /\ del[d].pc \in LiveSteps
    BY <1>2 DEF SettleWins, At, LiveSteps, Steps
  <2>2. del[d].run \in Runs /\ PlanStatus(d) \in TerminalStatuses
    BY <1>0, <2>1, LiveHandler, PlanFacts
  <2> QED BY <1>0, <1>2, <2>2, FinishedRows DEF SettleWins, Finish
<1>3. CASE Claim(d)
  <2>1. del[d].pc \in LiveSteps
    BY <1>3 DEF Claim, At, LiveSteps, Steps
  <2>2. del[d].run \in Runs /\ del[d].abort \in {"no", "cancelled", "expired", "failed"}
    BY <1>0, <2>1, LiveHandler
  <2>3. CASE del[d].abort # "no"
    <3>1. del[d].abort \in TerminalStatuses
      BY <2>2, <2>3 DEF TerminalStatuses
    <3> QED BY <1>0, <1>3, <2>2, <2>3, <3>1, UnfencedRows DEF Claim
  <2>4. CASE del[d].abort = "no" /\ CanStart(run[del[d].run])
    <3>1. run' = [run EXCEPT ![del[d].run] = MarkStarted(@, d)]
      BY <1>3, <2>4 DEF Claim
    <3> QED BY <1>0, <2>2, <2>4, <3>1, StartedRows
  <2>5. CASE del[d].abort = "no" /\ ~CanStart(run[del[d].run])
    <3>1. FinishUnfenced(del[d].run, "cancelled") \/ UNCHANGED store
      BY <1>3, <2>5 DEF Claim
    <3> QED BY <1>0, <2>2, <3>1, UnfencedRows, QuietRows
            DEF TerminalStatuses, store
  <2> QED BY <2>3, <2>4, <2>5
<1>4. UNCHANGED run \/ SettleWins(d) \/ Claim(d)
  BY DEF Delivery, WorkerStep, Streaming, Settle, Pickup, CreateClient, Recheck,
         Prepare, DispatchAttempt, SettleLoses, HandleLostFinish, SettleErrs,
         Salvage, Verify, Return, HandlerThrows, Timeout, ToolRequested,
         ToolCompleted, NativeUnknown, NativeBegin, StreamEnds, ProgressLost,
         store
<1> QED BY <1>1, <1>2, <1>3, <1>4

(* So do the steps of the queue, of the dispatch and of a crash.           *)
LEMMA OtherRows ==
    ASSUME TypeInv,
           \/ \E a \in Actions : AdmitJudge(a)
           \/ AdmitConflict \/ AdmitRefuse \/ Queue
           \/ \E r \in Runs : Enqueue(r) \/ EnqueueThrows(r) \/ FailUndispatched(r)
                              \/ AbortInProcess(r)
           \/ \E p \in Processes : Crash(p)
    PROVE  RowsGoOn
<1>0. StoreOK /\ adm \in AdmissionRow
  BY DEF TypeInv, RequestsOK
<1>1. CASE UNCHANGED run
  BY <1>1, QuietRows
<1>2. CASE AdmitRefuse
  BY <1>0, <1>2, ExpiredRows DEF AdmitRefuse, RowsGoOn, RowGoesOn
<1>3. ASSUME NEW r \in Runs, FailUndispatched(r) PROVE RowsGoOn
  BY <1>0, <1>3, UnfencedRows, QuietRows DEF FailUndispatched, TerminalStatuses, store
<1>4. ASSUME NEW r \in Runs, DeadLetter(r) PROVE RowsGoOn
  BY <1>0, <1>4, UnfencedRows, QuietRows DEF DeadLetter, TerminalStatuses, store
<1>5. \/ UNCHANGED run \/ AdmitRefuse
      \/ \E r \in Runs : FailUndispatched(r) \/ DeadLetter(r)
  BY DEF AdmitJudge, AdmitConflict, Queue, Fetch, HeartbeatLost, Enqueue,
         EnqueueThrows, AbortInProcess, Crash, store
<1> QED BY <1>1, <1>2, <1>3, <1>4, <1>5

-----------------------------------------------------------------------------
(* Handlers.  A delivery's own step leaves it alive, on the Run and in the *)
(* process it was given, and never takes an abort back.                    *)

Moves(x, y) ==
    /\ y.run = x.run /\ y.process = x.process
    /\ x.pc \in LiveSteps /\ y.pc \in LiveSteps
    /\ x.abort # "no" => y.abort # "no"
OnlyMoves(d) ==
    /\ Moves(del[d], del'[d])
    /\ \A e \in Deliveries \ {d} : del'[e] = del[e]

(* Whether the step keeps what the delivery was before as far as the       *)
(* registry and the claim go.                                              *)
GainsNothing(d) ==
    /\ del'[d].pc \in Registered => del[d].pc \in Registered
    /\ del'[d].pc \in Claimed => del[d].pc \in Claimed

(* A step to another place of the handler is a move.                       *)
LEMMA GotoMoves ==
    ASSUME HandlersOK, NEW d \in Deliveries, del[d].pc \in LiveSteps,
           NEW pc \in LiveSteps, Goto(d, pc)
    PROVE  OnlyMoves(d) /\ del'[d].pc = pc
<1>1. del' = [del EXCEPT ![d] = [del[d] EXCEPT !.pc = pc]]
  BY DEF Goto
<1>2. del[d] \in DeliveryRow
  BY DEF HandlersOK, HandlerRow
<1>3. /\ del'[d] = [del[d] EXCEPT !.pc = pc]
      /\ \A e \in Deliveries \ {d} : del'[e] = del[e]
  BY <1>1 DEF HandlersOK
<1> QED BY <1>2, <1>3 DEF OnlyMoves, Moves, DeliveryRow

(* So is a settlement.                                                     *)
LEMMA SettleByMoves ==
    ASSUME HandlersOK, NEW d \in Deliveries, del[d].pc \in LiveSteps,
           NEW p, SettleBy(d, p)
    PROVE  OnlyMoves(d) /\ del'[d].pc = "settle" /\ del'[d].plan = p
<1>1. del' = [del EXCEPT ![d] = [del[d] EXCEPT !.pc = "settle", !.plan = p]]
  BY DEF SettleBy
<1>2. del[d] \in DeliveryRow
  BY DEF HandlersOK, HandlerRow
<1>3. /\ del'[d] = [del[d] EXCEPT !.pc = "settle", !.plan = p]
      /\ \A e \in Deliveries \ {d} : del'[e] = del[e]
  BY <1>1 DEF HandlersOK
<1> QED BY <1>2, <1>3 DEF OnlyMoves, Moves, DeliveryRow, LiveSteps, Steps

(* So is an abort of a live handler.                                       *)
LEMMA AbortMoves ==
    ASSUME HandlersOK, NEW d \in Deliveries, del[d].pc \in LiveSteps,
           NEW a \in {"cancelled", "expired", "failed"},
           del' = [del EXCEPT ![d].abort = a]
    PROVE  OnlyMoves(d) /\ del'[d].pc = del[d].pc
<1>1. del[d] \in DeliveryRow
  BY DEF HandlersOK, HandlerRow
<1>2. /\ del'[d] = [del[d] EXCEPT !.abort = a]
      /\ \A e \in Deliveries \ {d} : del'[e] = del[e]
  BY DEF HandlersOK
<1> QED BY <1>1, <1>2 DEF OnlyMoves, Moves, DeliveryRow

(* A move keeps what the rows, the jobs and the handlers say of each       *)
(* other.                                                                  *)
LEMMA MovesKeep ==
    ASSUME QueueInv, TypeInv', RowsGoOn, NEW d \in Deliveries, OnlyMoves(d),
           UNCHANGED <<job, dispatching>>
    PROVE  RunsKnown' /\ JobsHeld' /\ SoleHandler'
<1>1. \A e \in Deliveries : /\ del'[e].pc \in LiveSteps <=> del[e].pc \in LiveSteps
                            /\ del'[e].pc = "dead" <=> del[e].pc = "dead"
                            /\ del'[e].run = del[e].run
  BY DEF OnlyMoves, Moves, LiveSteps
<1>2. \A e \in Deliveries : del[e].pc \in LiveSteps => del[e].run \in Runs
  BY LiveHandler DEF QueueInv, TypeInv
<1>3. RunsKnown'
  BY <1>1, <1>2 DEF QueueInv, RunsKnown, RowsGoOn, RowGoesOn, Known
<1>4. JobsHeld'
  BY <1>1 DEF QueueInv, JobsHeld, HeldBy
<1>5. SoleHandler'
  BY <1>1 DEF QueueInv, SoleHandler
<1> QED BY <1>3, <1>4, <1>5

(* A move that gains nothing keeps the cancels' reach.                     *)
LEMMA MovesReach ==
    ASSUME QueueInv, RowsGoOn, NEW d \in Deliveries, OnlyMoves(d),
           GainsNothing(d), UNCHANGED <<registry, cancelling>>
    PROVE  CancelsReach'
<1> SUFFICES ASSUME ~MayStall, NEW e \in Deliveries PROVE Reached(e)'
  BY DEF CancelsReach
<1>1. Reached(e)
  BY DEF QueueInv, CancelsReach
<1>2. /\ del'[e].run = del[e].run /\ del'[e].process = del[e].process
      /\ del'[e].pc \in Registered => del[e].pc \in Registered
      /\ del'[e].pc \in Claimed => del[e].pc \in Claimed
      /\ del[e].abort # "no" => del'[e].abort # "no"
  BY DEF OnlyMoves, Moves, GainsNothing
<1>3. del[e].pc \in Claimed => del[e].run \in Runs
  BY LiveHandler DEF QueueInv, TypeInv, Claimed, LiveSteps, Steps
<1>4. del'[e].pc \in Claimed =>
          run'[del'[e].run].cancelRequested = run[del[e].run].cancelRequested
  BY <1>2, <1>3 DEF RowsGoOn, RowGoesOn
<1> QED BY <1>1, <1>2, <1>4 DEF Reached

(* The steps of a delivery that move it and register or claim nothing.     *)
PlainStep(d) ==
    \/ Pickup(d) \/ Verify(d) \/ HandlerThrows(d) \/ Timeout(d) \/ Prepare(d)
    \/ DispatchAttempt(d) \/ Settle(d) \/ Salvage(d) \/ ProgressLost(d)
    \/ NativeUnknown(d) \/ \E plan \in StreamPlans : StreamEnds(d, plan)

(* They are moves.                                                         *)
LEMMA PlainStepMoves ==
    ASSUME TypeInv, NEW d \in Deliveries, PlainStep(d)
    PROVE  /\ OnlyMoves(d) /\ GainsNothing(d)
           /\ UNCHANGED <<job, dispatching, registry, cancelling>>
<1>0. HandlersOK
  BY DEF TypeInv
<1>1. UNCHANGED <<job, dispatching, registry, cancelling>>
  BY DEF PlainStep, Pickup, Verify, HandlerThrows, Timeout, Prepare,
         DispatchAttempt, Settle, SettleWins, SettleLoses, SettleErrs, Salvage,
         ProgressLost, NativeUnknown, StreamEnds, queue, requests
<1>2. del[d].pc \in LiveSteps
  BY DEF PlainStep, Pickup, Verify, HandlerThrows, Timeout, Prepare,
         DispatchAttempt, Settle, SettleWins, SettleLoses, SettleErrs, Salvage,
         ProgressLost, NativeUnknown, StreamEnds, At, LiveSteps, Steps
<1> SUFFICES OnlyMoves(d) /\ GainsNothing(d)
  BY <1>1
<1>3. ASSUME NEW p, SettleBy(d, p) PROVE OnlyMoves(d) /\ GainsNothing(d)
  BY <1>0, <1>2, <1>3, SettleByMoves DEF GainsNothing, Registered, Claimed
<1>4. ASSUME NEW pc \in {"client", "ack", "nack", "verify", "salvage"}, Goto(d, pc)
      PROVE  OnlyMoves(d) /\ GainsNothing(d)
  BY <1>0, <1>2, <1>4, GotoMoves DEF LiveSteps, Steps, GainsNothing, Registered, Claimed
<1>5. CASE Pickup(d) \/ Verify(d)
  BY <1>3, <1>4, <1>5 DEF Pickup, Verify
<1>6. CASE HandlerThrows(d)
  <2> DEFINE x == [del[d] EXCEPT !.pc = "nack",
                                 !.registered = @ /\ ~At(d, "recheck")]
  <2>1. del'[d] = x /\ \A e \in Deliveries \ {d} : del'[e] = del[e]
    BY <1>0, <1>6 DEF HandlerThrows, HandlersOK
  <2>2. /\ x.pc = "nack" /\ x.run = del[d].run /\ x.process = del[d].process
        /\ x.abort = del[d].abort
    BY <1>0 DEF HandlersOK, HandlerRow, DeliveryRow
  <2> HIDE DEF x
  <2> QED BY <1>2, <2>1, <2>2 DEF OnlyMoves, Moves, LiveSteps, Steps,
                                  GainsNothing, Registered, Claimed
<1>7. CASE Timeout(d) \/ NativeUnknown(d)
  <2>1. PICK a \in {"expired", "failed"} : del' = [del EXCEPT ![d].abort = a]
    BY <1>7 DEF Timeout, NativeUnknown
  <2> QED BY <1>0, <1>2, <2>1, AbortMoves DEF GainsNothing, Registered, Claimed
<1>8. CASE Prepare(d)
  <2>1. CASE Goto(d, "dispatch")
    BY <1>0, <1>2, <1>8, <2>1, GotoMoves
       DEF Prepare, At, LiveSteps, Steps, GainsNothing, Registered, Claimed
  <2> QED BY <1>3, <1>8, <2>1 DEF Prepare
<1>9. CASE DispatchAttempt(d)
  <2>1. CASE Goto(d, "stream")
    BY <1>0, <1>2, <1>9, <2>1, GotoMoves
       DEF DispatchAttempt, At, LiveSteps, Steps, GainsNothing, Registered, Claimed
  <2> QED BY <1>3, <1>4, <1>9, <2>1 DEF DispatchAttempt
<1>10. CASE Settle(d)
  <2>1. /\ PlanOf(d).ok \in {"ack", "nack", "verify"}
        /\ PlanOf(d).err \in {"nack", "verify", "salvage"}
    BY <1>0, <1>10, PlanFacts DEF Settle, SettleWins, SettleLoses, SettleErrs, At
  <2> QED BY <1>4, <1>10, <2>1 DEF Settle, SettleWins, SettleLoses, SettleErrs
<1>11. CASE Salvage(d) \/ ProgressLost(d)
  BY <1>3, <1>4, <1>11 DEF Salvage, ProgressLost
<1>12. CASE \E plan \in StreamPlans : StreamEnds(d, plan)
  BY <1>3, <1>12 DEF StreamEnds
<1> QED BY <1>1, <1>5, <1>6, <1>7, <1>8, <1>9, <1>10, <1>11, <1>12 DEF PlainStep

-----------------------------------------------------------------------------
(* The steps of a delivery.                                                *)

(* A step that only writes the log.                                        *)
LEMMA LogStepQueue ==
    ASSUME QueueInv, TypeInv', UNCHANGED run,
           UNCHANGED <<job, dispatching, registry, cancelling, del>>
    PROVE  QueueInv'
BY DEF QueueInv, RunsKnown, JobsHeld, HeldBy, SoleHandler, CancelsReach, Reached,
       Known

(* The registration: no other live handler of the Run has one to lose.     *)
LEMMA CreateClientQueue ==
    ASSUME QueueInv, TypeInv', NEW d \in Deliveries, CreateClient(d)
    PROVE  QueueInv'
<1>0. HandlersOK /\ RegistryOK
  BY DEF QueueInv, TypeInv
<1>1. del[d].pc = "client" /\ del[d].pc \in LiveSteps
  BY DEF CreateClient, At, LiveSteps, Steps
<1>2. RowsGoOn /\ UNCHANGED <<run, job, dispatching, cancelling>>
  BY QuietRows DEF CreateClient, store, queue, requests
<1>3. CASE SettleBy(d, "pickupFailure") /\ UNCHANGED registry
  <2>1. OnlyMoves(d) /\ GainsNothing(d)
    BY <1>0, <1>1, <1>3, SettleByMoves DEF GainsNothing, Registered, Claimed
  <2> QED BY <1>2, <1>3, <2>1, MovesKeep, MovesReach DEF QueueInv
<1>4. CASE /\ registry' = [registry EXCEPT ![del[d].process][del[d].run] = d]
           /\ del' = [del EXCEPT ![d].pc = "recheck", ![d].registered = TRUE]
  <2> DEFINE x == [del[d] EXCEPT !.pc = "recheck", !.registered = TRUE]
  <2>1. del'[d] = x /\ \A e \in Deliveries \ {d} : del'[e] = del[e]
    BY <1>0, <1>4 DEF HandlersOK
  <2>2. /\ x.pc = "recheck" /\ x.run = del[d].run /\ x.process = del[d].process
        /\ x.abort = del[d].abort
    BY <1>0 DEF HandlersOK, HandlerRow, DeliveryRow
  <2> HIDE DEF x
  <2>3. OnlyMoves(d)
    BY <1>1, <2>1, <2>2 DEF OnlyMoves, Moves, LiveSteps, Steps
  <2>4. RunsKnown' /\ JobsHeld' /\ SoleHandler'
    BY <1>2, <2>3, MovesKeep
  <2>5. CancelsReach'
    <3> SUFFICES ASSUME ~MayStall, NEW e \in Deliveries PROVE Reached(e)'
      BY DEF CancelsReach
    <3>1. CASE e = d
      <4>1. del[d].run \in Runs /\ Api \in Processes /\ del[d].process \in Processes
        BY <1>0, <1>1, LiveHandler, BoundsAssumption
      <4>2. del[d].process = Api => registry'[Api][del[d].run] = d
        BY <1>0, <1>4, <4>1 DEF RegistryOK
      <4> QED BY <2>1, <2>2, <3>1, <4>2 DEF Reached, Registered, Claimed
    <3>2. CASE e # d /\ del[e].pc \in Registered
      <4>1. del[e].pc \in LiveSteps
        BY <3>2 DEF Registered, LiveSteps, Steps
      <4>2. del[e].run \in Runs /\ del[d].run \in Runs /\ Api \in Processes
        BY <1>0, <1>1, <4>1, LiveHandler, BoundsAssumption
      <4>3. del[e].run # del[d].run
        BY <1>1, <3>2, <4>1 DEF QueueInv, SoleHandler
      <4>4. registry'[Api][del[e].run] = registry[Api][del[e].run]
        BY <1>0, <1>4, <4>2, <4>3 DEF RegistryOK
      <4> QED BY <1>2, <2>1, <3>2, <4>4 DEF QueueInv, CancelsReach, Reached
    <3>3. CASE e # d /\ del[e].pc \notin Registered
      BY <2>1, <3>3 DEF Reached, Registered, Claimed
    <3> QED BY <3>1, <3>2, <3>3
  <2> QED BY <2>4, <2>5 DEF QueueInv
<1> QED BY <1>3, <1>4 DEF CreateClient

(* Unregistering one handler leaves the others of other Runs registered.   *)
LEMMA UnregisterReach ==
    ASSUME QueueInv, NEW d \in Deliveries, del[d].pc \in LiveSteps, Unregister(d),
           UNCHANGED <<run, cancelling>>, del'[d].pc \notin Registered,
           \A e \in Deliveries \ {d} : del'[e] = del[e]
    PROVE  CancelsReach'
<1> SUFFICES ASSUME ~MayStall, NEW e \in Deliveries PROVE Reached(e)'
  BY DEF CancelsReach
<1>0. HandlersOK /\ RegistryOK
  BY DEF QueueInv, TypeInv
<1>1. CASE del'[e].pc \notin Registered
  BY <1>1 DEF Reached, Registered, Claimed
<1>2. CASE del'[e].pc \in Registered
  <2>1. e # d /\ del'[e] = del[e] /\ del[e].pc \in LiveSteps
    BY <1>2 DEF Registered, LiveSteps, Steps
  <2>2. del[e].run \in Runs /\ del[d].run \in Runs /\ Api \in Processes
    BY <1>0, <2>1, LiveHandler, BoundsAssumption
  <2>3. del[e].run # del[d].run
    BY <2>1 DEF QueueInv, SoleHandler
  <2>4. registry'[Api][del[e].run] = registry[Api][del[e].run]
    BY <1>0, <2>2, <2>3 DEF RegistryOK, Unregister
  <2> QED BY <2>1, <2>4 DEF QueueInv, CancelsReach, Reached
<1> QED BY <1>1, <1>2

(* The second look at the cancel flag.                                     *)
LEMMA RecheckQueue ==
    ASSUME QueueInv, TypeInv', NEW d \in Deliveries, Recheck(d)
    PROVE  QueueInv'
<1>0. HandlersOK
  BY DEF QueueInv, TypeInv
<1>1. del[d].pc = "recheck" /\ del[d].pc \in LiveSteps
  BY DEF Recheck, At, LiveSteps, Steps
<1>2. RowsGoOn /\ UNCHANGED <<run, job, dispatching, cancelling>>
  BY QuietRows DEF Recheck, store, queue, requests
<1>3. CASE Goto(d, "claim") /\ UNCHANGED registry
  <2>1. OnlyMoves(d) /\ del'[d].pc = "claim"
    BY <1>0, <1>1, <1>3, GotoMoves DEF LiveSteps, Steps
  <2>2. GainsNothing(d)
    BY <1>1, <2>1 DEF GainsNothing, Registered, Claimed
  <2> QED BY <1>2, <1>3, <2>1, <2>2, MovesKeep, MovesReach DEF QueueInv
<1>4. CASE /\ Unregister(d)
           /\ del' = [del EXCEPT ![d].pc = "settle", ![d].registered = FALSE,
                                 ![d].plan = "cancelBeforeStart"]
  <2> DEFINE x == [del[d] EXCEPT !.pc = "settle", !.registered = FALSE,
                                 !.plan = "cancelBeforeStart"]
  <2>1. del'[d] = x /\ \A e \in Deliveries \ {d} : del'[e] = del[e]
    BY <1>0, <1>4 DEF HandlersOK
  <2>2. /\ x.pc = "settle" /\ x.run = del[d].run /\ x.process = del[d].process
        /\ x.abort = del[d].abort
    BY <1>0 DEF HandlersOK, HandlerRow, DeliveryRow
  <2> HIDE DEF x
  <2>3. OnlyMoves(d)
    BY <1>1, <2>1, <2>2 DEF OnlyMoves, Moves, LiveSteps, Steps
  <2>4. RunsKnown' /\ JobsHeld' /\ SoleHandler'
    BY <1>2, <2>3, MovesKeep
  <2>5. CancelsReach'
    BY <1>1, <1>2, <1>4, <2>1, <2>2, UnregisterReach DEF Registered
  <2> QED BY <2>4, <2>5 DEF QueueInv
<1> QED BY <1>3, <1>4 DEF Recheck

(* The claim: a Run whose cancel was requested is not claimed.             *)
LEMMA ClaimQueue ==
    ASSUME QueueInv, TypeInv', NEW d \in Deliveries, Claim(d)
    PROVE  QueueInv'
<1>0. HandlersOK /\ TypeInv
  BY DEF QueueInv, TypeInv
<1>1. del[d].pc = "claim" /\ del[d].pc \in LiveSteps
  BY DEF Claim, At, LiveSteps, Steps
<1>2. RowsGoOn
  BY <1>0, DeliveryRows DEF Delivery, WorkerStep
<1>3. UNCHANGED <<job, dispatching, registry, cancelling>>
  BY DEF Claim, queue, requests
<1>4. CASE \E p : SettleBy(d, p)
  <2>1. OnlyMoves(d) /\ GainsNothing(d)
    BY <1>0, <1>1, <1>4, SettleByMoves DEF GainsNothing, Registered, Claimed
  <2> QED BY <1>2, <1>3, <2>1, MovesKeep, MovesReach DEF QueueInv
<1>5. CASE Goto(d, "ack")
  <2>1. OnlyMoves(d) /\ GainsNothing(d)
    BY <1>0, <1>1, <1>5, GotoMoves
       DEF GainsNothing, Registered, Claimed, LiveSteps, Steps
  <2> QED BY <1>2, <1>3, <2>1, MovesKeep, MovesReach DEF QueueInv
<1>6. CASE Goto(d, "prepare") /\ CanStart(run[del[d].run])
  <2>1. OnlyMoves(d) /\ del'[d].pc = "prepare"
    BY <1>0, <1>1, <1>6, GotoMoves DEF LiveSteps, Steps
  <2>2. RunsKnown' /\ JobsHeld' /\ SoleHandler'
    BY <1>2, <1>3, <2>1, MovesKeep
  <2>3. CancelsReach'
    <3> SUFFICES ASSUME ~MayStall, NEW e \in Deliveries PROVE Reached(e)'
      BY DEF CancelsReach
    <3>1. Reached(e)
      BY DEF QueueInv, CancelsReach
    <3>2. CASE e = d
      <4>1. del'[d].run = del[d].run /\ del'[d].process = del[d].process
        BY <2>1 DEF OnlyMoves, Moves
      <4>2. del[d].run \in Runs /\ ~run[del[d].run].cancelRequested
        BY <1>0, <1>1, <1>6, LiveHandler DEF CanStart
      <4>3. ~run'[del[d].run].cancelRequested
        BY <1>2, <4>2 DEF RowsGoOn, RowGoesOn
      <4> QED BY <1>1, <1>3, <3>1, <3>2, <4>1, <4>3 DEF Reached, Registered
    <3>3. CASE e # d
      <4>1. del'[e] = del[e]
        BY <2>1, <3>3 DEF OnlyMoves
      <4>2. del[e].pc \in Claimed => del[e].run \in Runs
        BY <1>0, LiveHandler DEF Claimed, LiveSteps, Steps
      <4>3. del[e].pc \in Claimed =>
                run'[del[e].run].cancelRequested = run[del[e].run].cancelRequested
        BY <1>2, <4>2 DEF RowsGoOn, RowGoesOn
      <4> QED BY <1>3, <3>1, <4>1, <4>3 DEF Reached
    <3> QED BY <3>2, <3>3
  <2> QED BY <2>2, <2>3 DEF QueueInv
<1>7. \/ \E p : SettleBy(d, p)
      \/ Goto(d, "ack")
      \/ Goto(d, "prepare") /\ CanStart(run[del[d].run])
  <2>1. CASE del[d].abort # "no"
    BY <2>1 DEF Claim
  <2>2. CASE del[d].abort = "no" /\ CanStart(run[del[d].run])
    BY <2>2 DEF Claim
  <2>3. CASE del[d].abort = "no" /\ ~CanStart(run[del[d].run])
    BY <2>3 DEF Claim
  <2> QED BY <2>1, <2>2, <2>3
<1> QED BY <1>4, <1>5, <1>6, <1>7

-----------------------------------------------------------------------------
(* Jobs.  A job that is settled or retried was active, and only that of    *)
(* one Run.                                                                *)

JobLeft(r) ==
    /\ \A q \in Runs \ {r} : job'[q] = job[q]
    /\ job[r].state # "active" => job'[r] = job[r]
    /\ job'[r].state \notin {"active", "absent"} \/ job'[r] = job[r]
    /\ job'[r].state # "active"

(* A retry or a dead letter leaves the job inactive.                       *)
LEMMA RetryLeaves ==
    ASSUME QueueOK, NEW r \in Runs, job[r].state = "active", RetryOrDeadLetter(r)
    PROVE  JobLeft(r)
<1>1. job[r] \in JobRow
  BY DEF QueueOK
<1>2. CASE job[r].retries < RetryLimit
  <2> DEFINE n == job[r].retries + 1
  <2>1. job' = [job EXCEPT ![r] = [job[r] EXCEPT !.state = "retry", !.retries = n,
                                                 !.holder = None]]
    BY <1>2 DEF RetryOrDeadLetter
  <2> HIDE DEF n
  <2>2. job'[r] = [job[r] EXCEPT !.state = "retry", !.retries = n, !.holder = None]
    BY <2>1 DEF QueueOK
  <2>3. job'[r].state = "retry"
    BY <1>1, <2>2 DEF JobRow
  <2>4. \A q \in Runs \ {r} : job'[q] = job[q]
    BY <2>1 DEF QueueOK
  <2> QED BY <2>3, <2>4 DEF JobLeft
<1>3. CASE ~(job[r].retries < RetryLimit)
  <2>1. job' = [job EXCEPT ![r] = [job[r] EXCEPT !.state = "failed",
                                                 !.holder = None]]
    BY <1>3 DEF RetryOrDeadLetter
  <2>2. job'[r].state = "failed"
    BY <1>1, <2>1 DEF QueueOK, JobRow
  <2>3. \A q \in Runs \ {r} : job'[q] = job[q]
    BY <2>1 DEF QueueOK
  <2> QED BY <2>2, <2>3 DEF JobLeft
<1> QED BY <1>2, <1>3

(* So does what a returning handler reports.                               *)
LEMMA ReportLeaves ==
    ASSUME QueueOK, NEW r \in Runs, CompleteJob(r) \/ FailJob(r)
    PROVE  JobLeft(r)
<1>1. CASE job[r].state # "active"
  <2>1. job' = job
    BY <1>1 DEF CompleteJob, FailJob, queue
  <2> QED BY <1>1, <2>1 DEF JobLeft
<1>2. CASE job[r].state = "active" /\ FailJob(r)
  BY <1>2, RetryLeaves DEF FailJob
<1>3. CASE job[r].state = "active" /\ CompleteJob(r)
  <2>1. job' = [job EXCEPT ![r] = [job[r] EXCEPT !.state = "completed",
                                                 !.holder = None]]
    BY <1>3 DEF CompleteJob
  <2>2. job'[r].state = "completed"
    BY <2>1 DEF QueueOK, JobRow
  <2>3. \A q \in Runs \ {r} : job'[q] = job[q]
    BY <2>1 DEF QueueOK
  <2> QED BY <1>3, <2>2, <2>3 DEF JobLeft
<1> QED BY <1>1, <1>2, <1>3

(* A job that becomes inactive leaves what is known of the Runs.           *)
LEMMA JobLeftKnown ==
    ASSUME QueueInv, NEW r \in Runs, JobLeft(r), UNCHANGED <<run, dispatching>>,
           \A e \in Deliveries : del'[e].pc \in LiveSteps => del'[e] = del[e]
    PROVE  RunsKnown'
<1>1. \A q \in Runs : job[q].state = "absent" => job'[q].state = "absent"
  BY DEF JobLeft
<1> QED BY <1>1 DEF QueueInv, RunsKnown, Known

(* The return: it takes the job from nobody but its own Run's holder.      *)
LEMMA ReturnQueue ==
    ASSUME QueueInv, TypeInv', NEW d \in Deliveries, Return(d)
    PROVE  QueueInv'
<1> DEFINE r == del[d].run
<1>0. HandlersOK /\ QueueOK
  BY DEF QueueInv, TypeInv
<1>1. del[d].pc \in LiveSteps /\ del[d].pc \in {"ack", "nack"}
  BY DEF Return, At, LiveSteps, Steps
<1>2. r \in Runs
  BY <1>0, <1>1, LiveHandler
<1>3. JobLeft(r)
  BY <1>0, <1>2, ReportLeaves DEF Return
<1>4. Gone("done").pc = "done"
  BY DEF Gone, Unused
<1>5. del'[d].pc = "done" /\ \A e \in Deliveries \ {d} : del'[e] = del[e]
  BY <1>0, <1>4 DEF Return, HandlersOK
<1>6. UNCHANGED <<run, dispatching, cancelling>>
  BY DEF Return, store, requests
<1>7. RunsKnown'
  BY <1>2, <1>3, <1>5, <1>6, JobLeftKnown DEF LiveSteps
<1>8. JobsHeld'
  <2> SUFFICES ASSUME NEW q \in Runs, job'[q].state = "active"
               PROVE  HeldBy(q, job[q].holder)' /\ job'[q] = job[q]
    BY DEF JobsHeld, HeldBy
  <2>1. q # r /\ job'[q] = job[q]
    BY <1>3 DEF JobLeft
  <2>2. HeldBy(q, job[q].holder)
    BY <2>1 DEF QueueInv, JobsHeld
  <2>3. job[q].holder # d
    BY <1>1, <2>1, <2>2 DEF HeldBy, LiveSteps
  <2> QED BY <1>5, <2>1, <2>2, <2>3 DEF HeldBy
<1>9. SoleHandler'
  <2> SUFFICES ASSUME ~MayStall, NEW e \in Deliveries, del'[e].pc \in LiveSteps
               PROVE  job'[del'[e].run].state = "active"
                      /\ job'[del'[e].run].holder = e
    BY DEF SoleHandler
  <2>1. e # d /\ del'[e] = del[e]
    BY <1>5 DEF LiveSteps
  <2>2. /\ job[del[e].run].state = "active" /\ job[del[e].run].holder = e
        /\ job[r].holder = d
    BY <1>1, <2>1 DEF QueueInv, SoleHandler
  <2>3. del[e].run \in Runs /\ del[e].run # r
    BY <1>0, <2>1, <2>2, LiveHandler
  <2> QED BY <1>3, <2>1, <2>2, <2>3 DEF JobLeft
<1>10. CancelsReach'
  BY <1>1, <1>5, <1>6, UnregisterReach DEF Return, Registered
<1> QED BY <1>7, <1>8, <1>9, <1>10 DEF QueueInv

(* The steps of a delivery keep the invariant.                             *)
LEMMA DeliveryQueue ==
    ASSUME QueueInv, TypeInv', NEW d \in Deliveries, Delivery(d)
    PROVE  QueueInv'
<1>1. CASE PlainStep(d)
  <2>1. TypeInv
    BY DEF QueueInv
  <2>2. /\ OnlyMoves(d) /\ GainsNothing(d)
        /\ UNCHANGED <<job, dispatching, registry, cancelling>>
    BY <1>1, <2>1, PlainStepMoves
  <2>3. RowsGoOn
    BY <2>1, DeliveryRows
  <2> QED BY <2>2, <2>3, MovesKeep, MovesReach DEF QueueInv
<1>2. CASE \/ ToolRequested(d) \/ ToolCompleted(d)
           \/ \E bound \in BOOLEAN : NativeBegin(d, bound)
  BY <1>2, LogStepQueue DEF ToolRequested, ToolCompleted, NativeBegin, queue,
                            requests
<1> QED BY <1>1, <1>2, CreateClientQueue, RecheckQueue, ClaimQueue, ReturnQueue
        DEF Delivery, WorkerStep, Streaming, PlainStep

-----------------------------------------------------------------------------
(* The queue, the requests, admission and crashes.                         *)

(* A fetch gives the job its one handler.                                  *)
LEMMA FetchQueue ==
    ASSUME QueueInv, TypeInv', NEW d \in Deliveries, NEW r \in Runs,
           NEW p \in Processes, Fetch(d, r, p)
    PROVE  QueueInv'
<1>0. HandlersOK /\ QueueOK
  BY DEF QueueInv, TypeInv
<1>1. del[d].pc = "unused" /\ job[r].state \in {"created", "retry"}
  BY DEF Fetch, At
<1>2. /\ job'[r].state = "active" /\ job'[r].holder = d
      /\ \A q \in Runs \ {r} : job'[q] = job[q]
  BY <1>0 DEF Fetch, QueueOK, JobRow
<1>3. /\ del'[d].pc = "pickup" /\ del'[d].run = r
      /\ \A e \in Deliveries \ {d} : del'[e] = del[e]
  BY <1>0 DEF Fetch, HandlersOK, HandlerRow, DeliveryRow
<1>4. UNCHANGED <<run, dispatching, cancelling, registry>>
  BY DEF Fetch, store, requests
<1>5. Known(run[r]) /\ dispatching[r] # "enqueue"
  BY <1>1 DEF QueueInv, RunsKnown
<1>6. RunsKnown'
  BY <1>2, <1>3, <1>4, <1>5 DEF QueueInv, RunsKnown, Known
<1>7. JobsHeld'
  <2> SUFFICES ASSUME NEW q \in Runs, job'[q].state = "active"
               PROVE  HeldBy(q, job[q].holder)'
    BY DEF JobsHeld
  <2>1. CASE q = r
    BY <1>2, <1>3, <2>1 DEF HeldBy, LiveSteps, Steps
  <2>2. CASE q # r
    <3>1. job'[q] = job[q] /\ HeldBy(q, job[q].holder)
      BY <1>2, <2>2 DEF QueueInv, JobsHeld
    <3>2. job[q].holder # d
      BY <1>1, <3>1 DEF HeldBy, LiveSteps
    <3> QED BY <1>3, <3>1, <3>2 DEF HeldBy
  <2> QED BY <2>1, <2>2
<1>8. SoleHandler'
  <2> SUFFICES ASSUME ~MayStall, NEW e \in Deliveries, del'[e].pc \in LiveSteps,
                      e # d
               PROVE  job'[del'[e].run].state = "active"
                      /\ job'[del'[e].run].holder = e
    BY <1>2, <1>3 DEF SoleHandler
  <2>1. del'[e] = del[e] /\ del[e].run \in Runs
    BY <1>0, <1>3, LiveHandler
  <2>2. job[del[e].run].state = "active" /\ job[del[e].run].holder = e
    BY <2>1 DEF QueueInv, SoleHandler
  <2> QED BY <1>1, <1>2, <2>1, <2>2
<1>9. CancelsReach'
  BY <1>3, <1>4 DEF QueueInv, CancelsReach, Reached, Registered, Claimed
<1> QED BY <1>6, <1>7, <1>8, <1>9 DEF QueueInv

(* A lost heartbeat: without stalls the holder is dead, and no handler of  *)
(* the Run is left.                                                        *)
LEMMA HeartbeatQueue ==
    ASSUME QueueInv, TypeInv', NEW r \in Runs, HeartbeatLost(r)
    PROVE  QueueInv'
<1>0. HandlersOK /\ QueueOK
  BY DEF QueueInv, TypeInv
<1>1. JobLeft(r)
  BY <1>0, RetryLeaves DEF HeartbeatLost
<1>2. UNCHANGED <<run, dispatching, cancelling, registry, del>>
  BY DEF HeartbeatLost, store, requests
<1>3. RunsKnown'
  BY <1>1, <1>2, JobLeftKnown
<1>4. JobsHeld'
  BY <1>1, <1>2 DEF QueueInv, JobsHeld, HeldBy, JobLeft
<1>5. SoleHandler'
  <2> SUFFICES ASSUME ~MayStall, NEW e \in Deliveries, del[e].pc \in LiveSteps
               PROVE  job'[del[e].run].state = "active"
                      /\ job'[del[e].run].holder = e
    BY <1>2 DEF SoleHandler
  <2>1. job[del[e].run].state = "active" /\ job[del[e].run].holder = e
    BY DEF QueueInv, SoleHandler
  <2>2. del[job[r].holder].pc = "dead"
    BY DEF HeartbeatLost, At
  <2>3. del[e].run \in Runs /\ del[e].run # r
    BY <1>0, <2>1, <2>2, LiveHandler DEF LiveSteps
  <2> QED BY <1>1, <2>1, <2>3 DEF JobLeft
<1>6. CancelsReach'
  BY <1>2 DEF QueueInv, CancelsReach, Reached
<1> QED BY <1>3, <1>4, <1>5, <1>6 DEF QueueInv

(* A step that settles a Run, or ends its request, and leaves the jobs.    *)
LEMMA RowStepQueue ==
    ASSUME QueueInv, TypeInv', RowsGoOn, UNCHANGED <<job, del, registry, cancelling>>,
           \A r \in Runs : dispatching'[r] \in {dispatching[r], "nothing"}
    PROVE  QueueInv'
<1>0. HandlersOK
  BY DEF QueueInv, TypeInv
<1>1. \A e \in Deliveries : del[e].pc \in LiveSteps => del[e].run \in Runs
  BY <1>0, LiveHandler
<1>2. RunsKnown'
  BY <1>1 DEF QueueInv, RunsKnown, RowsGoOn, RowGoesOn, Known
<1>3. JobsHeld' /\ SoleHandler'
  BY DEF QueueInv, JobsHeld, HeldBy, SoleHandler
<1>4. CancelsReach'
  BY <1>1 DEF QueueInv, CancelsReach, Reached, RowsGoOn, RowGoesOn, Claimed,
              LiveSteps, Steps
<1> QED BY <1>2, <1>3, <1>4 DEF QueueInv

(* The enqueue, whether or not it throws.                                  *)
LEMMA EnqueueQueue ==
    ASSUME QueueInv, TypeInv', NEW r \in Runs, Enqueue(r) \/ EnqueueThrows(r)
    PROVE  QueueInv'
<1>0. HandlersOK /\ QueueOK /\ RequestsOK
  BY DEF QueueInv, TypeInv
<1>1. dispatching[r] = "enqueue" /\ dispatching'[r] \in {"nothing", "fail"}
      /\ \A q \in Runs \ {r} : dispatching'[q] = dispatching[q]
  BY <1>0 DEF Enqueue, EnqueueThrows, RequestsOK
<1>2. Known(run[r]) /\ job[r].state = "absent"
  BY <1>1 DEF QueueInv, RunsKnown
<1>3. /\ \A q \in Runs \ {r} : job'[q] = job[q]
      /\ job'[r].state \in {"absent", "created"}
  BY <1>0, <1>2 DEF Enqueue, EnqueueThrows, QueueOK, JobRow
<1>4. UNCHANGED <<run, del, registry, cancelling>>
  BY DEF Enqueue, EnqueueThrows, store
<1>5. RunsKnown'
  BY <1>1, <1>2, <1>3, <1>4 DEF QueueInv, RunsKnown, Known
<1>6. JobsHeld'
  BY <1>3, <1>4 DEF QueueInv, JobsHeld, HeldBy
<1>7. SoleHandler'
  BY <1>0, <1>2, <1>3, <1>4, LiveHandler DEF QueueInv, SoleHandler
<1>8. CancelsReach'
  BY <1>4 DEF QueueInv, CancelsReach, Reached
<1> QED BY <1>5, <1>6, <1>7, <1>8 DEF QueueInv

(* The cancel request: until it is delivered it is owed.                   *)
LEMMA RequestCancelQueue ==
    ASSUME QueueInv, TypeInv', NEW r \in Runs, RequestCancel(r)
    PROVE  QueueInv'
<1>0. StoreOK
  BY DEF QueueInv, TypeInv
<1>1. /\ \A q \in Runs \ {r} : run'[q] = run[q]
      /\ run'[r].status = run[r].status /\ run'[r].message = run[r].message
  BY <1>0 DEF RequestCancel, StoreOK, RunRow
<1>2. /\ cancelling' = cancelling \cup {r}
      /\ UNCHANGED <<job, dispatching, del, registry>>
  BY DEF RequestCancel, queue
<1>3. Known(run[r])
  BY DEF RequestCancel, CanRequestCancel, IsActive, ActiveStatuses, Known
<1>4. \A e \in Deliveries : del[e].pc \in LiveSteps => del[e].run \in Runs
  BY LiveHandler DEF QueueInv, TypeInv
<1>5. RunsKnown'
  BY <1>1, <1>2, <1>3, <1>4 DEF QueueInv, RunsKnown, Known
<1>6. JobsHeld' /\ SoleHandler'
  BY <1>2 DEF QueueInv, JobsHeld, HeldBy, SoleHandler
<1>7. CancelsReach'
  BY <1>1, <1>2, <1>4 DEF QueueInv, CancelsReach, Reached, Claimed, LiveSteps, Steps
<1> QED BY <1>5, <1>6, <1>7 DEF QueueInv

(* Its delivery: the registry names the handler that holds the Run.        *)
LEMMA AbortInProcessQueue ==
    ASSUME QueueInv, TypeInv', NEW r \in Runs, AbortInProcess(r)
    PROVE  QueueInv'
<1> DEFINE h == registry[Api][r]
<1>0. HandlersOK /\ RegistryOK
  BY DEF QueueInv, TypeInv
<1>1. /\ cancelling' = cancelling \ {r}
      /\ UNCHANGED <<run, job, dispatching, registry>>
  BY DEF AbortInProcess, store, queue
<1>2. ASSUME NEW e \in Deliveries
      PROVE  /\ del'[e].pc = del[e].pc /\ del'[e].run = del[e].run
             /\ del'[e].process = del[e].process
             /\ del[e].abort # "no" => del'[e].abort # "no"
             /\ e = h => del'[e].abort # "no"
  <2>1. CASE h = None \/ del[h].abort # "no"
    <3>1. del' = del
      BY <2>1 DEF AbortInProcess
    <3>2. e # None
      BY NoneFresh
    <3> QED BY <2>1, <3>1, <3>2
  <2>2. CASE ~(h = None \/ del[h].abort # "no")
    <3>1. del' = [del EXCEPT ![h].abort = "cancelled"]
      BY <2>2 DEF AbortInProcess
    <3> QED BY <1>0, <3>1 DEF HandlersOK, HandlerRow, DeliveryRow
  <2> QED BY <2>1, <2>2
<1>3. RunsKnown' /\ JobsHeld' /\ SoleHandler'
  BY <1>1, <1>2 DEF QueueInv, RunsKnown, JobsHeld, HeldBy, SoleHandler, Known
<1>4. CancelsReach'
  <2> SUFFICES ASSUME ~MayStall, NEW e \in Deliveries PROVE Reached(e)'
    BY DEF CancelsReach
  <2>1. Reached(e)
    BY DEF QueueInv, CancelsReach
  <2>2. CASE del[e].run = r
    BY <1>1, <1>2, <2>1, <2>2 DEF Reached, Registered, Claimed
  <2>3. CASE del[e].run # r
    BY <1>1, <1>2, <2>1, <2>3 DEF Reached
  <2> QED BY <2>2, <2>3
<1> QED BY <1>3, <1>4 DEF QueueInv

(* A crash: a dead handler still holds its job, and has no cancel to see.  *)
LEMMA CrashQueue ==
    ASSUME QueueInv, TypeInv', NEW p \in Processes, Crash(p)
    PROVE  QueueInv'
<1>0. HandlersOK /\ RegistryOK
  BY DEF QueueInv, TypeInv
<1>1. UNCHANGED <<run, job>>
      /\ \A r \in Runs : dispatching'[r] \in {dispatching[r], "nothing"}
  BY DEF Crash, store, queue
<1>2. Gone("dead").pc = "dead"
  BY DEF Gone, Unused
<1>3. ASSUME NEW e \in Deliveries
      PROVE  \/ del'[e] = del[e]
             \/ del[e].process = p /\ del[e].pc \in LiveSteps /\ del'[e].pc = "dead"
  BY <1>2 DEF Crash
<1>4. \A e \in Deliveries : del'[e].pc \in LiveSteps =>
          del'[e] = del[e] /\ del[e].process # p
  BY <1>2 DEF Crash, LiveSteps
<1>5. RunsKnown'
  BY <1>1, <1>4 DEF QueueInv, RunsKnown, Known
<1>6. JobsHeld'
  BY <1>1, <1>3 DEF QueueInv, JobsHeld, HeldBy
<1>7. SoleHandler'
  BY <1>1, <1>4 DEF QueueInv, SoleHandler
<1>8. CancelsReach'
  <2> SUFFICES ASSUME ~MayStall, NEW e \in Deliveries PROVE Reached(e)'
    BY DEF CancelsReach
  <2>1. Reached(e)
    BY DEF QueueInv, CancelsReach
  <2>2. CASE del'[e].pc \notin LiveSteps \/ del'[e].process # Api
    BY <2>2 DEF Reached, Registered, Claimed, LiveSteps, Steps
  <2>3. CASE del'[e].pc \in LiveSteps /\ del'[e].process = Api
    <3>1. del'[e] = del[e] /\ p # Api
      BY <1>4, <2>3
    <3>2. registry'[Api] = registry[Api] /\ UNCHANGED cancelling
      BY <1>0, <3>1, BoundsAssumption DEF Crash, RegistryOK
    <3> QED BY <1>1, <2>1, <3>1, <3>2 DEF Reached
  <2> QED BY <2>2, <2>3
<1> QED BY <1>5, <1>6, <1>7, <1>8 DEF QueueInv

(* An acceptance creates the row its request will enqueue.                 *)
LEMMA AcceptQueue ==
    ASSUME SafetyInv, QueueInv, TypeInv', NEW r \in Runs, NEW m \in Messages,
           AdmitAccept(r, m)
    PROVE  QueueInv'
<1>0. StoreOK /\ RequestsOK /\ HandlersOK /\ adm \in AdmissionRow
  BY DEF QueueInv, TypeInv, RequestsOK
<1>1. run[r].status = "absent" /\ \A q \in Runs \ {r} : run'[q] = ExpiredRun[q]
  BY AcceptEffect
<1>2. run'[r] = NewRun(m, adm.action)
  BY <1>0 DEF AdmitAccept, CreateRun
<1>3. run'[r].message = m /\ Known(run'[r])
  BY <1>2 DEF NewRun, AbsentRun, Known
<1>4. /\ dispatching'[r] = "enqueue"
      /\ \A q \in Runs \ {r} : dispatching'[q] = dispatching[q]
      /\ UNCHANGED <<job, del, registry, cancelling>>
  BY <1>0 DEF AdmitAccept, RequestsOK, queue
<1>5. \A q \in Runs \ {r} : RowGoesOn(q)
  BY <1>0, <1>1, ExpiredRows DEF RowGoesOn
<1>6. \A e \in Deliveries : del[e].pc \in LiveSteps =>
          del[e].run \in Runs /\ del[e].run # r
  BY <1>0, <1>1, LiveHandler DEF QueueInv, RunsKnown, Known
<1>7. job[r].state = "absent"
  BY <1>1 DEF QueueInv, RunsKnown, Known
<1>8. RunsKnown'
  BY <1>3, <1>4, <1>5, <1>6, <1>7 DEF QueueInv, RunsKnown, RowGoesOn, Known
<1>9. JobsHeld' /\ SoleHandler'
  BY <1>4 DEF QueueInv, JobsHeld, HeldBy, SoleHandler
<1>10. CancelsReach'
  BY <1>4, <1>5, <1>6 DEF QueueInv, CancelsReach, Reached, RowGoesOn, Claimed,
                          LiveSteps, Steps
<1> QED BY <1>8, <1>9, <1>10 DEF QueueInv

-----------------------------------------------------------------------------
(* Nothing exists before the first acceptance.                             *)
LEMMA InitQueue == Init => QueueInv
<1> SUFFICES ASSUME Init PROVE QueueInv
  OBVIOUS
<1>1. TypeInv
  BY InitTyped
<1>2. \A d \in Deliveries : del[d].pc = "unused"
  BY DEF Init, Unused
<1>3. \A r \in Runs : /\ run[r] = AbsentRun /\ ~Known(run[r])
                      /\ job[r].state = "absent" /\ dispatching[r] = "nothing"
  BY DEF Init, AbsentRun, Known
<1> QED BY <1>1, <1>2, <1>3
        DEF QueueInv, RunsKnown, JobsHeld, SoleHandler, CancelsReach, Reached,
            Registered, Claimed, LiveSteps

(* Every step keeps the invariant.                                         *)
LEMMA StepQueue == SafetyInv /\ QueueInv /\ [Next]_vars => QueueInv'
<1> SUFFICES ASSUME SafetyInv, QueueInv, [Next]_vars PROVE QueueInv'
  OBVIOUS
<1>0. TypeInv /\ TypeInv'
  BY StepTyped DEF QueueInv
<1>1. CASE UNCHANGED vars
  BY <1>0, <1>1, LogStepQueue DEF vars
<1>2. ASSUME NEW d \in Deliveries, Delivery(d) PROVE QueueInv'
  BY <1>0, <1>2, DeliveryQueue
<1>3. ASSUME NEW p \in Processes, Crash(p) PROVE QueueInv'
  BY <1>0, <1>3, CrashQueue
<1>4. CASE Admission
  <2>1. CASE \/ \E a \in Actions : AdmitJudge(a)
             \/ AdmitConflict \/ AdmitRefuse
    <3>1. UNCHANGED <<job, del, registry, cancelling, dispatching>>
      BY <2>1 DEF AdmitJudge, AdmitConflict, AdmitRefuse, queue
    <3>2. RowsGoOn
      BY <1>0, <2>1, OtherRows
    <3> QED BY <1>0, <3>1, <3>2, RowStepQueue
  <2> QED BY <1>0, <1>4, <2>1, AcceptQueue DEF Admission
<1>5. ASSUME NEW r \in Runs, FailUndispatched(r) PROVE QueueInv'
  <2>1. RowsGoOn
    BY <1>0, <1>5, OtherRows
  <2>2. UNCHANGED <<job, del, registry, cancelling>>
        /\ \A q \in Runs : dispatching'[q] \in {dispatching[q], "nothing"}
    BY <1>0, <1>5 DEF FailUndispatched, queue, TypeInv, RequestsOK
  <2> QED BY <1>0, <2>1, <2>2, RowStepQueue
<1>6. CASE Requests
  BY <1>0, <1>5, <1>6, EnqueueQueue, RequestCancelQueue, AbortInProcessQueue
     DEF Requests
<1>7. ASSUME NEW r \in Runs, DeadLetter(r) PROVE QueueInv'
  <2>1. RowsGoOn
    BY <1>0, <1>7, OtherRows DEF Queue
  <2>2. UNCHANGED <<job, del, registry, cancelling, dispatching>>
    BY <1>7 DEF DeadLetter, requests
  <2> QED BY <1>0, <2>1, <2>2, RowStepQueue
<1>8. CASE Queue
  BY <1>0, <1>7, <1>8, FetchQueue, HeartbeatQueue DEF Queue
<1> QED BY <1>1, <1>2, <1>3, <1>4, <1>6, <1>8 DEF Next

(* The rows, the jobs and the handlers agree in every reachable state:     *)
(* an active job names a handler that lives or died with its process, and, *)
(* without stalls, every live handler is the one its job names.            *)
THEOREM QueueInvariant == Spec => []QueueInv
BY InitQueue, StepQueue, SafetyInvariant, PTL DEF Spec

(* The invariant leaves no Run stranded.                                   *)
LEMMA QueueNotStranded == QueueInv => RunNeverStranded
<1> SUFFICES ASSUME QueueInv, NEW r \in Runs,
                    ~\E d \in Deliveries : del[d].run = r /\ del[d].pc \in LiveSteps,
                    job[r].state = "active"
             PROVE  At(job[r].holder, "dead")
  BY DEF RunNeverStranded, BlockerMayBeStuck
<1> QED BY DEF QueueInv, JobsHeld, HeldBy, At

(* A Run in flight that nobody works on can be picked up again or expired, *)
(* even after a stale delivery acknowledged, by the Run's id, the job of   *)
(* the delivery that replaced it.                                          *)
THEOREM NoRunStranded == Spec => []RunNeverStranded
BY QueueInvariant, QueueNotStranded, PTL

(* Where the queue never gives a live holder's job away, a cancel that was *)
(* recorded and delivered has aborted the attempt that holds the Run in    *)
(* the API's process, whichever of the request, the registration, the      *)
(* second look and the claim came first.                                   *)
THEOREM CancelAlwaysReaches ==
    ASSUME ~MayStall
    PROVE  Spec => []CancelReachesWorker
<1>1. QueueInv => CancelReachesWorker
  BY DEF QueueInv, CancelsReach, Reached, CancelReachesWorker, Claimed
<1> QED BY <1>1, QueueInvariant, PTL

-----------------------------------------------------------------------------
(* The answer.                                                             *)

MessageOf(d) == run[del[d].run].message

Starting(x) == x.pc \in {"prepare", "dispatch"}
FoundDone(x) == x.pc = "settle" /\ x.plan = "replyCompleted"

(* An attempt before its dispatch found no native effect, and only it may  *)
(* admit one while it holds the Run.                                       *)
CleanStart ==
    \A d \in Deliveries :
        Starting(del[d]) /\ HoldsAttempt(run[del[d].run], d) =>
            log[del[d].run].startedBy = d /\ log[del[d].run].native = {}

(* A live turn was stored, and is named by the reply while it is the       *)
(* Run's.                                                                  *)
TurnStored ==
    \A d \in Deliveries : HasLiveTurn(del[d]) =>
        /\ reply[MessageOf(d)].status # "none"
        /\ HoldsAttempt(run[del[d].run], d) => reply[MessageOf(d)].attempt = d

(* An attempt that found its reply complete settles over that reply.       *)
FoundComplete ==
    \A d \in Deliveries :
        FoundDone(del[d]) /\ HoldsAttempt(run[del[d].run], d) =>
            IsCompletedTurn(reply[MessageOf(d)])

ReplyInv ==
    /\ SafetyInv /\ QueueInv /\ CleanStart /\ TurnStored /\ FoundComplete
    /\ CompletedRunHasAnswer

-----------------------------------------------------------------------------
(* Replies.  Every step but a dispatch leaves a completed reply alone,     *)
(* starts no turn and names no other attempt.                              *)

ReplyStays(y, z) ==
    /\ IsCompletedTurn(y) => z = y
    /\ z.status = "running" => z = y
    /\ z.attempt = y.attempt
    /\ y.status # "none" => z.status # "none"
RepliesStay == \A m \in Messages : ReplyStays(reply[m], reply'[m])

(* A step that writes no reply lets them stay.                             *)
LEMMA QuietStay == UNCHANGED reply => RepliesStay
BY DEF RepliesStay, ReplyStays

(* A reply rebuilt from the log stays.                                     *)
LEMMA RebuiltStays ==
    ASSUME NEW y \in ReplyRow, NEW r, NEW s, NEW f
    PROVE  ReplyStays(y, FinalizeRunReply(y, r, s, f, FALSE))
<1>1. CASE IsCompletedTurn(y) \/ y.status # "running"
  BY <1>1 DEF FinalizeRunReply, RebuiltReply, ReplyStays
<1>2. CASE ~IsCompletedTurn(y) /\ y.status = "running"
  <2> DEFINE t == TurnStatusForTerminalRun(s)
             z == [y EXCEPT !.status = t]
  <2>1. t \in {"completed", "error", "aborted"}
    BY TurnStatusTyped
  <2> HIDE DEF t
  <2>2. z.status = t /\ z.attempt = y.attempt
    BY DEF ReplyRow
  <2>3. FinalizeRunReply(y, r, s, f, FALSE) = z
    BY <1>2 DEF FinalizeRunReply, RebuiltReply, t
  <2> HIDE DEF z
  <2> QED BY <1>2, <2>1, <2>2, <2>3 DEF ReplyStays
<1> QED BY <1>1, <1>2

(* A live turn over a stored reply stays: it names the attempt already.    *)
LEMMA LiveStays ==
    ASSUME NEW y \in ReplyRow, NEW r, NEW d, NEW s, NEW w, y.status # "none",
           OwnsLiveReply(y, d, w)
    PROVE  ReplyStays(y, LiveReply(r, d, s))
<1>1. y.attempt = d /\ ~IsCompletedTurn(y)
  BY DEF OwnsLiveReply
<1>2. /\ LiveReply(r, d, s).attempt = d
      /\ LiveReply(r, d, s).status \in {"completed", "error", "aborted"}
  BY TurnStatusTyped DEF LiveReply
<1> QED BY <1>1, <1>2 DEF ReplyStays

(* The live turn stays inside and outside its terminal transaction.        *)
LEMMA TurnStays ==
    ASSUME NEW y \in ReplyRow, NEW r, NEW d, NEW s, NEW w, y.status # "none"
    PROVE  /\ ReplyStays(y, PersistAttemptTurn(y, r, d, s, w))
           /\ ReplyStays(y, FinalizeRunReply(y, r, s, d, TRUE))
<1>1. ReplyStays(y, y)
  BY DEF ReplyStays
<1>2. ReplyStays(y, PersistAttemptTurn(y, r, d, s, w))
  BY <1>1, LiveStays DEF PersistAttemptTurn
<1>3. ReplyStays(y, FinalizeRunReply(y, r, s, d, TRUE))
  BY <1>1, LiveStays DEF FinalizeRunReply
<1> QED BY <1>2, <1>3

(* One written reply that stays lets all stay.                             *)
LEMMA OneStays ==
    ASSUME StoreOK, NEW m, NEW z, reply' = [reply EXCEPT ![m] = z],
           m \in Messages => ReplyStays(reply[m], z)
    PROVE  RepliesStay
<1>1. ASSUME NEW x \in Messages PROVE ReplyStays(reply[x], reply'[x])
  <2>1. CASE x = m
    BY <2>1 DEF StoreOK
  <2>2. CASE x # m
    BY <2>2 DEF StoreOK, ReplyStays
  <2> QED BY <2>1, <2>2
<1> QED BY <1>1 DEF RepliesStay

(* A terminal transaction without a live turn lets the replies stay.       *)
LEMMA UnfencedStay ==
    ASSUME StoreOK, NEW r, NEW s, FinishUnfenced(r, s)
    PROVE  RepliesStay
<1>1. CASE ~CanFinish(run[r], None)
  BY <1>1, QuietStay DEF FinishUnfenced, store
<1>2. CASE CanFinish(run[r], None)
  <2> DEFINE m == run[r].message
             z == FinalizeRunReply(reply[m], r, s, None, FALSE)
  <2>1. reply' = [reply EXCEPT ![m] = z]
    BY <1>2 DEF FinishUnfenced, Finish
  <2>2. m \in Messages => ReplyStays(reply[m], z)
    BY RebuiltStays DEF StoreOK
  <2> HIDE DEF m, z
  <2> QED BY <2>1, <2>2, OneStays
<1> QED BY <1>1, <1>2

(* So does admission's expiry.                                             *)
LEMMA ExpiryStay ==
    ASSUME StoreOK, reply' = ExpiredReply
    PROVE  RepliesStay
<1>1. CASE ~Expires
  BY <1>1, QuietStay DEF ExpiredReply
<1>2. CASE Expires
  <2> DEFINE m == run[adm.blocker].message
             z == FinalizeRunReply(reply[m], adm.blocker, "expired", None, FALSE)
  <2>1. reply' = [reply EXCEPT ![m] = z]
    BY <1>2 DEF ExpiredReply
  <2>2. m \in Messages => ReplyStays(reply[m], z)
    BY RebuiltStays DEF StoreOK
  <2> HIDE DEF m, z
  <2> QED BY <2>1, <2>2, OneStays
<1> QED BY <1>1, <1>2

(* The settle and the salvage: a live turn was stored at its dispatch, so  *)
(* it never makes the reply of a message that has none.                    *)
LEMMA SettleStay ==
    ASSUME ReplyInv, NEW d \in Deliveries,
           SettleWins(d) \/ SettleLoses(d) \/ Salvage(d)
    PROVE  RepliesStay
<1> DEFINE r == del[d].run
           m == run[r].message
<1>0. StoreOK /\ HandlersOK
  BY DEF ReplyInv, SafetyInv, TypeInv
<1>1. del[d].pc \in {"settle", "salvage"} /\ del[d].pc \in LiveSteps
  BY DEF SettleWins, SettleLoses, Salvage, At, LiveSteps, Steps
<1>2. del[d].plan \in DOMAIN Plans
  BY <1>0, <1>1, LiveHandler
<1>3. m \in Messages => reply[m] \in ReplyRow
  BY <1>0 DEF StoreOK
<1>4. HasLiveTurn(del[d]) => reply[m].status # "none"
  BY DEF ReplyInv, TurnStored, MessageOf
<1>5. CASE SettleWins(d)
  <2> DEFINE z == FinalizeRunReply(reply[m], r, PlanStatus(d), Fence(d),
                                   PlanOf(d).live)
  <2>1. reply' = [reply EXCEPT ![m] = z]
    BY <1>5 DEF SettleWins, Finish
  <2>2. PlanOf(d).live \in BOOLEAN
    BY <1>2, PlansTyped DEF PlanOf, PlanRow
  <2>3. PlanOf(d).live => Fence(d) = d /\ HasLiveTurn(del[d])
    <3>1. PlanOf(d).live => PlanOf(d).fenced
      BY <1>2, PlanNames DEF PlanOf, Plans
    <3>2. PlanOf(d).live => HasLiveTurn(del[d])
      BY <1>5 DEF SettleWins, At, HasLiveTurn, PlanOf
    <3> QED BY <3>1, <3>2 DEF Fence
  <2>4. m \in Messages => ReplyStays(reply[m], z)
    <3>1. CASE PlanOf(d).live = TRUE
      BY <1>3, <1>4, <2>3, <3>1, TurnStays
    <3>2. CASE PlanOf(d).live = FALSE
      BY <1>3, <3>2, RebuiltStays
    <3> QED BY <2>2, <3>1, <3>2
  <2> HIDE DEF z, m
  <2> QED BY <1>0, <2>1, <2>4, OneStays
<1>6. CASE SettleLoses(d)
  <2> DEFINE w == run[r].status = "expired"
             keeps == PlanOf(d).live
                      /\ (run[r].activeAttempt = d \/ IsTerminal(run[r]))
             z == IF keeps THEN PersistAttemptTurn(reply[m], r, d, PlanStatus(d), w)
                  ELSE reply[m]
  <2>1. reply' = [reply EXCEPT ![m] = z]
    BY <1>6 DEF SettleLoses, HandleLostFinish
  <2>2. keeps => HasLiveTurn(del[d])
    BY <1>6 DEF SettleLoses, At, HasLiveTurn, PlanOf
  <2>3. m \in Messages => ReplyStays(reply[m], z)
    <3>1. CASE keeps
      BY <1>3, <1>4, <2>2, <3>1, TurnStays
    <3>2. CASE ~keeps
      BY <3>2 DEF ReplyStays
    <3> QED BY <3>1, <3>2
  <2> HIDE DEF z, m
  <2> QED BY <1>0, <2>1, <2>3, OneStays
<1>7. CASE Salvage(d)
  <2> DEFINE z == PersistAttemptTurn(reply[m], r, d, PlanStatus(d), TRUE)
  <2>1. UNCHANGED reply \/ reply' = [reply EXCEPT ![m] = z]
    BY <1>7 DEF Salvage
  <2>2. HasLiveTurn(del[d])
    BY <1>7 DEF Salvage, At, HasLiveTurn
  <2>3. m \in Messages => ReplyStays(reply[m], z)
    BY <1>3, <1>4, <2>2, TurnStays
  <2> HIDE DEF z, m
  <2> QED BY <1>0, <2>1, <2>3, OneStays, QuietStay
<1> QED BY <1>5, <1>6, <1>7

-----------------------------------------------------------------------------
(* Frame conditions.  Which attempts are starting, or found their reply    *)
(* complete, and what the log says of native effects.                      *)

StepsKept ==
    \A e \in Deliveries :
        /\ Starting(del'[e]) => Starting(del[e]) /\ del'[e].run = del[e].run
        /\ FoundDone(del'[e]) => FoundDone(del[e]) /\ del'[e].run = del[e].run
StartsKept ==
    \A e \in Deliveries :
        Starting(del'[e]) /\ HoldsAttempt(run'[del'[e].run], e) =>
            /\ Starting(del[e]) /\ del'[e].run = del[e].run
            /\ HoldsAttempt(run[del[e].run], e)
FoundKept ==
    \A e \in Deliveries :
        FoundDone(del'[e]) /\ HoldsAttempt(run'[del'[e].run], e) =>
            /\ FoundDone(del[e]) /\ del'[e].run = del[e].run
            /\ HoldsAttempt(run[del[e].run], e)
LogsStay ==
    \A r \in Runs : /\ log'[r].native = log[r].native
                    /\ log'[r].startedBy = log[r].startedBy
TurnsGoOn ==
    \A r \in Runs : Known(run[r]) => /\ run'[r].message = run[r].message
                                     /\ run'[r].action = run[r].action
NoNewAnswer ==
    \A r \in Runs : run'[r].status = "completed" => run[r].status = "completed"

(* Rows that go on keep their message and action.                          *)
LEMMA RowsTurns == RowsGoOn => TurnsGoOn
BY DEF RowsGoOn, RowGoesOn, TurnsGoOn

(* A handler on its way has a Run and a message.                           *)
LEMMA OnItsWay ==
    ASSUME QueueInv, NEW d \in Deliveries,
           HasLiveTurn(del[d]) \/ Starting(del[d]) \/ FoundDone(del[d])
    PROVE  /\ del[d].run \in Runs /\ Known(run[del[d].run])
           /\ MessageOf(d) \in Messages
<1>1. del[d].pc \in LiveSteps
  BY DEF HasLiveTurn, Starting, FoundDone, LiveSteps, Steps
<1>2. del[d].run \in Runs
  BY <1>1, LiveHandler DEF QueueInv, TypeInv
<1> QED BY <1>1, <1>2 DEF QueueInv, RunsKnown, MessageOf

(* Kept attempts and steps keep the starting and the found attempts.       *)
LEMMA KeptSteps ==
    ASSUME QueueInv, AttemptsKept, StepsKept
    PROVE  StartsKept /\ FoundKept
BY OnItsWay DEF AttemptsKept, StepsKept, StartsKept, FoundKept

(* What keeps the starts clean.                                            *)
LEMMA KeptClean ==
    ASSUME ReplyInv, StartsKept, LogsStay
    PROVE  CleanStart'
<1> SUFFICES ASSUME NEW d \in Deliveries, Starting(del'[d]),
                    HoldsAttempt(run'[del'[d].run], d)
             PROVE  /\ log'[del'[d].run].startedBy = d
                    /\ log'[del'[d].run].native = {}
  BY DEF CleanStart, Starting, HoldsAttempt, IsActive
<1>1. /\ Starting(del[d]) /\ del'[d].run = del[d].run
      /\ HoldsAttempt(run[del[d].run], d)
  BY DEF StartsKept
<1>2. del[d].run \in Runs
  BY <1>1, OnItsWay DEF ReplyInv
<1> QED BY <1>1, <1>2 DEF ReplyInv, CleanStart, LogsStay

(* What keeps the live turns stored.                                       *)
LEMMA KeptStored ==
    ASSUME ReplyInv, TurnsGoOn, HandlersKept, TurnsKept, RepliesStay
    PROVE  TurnStored'
<1> SUFFICES ASSUME NEW d \in Deliveries, HasLiveTurn(del'[d])
             PROVE  /\ reply'[MessageOf(d)'].status # "none"
                    /\ HoldsAttempt(run'[del'[d].run], d) =>
                           reply'[MessageOf(d)'].attempt = d
  BY DEF TurnStored, HasLiveTurn, HoldsAttempt, IsActive
<1>1. HasLiveTurn(del[d]) /\ del'[d].run = del[d].run
  BY DEF HandlersKept
<1>2. /\ del[d].run \in Runs /\ Known(run[del[d].run])
      /\ MessageOf(d) \in Messages
  BY <1>1, OnItsWay DEF ReplyInv
<1>3. MessageOf(d)' = MessageOf(d)
  BY <1>1, <1>2 DEF MessageOf, TurnsGoOn
<1>4. ReplyStays(reply[MessageOf(d)], reply'[MessageOf(d)])
  BY <1>2 DEF RepliesStay
<1>5. HoldsAttempt(run'[del'[d].run], d) => HoldsAttempt(run[del[d].run], d)
  BY DEF TurnsKept
<1>6. /\ reply[MessageOf(d)].status # "none"
      /\ HoldsAttempt(run[del[d].run], d) => reply[MessageOf(d)].attempt = d
  BY <1>1 DEF ReplyInv, TurnStored
<1> QED BY <1>3, <1>4, <1>5, <1>6 DEF ReplyStays

(* What keeps a reply found complete as it is.                             *)
LEMMA KeptFound ==
    ASSUME ReplyInv, TurnsGoOn, FoundKept, RepliesStay
    PROVE  FoundComplete'
<1> SUFFICES ASSUME NEW d \in Deliveries, FoundDone(del'[d]),
                    HoldsAttempt(run'[del'[d].run], d)
             PROVE  IsCompletedTurn(reply'[MessageOf(d)'])
  BY DEF FoundComplete, FoundDone, HoldsAttempt, IsActive, IsCompletedTurn
<1>1. /\ FoundDone(del[d]) /\ del'[d].run = del[d].run
      /\ HoldsAttempt(run[del[d].run], d)
  BY DEF FoundKept
<1>2. /\ del[d].run \in Runs /\ Known(run[del[d].run])
      /\ MessageOf(d) \in Messages
  BY <1>1, OnItsWay DEF ReplyInv
<1>3. MessageOf(d)' = MessageOf(d)
  BY <1>1, <1>2 DEF MessageOf, TurnsGoOn
<1>4. IsCompletedTurn(reply[MessageOf(d)])
  BY <1>1 DEF ReplyInv, FoundComplete
<1> QED BY <1>2, <1>3, <1>4 DEF RepliesStay, ReplyStays

(* A completed Run's answer, as one formula over the Run.                  *)
Answered(r) ==
    \/ IsCompletedTurn(reply[run[r].message])
    \/ \E q \in Runs \ {r} : /\ run[q].message = run[r].message
                             /\ run[q].action = "regenerate"

(* What keeps the answer of a Run that had completed.                      *)
LEMMA KeptAnswered ==
    ASSUME ReplyInv, TurnsGoOn, RepliesStay, NEW r \in Runs,
           run[r].status = "completed"
    PROVE  Answered(r)'
<1>1. Known(run[r])
  BY DEF Known
<1>2. run[r].message \in Messages /\ run'[r].message = run[r].message
  BY <1>1 DEF ReplyInv, QueueInv, RunsKnown, TurnsGoOn
<1>3. Answered(r)
  BY DEF ReplyInv, CompletedRunHasAnswer, Answered
<1>4. CASE IsCompletedTurn(reply[run[r].message])
  BY <1>2, <1>4 DEF Answered, RepliesStay, ReplyStays
<1>5. CASE \E q \in Runs \ {r} : /\ run[q].message = run[r].message
                                 /\ run[q].action = "regenerate"
  <2>1. PICK q \in Runs \ {r} : /\ run[q].message = run[r].message
                                /\ run[q].action = "regenerate"
    BY <1>5
  <2>2. Known(run[q])
    BY <2>1 DEF ReplyInv, QueueInv, RunsKnown, AbsentRun
  <2> QED BY <1>2, <2>1, <2>2 DEF Answered, TurnsGoOn
<1> QED BY <1>3, <1>4, <1>5 DEF Answered

(* What keeps every completed Run's answer.                                *)
LEMMA KeptAnswers ==
    ASSUME ReplyInv, TurnsGoOn, RepliesStay, NoNewAnswer
    PROVE  CompletedRunHasAnswer'
<1>1. ASSUME NEW r \in Runs, run'[r].status = "completed" PROVE Answered(r)'
  BY <1>1, KeptAnswered DEF NoNewAnswer
<1> QED BY <1>1 DEF CompletedRunHasAnswer, Answered

(* All of them together, for a step that gives nobody a Run.               *)
LEMMA KeptAll ==
    ASSUME ReplyInv, TurnsGoOn, AttemptsKept, HandlersKept, StepsKept, LogsStay,
           RepliesStay, NoNewAnswer
    PROVE  CleanStart' /\ TurnStored' /\ FoundComplete' /\ CompletedRunHasAnswer'
<1>1. QueueInv /\ HandlersOK
  BY DEF ReplyInv, QueueInv, TypeInv
<1>2. StartsKept /\ FoundKept /\ TurnsKept
  BY <1>1, KeptSteps, KeptTurns
<1> QED BY <1>2, KeptClean, KeptStored, KeptFound, KeptAnswers

-----------------------------------------------------------------------------
(* The steps of a delivery.                                                *)

(* A move that starts and finds nothing keeps the steps.                   *)
LEMMA MovedSteps ==
    ASSUME NEW d \in Deliveries, OnlyMoves(d),
           Starting(del'[d]) => Starting(del[d]),
           FoundDone(del'[d]) => FoundDone(del[d])
    PROVE  StepsKept
BY DEF StepsKept, OnlyMoves, Moves

(* A settlement by another plan keeps the steps.                           *)
LEMMA SettleByStepsKept ==
    ASSUME HandlersOK, NEW d \in Deliveries, del[d].pc \in LiveSteps, NEW p,
           p # "replyCompleted", SettleBy(d, p)
    PROVE  StepsKept
BY SettleByMoves, MovedSteps DEF Starting, FoundDone

(* A step to a place after the dispatch, or before the claim, keeps them.  *)
LEMMA GotoStepsKept ==
    ASSUME HandlersOK, NEW d \in Deliveries, del[d].pc \in LiveSteps,
           NEW pc \in LiveSteps \ {"prepare", "dispatch", "settle"}, Goto(d, pc)
    PROVE  StepsKept
BY GotoMoves, MovedSteps DEF Starting, FoundDone

(* What moves a delivery and is neither its claim nor its dispatch.        *)
OtherStep(d) ==
    \/ Pickup(d) \/ CreateClient(d) \/ Recheck(d) \/ Prepare(d) \/ Settle(d)
    \/ Salvage(d) \/ Verify(d) \/ Return(d) \/ Streaming(d) \/ Timeout(d)
    \/ HandlerThrows(d) \/ ProgressLost(d)

(* None of them starts an attempt or finds a reply complete.               *)
LEMMA OtherStepsKept ==
    ASSUME TypeInv, NEW d \in Deliveries, OtherStep(d)
    PROVE  StepsKept
<1>0. HandlersOK
  BY DEF TypeInv
<1>1. del[d].pc \in LiveSteps
  BY DEF OtherStep, Pickup, CreateClient, Recheck, Prepare, Settle, SettleWins,
         SettleLoses, SettleErrs, Salvage, Verify, Return, Streaming, Timeout,
         HandlerThrows, ProgressLost, ToolRequested, ToolCompleted, NativeUnknown,
         NativeBegin, StreamEnds, At, LiveSteps, Steps
<1>2. ASSUME NEW p, p # "replyCompleted", SettleBy(d, p) PROVE StepsKept
  BY <1>0, <1>1, <1>2, SettleByStepsKept
<1>3. ASSUME NEW pc \in {"client", "claim", "ack", "nack", "verify", "salvage"},
             Goto(d, pc)
      PROVE  StepsKept
  BY <1>0, <1>1, <1>3, GotoStepsKept DEF LiveSteps, Steps
<1>4. CASE Pickup(d) \/ Verify(d) \/ Salvage(d) \/ ProgressLost(d)
  BY <1>2, <1>3, <1>4 DEF Pickup, Verify, Salvage, ProgressLost
<1>5. CASE CreateClient(d)
  <2>1. CASE del' = [del EXCEPT ![d].pc = "recheck", ![d].registered = TRUE]
    <3> DEFINE x == [del[d] EXCEPT !.pc = "recheck", !.registered = TRUE]
    <3>1. del'[d] = x /\ \A e \in Deliveries \ {d} : del'[e] = del[e]
      BY <1>0, <2>1 DEF HandlersOK
    <3>2. x.pc = "recheck"
      BY <1>0 DEF HandlersOK, HandlerRow, DeliveryRow
    <3> HIDE DEF x
    <3> QED BY <3>1, <3>2 DEF StepsKept, Starting, FoundDone
  <2> QED BY <1>2, <1>5, <2>1 DEF CreateClient
<1>6. CASE Recheck(d)
  <2>1. CASE del' = [del EXCEPT ![d].pc = "settle", ![d].registered = FALSE,
                                ![d].plan = "cancelBeforeStart"]
    <3> DEFINE x == [del[d] EXCEPT !.pc = "settle", !.registered = FALSE,
                                   !.plan = "cancelBeforeStart"]
    <3>1. del'[d] = x /\ \A e \in Deliveries \ {d} : del'[e] = del[e]
      BY <1>0, <2>1 DEF HandlersOK
    <3>2. x.pc = "settle" /\ x.plan = "cancelBeforeStart"
      BY <1>0 DEF HandlersOK, HandlerRow, DeliveryRow
    <3> HIDE DEF x
    <3> QED BY <3>1, <3>2 DEF StepsKept, Starting, FoundDone
  <2> QED BY <1>3, <1>6, <2>1 DEF Recheck
<1>7. CASE Prepare(d)
  <2>1. CASE Goto(d, "dispatch")
    <3>1. OnlyMoves(d) /\ del'[d].pc = "dispatch"
      BY <1>0, <1>1, <2>1, GotoMoves DEF LiveSteps, Steps
    <3> QED BY <1>7, <3>1, MovedSteps DEF Prepare, At, Starting, FoundDone
  <2> QED BY <1>2, <1>7, <2>1 DEF Prepare
<1>8. CASE Settle(d)
  <2>1. /\ PlanOf(d).ok \in {"ack", "nack", "verify"}
        /\ PlanOf(d).err \in {"nack", "verify", "salvage"}
    BY <1>0, <1>8, PlanFacts DEF Settle, SettleWins, SettleLoses, SettleErrs, At
  <2> QED BY <1>3, <1>8, <2>1 DEF Settle, SettleWins, SettleLoses, SettleErrs
<1>9. CASE Return(d)
  <2>1. Gone("done").pc = "done"
    BY DEF Gone, Unused
  <2>2. del'[d].pc = "done" /\ \A e \in Deliveries \ {d} : del'[e] = del[e]
    BY <1>0, <1>9, <2>1 DEF Return, HandlersOK
  <2> QED BY <2>2 DEF StepsKept, Starting, FoundDone
<1>10. CASE Timeout(d) \/ NativeUnknown(d)
  <2>1. PICK a \in {"expired", "failed"} : del' = [del EXCEPT ![d].abort = a]
    BY <1>10 DEF Timeout, NativeUnknown
  <2>2. OnlyMoves(d) /\ del'[d].pc = del[d].pc
    BY <1>0, <1>1, <2>1, AbortMoves
  <2> QED BY <1>10, <2>2, MovedSteps
          DEF Timeout, NativeUnknown, At, Starting, FoundDone
<1>11. CASE \/ ToolRequested(d) \/ ToolCompleted(d)
            \/ \E bound \in BOOLEAN : NativeBegin(d, bound)
  BY <1>11 DEF ToolRequested, ToolCompleted, NativeBegin, StepsKept
<1>12. ASSUME NEW plan \in StreamPlans, StreamEnds(d, plan) PROVE StepsKept
  BY <1>2, <1>12 DEF StreamEnds, StreamPlans
<1>13. CASE HandlerThrows(d)
  <2>1. OnlyMoves(d) /\ del'[d].pc = "nack"
    <3>1. OnlyMoves(d)
      BY <1>13, PlainStepMoves DEF PlainStep
    <3> DEFINE x == [del[d] EXCEPT !.pc = "nack",
                                   !.registered = @ /\ ~At(d, "recheck")]
    <3>2. del'[d] = x
      BY <1>0, <1>13 DEF HandlerThrows, HandlersOK
    <3>3. x.pc = "nack"
      BY <1>0 DEF HandlersOK, HandlerRow, DeliveryRow
    <3> QED BY <3>1, <3>2, <3>3
  <2> QED BY <2>1, MovedSteps DEF Starting, FoundDone
<1> QED BY <1>4, <1>5, <1>6, <1>7, <1>8, <1>9, <1>10, <1>11, <1>12, <1>13
        DEF OtherStep, Streaming

(* Logs.  Other edits of a log leave its native effects and its start.     *)
LEMMA OpenEditStays ==
    ASSUME StoreOK, NEW r, NEW X, log' = [log EXCEPT ![r].open = X]
    PROVE  LogsStay
<1>1. ASSUME NEW q \in Runs
      PROVE  log'[q].native = log[q].native /\ log'[q].startedBy = log[q].startedBy
  <2>1. log[q] \in RunLog
    BY DEF StoreOK
  <2> QED BY <2>1 DEF StoreOK, RunLog
<1> QED BY <1>1 DEF LogsStay

(* So does a terminal transaction.                                         *)
LEMMA TerminalLogStays ==
    ASSUME NEW l \in RunLog, NEW y, NEW s
    PROVE  /\ TerminalLog(l, y, s).native = l.native
           /\ TerminalLog(l, y, s).startedBy = l.startedBy
BY DEF TerminalLog, RunLog

(* On the log of every Run.                                                *)
LEMMA FinishLogs ==
    ASSUME StoreOK, NEW r, NEW s, NEW y, log' = [log EXCEPT ![r] = TerminalLog(@, y, s)]
    PROVE  LogsStay
BY TerminalLogStays DEF StoreOK, LogsStay

(* And outside any attempt.                                                *)
LEMMA UnfencedLogs ==
    ASSUME StoreOK, NEW r, NEW s, FinishUnfenced(r, s)
    PROVE  LogsStay
BY FinishLogs DEF FinishUnfenced, Finish, store, LogsStay

(* A terminal write of another status completes no Run.                    *)
LEMMA UnfencedCompletesNone ==
    ASSUME StoreOK, NEW r \in Runs, NEW s, s # "completed", FinishUnfenced(r, s)
    PROVE  NoNewAnswer
<1>1. CASE CanFinish(run[r], None)
  <2>1. /\ \A q \in Runs \ {r} : run'[q] = run[q]
        /\ run'[r] = MarkFinished(run[r], s, None)
    BY <1>1 DEF FinishUnfenced, Finish, StoreOK
  <2>2. run'[r].status = s
    BY <2>1, MarkFinishedStatus DEF StoreOK
  <2> QED BY <2>1, <2>2 DEF NoNewAnswer
<1>2. CASE ~CanFinish(run[r], None)
  BY <1>2 DEF FinishUnfenced, store, NoNewAnswer
<1> QED BY <1>1, <1>2

ReplyParts == CleanStart /\ TurnStored /\ FoundComplete /\ CompletedRunHasAnswer

(* The admission of a native effect: the attempt that owns the newest      *)
(* run.started streams already, so it spoils no start but its own.         *)
LEMMA NativeBeginReply ==
    ASSUME ReplyInv, NEW d \in Deliveries, NEW bound, NativeBegin(d, bound)
    PROVE  ReplyParts'
<1> DEFINE r == del[d].run
<1>0. StoreOK /\ HandlersOK
  BY DEF ReplyInv, SafetyInv, TypeInv
<1>1. UNCHANGED <<run, reply, del>> /\ At(d, "stream") /\ log[r].startedBy = d
  BY DEF NativeBegin
<1>2. \A q \in Runs \ {r} : log'[q] = log[q]
  BY <1>0 DEF NativeBegin, StoreOK
<1>3. CleanStart'
  <2> SUFFICES ASSUME NEW e \in Deliveries, Starting(del[e]),
                      HoldsAttempt(run[del[e].run], e)
               PROVE  log'[del[e].run].startedBy = e /\ log'[del[e].run].native = {}
    BY <1>1 DEF CleanStart, Starting, HoldsAttempt, IsActive
  <2>1. log[del[e].run].startedBy = e /\ log[del[e].run].native = {}
    BY DEF ReplyInv, CleanStart
  <2>2. e # d
    BY <1>1 DEF Starting, At
  <2>3. del[e].run \in Runs \ {r}
    BY <1>1, <2>1, <2>2, OnItsWay DEF ReplyInv
  <2> QED BY <1>2, <2>1, <2>3
<1>4. TurnStored' /\ FoundComplete' /\ CompletedRunHasAnswer'
  BY <1>1 DEF ReplyInv, TurnStored, FoundComplete, CompletedRunHasAnswer, MessageOf,
              HasLiveTurn, FoundDone, HoldsAttempt, IsActive, IsCompletedTurn
<1> QED BY <1>3, <1>4 DEF ReplyParts

(* The steps that write neither row nor reply.                             *)
LEMMA QuietReply ==
    ASSUME ReplyInv, NEW d \in Deliveries, OtherStep(d), ~SettleWins(d),
           ~SettleLoses(d), ~Salvage(d)
    PROVE  ReplyParts' /\ RepliesStay
<1>0. StoreOK /\ TypeInv /\ SafetyInv
  BY DEF ReplyInv, SafetyInv, TypeInv
<1>1. UNCHANGED <<run, reply>> /\ HandlersKept
  BY <1>0, QuietSteps DEF OtherStep, Settle
<1>2. StepsKept
  BY <1>0, OtherStepsKept
<1>3. TurnsGoOn /\ RepliesStay /\ AttemptsKept /\ NoNewAnswer
  BY <1>1, QuietRows, RowsTurns, QuietStay DEF AttemptsKept, NoNewAnswer
<1>4. CASE \E bound \in BOOLEAN : NativeBegin(d, bound)
  BY <1>3, <1>4, NativeBeginReply
<1>5. CASE \/ ToolRequested(d) \/ ToolCompleted(d)
           \/ \E plan \in StreamPlans : StreamEnds(d, plan)
  <2>1. \E X : log' = [log EXCEPT ![del[d].run].open = X]
    BY <1>5 DEF ToolRequested, ToolCompleted, StreamEnds
  <2>2. LogsStay
    BY <1>0, <2>1, OpenEditStays
  <2> QED BY <1>1, <1>2, <1>3, <2>2, KeptAll DEF ReplyParts
<1>6. CASE UNCHANGED log
  BY <1>1, <1>2, <1>3, <1>6, KeptAll DEF ReplyParts, LogsStay
<1>7. \/ UNCHANGED log
      \/ ToolRequested(d) \/ ToolCompleted(d)
      \/ \E plan \in StreamPlans : StreamEnds(d, plan)
      \/ \E bound \in BOOLEAN : NativeBegin(d, bound)
  BY DEF OtherStep, Settle, Pickup, CreateClient, Recheck, Prepare, SettleErrs,
         Verify, Return, Streaming, Timeout, HandlerThrows, ProgressLost,
         NativeUnknown, store
<1> QED BY <1>4, <1>5, <1>6, <1>7

(* The claim: its log holds no native effect, or it goes to recovery.      *)
LEMMA ClaimReply ==
    ASSUME ReplyInv, NEW d \in Deliveries, Claim(d)
    PROVE  ReplyParts' /\ RepliesStay
<1> DEFINE r == del[d].run
<1>0. StoreOK /\ TypeInv /\ SafetyInv /\ HandlersOK /\ QueueInv
  BY DEF ReplyInv, SafetyInv, TypeInv
<1>1. del[d].pc = "claim" /\ del[d].pc \in LiveSteps
  BY DEF Claim, At, LiveSteps, Steps
<1>2. r \in Runs /\ del[d].abort \in {"no", "cancelled", "expired", "failed"}
  BY <1>0, <1>1, LiveHandler
<1>3. TurnsGoOn
  BY <1>0, DeliveryRows, RowsTurns DEF Delivery, WorkerStep
<1>4. TurnsKept /\ HandlersKept
  BY <1>0, <1>1, ClaimReplies, GotoKept, SettleByKept, PlanNames DEF Claim
<1>5. ASSUME NEW s \in {"cancelled", "expired", "failed"}, FinishUnfenced(r, s),
             Goto(d, "ack")
      PROVE  ReplyParts' /\ RepliesStay
  <2>1. s \in TerminalStatuses
    BY DEF TerminalStatuses
  <2>2. StepsKept
    BY <1>0, <1>1, <1>5, GotoStepsKept DEF LiveSteps, Steps
  <2>3. AttemptsKept /\ LogsStay /\ RepliesStay /\ NoNewAnswer
    BY <1>0, <1>2, <1>5, <2>1, FinishUnfencedAttempts, UnfencedLogs, UnfencedStay,
       UnfencedCompletesNone
  <2> QED BY <1>3, <1>4, <2>2, <2>3, KeptAll DEF ReplyParts
<1>6. CASE UNCHANGED store /\ Goto(d, "ack")
  <2>1. StepsKept
    BY <1>0, <1>1, <1>6, GotoStepsKept DEF LiveSteps, Steps
  <2>2. AttemptsKept /\ LogsStay /\ RepliesStay /\ NoNewAnswer
    BY <1>6, QuietStay DEF store, AttemptsKept, LogsStay, NoNewAnswer
  <2> QED BY <1>3, <1>4, <2>1, <2>2, KeptAll DEF ReplyParts
<1>7. CASE del[d].abort = "no" /\ CanStart(run[r])
  <2>1. /\ run' = [run EXCEPT ![r] = MarkStarted(@, d)] /\ UNCHANGED reply
        /\ \/ SettleBy(d, "nativeRecovery") /\ UNCHANGED log
           \/ /\ log[r].native = {} /\ log' = [log EXCEPT ![r].startedBy = d]
              /\ Goto(d, "prepare")
    BY <1>7 DEF Claim, HasMutation
  <2>2. /\ run'[r].status = "running_model" /\ run'[r].activeAttempt = d
        /\ \A q \in Runs \ {r} : run'[q] = run[q]
    BY <1>0, <1>2, <2>1 DEF StoreOK, MarkStarted, RunRow
  <2>3. RepliesStay /\ NoNewAnswer
    BY <2>1, <2>2, QuietStay DEF NoNewAnswer
  <2>4. OnlyMoves(d) /\ ~FoundDone(del'[d])
        /\ (Starting(del'[d]) => del'[d].pc = "prepare" /\ Goto(d, "prepare"))
    <3>1. CASE SettleBy(d, "nativeRecovery")
      BY <1>0, <1>1, <3>1, SettleByMoves DEF FoundDone, Starting
    <3>2. CASE Goto(d, "prepare")
      BY <1>0, <1>1, <3>2, GotoMoves DEF FoundDone, Starting, LiveSteps, Steps
    <3> QED BY <2>1, <3>1, <3>2
  <2>5. ASSUME NEW e \in Deliveries, e # d,
               Starting(del'[e]) \/ FoundDone(del'[e]),
               HoldsAttempt(run'[del'[e].run], e)
        PROVE  /\ del'[e] = del[e] /\ del[e].run \in Runs \ {r}
               /\ HoldsAttempt(run[del[e].run], e)
    <3>1. del'[e] = del[e]
      BY <2>4, <2>5 DEF OnlyMoves
    <3>2. del[e].run \in Runs
      BY <1>0, <2>5, <3>1, OnItsWay
    <3>3. del[e].run # r
      BY <2>2, <2>5, <3>1 DEF HoldsAttempt
    <3> QED BY <2>2, <2>5, <3>1, <3>2, <3>3
  <2>6. FoundKept
    BY <2>4, <2>5 DEF FoundKept
  <2>7. CleanStart'
    <3> SUFFICES ASSUME NEW e \in Deliveries, Starting(del'[e]),
                        HoldsAttempt(run'[del'[e].run], e)
                 PROVE  /\ log'[del'[e].run].startedBy = e
                        /\ log'[del'[e].run].native = {}
      BY DEF CleanStart, Starting, HoldsAttempt, IsActive
    <3>1. \A q \in Runs \ {r} : log'[q] = log[q]
      BY <1>0, <2>1 DEF StoreOK
    <3>2. CASE e # d
      <4>1. /\ del'[e] = del[e] /\ del[e].run \in Runs \ {r}
            /\ HoldsAttempt(run[del[e].run], e)
        BY <2>5, <3>2
      <4>2. log[del[e].run].startedBy = e /\ log[del[e].run].native = {}
        BY <4>1 DEF ReplyInv, CleanStart
      <4> QED BY <3>1, <4>1, <4>2
    <3>3. CASE e = d
      <4>1. del'[d].run = r
        BY <2>4 DEF OnlyMoves, Moves
      <4>2. log[r].native = {} /\ log' = [log EXCEPT ![r].startedBy = d]
        <5>1. ~SettleBy(d, "nativeRecovery")
          BY <1>0, <1>1, <2>4, <3>3, SettleByMoves
        <5> QED BY <2>1, <5>1
      <4>3. log'[r].startedBy = d /\ log'[r].native = log[r].native
        BY <1>0, <1>2, <4>2 DEF StoreOK, RunLog
      <4> QED BY <3>3, <4>1, <4>2, <4>3
    <3> QED BY <3>2, <3>3
  <2> QED BY <1>3, <1>4, <2>3, <2>6, <2>7, KeptStored, KeptFound, KeptAnswers
          DEF ReplyParts
<1>8. CASE del[d].abort # "no"
  BY <1>2, <1>5, <1>8 DEF Claim
<1>9. CASE del[d].abort = "no" /\ ~CanStart(run[r])
  BY <1>5, <1>6, <1>9 DEF Claim
<1> QED BY <1>7, <1>8, <1>9

(* What a dispatch does to the reply, for the attempt that holds the Run.  *)
Dispatches(d) ==
    LET r == del[d].run
        m == run[r].message IN
    /\ HoldsAttempt(run[r], d) /\ del[d].pc = "dispatch"
    /\ ReplaceableReply(reply[m], r, run[r].action)
    /\ reply' = [reply EXCEPT ![m] = RunningReply(r, d)]

(* Only that attempt holds a Run of the Chat.                              *)
LEMMA OneAttempt ==
    ASSUME SafetyInv, NEW q \in Runs, NEW r \in Runs, NEW d, NEW e,
           HoldsAttempt(run[q], d), HoldsAttempt(run[r], e)
    PROVE  q = r /\ d = e
BY DEF SafetyInv, SingleFlight, ActiveRuns, HoldsAttempt

(* The dispatch: the one step that replaces a completed reply, and only    *)
(* for a Regenerate.                                                       *)
LEMMA DispatchReply ==
    ASSUME ReplyInv, NEW d \in Deliveries, DispatchAttempt(d)
    PROVE  ReplyParts' /\ (RepliesStay \/ Dispatches(d))
<1> DEFINE r == del[d].run
           m == run[r].message
<1>0. StoreOK /\ TypeInv /\ SafetyInv /\ HandlersOK /\ QueueInv
  BY DEF ReplyInv, SafetyInv, TypeInv
<1>1. del[d].pc = "dispatch" /\ del[d].pc \in LiveSteps /\ Starting(del[d])
  BY DEF DispatchAttempt, At, LiveSteps, Steps, Starting
<1>2. r \in Runs /\ m \in Messages
  BY <1>0, <1>1, OnItsWay DEF MessageOf
<1>3. UNCHANGED <<run, log>> /\ TurnsGoOn /\ AttemptsKept /\ LogsStay /\ NoNewAnswer
  BY QuietRows, RowsTurns DEF DispatchAttempt, AttemptsKept, LogsStay, NoNewAnswer
<1>4. CASE Goto(d, "ack") /\ UNCHANGED reply
  <2>1. StepsKept /\ HandlersKept
    BY <1>0, <1>1, <1>4, GotoStepsKept, GotoKept DEF LiveSteps, Steps
  <2>2. RepliesStay
    BY <1>4, QuietStay
  <2> QED BY <1>3, <2>1, <2>2, KeptAll DEF ReplyParts
<1>5. CASE /\ HoldsAttempt(run[r], d)
           /\ ~ReplaceableReply(reply[m], r, run[r].action)
           /\ SettleBy(d, "replyCompleted") /\ UNCHANGED reply
  <2>1. OnlyMoves(d) /\ del'[d].pc = "settle"
    BY <1>0, <1>1, <1>5, SettleByMoves
  <2>2. HandlersKept
    BY <1>0, <1>5, SettleByKept, PlanNames
  <2>3. StartsKept
    BY <1>3, <2>1 DEF StartsKept, OnlyMoves, Moves, Starting
  <2>4. TurnsKept
    BY <1>0, <1>3, <2>2, KeptTurns
  <2>5. RepliesStay
    BY <1>5, QuietStay
  <2>6. FoundComplete'
    <3> SUFFICES ASSUME NEW e \in Deliveries, FoundDone(del'[e]),
                        HoldsAttempt(run[del'[e].run], e)
                 PROVE  IsCompletedTurn(reply[run[del'[e].run].message])
      BY <1>3, <1>5 DEF FoundComplete, MessageOf, FoundDone, HoldsAttempt, IsActive,
                        IsCompletedTurn
    <3>1. CASE e = d
      BY <1>5, <2>1, <3>1 DEF OnlyMoves, Moves, ReplaceableReply
    <3>2. CASE e # d
      BY <2>1, <3>2 DEF OnlyMoves, ReplyInv, FoundComplete, MessageOf
    <3> QED BY <3>1, <3>2
  <2> QED BY <1>3, <2>2, <2>3, <2>4, <2>5, <2>6, KeptClean, KeptStored, KeptAnswers
          DEF ReplyParts
<1>6. CASE /\ HoldsAttempt(run[r], d)
           /\ ReplaceableReply(reply[m], r, run[r].action)
           /\ reply' = [reply EXCEPT ![m] = RunningReply(r, d)]
           /\ Goto(d, "stream")
  <2>1. OnlyMoves(d) /\ del'[d].pc = "stream"
    BY <1>0, <1>1, <1>6, GotoMoves DEF LiveSteps, Steps
  <2>2. StepsKept
    BY <2>1, MovedSteps DEF Starting, FoundDone
  <2>3. StartsKept /\ FoundKept
    BY <1>0, <1>3, <2>2, KeptSteps
  <2>4. /\ reply'[m].status = "running" /\ reply'[m].attempt = d
        /\ \A x \in Messages \ {m} : reply'[x] = reply[x]
    BY <1>0, <1>2, <1>6 DEF StoreOK, RunningReply
  <2>5. TurnStored'
    <3> SUFFICES ASSUME NEW e \in Deliveries, HasLiveTurn(del'[e])
                 PROVE  LET x == run[del'[e].run].message IN
                        /\ reply'[x].status # "none"
                        /\ HoldsAttempt(run[del'[e].run], e) => reply'[x].attempt = e
      BY <1>3 DEF TurnStored, MessageOf, HasLiveTurn, HoldsAttempt, IsActive
    <3>1. CASE e = d
      BY <2>1, <2>4, <3>1 DEF OnlyMoves, Moves
    <3>2. CASE e # d
      <4>1. del'[e] = del[e]
        BY <2>1, <3>2 DEF OnlyMoves
      <4>2. del[e].run \in Runs /\ MessageOf(e) \in Messages
        BY <1>0, <4>1, OnItsWay
      <4>3. ~HoldsAttempt(run[del[e].run], e)
        BY <1>0, <1>2, <1>6, <3>2, <4>2, OneAttempt
      <4>4. reply[MessageOf(e)].status # "none"
        BY <4>1 DEF ReplyInv, TurnStored
      <4> QED BY <2>4, <4>1, <4>2, <4>3, <4>4 DEF MessageOf
    <3> QED BY <3>1, <3>2
  <2>6. FoundComplete'
    <3> SUFFICES ASSUME NEW e \in Deliveries, FoundDone(del'[e]),
                        HoldsAttempt(run'[del'[e].run], e)
                 PROVE  FALSE
      BY DEF FoundComplete, FoundDone, HoldsAttempt, IsActive
    <3>1. FoundDone(del[e]) /\ HoldsAttempt(run[del[e].run], e)
      BY <2>3 DEF FoundKept
    <3>2. del[e].run \in Runs
      BY <1>0, <3>1, OnItsWay
    <3>3. e = d
      BY <1>0, <1>2, <1>6, <3>1, <3>2, OneAttempt
    <3> QED BY <1>1, <3>1, <3>3 DEF FoundDone
  <2>7. CompletedRunHasAnswer'
    <3> SUFFICES ASSUME NEW q \in Runs, run[q].status = "completed"
                 PROVE  \/ IsCompletedTurn(reply'[run[q].message])
                        \/ \E o \in Runs \ {q} : /\ run[o].message = run[q].message
                                                 /\ run[o].action = "regenerate"
      BY <1>3 DEF CompletedRunHasAnswer, IsCompletedTurn
    <3>1. Known(run[q])
      BY DEF Known
    <3>2. run[q].message \in Messages
      BY <1>0, <3>1 DEF QueueInv, RunsKnown
    <3>3. \/ IsCompletedTurn(reply[run[q].message])
          \/ \E o \in Runs \ {q} : /\ run[o].message = run[q].message
                                   /\ run[o].action = "regenerate"
      BY DEF ReplyInv, CompletedRunHasAnswer
    <3>4. CASE run[q].message # m
      BY <2>4, <3>2, <3>3, <3>4
    <3>5. CASE run[q].message = m /\ IsCompletedTurn(reply[m])
      <4>1. run[r].action = "regenerate"
        BY <1>6, <3>5 DEF ReplaceableReply
      <4>2. q # r
        BY <1>6 DEF HoldsAttempt, IsActive, ActiveStatuses
      <4> QED BY <1>2, <3>5, <4>1, <4>2
    <3> QED BY <3>3, <3>4, <3>5
  <2> QED BY <1>1, <1>3, <1>6, <2>3, <2>5, <2>6, <2>7, KeptClean
          DEF ReplyParts, Dispatches
<1> QED BY <1>4, <1>5, <1>6 DEF DispatchAttempt

(* The settle: a Run completes over the answer its attempt stored, or over *)
(* the one it found.                                                       *)
LEMMA SettleWinsReply ==
    ASSUME ReplyInv, NEW d \in Deliveries, SettleWins(d)
    PROVE  ReplyParts' /\ RepliesStay
<1> DEFINE r == del[d].run
           m == run[r].message
           s == PlanStatus(d)
<1>0. StoreOK /\ TypeInv /\ SafetyInv /\ HandlersOK /\ QueueInv
  BY DEF ReplyInv, SafetyInv, TypeInv
<1>1. del[d].pc = "settle" /\ del[d].pc \in LiveSteps
  BY DEF SettleWins, At, LiveSteps, Steps
<1>2. /\ r \in Runs /\ del[d].plan \in DOMAIN Plans
      /\ del[d].abort \in {"no", "cancelled", "expired", "failed"}
  BY <1>0, <1>1, LiveHandler
<1>3. m \in Messages
  BY <1>0, <1>1, <1>2 DEF QueueInv, RunsKnown
<1>4. s \in TerminalStatuses /\ PlanOf(d).ok \in {"ack", "nack", "verify"}
  BY <1>0, <1>1, PlanFacts
<1>5. CanFinish(run[r], Fence(d)) /\ Finish(r, s, Fence(d), PlanOf(d).live)
      /\ Goto(d, PlanOf(d).ok)
  BY DEF SettleWins
<1>6. TurnsGoOn
  BY <1>0, DeliveryRows, RowsTurns DEF Delivery, WorkerStep, Settle
<1>7. HandlersKept /\ AttemptsKept
  BY <1>0, <1>2, <1>4, <1>5, GotoKept, FinishAttempts
<1>8. StepsKept
  BY <1>0, OtherStepsKept DEF OtherStep, Settle
<1>9. LogsStay
  BY <1>0, <1>5, FinishLogs DEF Finish
<1>10. RepliesStay
  BY SettleStay
<1>11. /\ \A q \in Runs \ {r} : run'[q] = run[q]
       /\ run'[r].status = s /\ run'[r].message = m
  <2>1. run' = [run EXCEPT ![r] = MarkFinished(run[r], s, Fence(d))]
    BY <1>5 DEF Finish
  <2>2. run[r] \in RunRow
    BY <1>0, <1>2 DEF StoreOK
  <2>3. MarkFinished(run[r], s, Fence(d)).message = m
    BY <2>2 DEF MarkFinished, RunRow
  <2>4. MarkFinished(run[r], s, Fence(d)).status = s
    BY <2>2, MarkFinishedStatus
  <2> QED BY <1>0, <1>2, <2>1, <2>3, <2>4 DEF StoreOK
<1>12. ASSUME s = "completed" PROVE IsCompletedTurn(reply'[m])
  <2>1. PlanOf(d).status = "completed"
    BY <1>2, <1>12 DEF PlanStatus
  <2>2. del[d].plan \in {"replyCompleted", "answered"}
    BY <1>2, <2>1, PlanNames DEF PlanOf, Plans
  <2>3. PlanOf(d).fenced /\ (del[d].plan = "answered" => PlanOf(d).live = TRUE)
    BY <2>2 DEF PlanOf, Plans
  <2>4. Fence(d) = d /\ d # None
    BY <2>3, NoneFresh DEF Fence
  <2>5. HoldsAttempt(run[r], d)
    BY <1>5, <2>4 DEF CanFinish, HoldsAttempt
  <2>6. CASE del[d].plan = "replyCompleted"
    <3>1. IsCompletedTurn(reply[m])
      BY <1>1, <2>5, <2>6 DEF ReplyInv, FoundComplete, FoundDone, MessageOf
    <3> QED BY <1>3, <1>10, <3>1 DEF RepliesStay, ReplyStays
  <2>7. CASE del[d].plan = "answered"
    <3>1. HasLiveTurn(del[d])
      BY <1>1, <2>3, <2>7 DEF HasLiveTurn, PlanOf
    <3>2. reply[m].status # "none" /\ reply[m].attempt = d
      BY <2>5, <3>1 DEF ReplyInv, TurnStored, MessageOf
    <3>3. reply'[m] = FinalizeRunReply(reply[m], r, s, d, TRUE)
      BY <1>0, <1>3, <1>5, <2>3, <2>4, <2>7 DEF Finish, StoreOK
    <3>4. LiveReply(r, d, s).status = "completed"
      BY <1>12 DEF LiveReply, TurnStatusForTerminalRun
    <3>5. CASE IsCompletedTurn(reply[m])
      BY <3>3, <3>5 DEF FinalizeRunReply
    <3>6. CASE ~IsCompletedTurn(reply[m])
      BY <3>2, <3>3, <3>4, <3>6 DEF FinalizeRunReply, OwnsLiveReply, IsCompletedTurn
    <3> QED BY <3>5, <3>6
  <2> QED BY <2>2, <2>6, <2>7
<1>13. CompletedRunHasAnswer'
  <2>1. ASSUME NEW q \in Runs, run'[q].status = "completed" PROVE Answered(q)'
    <3>1. CASE q = r
      BY <1>11, <1>12, <2>1, <3>1 DEF Answered
    <3>2. CASE q # r
      BY <1>6, <1>10, <1>11, <2>1, <3>2, KeptAnswered
    <3> QED BY <3>1, <3>2
  <2> QED BY <2>1 DEF CompletedRunHasAnswer, Answered
<1>14. StartsKept /\ FoundKept /\ TurnsKept
  BY <1>0, <1>7, <1>8, KeptSteps, KeptTurns
<1> QED BY <1>6, <1>7, <1>9, <1>10, <1>13, <1>14, KeptClean, KeptStored, KeptFound
        DEF ReplyParts

(* A settle that lost, and the salvage, write at most the reply.           *)
LEMMA SettleLosesReply ==
    ASSUME ReplyInv, NEW d \in Deliveries, SettleLoses(d) \/ Salvage(d)
    PROVE  ReplyParts' /\ RepliesStay
<1>0. TypeInv /\ HandlersOK
  BY DEF ReplyInv, SafetyInv, TypeInv
<1>1. del[d].pc \in {"settle", "salvage"} /\ del[d].pc \in LiveSteps
  BY DEF SettleLoses, Salvage, At, LiveSteps, Steps
<1>2. UNCHANGED <<run, log>>
  BY DEF SettleLoses, Salvage, HandleLostFinish
<1>3. TurnsGoOn /\ AttemptsKept /\ LogsStay /\ NoNewAnswer
  BY <1>2, QuietRows, RowsTurns DEF AttemptsKept, LogsStay, NoNewAnswer
<1>4. HandlersKept
  BY <1>0, <1>1, PlanFacts, GotoKept, SettleByKept, PlanNames DEF SettleLoses, Salvage
<1>5. StepsKept
  BY <1>0, OtherStepsKept DEF OtherStep, Settle
<1>6. RepliesStay
  BY SettleStay
<1> QED BY <1>3, <1>4, <1>5, <1>6, KeptAll DEF ReplyParts

(* The steps of a delivery.                                                *)
LEMMA DeliveryReply ==
    ASSUME ReplyInv, NEW d \in Deliveries, Delivery(d)
    PROVE  ReplyParts' /\ (RepliesStay \/ Dispatches(d))
BY QuietReply, ClaimReply, DispatchReply, SettleWinsReply, SettleLosesReply
   DEF Delivery, WorkerStep, Settle, OtherStep

-----------------------------------------------------------------------------
(* The other steps.                                                        *)

(* What admission's expiry leaves of a Run.                                *)
LEMMA ExpiredEffect ==
    ASSUME StoreOK, adm \in AdmissionRow, NEW q \in Runs
    PROVE  /\ ExpiredRun[q] = run[q] \/ ExpiredRun[q].status = "expired"
           /\ ExpiredLog[q].native = log[q].native
           /\ ExpiredLog[q].startedBy = log[q].startedBy
<1>1. CASE ~Expires
  BY <1>1 DEF ExpiredRun, ExpiredLog
<1>2. CASE Expires
  <2>1. adm.blocker \in Runs
    BY <1>2 DEF Expires, AdmissionRow, OrNone
  <2>2. CASE q # adm.blocker
    BY <1>2, <2>1, <2>2 DEF ExpiredRun, ExpiredLog, StoreOK
  <2>3. CASE q = adm.blocker
    <3>1. ExpiredRun[q] = MarkFinished(run[q], "expired", None)
      BY <1>2, <2>3 DEF ExpiredRun, StoreOK
    <3>2. ExpiredLog[q] = TerminalLog(log[q], reply[run[q].message], "expired")
      BY <1>2, <2>3 DEF ExpiredLog, StoreOK
    <3>3. run[q] \in RunRow /\ log[q] \in RunLog
      BY DEF StoreOK
    <3> QED BY <3>1, <3>2, <3>3, MarkFinishedStatus, TerminalLogStays
  <2> QED BY <2>2, <2>3
<1> QED BY <1>1, <1>2

(* An acceptance stores a Run that nobody holds, and a refusal none.       *)
LEMMA AdmissionReply ==
    ASSUME ReplyInv, Admission
    PROVE  ReplyParts' /\ RepliesStay
<1>0. StoreOK /\ TypeInv /\ SafetyInv /\ adm \in AdmissionRow /\ QueueInv
  BY DEF ReplyInv, SafetyInv, TypeInv, RequestsOK
<1>1. UNCHANGED del
  BY DEF Admission, AdmitJudge, AdmitConflict, AdmitRefuse, AdmitAccept
<1>2. HandlersKept /\ StepsKept
  BY <1>1 DEF HandlersKept, StepsKept
<1>3. CASE (\E a \in Actions : AdmitJudge(a)) \/ AdmitConflict
  <2>1. UNCHANGED store
    BY <1>3 DEF AdmitJudge, AdmitConflict
  <2>2. TurnsGoOn /\ AttemptsKept /\ LogsStay /\ NoNewAnswer /\ RepliesStay
    BY <2>1, QuietRows, RowsTurns, QuietStay
       DEF store, AttemptsKept, LogsStay, NoNewAnswer
  <2> QED BY <1>2, <2>2, KeptAll DEF ReplyParts
<1>4. CASE AdmitRefuse
  <2>1. run' = ExpiredRun /\ reply' = ExpiredReply /\ log' = ExpiredLog
    BY <1>4 DEF AdmitRefuse
  <2>2. TurnsGoOn
    BY <1>0, <1>4, OtherRows, RowsTurns
  <2>3. AttemptsKept /\ LogsStay /\ NoNewAnswer
    BY <1>0, <2>1, ExpiredEffect
       DEF AttemptsKept, LogsStay, NoNewAnswer, HoldsAttempt, IsActive, ActiveStatuses
  <2>4. RepliesStay
    BY <1>0, <2>1, ExpiryStay
  <2> QED BY <1>2, <2>2, <2>3, <2>4, KeptAll DEF ReplyParts
<1>5. ASSUME NEW r \in Runs, NEW m \in Messages, AdmitAccept(r, m)
      PROVE  ReplyParts' /\ RepliesStay
  <2>1. /\ run[r].status = "absent" /\ log' = ExpiredLog /\ reply' = ExpiredReply
        /\ \A q \in Runs \ {r} : run'[q] = ExpiredRun[q]
    BY <1>0, <1>5, AcceptEffect
  <2>2. run'[r] = NewRun(m, adm.action)
    BY <1>5 DEF AdmitAccept, CreateRun
  <2>3. run'[r].status = "queued" /\ run'[r].activeAttempt = None
    BY <2>2 DEF NewRun, AbsentRun
  <2>4. TurnsGoOn
    BY <1>0, <2>1, ExpiredRows DEF TurnsGoOn, Known
  <2>5. AttemptsKept
    <3> SUFFICES ASSUME NEW q \in Runs, NEW d \in Deliveries,
                        HoldsAttempt(run'[q], d)
                 PROVE  HoldsAttempt(run[q], d)
      BY DEF AttemptsKept
    <3>1. q # r
      BY <2>3, NoneFresh DEF HoldsAttempt
    <3>2. run'[q] = run[q] \/ run'[q].status = "expired"
      BY <1>0, <2>1, <3>1, ExpiredEffect
    <3> QED BY <3>2 DEF HoldsAttempt, IsActive, ActiveStatuses
  <2>6. LogsStay
    BY <1>0, <2>1, ExpiredEffect DEF LogsStay
  <2>7. NoNewAnswer
    BY <1>0, <2>1, <2>3, ExpiredEffect DEF NoNewAnswer
  <2>8. RepliesStay
    BY <1>0, <2>1, ExpiryStay
  <2> QED BY <1>2, <2>4, <2>5, <2>6, <2>7, <2>8, KeptAll DEF ReplyParts
<1> QED BY <1>3, <1>4, <1>5 DEF Admission

(* An abort from outside keeps the steps.                                  *)
LEMMA AbortStepsKept ==
    ASSUME HandlersOK, NEW h, NEW a, del' = [del EXCEPT ![h].abort = a]
    PROVE  StepsKept
BY DEF StepsKept, HandlersOK, HandlerRow, DeliveryRow, Starting, FoundDone

(* Requests, the queue and crashes settle Runs and move no turn.           *)
LEMMA OtherReply ==
    ASSUME ReplyInv, Requests \/ Queue \/ \E p \in Processes : Crash(p)
    PROVE  ReplyParts' /\ RepliesStay
<1>0. StoreOK /\ TypeInv /\ HandlersOK
  BY DEF ReplyInv, SafetyInv, TypeInv
<1>1. ASSUME NEW r \in Runs, NEW s \in {"failed", "expired"},
             FinishUnfenced(r, s) \/ UNCHANGED store, UNCHANGED del
      PROVE  ReplyParts' /\ RepliesStay
  <2>1. s \in TerminalStatuses /\ s # "completed"
    BY DEF TerminalStatuses
  <2>2. HandlersKept /\ StepsKept
    BY <1>1 DEF HandlersKept, StepsKept
  <2>3. CASE FinishUnfenced(r, s)
    <3>1. TurnsGoOn /\ AttemptsKept /\ LogsStay /\ NoNewAnswer /\ RepliesStay
      BY <1>0, <2>1, <2>3, UnfencedRows, RowsTurns, FinishUnfencedAttempts,
         UnfencedLogs, UnfencedCompletesNone, UnfencedStay
    <3> QED BY <2>2, <3>1, KeptAll DEF ReplyParts
  <2>4. CASE UNCHANGED store
    <3>1. TurnsGoOn /\ AttemptsKept /\ LogsStay /\ NoNewAnswer /\ RepliesStay
      BY <2>4, QuietRows, RowsTurns, QuietStay
         DEF store, AttemptsKept, LogsStay, NoNewAnswer
    <3> QED BY <2>2, <3>1, KeptAll DEF ReplyParts
  <2> QED BY <1>1, <2>3, <2>4
<1>2. ASSUME UNCHANGED store, HandlersKept, StepsKept
      PROVE  ReplyParts' /\ RepliesStay
  <2>1. TurnsGoOn /\ AttemptsKept /\ LogsStay /\ NoNewAnswer /\ RepliesStay
    BY <1>2, QuietRows, RowsTurns, QuietStay
       DEF store, AttemptsKept, LogsStay, NoNewAnswer
  <2> QED BY <1>2, <2>1, KeptAll DEF ReplyParts
<1>3. ASSUME NEW r \in Runs,
             Enqueue(r) \/ EnqueueThrows(r) \/ HeartbeatLost(r)
             \/ FailUndispatched(r) \/ DeadLetter(r)
      PROVE  ReplyParts' /\ RepliesStay
  <2>1. /\ UNCHANGED del
        /\ \/ UNCHANGED store
           \/ FinishUnfenced(r, "failed") \/ FinishUnfenced(r, "expired")
    BY <1>3 DEF Enqueue, EnqueueThrows, HeartbeatLost, FailUndispatched, DeadLetter
  <2> QED BY <1>1, <2>1
<1>4. ASSUME NEW r \in Runs, RequestCancel(r) PROVE ReplyParts' /\ RepliesStay
  <2>1. UNCHANGED <<reply, log, del>>
    BY <1>4 DEF RequestCancel
  <2>2. ASSUME NEW q \in Runs
        PROVE  /\ run'[q].message = run[q].message /\ run'[q].action = run[q].action
               /\ run'[q].status = run[q].status
               /\ run'[q].activeAttempt = run[q].activeAttempt
    BY <1>0, <1>4 DEF RequestCancel, StoreOK, RunRow
  <2>3. TurnsGoOn /\ AttemptsKept /\ NoNewAnswer
    BY <2>2 DEF TurnsGoOn, AttemptsKept, NoNewAnswer, HoldsAttempt, IsActive
  <2>4. HandlersKept /\ StepsKept /\ LogsStay /\ RepliesStay
    BY <2>1, QuietStay DEF HandlersKept, StepsKept, LogsStay
  <2> QED BY <2>3, <2>4, KeptAll DEF ReplyParts
<1>5. ASSUME NEW r \in Runs, AbortInProcess(r) PROVE ReplyParts' /\ RepliesStay
  <2>1. UNCHANGED store
        /\ (del' = del \/ del' = [del EXCEPT ![registry[Api][r]].abort = "cancelled"])
    BY <1>5 DEF AbortInProcess
  <2>2. HandlersKept /\ StepsKept
    <3>1. CASE del' = del
      BY <3>1 DEF HandlersKept, StepsKept
    <3>2. CASE del' = [del EXCEPT ![registry[Api][r]].abort = "cancelled"]
      BY <1>0, <3>2, AbortKept, AbortStepsKept
    <3> QED BY <2>1, <3>1, <3>2
  <2> QED BY <1>2, <2>1, <2>2
<1>6. ASSUME NEW d \in Deliveries, NEW r \in Runs, NEW p \in Processes,
             Fetch(d, r, p)
      PROVE  ReplyParts' /\ RepliesStay
  <2>1. del'[d].pc = "pickup" /\ \A e \in Deliveries \ {d} : del'[e] = del[e]
    BY <1>0, <1>6 DEF Fetch, HandlersOK, HandlerRow, DeliveryRow
  <2>2. HandlersKept /\ StepsKept
    BY <2>1 DEF HandlersKept, StepsKept, HasLiveTurn, Starting, FoundDone
  <2> QED BY <1>2, <1>6, <2>2 DEF Fetch
<1>7. ASSUME NEW p \in Processes, Crash(p) PROVE ReplyParts' /\ RepliesStay
  <2>1. Gone("dead").pc = "dead"
    BY DEF Gone, Unused
  <2>2. \A e \in Deliveries : del'[e] = del[e] \/ del'[e].pc = "dead"
    BY <1>7, <2>1 DEF Crash
  <2>3. HandlersKept /\ StepsKept
    BY <2>2 DEF HandlersKept, StepsKept, HasLiveTurn, Starting, FoundDone
  <2> QED BY <1>2, <1>7, <2>3 DEF Crash
<1> QED BY <1>3, <1>4, <1>5, <1>6, <1>7 DEF Requests, Queue

-----------------------------------------------------------------------------
(* The invariant, and what it gives.                                       *)

(* The initial states satisfy the invariant.                               *)
LEMMA InitReply == Init => ReplyInv
<1> SUFFICES ASSUME Init PROVE ReplyInv
  OBVIOUS
<1>1. \A d \in Deliveries : del[d].pc = "unused"
  BY DEF Init, Unused
<1>2. \A r \in Runs : run[r].status = "absent"
  BY DEF Init, AbsentRun
<1> QED BY <1>1, <1>2, InitSafe, InitQueue
        DEF ReplyInv, CleanStart, TurnStored, FoundComplete, CompletedRunHasAnswer,
            Starting, FoundDone, HasLiveTurn

(* Every step keeps the parts, and writes replies only as a dispatch, a    *)
(* terminal transaction or a salvage may.                                  *)
LEMMA StepParts ==
    ASSUME ReplyInv, [Next]_vars
    PROVE  ReplyParts' /\ (RepliesStay \/ \E d \in Deliveries : Dispatches(d))
<1>1. CASE UNCHANGED vars
  <2>1. RepliesStay
    BY <1>1, QuietStay DEF vars
  <2>2. UNCHANGED <<run, reply, log, del>>
    BY <1>1 DEF vars
  <2>3. TurnsGoOn /\ AttemptsKept /\ LogsStay /\ NoNewAnswer /\ HandlersKept
        /\ StepsKept
    BY <2>2, QuietRows, RowsTurns
       DEF AttemptsKept, LogsStay, NoNewAnswer, HandlersKept, StepsKept
  <2> QED BY <2>1, <2>3, KeptAll DEF ReplyParts
<1>2. CASE Next
  BY <1>2, DeliveryReply, AdmissionReply, OtherReply DEF Next
<1> QED BY <1>1, <1>2

(* Every step keeps the invariant.                                         *)
LEMMA StepReply == ReplyInv /\ [Next]_vars => ReplyInv'
<1> SUFFICES ASSUME ReplyInv, [Next]_vars PROVE ReplyInv'
  OBVIOUS
<1>1. SafetyInv' /\ QueueInv'
  BY StepSafe, StepQueue DEF ReplyInv
<1>2. ReplyParts'
  BY StepParts
<1> QED BY <1>1, <1>2 DEF ReplyInv, ReplyParts

(* What an attempt that holds the Run relies on is true whenever it acts.  *)
THEOREM ReplyInvariant == Spec => []ReplyInv
BY InitReply, StepReply, PTL DEF Spec

(* A Run that reports completion stored its answer, or a Regenerate took   *)
(* the turn over: whichever attempt settles it, however often the Run was  *)
(* retried, expired under its worker or cancelled meanwhile.               *)
THEOREM CompletionIsAnswered == Spec => []CompletedRunHasAnswer
BY ReplyInvariant, PTL DEF ReplyInv

(* What a dispatch writes.                                                 *)
LEMMA DispatchWrites ==
    ASSUME ReplyInv, NEW d \in Deliveries, Dispatches(d), NEW m \in Messages,
           reply'[m] # reply[m]
    PROVE  /\ reply'[m].status = "running" /\ reply'[m].run = del[d].run
           /\ reply'[m].attempt = d /\ HoldsAttempt(run[del[d].run], d)
           /\ log[del[d].run].native = {}
           /\ IsCompletedTurn(reply[m]) =>
                 /\ run[del[d].run].action = "regenerate"
                 /\ reply[m].run # del[d].run
<1> DEFINE r == del[d].run
<1>0. StoreOK
  BY DEF ReplyInv, SafetyInv, TypeInv
<1>1. m = run[r].message /\ reply'[m] = RunningReply(r, d)
  BY <1>0 DEF Dispatches, StoreOK
<1>2. HoldsAttempt(run[r], d) /\ Starting(del[d])
  BY DEF Dispatches, Starting
<1>3. log[r].native = {}
  BY <1>2 DEF ReplyInv, CleanStart
<1>4. IsCompletedTurn(reply[m]) =>
          run[r].action = "regenerate" /\ reply[m].run # r
  BY <1>1 DEF Dispatches, ReplaceableReply
<1> QED BY <1>1, <1>2, <1>3, <1>4 DEF RunningReply

(* A stored answer is lost to nothing but a Regenerate of another Run: no  *)
(* retry, late settle, salvage, expiry or Continue replaces it.            *)
THEOREM AnswerIsNeverLost == Spec => AnswerNeverLost
<1>1. ASSUME ReplyInv, [Next]_vars
      PROVE  \A m \in Messages :
                IsCompletedTurn(reply[m]) /\ reply'[m] # reply[m] =>
                    /\ reply'[m].status = "running"
                    /\ reply'[m].run # reply[m].run
                    /\ run[reply'[m].run].action = "regenerate"
  <2>1. CASE RepliesStay
    BY <2>1 DEF RepliesStay, ReplyStays
  <2>2. ASSUME NEW d \in Deliveries, Dispatches(d), NEW m \in Messages,
               IsCompletedTurn(reply[m]), reply'[m] # reply[m]
        PROVE  /\ reply'[m].status = "running"
               /\ reply'[m].run # reply[m].run
               /\ run[reply'[m].run].action = "regenerate"
    BY <1>1, <2>2, DispatchWrites
  <2> QED BY <1>1, <2>1, <2>2, StepParts
<1> QED BY <1>1, ReplyInvariant, PTL DEF Spec, AnswerNeverLost

(* The attempt a reply names changes only when the attempt that holds the  *)
(* Run dispatches; a stale attempt's settle or salvage never changes it.   *)
THEOREM StaleAttemptIsFenced == Spec => StaleAttemptNeverPublishes
<1>1. ASSUME ReplyInv, [Next]_vars
      PROVE  \A m \in Messages :
                reply'[m].attempt # reply[m].attempt =>
                    /\ reply'[m].status = "running"
                    /\ HoldsAttempt(run[reply'[m].run], reply'[m].attempt)
  <2>1. CASE RepliesStay
    BY <2>1 DEF RepliesStay, ReplyStays
  <2>2. ASSUME NEW d \in Deliveries, Dispatches(d), NEW m \in Messages,
               reply'[m].attempt # reply[m].attempt
        PROVE  /\ reply'[m].status = "running"
               /\ HoldsAttempt(run[reply'[m].run], reply'[m].attempt)
    BY <1>1, <2>2, DispatchWrites
  <2> QED BY <1>1, <2>1, <2>2, StepParts
<1> QED BY <1>1, ReplyInvariant, PTL DEF Spec, StaleAttemptNeverPublishes

(* No model loop starts over a recorded native effect: the claim sends a   *)
(* Run with one to recovery, and none is recorded between the claim of the *)
(* attempt that holds the Run and its dispatch.                            *)
THEOREM NativeEffectsRunOnce == Spec => NativeEffectNeverReplayed
<1>1. ASSUME ReplyInv, [Next]_vars
      PROVE  \A m \in Messages :
                reply'[m].status = "running" /\ reply'[m] # reply[m] =>
                    log[reply'[m].run].native = {}
  <2>1. CASE RepliesStay
    BY <2>1 DEF RepliesStay, ReplyStays
  <2>2. ASSUME NEW d \in Deliveries, Dispatches(d), NEW m \in Messages,
               reply'[m] # reply[m]
        PROVE  log[reply'[m].run].native = {}
    BY <1>1, <2>2, DispatchWrites
  <2> QED BY <1>1, <2>1, <2>2, StepParts
<1> QED BY <1>1, ReplyInvariant, PTL DEF Spec, NativeEffectNeverReplayed
=============================================================================
