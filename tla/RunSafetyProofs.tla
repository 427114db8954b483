-------------------------- MODULE RunSafetyProofs ---------------------------
(***************************************************************************)
(* Types and safety of the Run pipeline for any number of Runs, messages,  *)
(* deliveries, processes and retries: it implements DurableRun, keeps one  *)
(* Run in flight and never shows a terminal Run with a running reply.      *)
(*                                                                         *)
(* None of the three is inductive alone.  Single-flight needs that the     *)
(* admission transaction, once it judged, knows the only Run that can be   *)
(* in flight; a final reply needs single-flight and that an attempt about  *)
(* to settle with its live turn is the one the running reply names.        *)
(***************************************************************************)
EXTENDS RunLifecycle, TLAPS

(* An attempt that settles by what its abort signal says was aborted.      *)
HasAbortReason(x) ==
    x.pc \in {"settle", "salvage"} /\ Plans[x.plan].status = "abort"
        => x.abort # "no"

(* A handler that is still running was given a Run.                        *)
HandlerRow ==
    {x \in DeliveryRow : HasAbortReason(x) /\ (x.pc \in LiveSteps => x.run \in Runs)}

StoreOK ==
    /\ run \in [Runs -> RunRow]
    /\ reply \in [Messages -> ReplyRow]
    /\ log \in [Runs -> RunLog]
QueueOK ==
    /\ job \in [Runs -> JobRow]
    /\ dead \in [Runs -> {"none", "queued", "completed", "failed"}]
RequestsOK ==
    /\ latest \in OrNone(Runs)
    /\ dispatching \in [Runs -> {"nothing", "enqueue", "fail"}]
    /\ cancelling \in SUBSET Runs
    /\ adm \in AdmissionRow
RegistryOK == registry \in [Processes -> [Runs -> OrNone(Deliveries)]]
CountersOK == errors \in Nat /\ crashes \in Nat
HandlersOK == del \in [Deliveries -> HandlerRow]

(* TypeOK, strengthened by what the handlers' types depend on.             *)
TypeInv ==
    StoreOK /\ QueueOK /\ RequestsOK /\ RegistryOK /\ CountersOK /\ HandlersOK

PlanRow == [status : TerminalStatuses \cup {"abort"}, fenced : BOOLEAN,
            live : BOOLEAN, ok : {"ack", "nack", "verify"},
            err : {"nack", "verify", "salvage"}]

(* The settlement plans there are.                                         *)
LEMMA PlanNames ==
    DOMAIN Plans = {"cancelBeforeStart", "pickupFailure", "nativeRecovery",
                    "abortedRun", "modelContext", "replyCompleted",
                    "streamThrow", "progressFailure", "answered", "modelError",
                    "streamAbort", "toolAbort"}
BY DEF Plans

(* Every plan of the table settles by a terminal status and resumes at a   *)
(* step of executeJob.                                                     *)
LEMMA PlansTyped == \A p \in DOMAIN Plans : Plans[p] \in PlanRow
<1>1. Plans.cancelBeforeStart \in PlanRow /\ Plans.pickupFailure \in PlanRow
      /\ Plans.nativeRecovery \in PlanRow /\ Plans.abortedRun \in PlanRow
  BY DEF Plans, PlanRow, TerminalStatuses, LiveSteps, Steps
<1>2. Plans.modelContext \in PlanRow /\ Plans.replyCompleted \in PlanRow
      /\ Plans.streamThrow \in PlanRow /\ Plans.progressFailure \in PlanRow
  BY DEF Plans, PlanRow, TerminalStatuses, LiveSteps, Steps
<1>3. Plans.answered \in PlanRow /\ Plans.modelError \in PlanRow
      /\ Plans.streamAbort \in PlanRow /\ Plans.toolAbort \in PlanRow
  BY DEF Plans, PlanRow, TerminalStatuses, LiveSteps, Steps
<1> QED BY <1>1, <1>2, <1>3, PlanNames

(* The repositories' operators return rows.                                *)
LEMMA MarkStartedTyped ==
    ASSUME NEW row \in RunRow, NEW d \in Deliveries
    PROVE  MarkStarted(row, d) \in RunRow
BY DEF RunRow, MarkStarted, OrNone, ActiveStatuses

(* The terminal update of a runs row is a runs row.                        *)
LEMMA MarkFinishedTyped ==
    ASSUME NEW row \in RunRow, NEW s \in TerminalStatuses,
           NEW f \in OrNone(Deliveries)
    PROVE  MarkFinished(row, s, f) \in RunRow
BY DEF RunRow, MarkFinished

(* A created row is a runs row.                                            *)
LEMMA NewRunTyped ==
    ASSUME NEW m \in Messages, NEW a \in Actions
    PROVE  NewRun(m, a) \in RunRow
BY DEF RunRow, NewRun, AbsentRun, OrNone, ActiveStatuses

(* A terminal Run status has a final turn status.                          *)
LEMMA TurnStatusTyped ==
    ASSUME NEW s
    PROVE  TurnStatusForTerminalRun(s) \in {"completed", "error", "aborted"}
BY DEF TurnStatusForTerminalRun

(* The attempt's live turn is a reply.                                     *)
LEMMA LiveReplyTyped ==
    ASSUME NEW r \in Runs, NEW d \in OrNone(Deliveries), NEW s
    PROVE  LiveReply(r, d, s) \in ReplyRow
BY TurnStatusTyped DEF LiveReply, ReplyRow, OrNone

(* A rebuilt reply is a reply.                                             *)
LEMMA RebuiltReplyTyped ==
    ASSUME NEW y \in ReplyRow, NEW s
    PROVE  RebuiltReply(y, s) \in ReplyRow
BY TurnStatusTyped DEF RebuiltReply, ReplyRow

(* finalizeRunReply returns a reply.                                       *)
LEMMA FinalizeRunReplyTyped ==
    ASSUME NEW y \in ReplyRow, NEW r \in Runs, NEW s,
           NEW f \in OrNone(Deliveries), NEW live
    PROVE  FinalizeRunReply(y, r, s, f, live) \in ReplyRow
BY LiveReplyTyped, RebuiltReplyTyped DEF FinalizeRunReply

(* persistAttemptTurn returns a reply.                                     *)
LEMMA PersistAttemptTurnTyped ==
    ASSUME NEW y \in ReplyRow, NEW r \in Runs, NEW d \in Deliveries, NEW s,
           NEW w
    PROVE  PersistAttemptTurn(y, r, d, s, w) \in ReplyRow
BY LiveReplyTyped DEF PersistAttemptTurn, OrNone

(* The log after a terminal transaction is a log.                          *)
LEMMA TerminalLogTyped ==
    ASSUME NEW l \in RunLog, NEW y, NEW s \in TerminalStatuses
    PROVE  TerminalLog(l, y, s) \in RunLog
<1>1. Append(l.terminal, s) \in Seq(TerminalStatuses)
  BY DEF RunLog
<1> QED BY <1>1 DEF RunLog, TerminalLog

(* Only three plans read their status off the abort signal.                *)
LEMMA AbortPlans ==
    ASSUME NEW p \in DOMAIN Plans, Plans[p].status = "abort"
    PROVE  p \in {"abortedRun", "streamAbort", "toolAbort"}
BY PlanNames DEF Plans

-----------------------------------------------------------------------------
(* Handler rows.                                                           *)

(* A live handler may move to any step that needs no plan.                 *)
LEMMA ResumeTyped ==
    ASSUME NEW x \in HandlerRow, x.pc \in LiveSteps,
           NEW pc \in Steps \ {"settle", "salvage"}
    PROVE  [x EXCEPT !.pc = pc] \in HandlerRow
BY DEF HandlerRow, DeliveryRow, HasAbortReason, LiveSteps

(* A live handler may settle by a plan whose abort it has.                 *)
LEMMA SettleTyped ==
    ASSUME NEW x \in HandlerRow, x.pc \in LiveSteps, NEW p \in DOMAIN Plans,
           x.abort # "no" \/ p \notin {"abortedRun", "streamAbort", "toolAbort"}
    PROVE  [x EXCEPT !.pc = "settle", !.plan = p] \in HandlerRow
BY AbortPlans DEF HandlerRow, DeliveryRow, HasAbortReason, LiveSteps, Steps

(* Aborting a handler keeps its row typed.                                 *)
LEMMA AbortTyped ==
    ASSUME NEW x \in HandlerRow, NEW a \in {"cancelled", "expired", "failed"}
    PROVE  [x EXCEPT !.abort = a] \in HandlerRow
BY DEF HandlerRow, DeliveryRow, HasAbortReason, LiveSteps

(* A returned, dead or unused delivery has a typed row.                    *)
LEMMA GoneTyped == \A pc \in {"unused", "done", "dead"} : Gone(pc) \in HandlerRow
BY PlanNames, BoundsAssumption
   DEF Gone, Unused, HandlerRow, DeliveryRow, HasAbortReason, LiveSteps, Steps, OrNone

(* Goto keeps the handlers typed.                                          *)
LEMMA GotoTyped ==
    ASSUME HandlersOK, NEW d \in Deliveries, del[d].pc \in LiveSteps,
           NEW pc \in Steps \ {"settle", "salvage"}, Goto(d, pc)
    PROVE  HandlersOK'
<1>1. del' = [del EXCEPT ![d] = [del[d] EXCEPT !.pc = pc]]
  BY DEF Goto
<1> QED BY <1>1, ResumeTyped DEF HandlersOK

(* SettleBy keeps the handlers typed.                                      *)
LEMMA SettleByTyped ==
    ASSUME HandlersOK, NEW d \in Deliveries, del[d].pc \in LiveSteps,
           NEW p \in DOMAIN Plans,
           del[d].abort # "no" \/ p \notin {"abortedRun", "streamAbort", "toolAbort"},
           SettleBy(d, p)
    PROVE  HandlersOK'
<1>1. del' = [del EXCEPT ![d] = [del[d] EXCEPT !.pc = "settle", !.plan = p]]
  BY DEF SettleBy
<1> QED BY <1>1, SettleTyped DEF HandlersOK

-----------------------------------------------------------------------------
(* The store.                                                              *)

(* The terminal transaction keeps the store typed.                         *)
LEMMA FinishTyped ==
    ASSUME StoreOK, NEW r \in Runs, NEW s \in TerminalStatuses,
           NEW f \in OrNone(Deliveries), NEW live, Finish(r, s, f, live)
    PROVE  StoreOK'
<1>1. run' \in [Runs -> RunRow]
  BY MarkFinishedTyped DEF StoreOK, Finish
<1>2. reply' \in [Messages -> ReplyRow]
  BY FinalizeRunReplyTyped DEF StoreOK, Finish
<1>3. log' \in [Runs -> RunLog]
  BY TerminalLogTyped DEF StoreOK, Finish
<1> QED BY <1>1, <1>2, <1>3 DEF StoreOK

(* So does the terminal transaction outside any attempt.                   *)
LEMMA FinishUnfencedTyped ==
    ASSUME StoreOK, NEW r \in Runs, NEW s \in TerminalStatuses,
           FinishUnfenced(r, s)
    PROVE  StoreOK'
BY FinishTyped DEF FinishUnfenced, OrNone, StoreOK, store

(* So does the reply write of a settler that lost.                         *)
LEMMA HandleLostFinishTyped ==
    ASSUME StoreOK, NEW r \in Runs, NEW d \in Deliveries, NEW s, NEW live,
           HandleLostFinish(r, d, s, live)
    PROVE  StoreOK'
<1>1. reply' \in [Messages -> ReplyRow]
  BY PersistAttemptTurnTyped DEF StoreOK, HandleLostFinish
<1> QED BY <1>1 DEF StoreOK, HandleLostFinish

(* The rows as clearActiveRunSlot leaves them are typed.                   *)
LEMMA ExpiredTyped ==
    ASSUME StoreOK, adm \in AdmissionRow
    PROVE  /\ ExpiredRun \in [Runs -> RunRow]
           /\ ExpiredReply \in [Messages -> ReplyRow]
           /\ ExpiredLog \in [Runs -> RunLog]
<1>1. CASE ~Expires
  BY <1>1 DEF StoreOK, ExpiredRun, ExpiredReply, ExpiredLog
<1>2. CASE Expires
  <2>1. adm.blocker \in Runs
    BY <1>2 DEF Expires, AdmissionRow, OrNone
  <2>2. ExpiredRun \in [Runs -> RunRow]
    BY <1>2, MarkFinishedTyped DEF StoreOK, ExpiredRun, OrNone, TerminalStatuses
  <2>3. ExpiredReply \in [Messages -> ReplyRow]
    BY <1>2, <2>1, FinalizeRunReplyTyped DEF StoreOK, ExpiredReply, OrNone
  <2>4. ExpiredLog \in [Runs -> RunLog]
    BY <1>2, TerminalLogTyped DEF StoreOK, ExpiredLog, TerminalStatuses
  <2> QED BY <2>2, <2>3, <2>4
<1> QED BY <1>1, <1>2

(* createRunForMessage keeps the store typed.                              *)
LEMMA CreateRunTyped ==
    ASSUME StoreOK, adm \in AdmissionRow, NEW r \in Runs, NEW m \in Messages,
           NEW a \in Actions, CreateRun(r, m, a)
    PROVE  StoreOK'
<1>1. run' \in [Runs -> RunRow]
  BY ExpiredTyped, NewRunTyped, MarkFinishedTyped
     DEF CreateRun, OrNone, TerminalStatuses
<1>2. log' \in [Runs -> RunLog]
  <2>1. ASSUME NEW l \in RunLog
        PROVE  [l EXCEPT !.terminal = Append(@, "cancelled")] \in RunLog
    <3>1. Append(l.terminal, "cancelled") \in Seq(TerminalStatuses)
      BY DEF RunLog, TerminalStatuses
    <3> QED BY <3>1 DEF RunLog
  <2> QED BY <2>1, ExpiredTyped DEF CreateRun
<1>3. reply' \in [Messages -> ReplyRow]
  BY ExpiredTyped DEF CreateRun
<1> QED BY <1>1, <1>2, <1>3 DEF StoreOK

-----------------------------------------------------------------------------
(* Every step keeps the types.                                             *)

(* Admission keeps the types.                                              *)
LEMMA AdmissionTyped == TypeInv /\ Admission => TypeInv'
<1> SUFFICES ASSUME TypeInv, Admission PROVE TypeInv'
  OBVIOUS
<1> USE DEF TypeInv, QueueOK, RequestsOK, RegistryOK, CountersOK, HandlersOK,
            queue
<1>1. ASSUME NEW a \in Actions, AdmitJudge(a) PROVE TypeInv'
  <2>1. adm' \in AdmissionRow
    <3>1. PICK b \in OrNone(Runs), live \in BOOLEAN :
              adm' = [phase |-> "judged", action |-> a, blocker |-> b,
                      live |-> live]
      BY <1>1 DEF AdmitJudge, ActiveRuns, OrNone
    <3> QED BY <3>1 DEF AdmissionRow
  <2> QED BY <1>1, <2>1 DEF AdmitJudge, StoreOK, store
<1>2. ASSUME AdmitConflict PROVE TypeInv'
  BY <1>2 DEF AdmitConflict, Idle, AdmissionRow, OrNone, Actions, StoreOK, store
<1>3. ASSUME AdmitRefuse PROVE TypeInv'
  BY <1>3, ExpiredTyped
     DEF AdmitRefuse, Idle, AdmissionRow, OrNone, Actions, StoreOK
<1>4. ASSUME NEW r \in Runs, NEW m \in Messages, AdmitAccept(r, m)
      PROVE  TypeInv'
  <2>1. StoreOK'
    BY <1>4, CreateRunTyped DEF AdmitAccept, AdmissionRow
  <2> QED BY <1>4, <2>1 DEF AdmitAccept, Idle, AdmissionRow, OrNone, Actions
<1> QED BY <1>1, <1>2, <1>3, <1>4 DEF Admission

(* Dispatch and cancel requests keep the types.                            *)
LEMMA RequestsTyped == TypeInv /\ Requests => TypeInv'
<1> SUFFICES ASSUME TypeInv, NEW r \in Runs,
                    Enqueue(r) \/ EnqueueThrows(r) \/ FailUndispatched(r)
                    \/ RequestCancel(r) \/ AbortInProcess(r)
             PROVE  TypeInv'
  BY DEF Requests
<1> USE DEF TypeInv, QueueOK, RequestsOK, RegistryOK, CountersOK
<1>1. CASE Enqueue(r)
  BY <1>1 DEF Enqueue, JobRow, JobStates, StoreOK, store, HandlersOK
<1>2. CASE EnqueueThrows(r)
  <2>1. job' \in [Runs -> JobRow]
    BY <1>2 DEF EnqueueThrows, JobRow, JobStates
  <2>2. dispatching' \in [Runs -> {"nothing", "enqueue", "fail"}]
    BY <1>2 DEF EnqueueThrows
  <2>3. errors' \in Nat
    BY <1>2 DEF EnqueueThrows, FailOnce
  <2> QED BY <1>2, <2>1, <2>2, <2>3
             DEF EnqueueThrows, StoreOK, store, HandlersOK
<1>3. CASE FailUndispatched(r)
  <2>1. StoreOK'
    BY <1>3, FinishUnfencedTyped DEF FailUndispatched, TerminalStatuses, StoreOK,
       store
  <2> QED BY <1>3, <2>1 DEF FailUndispatched, FailOnce, queue, HandlersOK
<1>4. CASE RequestCancel(r)
  BY <1>4 DEF RequestCancel, RunRow, StoreOK, queue, HandlersOK
<1>5. CASE AbortInProcess(r)
  <2>1. HandlersOK'
    <3>1. CASE del' = del
      BY <3>1 DEF HandlersOK
    <3>2. CASE del' = [del EXCEPT ![registry[Api][r]].abort = "cancelled"]
      <4> DEFINE e == registry[Api][r]
      <4>1. del' = [del EXCEPT ![e] = [del[e] EXCEPT !.abort = "cancelled"]]
        BY <3>2
      <4> QED BY <4>1, AbortTyped DEF HandlersOK
    <3> QED BY <1>5, <3>1, <3>2 DEF AbortInProcess
  <2> QED BY <1>5, <2>1 DEF AbortInProcess, StoreOK, store, queue
<1> QED BY <1>1, <1>2, <1>3, <1>4, <1>5

(* A retry or a dead letter keeps the queue typed.                         *)
LEMMA RetryOrDeadLetterTyped ==
    ASSUME QueueOK, NEW r \in OrNone(Runs), RetryOrDeadLetter(r)
    PROVE  QueueOK'
BY DEF QueueOK, RetryOrDeadLetter, JobRow, JobStates, OrNone

(* The steps of the queue keep the types.                                  *)
LEMMA QueueTyped == TypeInv /\ Queue => TypeInv'
<1> SUFFICES ASSUME TypeInv, Queue PROVE TypeInv'
  OBVIOUS
<1> USE DEF TypeInv, RequestsOK, RegistryOK, CountersOK, requests
<1>1. ASSUME NEW d \in Deliveries, NEW r \in Runs, NEW p \in Processes,
             Fetch(d, r, p)
      PROVE  TypeInv'
  <2>1. QueueOK'
    BY <1>1 DEF Fetch, QueueOK, JobRow, JobStates, OrNone
  <2>2. [del[d] EXCEPT !.pc = "pickup", !.run = r, !.process = p] \in HandlerRow
    BY DEF HandlersOK, HandlerRow, DeliveryRow, HasAbortReason, Steps, OrNone
  <2>3. del' = [del EXCEPT ![d] =
                  [del[d] EXCEPT !.pc = "pickup", !.run = r, !.process = p]]
    BY <1>1 DEF Fetch
  <2>4. HandlersOK'
    BY <2>2, <2>3 DEF HandlersOK
  <2> QED BY <1>1, <2>1, <2>4 DEF Fetch, StoreOK, store
<1>2. ASSUME NEW r \in Runs, HeartbeatLost(r) PROVE TypeInv'
  BY <1>2, RetryOrDeadLetterTyped
     DEF HeartbeatLost, OrNone, StoreOK, store, HandlersOK
<1>3. ASSUME NEW r \in Runs, DeadLetter(r) PROVE TypeInv'
  <2>1. StoreOK'
    BY <1>3, FinishUnfencedTyped DEF DeadLetter, TerminalStatuses, StoreOK, store
  <2>2. QueueOK' /\ CountersOK'
    BY <1>3 DEF DeadLetter, FailOnce, QueueOK
  <2> QED BY <1>3, <2>1, <2>2 DEF DeadLetter, HandlersOK
<1> QED BY <1>1, <1>2, <1>3 DEF Queue

(* A crash keeps the types.                                                *)
LEMMA CrashTyped ==
    ASSUME TypeInv, NEW p \in Processes, Crash(p)
    PROVE  TypeInv'
<1>1. HandlersOK'
  BY GoneTyped DEF Crash, TypeInv, HandlersOK
<1>2. RegistryOK'
  BY DEF Crash, TypeInv, RegistryOK, OrNone
<1>3. RequestsOK'
  <2>1. Idle \in AdmissionRow
    BY DEF Idle, AdmissionRow, OrNone, Actions
  <2> QED BY <2>1 DEF Crash, TypeInv, RequestsOK
<1>4. QueueOK' /\ StoreOK' /\ CountersOK'
  BY DEF Crash, TypeInv, QueueOK, StoreOK, CountersOK, store, queue
<1> QED BY <1>1, <1>2, <1>3, <1>4 DEF TypeInv

-----------------------------------------------------------------------------
(* The steps of a delivery.                                                *)

(* What a live handler's row holds.                                        *)
LEMMA LiveHandler ==
    ASSUME HandlersOK, NEW d \in Deliveries, del[d].pc \in LiveSteps
    PROVE  /\ del[d] \in HandlerRow /\ del[d].run \in Runs
           /\ del[d].process \in Processes /\ del[d].plan \in DOMAIN Plans
           /\ del[d].abort \in {"no", "cancelled", "expired", "failed"}
           /\ del[d].registered \in BOOLEAN
BY DEF HandlersOK, HandlerRow, DeliveryRow

(* Unregistering keeps the registry typed.                                 *)
LEMMA UnregisterTyped ==
    ASSUME RegistryOK, NEW d \in Deliveries, Unregister(d)
    PROVE  RegistryOK'
BY DEF RegistryOK, Unregister, OrNone

(* The steps of executeJob keep the types.                                 *)
LEMMA ExecuteJobTyped ==
    ASSUME TypeInv, NEW d \in Deliveries,
           \/ Pickup(d) \/ CreateClient(d) \/ Recheck(d) \/ Verify(d) \/ Return(d)
           \/ HandlerThrows(d) \/ Timeout(d)
    PROVE  TypeInv'
<1> USE DEF TypeInv, requests, At
<1>1. CASE Pickup(d)
  <2>1. del[d].pc \in LiveSteps
    BY <1>1 DEF Pickup, LiveSteps, Steps
  <2>2. HandlersOK'
    BY <1>1, <2>1, PlanNames, GotoTyped, SettleByTyped DEF Pickup, Steps
  <2> QED BY <1>1, <2>2 DEF Pickup, StoreOK, QueueOK, RequestsOK, RegistryOK,
                            CountersOK, store, queue
<1>2. CASE CreateClient(d)
  <2>1. del[d].pc \in LiveSteps
    BY <1>2 DEF CreateClient, LiveSteps, Steps
  <2>2. HandlersOK' /\ RegistryOK'
    <3>1. CASE SettleBy(d, "pickupFailure") /\ UNCHANGED registry
      BY <3>1, <2>1, PlanNames, SettleByTyped DEF RegistryOK
    <3>2. CASE /\ registry' = [registry EXCEPT ![del[d].process][del[d].run] = d]
               /\ del' = [del EXCEPT ![d].pc = "recheck", ![d].registered = TRUE]
      <4>1. [del[d] EXCEPT !.pc = "recheck", !.registered = TRUE] \in HandlerRow
        BY <2>1 DEF HandlersOK, HandlerRow, DeliveryRow, HasAbortReason, Steps
      <4>2. HandlersOK'
        BY <3>2, <4>1 DEF HandlersOK
      <4>3. RegistryOK'
        BY <3>2 DEF RegistryOK, OrNone
      <4> QED BY <4>2, <4>3
    <3> QED BY <1>2, <3>1, <3>2 DEF CreateClient
  <2> QED BY <1>2, <2>2 DEF CreateClient, StoreOK, QueueOK, RequestsOK,
                            CountersOK, store, queue
<1>3. CASE Recheck(d)
  <2>1. del[d].pc \in LiveSteps
    BY <1>3 DEF Recheck, LiveSteps, Steps
  <2>2. HandlersOK' /\ RegistryOK'
    <3>1. CASE Goto(d, "claim") /\ UNCHANGED registry
      BY <3>1, <2>1, GotoTyped DEF RegistryOK, Steps
    <3>2. CASE /\ Unregister(d)
               /\ del' = [del EXCEPT ![d].pc = "settle", ![d].registered = FALSE,
                                     ![d].plan = "cancelBeforeStart"]
      <4>1. [del[d] EXCEPT !.pc = "settle", !.registered = FALSE,
                           !.plan = "cancelBeforeStart"] \in HandlerRow
        <5>1. Plans["cancelBeforeStart"].status # "abort"
          BY PlanNames, AbortPlans
        <5> DEFINE x == [del[d] EXCEPT !.pc = "settle", !.registered = FALSE,
                                       !.plan = "cancelBeforeStart"]
        <5>2. x \in DeliveryRow
          <6>1. "cancelBeforeStart" \in DOMAIN Plans /\ "settle" \in Steps
            BY PlanNames DEF Steps
          <6>2. del[d] \in DeliveryRow
            BY DEF HandlersOK, HandlerRow
          <6> QED BY <6>1, <6>2 DEF DeliveryRow
        <5>3. x.run \in Runs /\ x.plan = "cancelBeforeStart"
          BY <2>1, LiveHandler DEF HandlersOK, HandlerRow, DeliveryRow
        <5> QED BY <5>1, <5>2, <5>3 DEF HandlerRow, HasAbortReason
      <4>2. HandlersOK'
        BY <3>2, <4>1 DEF HandlersOK
      <4> QED BY <3>2, <4>2, UnregisterTyped
    <3> QED BY <1>3, <3>1, <3>2 DEF Recheck
  <2> QED BY <1>3, <2>2 DEF Recheck, StoreOK, QueueOK, RequestsOK, CountersOK,
                            store, queue
<1>4. CASE Verify(d)
  <2>1. del[d].pc \in LiveSteps
    BY <1>4 DEF Verify, LiveSteps, Steps
  <2>2. HandlersOK'
    BY <1>4, <2>1, GotoTyped DEF Verify, Steps
  <2> QED BY <1>4, <2>2 DEF Verify, StoreOK, QueueOK, RequestsOK, RegistryOK,
                            CountersOK, store, queue
<1>5. CASE Return(d)
  <2>1. HandlersOK'
    BY <1>5, GoneTyped DEF Return, HandlersOK
  <2>2. QueueOK'
    <3>1. CASE CompleteJob(del[d].run)
      <4>1. ASSUME NEW r, NEW x \in JobRow
            PROVE  [x EXCEPT !.state = "completed", !.holder = None] \in JobRow
        BY DEF JobRow, JobStates, OrNone
      <4>2. job' \in [Runs -> JobRow]
        BY <3>1, <4>1 DEF CompleteJob, QueueOK
      <4> QED BY <3>1, <4>2 DEF CompleteJob, QueueOK
    <3>2. CASE FailJob(del[d].run)
      <4>1. del[d].run \in OrNone(Runs)
        BY DEF HandlersOK, HandlerRow, DeliveryRow
      <4> QED BY <3>2, <4>1, RetryOrDeadLetterTyped DEF FailJob, QueueOK, queue
    <3> QED BY <1>5, <3>1, <3>2 DEF Return
  <2>3. RegistryOK'
    BY <1>5, UnregisterTyped DEF Return
  <2> QED BY <1>5, <2>1, <2>2, <2>3 DEF Return, StoreOK, RequestsOK, CountersOK,
                                        store
<1>6. CASE HandlerThrows(d)
  <2>1. del[d].pc \in LiveSteps
    BY <1>6 DEF HandlerThrows, LiveSteps, Steps
  <2>2. HandlersOK'
    <3> DEFINE x == [del[d] EXCEPT !.pc = "nack",
                                   !.registered = @ /\ ~At(d, "recheck")]
    <3>1. del' = [del EXCEPT ![d] = x]
      BY <1>6 DEF HandlerThrows
    <3>2. del[d] \in DeliveryRow /\ "nack" \in Steps
      BY DEF HandlersOK, HandlerRow, Steps
    <3>3. x \in DeliveryRow /\ x.pc = "nack" /\ x.run = del[d].run
      BY <3>2 DEF DeliveryRow
    <3>4. x \in HandlerRow
      BY <2>1, <3>3, LiveHandler DEF HandlerRow, HasAbortReason
    <3> QED BY <3>1, <3>4 DEF HandlersOK
  <2> QED BY <1>6, <2>2 DEF HandlerThrows, FailOnce, StoreOK, QueueOK,
                            RequestsOK, RegistryOK, CountersOK, store, queue
<1>7. CASE Timeout(d)
  <2>1. HandlersOK'
    <3>1. del' = [del EXCEPT ![d] = [del[d] EXCEPT !.abort = "expired"]]
      BY <1>7 DEF Timeout
    <3> QED BY <3>1, AbortTyped DEF HandlersOK
  <2> QED BY <1>7, <2>1 DEF Timeout, StoreOK, QueueOK, RequestsOK, RegistryOK,
                            CountersOK, store, queue
<1> QED BY <1>1, <1>2, <1>3, <1>4, <1>5, <1>6, <1>7

(* The edits of a log that tool calls and claims make.                     *)
LEMMA LogEdits ==
    ASSUME NEW l \in RunLog, NEW d \in Deliveries
    PROVE  /\ [l EXCEPT !.open = @ \cup {d}] \in RunLog
           /\ [l EXCEPT !.open = @ \ {d}] \in RunLog
           /\ [l EXCEPT !.native = @ \cup {d}] \in RunLog
           /\ [l EXCEPT !.startedBy = d] \in RunLog
BY DEF RunLog, OrNone

(* The claim keeps the types.                                              *)
LEMMA ClaimTyped ==
    ASSUME TypeInv, NEW d \in Deliveries, Claim(d)
    PROVE  TypeInv'
<1>1. del[d].pc \in LiveSteps /\ del[d].pc = "claim"
  BY DEF Claim, At, LiveSteps, Steps
<1>2. del[d].run \in Runs
  BY <1>1, LiveHandler DEF TypeInv
<1> DEFINE r == del[d].run
<1>3. StoreOK' /\ HandlersOK'
  <2>1. CASE del[d].abort # "no"
    <3>1. del[d].abort \in TerminalStatuses
      BY <2>1, <1>1, LiveHandler DEF TypeInv, TerminalStatuses
    <3>2. FinishUnfenced(r, del[d].abort) /\ Goto(d, "ack")
      BY <2>1 DEF Claim
    <3> QED BY <3>1, <3>2, <1>1, <1>2, FinishUnfencedTyped, GotoTyped
            DEF TypeInv, Steps
  <2>2. CASE del[d].abort = "no" /\ CanStart(run[r])
    <3>1. /\ run' = [run EXCEPT ![r] = MarkStarted(@, d)]
          /\ UNCHANGED reply
          /\ \/ SettleBy(d, "nativeRecovery") /\ UNCHANGED log
             \/ /\ log' = [log EXCEPT ![r].startedBy = d]
                /\ Goto(d, "prepare")
      BY <2>2 DEF Claim
    <3>2. run' \in [Runs -> RunRow]
      BY <3>1, MarkStartedTyped DEF TypeInv, StoreOK
    <3>3. log' \in [Runs -> RunLog]
      <4>1. UNCHANGED log
            \/ log' = [log EXCEPT ![r] = [log[r] EXCEPT !.startedBy = d]]
        BY <3>1
      <4>2. [log[r] EXCEPT !.startedBy = d] \in RunLog
        BY <1>2, LogEdits DEF TypeInv, StoreOK
      <4> QED BY <4>1, <4>2 DEF TypeInv, StoreOK
    <3>4. HandlersOK'
      BY <3>1, <1>1, PlanNames, SettleByTyped, GotoTyped DEF TypeInv, Steps
    <3> QED BY <3>1, <3>2, <3>3, <3>4 DEF TypeInv, StoreOK
  <2>3. CASE del[d].abort = "no" /\ ~CanStart(run[r])
    <3>1. /\ FinishUnfenced(r, "cancelled") \/ UNCHANGED store
          /\ Goto(d, "ack")
      BY <2>3 DEF Claim
    <3>2. StoreOK'
      BY <3>1, <1>2, FinishUnfencedTyped
         DEF TypeInv, TerminalStatuses, StoreOK, store
    <3> QED BY <3>1, <3>2, <1>1, GotoTyped DEF TypeInv, Steps
  <2> QED BY <2>1, <2>2, <2>3
<1> QED BY <1>3 DEF Claim, TypeInv, QueueOK, RequestsOK, RegistryOK, CountersOK,
                    queue, requests

(* Preparation and dispatch keep the types.                                *)
LEMMA PrepareTyped ==
    ASSUME TypeInv, NEW d \in Deliveries, Prepare(d) \/ DispatchAttempt(d)
    PROVE  TypeInv'
<1>1. del[d].pc \in LiveSteps
  BY DEF Prepare, DispatchAttempt, At, LiveSteps, Steps
<1>2. del[d].run \in Runs
  BY <1>1, LiveHandler DEF TypeInv
<1>3. CASE Prepare(d)
  <2>1. HandlersOK'
    BY <1>1, <1>3, PlanNames, SettleByTyped, GotoTyped
       DEF Prepare, TypeInv, Steps
  <2> QED BY <1>3, <2>1 DEF Prepare, TypeInv, StoreOK, QueueOK, RequestsOK,
                            RegistryOK, CountersOK, store, queue, requests
<1>4. CASE DispatchAttempt(d)
  <2>1. HandlersOK'
    BY <1>1, <1>4, PlanNames, SettleByTyped, GotoTyped
       DEF DispatchAttempt, TypeInv, Steps
  <2>2. RunningReply(del[d].run, d) \in ReplyRow
    BY <1>2 DEF RunningReply, ReplyRow, OrNone
  <2>3. reply' \in [Messages -> ReplyRow]
    BY <1>4, <2>2 DEF DispatchAttempt, TypeInv, StoreOK
  <2> QED BY <1>4, <2>1, <2>3 DEF DispatchAttempt, TypeInv, StoreOK, QueueOK,
                 RequestsOK, RegistryOK, CountersOK, store, queue, requests
<1> QED BY <1>3, <1>4

(* The steps of a stream keep the types.                                   *)
LEMMA StreamingTyped ==
    ASSUME TypeInv, NEW d \in Deliveries, Streaming(d) \/ ProgressLost(d)
    PROVE  TypeInv'
<1> USE DEF TypeInv, At
<1>1. del[d].pc \in LiveSteps
  BY DEF Streaming, ToolRequested, ToolCompleted, NativeUnknown, NativeBegin,
         StreamEnds, ProgressLost, LiveSteps, Steps
<1>2. CASE \/ ToolRequested(d) \/ ToolCompleted(d)
           \/ \E bound \in BOOLEAN : NativeBegin(d, bound)
  <2>1. log' \in [Runs -> RunLog]
    <3> DEFINE r == del[d].run
    <3>1. \/ log' = [log EXCEPT ![r] = [log[r] EXCEPT !.open = @ \cup {d}]]
          \/ log' = [log EXCEPT ![r] = [log[r] EXCEPT !.open = @ \ {d}]]
          \/ log' = [log EXCEPT ![r] = [log[r] EXCEPT !.native = @ \cup {d}]]
      BY <1>2 DEF ToolRequested, ToolCompleted, NativeBegin
    <3>2. log[r] \in RunLog
      BY <1>1, LiveHandler DEF StoreOK
    <3>3. /\ [log[r] EXCEPT !.open = @ \cup {d}] \in RunLog
          /\ [log[r] EXCEPT !.open = @ \ {d}] \in RunLog
          /\ [log[r] EXCEPT !.native = @ \cup {d}] \in RunLog
      BY <3>2, LogEdits
    <3> QED BY <3>1, <3>3 DEF StoreOK
  <2> QED BY <1>2, <2>1 DEF ToolRequested, ToolCompleted, NativeBegin, StoreOK,
         QueueOK, RequestsOK, RegistryOK, CountersOK, HandlersOK, queue, requests
<1>3. CASE NativeUnknown(d)
  <2>1. del' = [del EXCEPT ![d] = [del[d] EXCEPT !.abort = "failed"]]
    BY <1>3 DEF NativeUnknown
  <2>2. HandlersOK'
    BY <2>1, AbortTyped DEF HandlersOK
  <2> QED BY <1>3, <2>2 DEF NativeUnknown, StoreOK, QueueOK, RequestsOK,
                            RegistryOK, CountersOK, store, queue, requests
<1>4. ASSUME NEW plan \in StreamPlans, StreamEnds(d, plan) PROVE TypeInv'
  <2>1. log' \in [Runs -> RunLog]
    BY <1>4, LogEdits DEF StreamEnds, StoreOK
  <2>2. /\ plan \in DOMAIN Plans
        /\ plan \in {"abortedRun", "streamAbort", "toolAbort"}
              => del[d].abort # "no"
    BY <1>4, PlanNames DEF StreamEnds, StreamPlans, StreamAborted, ToolsAborted
  <2>3. HandlersOK'
    BY <1>1, <1>4, <2>2, SettleByTyped DEF StreamEnds
  <2> QED BY <1>4, <2>1, <2>3 DEF StreamEnds, StoreOK, QueueOK, RequestsOK,
                                  RegistryOK, CountersOK, queue, requests
<1>5. CASE ProgressLost(d)
  <2>1. HandlersOK'
    BY <1>1, <1>5, PlanNames, SettleByTyped DEF ProgressLost
  <2> QED BY <1>5, <2>1 DEF ProgressLost, FailOnce, StoreOK, QueueOK,
               RequestsOK, RegistryOK, CountersOK, store, queue, requests
<1> QED BY <1>2, <1>3, <1>4, <1>5 DEF Streaming

(* What the plan of a settling handler says.                               *)
LEMMA PlanFacts ==
    ASSUME HandlersOK, NEW d \in Deliveries, del[d].pc \in {"settle", "salvage"}
    PROVE  /\ PlanStatus(d) \in TerminalStatuses
           /\ Fence(d) \in OrNone(Deliveries)
           /\ PlanOf(d).ok \in {"ack", "nack", "verify"}
           /\ PlanOf(d).err \in {"nack", "verify", "salvage"}
<1>1. del[d].pc \in LiveSteps
  BY DEF LiveSteps, Steps
<1>2. Plans[del[d].plan] \in PlanRow
  BY <1>1, LiveHandler, PlansTyped
<1>3. Plans[del[d].plan].status = "abort" => del[d].abort # "no"
  BY DEF HandlersOK, HandlerRow, HasAbortReason
<1>4. del[d].abort \in {"no", "cancelled", "expired", "failed"}
  BY <1>1, LiveHandler
<1> QED BY <1>2, <1>3, <1>4
        DEF PlanStatus, PlanOf, Fence, PlanRow, OrNone, TerminalStatuses

(* The settle and the salvage keep the types.                              *)
LEMMA SettleStepTyped ==
    ASSUME TypeInv, NEW d \in Deliveries, Settle(d) \/ Salvage(d)
    PROVE  TypeInv'
<1> USE DEF TypeInv, At
<1>1. del[d].pc \in {"settle", "salvage"}
  BY DEF Settle, SettleWins, SettleLoses, SettleErrs, Salvage
<1>2. del[d].pc \in LiveSteps
  BY <1>1 DEF LiveSteps, Steps
<1>3. del[d].run \in Runs
  BY <1>2, LiveHandler
<1>4. CASE SettleWins(d)
  <2>1. StoreOK'
    BY <1>1, <1>3, <1>4, PlanFacts, FinishTyped DEF SettleWins
  <2>2. HandlersOK'
    BY <1>1, <1>2, <1>4, PlanFacts, GotoTyped DEF SettleWins, Steps
  <2> QED BY <1>4, <2>1, <2>2 DEF SettleWins, QueueOK, RequestsOK, RegistryOK,
                                  CountersOK, queue, requests
<1>5. CASE SettleLoses(d)
  <2>1. StoreOK'
    BY <1>3, <1>5, HandleLostFinishTyped DEF SettleLoses
  <2>2. HandlersOK'
    BY <1>1, <1>2, <1>5, PlanFacts, GotoTyped DEF SettleLoses, Steps
  <2> QED BY <1>5, <2>1, <2>2 DEF SettleLoses, QueueOK, RequestsOK, RegistryOK,
                                  CountersOK, queue, requests
<1>6. CASE SettleErrs(d)
  <2>1. HandlersOK'
    <3>1. CASE PlanOf(d).err # "salvage"
      BY <3>1, <1>1, <1>2, <1>6, PlanFacts, GotoTyped DEF SettleErrs, Steps
    <3>2. CASE PlanOf(d).err = "salvage"
      <4>1. [del[d] EXCEPT !.pc = "salvage"] \in HandlerRow
        BY <1>1, <1>3 DEF HandlersOK, HandlerRow, DeliveryRow, HasAbortReason,
                          Steps
      <4>2. del' = [del EXCEPT ![d] = [del[d] EXCEPT !.pc = "salvage"]]
        BY <3>2, <1>6 DEF SettleErrs, Goto
      <4> QED BY <4>1, <4>2 DEF HandlersOK
    <3> QED BY <3>1, <3>2
  <2> QED BY <1>6, <2>1 DEF SettleErrs, FailOnce, StoreOK, QueueOK, RequestsOK,
                            RegistryOK, CountersOK, store, queue, requests
<1>7. CASE Salvage(d)
  <2>1. reply' \in [Messages -> ReplyRow]
    <3> DEFINE m == run[del[d].run].message
    <3>1. UNCHANGED reply
          \/ reply' = [reply EXCEPT ![m] =
                         PersistAttemptTurn(@, del[d].run, d, PlanStatus(d), TRUE)]
      BY <1>7 DEF Salvage
    <3>2. \A y \in ReplyRow :
             PersistAttemptTurn(y, del[d].run, d, PlanStatus(d), TRUE) \in ReplyRow
      BY <1>3, PersistAttemptTurnTyped
    <3> QED BY <3>1, <3>2 DEF StoreOK
  <2>2. HandlersOK'
    BY <1>2, <1>7, PlanNames, SettleByTyped, GotoTyped DEF Salvage, Steps
  <2>3. CountersOK'
    <3>1. (errors' = errors \/ errors' = errors + 1) /\ crashes' = crashes
      BY <1>7, Zenon DEF Salvage, FailOnce
    <3> QED BY <3>1 DEF CountersOK
  <2> QED BY <1>7, <2>1, <2>2, <2>3 DEF Salvage, StoreOK, QueueOK, RequestsOK,
                                        RegistryOK, queue, requests
<1> QED BY <1>4, <1>5, <1>6, <1>7 DEF Settle

-----------------------------------------------------------------------------

(* The inductive type invariant implies TypeOK.                            *)
LEMMA TypeInvImpliesTypeOK == TypeInv => TypeOK
BY DEF TypeInv, TypeOK, StoreOK, QueueOK, RequestsOK, RegistryOK, CountersOK,
       HandlersOK, HandlerRow

(* The initial states are typed.                                           *)
LEMMA InitTyped == Init => TypeInv
<1> SUFFICES ASSUME Init PROVE TypeInv
  OBVIOUS
<1>1. StoreOK
  BY DEF Init, StoreOK, RunRow, AbsentRun, ReplyRow, NoReply, RunLog, EmptyLog,
         OrNone, Actions
<1>2. QueueOK /\ RegistryOK /\ CountersOK
  BY DEF Init, QueueOK, RegistryOK, CountersOK, JobRow, JobStates, OrNone
<1>3. RequestsOK
  BY DEF Init, RequestsOK, Idle, AdmissionRow, OrNone, Actions
<1>4. Unused \in HandlerRow
  BY PlanNames, BoundsAssumption
     DEF Unused, HandlerRow, DeliveryRow, HasAbortReason, LiveSteps, Steps, OrNone
<1>5. HandlersOK
  BY <1>4 DEF Init, HandlersOK
<1> QED BY <1>1, <1>2, <1>3, <1>5 DEF TypeInv

(* Every step of the pipeline keeps the types.                             *)
LEMMA StepTyped == TypeInv /\ [Next]_vars => TypeInv'
<1> SUFFICES ASSUME TypeInv, [Next]_vars PROVE TypeInv'
  OBVIOUS
<1>1. ASSUME NEW d \in Deliveries, Delivery(d) PROVE TypeInv'
  BY <1>1, ExecuteJobTyped, ClaimTyped, PrepareTyped, StreamingTyped,
     SettleStepTyped
     DEF Delivery, WorkerStep
<1>2. CASE UNCHANGED vars
  BY <1>2 DEF vars, TypeInv, StoreOK, QueueOK, RequestsOK, RegistryOK,
              CountersOK, HandlersOK
<1> QED BY <1>1, <1>2, AdmissionTyped, RequestsTyped, QueueTyped, CrashTyped
        DEF Next

(* The rows, the queue and the handlers keep their types, whatever the     *)
(* number of Runs and deliveries: in particular every terminal write       *)
(* stores a terminal status, which for an aborted attempt needs that a     *)
(* reason was recorded before the settle.                                  *)
THEOREM TypeCorrect == Spec => []TypeOK
BY InitTyped, StepTyped, TypeInvImpliesTypeOK, PTL DEF Spec

-----------------------------------------------------------------------------
(* Safety.                                                                 *)

(* A terminal Run's log holds exactly one terminal event, that of its      *)
(* status.                                                                 *)
OneTerminalEvent ==
    \A r \in Runs :
        log[r].terminal = IF IsTerminal(run[r]) THEN <<run[r].status>> ELSE <<>>

(* The judgement names the only Run that can still be in flight.           *)
SlotJudged == adm.phase = "judged" => ActiveRuns(run) \subseteq {adm.blocker}

(* Deliveries whose model loop began, up to the settle with its live turn. *)
HasLiveTurn(x) ==
    \/ x.pc \in {"stream", "salvage"}
    \/ x.pc = "settle" /\ Plans[x.plan].live

(* While such a delivery holds the Run, a running reply names it.          *)
LiveTurnOwnsReply ==
    \A d \in Deliveries, m \in Messages :
        /\ HasLiveTurn(del[d]) /\ HoldsAttempt(run[del[d].run], d)
        /\ run[del[d].run].message = m /\ reply[m].status = "running"
        => reply[m].attempt = d

SafetyInv ==
    /\ TypeInv
    /\ OneTerminalEvent
    /\ SingleFlight
    /\ SlotJudged
    /\ TerminalRunHasFinalReply
    /\ LiveTurnOwnsReply

-----------------------------------------------------------------------------
(* Single-flight and the terminal event.  Every step but an acceptance     *)
(* leaves each Run where it is or settles it with its event.               *)

Settles(r) ==
    /\ IsActive(run[r]) /\ IsTerminal(run'[r])
    /\ log'[r].terminal = Append(log[r].terminal, run'[r].status)
Stays(r) ==
    /\ run'[r].status = run[r].status \/ (IsActive(run[r]) /\ IsActive(run'[r]))
    /\ log'[r].terminal = log[r].terminal
OnlySettles == \A r \in Runs : Stays(r) \/ Settles(r)

(* The terminal update stores the status it is given.                      *)
LEMMA MarkFinishedStatus ==
    ASSUME NEW row \in RunRow, NEW s, NEW f
    PROVE  MarkFinished(row, s, f).status = s
BY DEF MarkFinished, RunRow

(* A terminal transaction appends one terminal event.                      *)
LEMMA TerminalLogEvents ==
    ASSUME NEW l \in RunLog, NEW y, NEW s
    PROVE  TerminalLog(l, y, s).terminal = Append(l.terminal, s)
BY DEF TerminalLog, RunLog

(* Other edits of a log leave its terminal events.                         *)
LEMMA LogEditsKeepTerminal ==
    ASSUME NEW l \in RunLog, NEW X
    PROVE  /\ [l EXCEPT !.open = X].terminal = l.terminal
           /\ [l EXCEPT !.native = X].terminal = l.terminal
           /\ [l EXCEPT !.startedBy = X].terminal = l.terminal
BY DEF RunLog

(* An edit of one log keeps the terminal events of all.                    *)
LEMMA LogEdited ==
    ASSUME StoreOK, NEW r, NEW x, log' = [log EXCEPT ![r] = x],
           r \in Runs => x.terminal = log[r].terminal
    PROVE  \A q \in Runs : log'[q].terminal = log[q].terminal
BY DEF StoreOK

(* A step that keeps rows and terminal events settles nothing.             *)
LEMMA QuietSettles ==
    ASSUME UNCHANGED run, \A r \in Runs : log'[r].terminal = log[r].terminal
    PROVE  OnlySettles
BY DEF OnlySettles, Stays

(* The terminal transaction settles one Run.                               *)
LEMMA FinishSettles ==
    ASSUME StoreOK, NEW r \in Runs, NEW s \in TerminalStatuses, NEW f, NEW live,
           CanFinish(run[r], f), Finish(r, s, f, live)
    PROVE  OnlySettles
<1>1. ASSUME NEW q \in Runs, q # r PROVE Stays(q)
  BY <1>1 DEF Finish, Stays, StoreOK
<1>2. run'[r].status = s
  BY MarkFinishedStatus DEF Finish, StoreOK
<1>3. log'[r].terminal = Append(log[r].terminal, s)
  BY TerminalLogEvents DEF Finish, StoreOK
<1>4. Settles(r)
  BY <1>2, <1>3 DEF Settles, CanFinish, IsTerminal
<1> QED BY <1>1, <1>4 DEF OnlySettles

(* So it does outside any attempt, if it writes at all.                    *)
LEMMA FinishUnfencedSettles ==
    ASSUME StoreOK, NEW r \in Runs, NEW s \in TerminalStatuses,
           FinishUnfenced(r, s)
    PROVE  OnlySettles
<1>1. CASE CanFinish(run[r], None)
  BY <1>1, FinishSettles DEF FinishUnfenced
<1>2. CASE ~CanFinish(run[r], None)
  BY <1>2, QuietSettles DEF FinishUnfenced, store
<1> QED BY <1>1, <1>2

(* Admission's expiry settles the stuck blocker.                           *)
LEMMA ExpirySettles ==
    ASSUME StoreOK, adm \in AdmissionRow, run' = ExpiredRun, log' = ExpiredLog
    PROVE  OnlySettles
<1>1. CASE ~Expires
  BY <1>1, QuietSettles DEF ExpiredRun, ExpiredLog
<1>2. CASE Expires
  <2> DEFINE b == adm.blocker
  <2>1. b \in Runs /\ IsActive(run[b])
    BY <1>2 DEF Expires, AdmissionRow, OrNone, CanFinish
  <2>2. ASSUME NEW q \in Runs, q # b PROVE Stays(q)
    BY <1>2, <2>2 DEF ExpiredRun, ExpiredLog, Stays, StoreOK
  <2>3. run'[b].status = "expired"
    BY <1>2, <2>1, MarkFinishedStatus DEF ExpiredRun, StoreOK
  <2>4. log'[b].terminal = Append(log[b].terminal, "expired")
    BY <1>2, <2>1, TerminalLogEvents DEF ExpiredLog, StoreOK
  <2>5. Settles(b)
    BY <2>1, <2>3, <2>4 DEF Settles, IsTerminal, TerminalStatuses
  <2> QED BY <2>2, <2>5 DEF OnlySettles
<1> QED BY <1>1, <1>2

(* A claim leaves its Run in flight.                                       *)
LEMMA MarkStartedStays ==
    ASSUME StoreOK, NEW r \in Runs, NEW d, CanStart(run[r]),
           run' = [run EXCEPT ![r] = MarkStarted(@, d)],
           \A q \in Runs : log'[q].terminal = log[q].terminal
    PROVE  OnlySettles
<1>1. ASSUME NEW q \in Runs, q # r PROVE Stays(q)
  BY <1>1 DEF Stays, StoreOK
<1>2. run'[r].status = "running_model"
  BY DEF StoreOK, MarkStarted, RunRow
<1>3. Stays(r)
  BY <1>2 DEF Stays, CanStart, IsActive, ActiveStatuses
<1> QED BY <1>1, <1>3 DEF OnlySettles

(* A step that only settles keeps both invariants.                         *)
LEMMA OnlySettlesKeeps ==
    ASSUME SafetyInv, TypeInv', OnlySettles
    PROVE  /\ OneTerminalEvent' /\ SingleFlight'
           /\ ActiveRuns(run)' \subseteq ActiveRuns(run)
<1>1. ActiveRuns(run)' \subseteq ActiveRuns(run)
  BY DEF OnlySettles, Stays, Settles, ActiveRuns, IsActive, IsTerminal,
         ActiveStatuses, TerminalStatuses
<1>2. SingleFlight'
  BY <1>1 DEF SafetyInv, SingleFlight
<1>3. ASSUME NEW r \in Runs
      PROVE  log'[r].terminal = IF IsTerminal(run'[r]) THEN <<run'[r].status>>
                                ELSE <<>>
  <2>1. log[r].terminal = IF IsTerminal(run[r]) THEN <<run[r].status>> ELSE <<>>
    BY DEF SafetyInv, OneTerminalEvent
  <2>2. CASE Stays(r)
    BY <2>1, <2>2 DEF Stays, IsTerminal, IsActive, ActiveStatuses, TerminalStatuses
  <2>3. CASE Settles(r)
    <3>1. log[r].terminal = <<>>
      BY <2>1, <2>3 DEF Settles, IsTerminal, IsActive, ActiveStatuses,
                        TerminalStatuses
    <3> QED BY <2>3, <3>1 DEF Settles
  <2> QED BY <2>2, <2>3 DEF OnlySettles
<1> QED BY <1>1, <1>2, <1>3 DEF OneTerminalEvent

(* The steps of a delivery.                                                *)
LEMMA DeliverySettles ==
    ASSUME TypeInv, NEW d \in Deliveries, Delivery(d)
    PROVE  OnlySettles
<1> DEFINE r == del[d].run
<1> USE DEF TypeInv, At
<1>1. CASE \/ Pickup(d) \/ CreateClient(d) \/ Recheck(d) \/ Verify(d) \/ Return(d)
           \/ HandlerThrows(d) \/ Timeout(d) \/ Prepare(d) \/ NativeUnknown(d)
           \/ ProgressLost(d) \/ SettleErrs(d) \/ Salvage(d)
           \/ DispatchAttempt(d) \/ SettleLoses(d)
  <2>1. UNCHANGED <<run, log>>
    BY <1>1 DEF Pickup, CreateClient, Recheck, Verify, Return, HandlerThrows,
         Timeout, Prepare, NativeUnknown, ProgressLost, SettleErrs, Salvage,
         DispatchAttempt, SettleLoses, HandleLostFinish, store
  <2> QED BY <2>1, QuietSettles
<1>2. CASE \/ ToolRequested(d) \/ ToolCompleted(d)
           \/ \E bound \in BOOLEAN : NativeBegin(d, bound)
           \/ \E plan \in StreamPlans : StreamEnds(d, plan)
  <2>1. /\ UNCHANGED run
        /\ \/ \E X : log' = [log EXCEPT ![r] = [log[r] EXCEPT !.open = X]]
           \/ \E X : log' = [log EXCEPT ![r] = [log[r] EXCEPT !.native = X]]
    BY <1>2 DEF ToolRequested, ToolCompleted, NativeBegin, StreamEnds
  <2>2. \A q \in Runs : log'[q].terminal = log[q].terminal
    <3>1. PICK X : \/ log' = [log EXCEPT ![r] = [log[r] EXCEPT !.open = X]]
                   \/ log' = [log EXCEPT ![r] = [log[r] EXCEPT !.native = X]]
      BY <2>1
    <3>2. r \in Runs => /\ [log[r] EXCEPT !.open = X].terminal = log[r].terminal
                        /\ [log[r] EXCEPT !.native = X].terminal = log[r].terminal
      BY LogEditsKeepTerminal DEF StoreOK
    <3> QED BY <3>1, <3>2, LogEdited
  <2> QED BY <2>1, <2>2, QuietSettles
<1>3. CASE Claim(d)
  <2>1. del[d].pc \in LiveSteps
    BY <1>3 DEF Claim, LiveSteps, Steps
  <2>2. r \in Runs
    BY <2>1, LiveHandler
  <2>3. CASE del[d].abort # "no"
    <3>1. del[d].abort \in TerminalStatuses
      BY <2>1, <2>3, LiveHandler DEF TerminalStatuses
    <3>2. FinishUnfenced(r, del[d].abort)
      BY <1>3, <2>3 DEF Claim
    <3> QED BY <2>2, <3>1, <3>2, FinishUnfencedSettles
  <2>4. CASE del[d].abort = "no" /\ CanStart(run[r])
    <3>1. /\ run' = [run EXCEPT ![r] = MarkStarted(@, d)]
          /\ \/ UNCHANGED log
             \/ log' = [log EXCEPT ![r] = [log[r] EXCEPT !.startedBy = d]]
      BY <1>3, <2>4 DEF Claim
    <3>2. \A q \in Runs : log'[q].terminal = log[q].terminal
      <4>1. [log[r] EXCEPT !.startedBy = d].terminal = log[r].terminal
        BY <2>2, LogEditsKeepTerminal DEF StoreOK
      <4> QED BY <3>1, <4>1, LogEdited
    <3> QED BY <2>2, <2>4, <3>1, <3>2, MarkStartedStays
  <2>5. CASE del[d].abort = "no" /\ ~CanStart(run[r])
    <3>1. FinishUnfenced(r, "cancelled") \/ UNCHANGED store
      BY <1>3, <2>5 DEF Claim
    <3> QED BY <2>2, <3>1, FinishUnfencedSettles, QuietSettles
            DEF store, TerminalStatuses
  <2> QED BY <2>3, <2>4, <2>5
<1>4. CASE SettleWins(d)
  <2>1. del[d].pc \in {"settle", "salvage"} /\ del[d].pc \in LiveSteps
    BY <1>4 DEF SettleWins, LiveSteps, Steps
  <2>2. r \in Runs /\ PlanStatus(d) \in TerminalStatuses
    BY <2>1, LiveHandler, PlanFacts
  <2> QED BY <1>4, <2>2, FinishSettles DEF SettleWins
<1> QED BY <1>1, <1>2, <1>3, <1>4 DEF Delivery, WorkerStep, Streaming, Settle

(* Every other step but an acceptance.                                     *)
LEMMA OtherStepsSettle ==
    ASSUME TypeInv,
           \/ \E a \in Actions : AdmitJudge(a)
           \/ AdmitConflict \/ AdmitRefuse \/ Requests \/ Queue
           \/ \E p \in Processes : Crash(p)
    PROVE  OnlySettles
<1> USE DEF TypeInv
<1>1. CASE \/ \E a \in Actions : AdmitJudge(a)
           \/ AdmitConflict
           \/ \E p \in Processes : Crash(p)
  BY <1>1, QuietSettles DEF AdmitJudge, AdmitConflict, Crash, store
<1>2. CASE AdmitRefuse
  BY <1>2, ExpirySettles DEF AdmitRefuse, RequestsOK
<1>3. ASSUME NEW r \in Runs,
             Enqueue(r) \/ EnqueueThrows(r) \/ AbortInProcess(r) \/ HeartbeatLost(r)
      PROVE  OnlySettles
  BY <1>3, QuietSettles
     DEF Enqueue, EnqueueThrows, AbortInProcess, HeartbeatLost, store
<1>4. ASSUME NEW r \in Runs, FailUndispatched(r) \/ DeadLetter(r)
      PROVE  OnlySettles
  <2>1. \/ FinishUnfenced(r, "failed") \/ FinishUnfenced(r, "expired")
        \/ UNCHANGED store
    BY <1>4 DEF FailUndispatched, DeadLetter
  <2> QED BY <2>1, FinishUnfencedSettles, QuietSettles DEF store, TerminalStatuses
<1>5. ASSUME NEW r \in Runs, RequestCancel(r) PROVE OnlySettles
  <2>1. /\ run' = [run EXCEPT ![r] = [run[r] EXCEPT !.cancelRequested = TRUE]]
        /\ UNCHANGED log
    BY <1>5 DEF RequestCancel
  <2>2. \A q \in Runs : run'[q].status = run[q].status
    BY <2>1 DEF StoreOK, RunRow
  <2> QED BY <2>1, <2>2 DEF OnlySettles, Stays
<1>6. ASSUME NEW e \in Deliveries, NEW r \in Runs, NEW p \in Processes,
             Fetch(e, r, p)
      PROVE  OnlySettles
  BY <1>6, QuietSettles DEF Fetch, store
<1> QED BY <1>1, <1>2, <1>3, <1>4, <1>5, <1>6 DEF Requests, Queue

(* What the judgement knows makes the slot free at the commit.             *)
LEMMA SlotIsFree == SafetyInv => ClearedSlotIsFree
<1> SUFFICES ASSUME SafetyInv, adm.phase = "judged", ~Conflict,
                    NEW q \in Runs, IsActive(ExpiredRun[q])
             PROVE  FALSE
  BY DEF ClearedSlotIsFree, ActiveRuns
<1> USE DEF SafetyInv, TypeInv
<1>1. adm.live \in BOOLEAN /\ adm.blocker \in OrNone(Runs)
  BY DEF RequestsOK, AdmissionRow
<1>2. CASE Expires
  <2>1. adm.blocker \in Runs
    BY <1>1, <1>2 DEF Expires, OrNone
  <2>2. ExpiredRun[adm.blocker].status = "expired"
    BY <1>2, <2>1, MarkFinishedStatus DEF ExpiredRun, StoreOK
  <2>3. q # adm.blocker
    BY <2>2 DEF IsActive, ActiveStatuses
  <2>4. q \in ActiveRuns(run)
    BY <1>2, <2>3 DEF ExpiredRun, StoreOK, ActiveRuns
  <2> QED BY <2>3, <2>4 DEF SlotJudged
<1>3. CASE ~Expires
  <2>1. q \in ActiveRuns(run)
    BY <1>3 DEF ExpiredRun, ActiveRuns
  <2>2. q = adm.blocker
    BY <2>1 DEF SlotJudged
  <2>3. adm.live
    BY <1>1, <1>3, <2>1, <2>2, NoneFresh
       DEF Expires, CanFinish, ActiveRuns, OrNone
  <2> QED BY <2>1, <2>3 DEF Conflict
<1> QED BY <1>2, <1>3

(* What an acceptance does to the rows.                                    *)
LEMMA AcceptEffect ==
    ASSUME SafetyInv, NEW r \in Runs, NEW m \in Messages, AdmitAccept(r, m)
    PROVE  /\ \A q \in Runs : ~IsActive(ExpiredRun[q])
           /\ \A q \in Runs \ {r} : run'[q] = ExpiredRun[q]
           /\ run'[r].status = "queued" /\ run[r].status = "absent"
           /\ log' = ExpiredLog /\ reply' = ExpiredReply
<1>1. \A q \in Runs : ~IsActive(ExpiredRun[q])
  BY SlotIsFree DEF AdmitAccept, ClearedSlotIsFree, ActiveRuns
<1>2. Superseded(m) = {}
  BY <1>1 DEF Superseded, ActiveRuns
<1>3. NewRun(m, adm.action).status = "queued"
  BY DEF NewRun, AbsentRun
<1>4. ExpiredLog \in [Runs -> RunLog]
  BY ExpiredTyped DEF SafetyInv, TypeInv, RequestsOK
<1>5. log' = ExpiredLog
  BY <1>2, <1>4 DEF AdmitAccept, CreateRun
<1> QED BY <1>1, <1>2, <1>3, <1>5 DEF AdmitAccept, CreateRun

(* An acceptance settles at most the stuck blocker, as an expiry does.     *)
LEMMA AcceptSettles ==
    ASSUME SafetyInv, NEW r \in Runs, NEW m \in Messages, AdmitAccept(r, m)
    PROVE  /\ \A q \in Runs \ {r} : Stays(q) \/ Settles(q)
           /\ log'[r].terminal = log[r].terminal
           /\ run[r].status = "absent" /\ run'[r].status = "queued"
           /\ \A q \in Runs \ {r} : ~IsActive(run'[q])
<1> USE DEF SafetyInv, TypeInv, RequestsOK
<1>1. CASE ~Expires
  <2>1. ExpiredRun = run /\ ExpiredLog = log
    BY <1>1 DEF ExpiredRun, ExpiredLog
  <2> QED BY <2>1, AcceptEffect DEF Stays
<1>2. CASE Expires
  <2> DEFINE b == adm.blocker
  <2>1. b \in Runs /\ IsActive(run[b])
    BY <1>2 DEF Expires, AdmissionRow, OrNone, CanFinish
  <2>2. b # r
    BY <2>1, AcceptEffect DEF IsActive, ActiveStatuses
  <2>3. \A q \in Runs \ {b} : ExpiredRun[q] = run[q] /\ ExpiredLog[q] = log[q]
    BY <1>2, <2>1 DEF ExpiredRun, ExpiredLog, StoreOK
  <2>4. ExpiredRun[b].status = "expired"
    BY <1>2, <2>1, MarkFinishedStatus DEF ExpiredRun, StoreOK
  <2>5. ExpiredLog[b].terminal = Append(log[b].terminal, "expired")
    BY <1>2, <2>1, TerminalLogEvents DEF ExpiredLog, StoreOK
  <2>6. run'[b] = ExpiredRun[b] /\ log'[b] = ExpiredLog[b]
    BY <2>1, <2>2, AcceptEffect
  <2>7. Settles(b)
    BY <2>1, <2>4, <2>5, <2>6 DEF Settles, IsTerminal, TerminalStatuses
  <2>8. \A q \in Runs \ {b, r} : Stays(q)
    BY <2>3, AcceptEffect DEF Stays
  <2>9. log'[r].terminal = log[r].terminal
    BY <2>2, <2>3, AcceptEffect
  <2> QED BY <2>7, <2>8, <2>9, AcceptEffect
<1> QED BY <1>1, <1>2

(* An acceptance keeps single-flight and one terminal event.               *)
LEMMA AcceptKeeps ==
    ASSUME SafetyInv, NEW r \in Runs, NEW m \in Messages, AdmitAccept(r, m)
    PROVE  OneTerminalEvent' /\ SingleFlight'
<1>1. SingleFlight'
  BY AcceptSettles DEF SingleFlight, ActiveRuns
<1>2. ASSUME NEW q \in Runs
      PROVE  log'[q].terminal = IF IsTerminal(run'[q]) THEN <<run'[q].status>>
                                ELSE <<>>
  <2>1. log[q].terminal = IF IsTerminal(run[q]) THEN <<run[q].status>> ELSE <<>>
    BY DEF SafetyInv, OneTerminalEvent
  <2>2. CASE q = r
    BY <2>1, <2>2, AcceptSettles DEF IsTerminal, TerminalStatuses
  <2>3. CASE q # r /\ Stays(q)
    BY <2>1, <2>3 DEF Stays, IsTerminal, IsActive, ActiveStatuses, TerminalStatuses
  <2>4. CASE q # r /\ Settles(q)
    <3>1. log[q].terminal = <<>>
      BY <2>1, <2>4 DEF Settles, IsTerminal, IsActive, ActiveStatuses,
                        TerminalStatuses
    <3> QED BY <2>4, <3>1 DEF Settles
  <2> QED BY <2>2, <2>3, <2>4, AcceptSettles
<1> QED BY <1>1, <1>2 DEF OneTerminalEvent

-----------------------------------------------------------------------------
(* The reply.  A step keeps the two reply invariants when it starts no     *)
(* reply, moves no Run to another message, settles no Run whose reply      *)
(* stays running, and gives no delivery a live turn or an attempt.         *)

RowsKept ==
    \A r \in Runs :
        IsActive(run'[r]) =>
            IsActive(run[r]) /\ run'[r].message = run[r].message
RepliesKept ==
    \A m \in Messages :
        reply'[m].status = "running" =>
            reply'[m] = reply[m] /\ IsActive(run'[reply[m].run])
TurnsKept ==
    \A d \in Deliveries :
        HasLiveTurn(del'[d]) /\ HoldsAttempt(run'[del'[d].run], d) =>
            /\ HasLiveTurn(del[d]) /\ del'[d].run = del[d].run
            /\ HoldsAttempt(run[del[d].run], d)

(* A handler with a live turn has a Run.                                   *)
LEMMA LiveTurnHasRun ==
    ASSUME HandlersOK, NEW d \in Deliveries, HasLiveTurn(del[d])
    PROVE  del[d].run \in Runs
BY DEF HandlersOK, HandlerRow, DeliveryRow, HasLiveTurn, LiveSteps, Steps

(* The three frame conditions keep the reply invariants.                   *)
LEMMA KeptReplies ==
    ASSUME SafetyInv, TypeInv', RowsKept, RepliesKept, TurnsKept
    PROVE  TerminalRunHasFinalReply' /\ LiveTurnOwnsReply'
<1>1. TerminalRunHasFinalReply'
  <2> SUFFICES ASSUME NEW m \in Messages, reply'[m].status = "running"
               PROVE  /\ reply'[m].run \in ActiveRuns(run')
                      /\ run'[reply'[m].run].message = m
    BY DEF TerminalRunHasFinalReply
  <2>1. reply'[m] = reply[m] /\ IsActive(run'[reply[m].run])
    BY DEF RepliesKept
  <2>2. reply[m].run \in Runs /\ run[reply[m].run].message = m
    BY <2>1 DEF SafetyInv, TerminalRunHasFinalReply, ActiveRuns
  <2> QED BY <2>1, <2>2 DEF RowsKept, ActiveRuns
<1>2. LiveTurnOwnsReply'
  <2> SUFFICES ASSUME NEW d \in Deliveries, NEW m \in Messages,
                      HasLiveTurn(del'[d]), HoldsAttempt(run'[del'[d].run], d),
                      run'[del'[d].run].message = m,
                      reply'[m].status = "running"
               PROVE  reply'[m].attempt = d
    BY DEF LiveTurnOwnsReply, HasLiveTurn, HoldsAttempt
  <2>1. /\ HasLiveTurn(del[d]) /\ del'[d].run = del[d].run
        /\ HoldsAttempt(run[del[d].run], d)
    BY DEF TurnsKept
  <2>2. del[d].run \in Runs
    BY <2>1, LiveTurnHasRun DEF SafetyInv, TypeInv
  <2>3. run[del[d].run].message = m
    BY <2>1, <2>2 DEF RowsKept, HoldsAttempt
  <2>4. reply'[m] = reply[m]
    BY DEF RepliesKept
  <2> QED BY <2>1, <2>3, <2>4 DEF SafetyInv, LiveTurnOwnsReply
<1> QED BY <1>1, <1>2

(* A step that writes no row and no reply meets two of them.               *)
LEMMA QuietReplies ==
    ASSUME SafetyInv, UNCHANGED <<run, reply>>
    PROVE  RowsKept /\ RepliesKept
BY DEF RowsKept, RepliesKept, SafetyInv, TerminalRunHasFinalReply, ActiveRuns

(* A finalized reply is not running.                                       *)
LEMMA FinalNotRunning ==
    ASSUME NEW y \in ReplyRow, NEW r, NEW d, NEW s
    PROVE  LiveReply(r, d, s).status # "running"
           /\ RebuiltReply(y, s).status # "running"
BY TurnStatusTyped DEF LiveReply, RebuiltReply, ReplyRow

(* The terminal transaction finalizes the reply of the Run it settles.     *)
LEMMA FinishReplies ==
    ASSUME SafetyInv, NEW r \in Runs, NEW s \in TerminalStatuses, NEW f,
           NEW live \in BOOLEAN, CanFinish(run[r], f), Finish(r, s, f, live),
           live => /\ f \in Deliveries /\ run[r].activeAttempt = f
                   /\ HasLiveTurn(del[f]) /\ del[f].run = r
    PROVE  RowsKept /\ RepliesKept
<1> DEFINE m == run[r].message
<1>1. StoreOK
  BY DEF SafetyInv, TypeInv
<1>2. \A q \in Runs \ {r} : run'[q] = run[q]
  BY <1>1 DEF Finish, StoreOK
<1>3. run'[r].status = s
  BY <1>1, MarkFinishedStatus DEF Finish, StoreOK
<1>4. RowsKept
  BY <1>2, <1>3 DEF RowsKept, IsActive, ActiveStatuses, TerminalStatuses
<1>5. IsActive(run[r])
  BY DEF CanFinish
<1>6. ASSUME NEW x \in Messages, reply'[x].status = "running"
      PROVE  reply'[x] = reply[x] /\ IsActive(run'[reply[x].run])
  <2>1. CASE x # m
    <3>1. reply'[x] = reply[x]
      BY <1>1, <2>1 DEF Finish, StoreOK
    <3>2. reply[x].run \in Runs \ {r} /\ IsActive(run[reply[x].run])
      BY <1>6, <2>1, <3>1 DEF SafetyInv, TerminalRunHasFinalReply, ActiveRuns
    <3> QED BY <1>2, <3>1, <3>2
  <2>2. CASE x = m
    <3>1. reply'[x] = FinalizeRunReply(reply[x], r, s, f, live)
      BY <1>1, <2>2 DEF Finish, StoreOK
    <3>2. reply[x] \in ReplyRow
      BY <1>1 DEF StoreOK
    <3>3. ~live \/ ~OwnsLiveReply(reply[x], f, TRUE)
      BY <1>6, <3>1, <3>2, FinalNotRunning
         DEF FinalizeRunReply, IsCompletedTurn
    <3>4. live /\ reply'[x] = reply[x] /\ ~OwnsLiveReply(reply[x], f, TRUE)
      BY <1>6, <3>1, <3>2, <3>3, FinalNotRunning
         DEF FinalizeRunReply, IsCompletedTurn
    <3>5. reply[x].attempt = f
      BY <1>5, <1>6, <2>2, <3>4 DEF SafetyInv, LiveTurnOwnsReply, HoldsAttempt
    <3> QED BY <1>6, <3>4, <3>5 DEF OwnsLiveReply, IsCompletedTurn
  <2> QED BY <2>1, <2>2
<1> QED BY <1>4, <1>6 DEF RepliesKept

(* The terminal transaction outside any attempt meets them.                *)
LEMMA FinishUnfencedReplies ==
    ASSUME SafetyInv, NEW r \in Runs, NEW s \in TerminalStatuses,
           FinishUnfenced(r, s)
    PROVE  RowsKept /\ RepliesKept
<1>1. CASE CanFinish(run[r], None)
  BY <1>1, FinishReplies DEF FinishUnfenced
<1>2. CASE ~CanFinish(run[r], None)
  BY <1>2, QuietReplies DEF FinishUnfenced, store
<1> QED BY <1>1, <1>2

(* Attempts and live turns.                                                *)
AttemptsKept ==
    \A r \in Runs, d \in Deliveries :
        HoldsAttempt(run'[r], d) => HoldsAttempt(run[r], d)
HandlersKept ==
    \A d \in Deliveries :
        HasLiveTurn(del'[d]) => HasLiveTurn(del[d]) /\ del'[d].run = del[d].run

(* Kept attempts and handlers keep the live turns.                         *)
LEMMA KeptTurns ==
    ASSUME HandlersOK, AttemptsKept, HandlersKept
    PROVE  TurnsKept
BY LiveTurnHasRun DEF AttemptsKept, HandlersKept, TurnsKept

(* The terminal transaction moves no Run to another attempt.               *)
LEMMA FinishAttempts ==
    ASSUME StoreOK, NEW r \in Runs, NEW s \in TerminalStatuses, NEW f, NEW live,
           Finish(r, s, f, live)
    PROVE  AttemptsKept
<1>1. \A q \in Runs \ {r} : run'[q] = run[q]
  BY DEF Finish, StoreOK
<1>2. run'[r].status = s
  BY MarkFinishedStatus DEF Finish, StoreOK
<1> QED BY <1>1, <1>2
        DEF AttemptsKept, HoldsAttempt, IsActive, ActiveStatuses, TerminalStatuses

(* Nor does it outside any attempt.                                        *)
LEMMA FinishUnfencedAttempts ==
    ASSUME StoreOK, NEW r \in Runs, NEW s \in TerminalStatuses,
           FinishUnfenced(r, s)
    PROVE  AttemptsKept
BY FinishAttempts DEF FinishUnfenced, store, AttemptsKept

(* Which plans carry a live turn.                                          *)
LEMMA LivePlans ==
    ASSUME NEW p \in DOMAIN Plans
    PROVE  /\ Plans[p].live => p \in {"answered", "modelError", "streamAbort",
                                      "toolAbort"}
           /\ Plans[p].err = "salvage" => Plans[p].live
BY PlanNames DEF Plans

(* A step out of the stream starts no live turn.                           *)
LEMMA GotoKept ==
    ASSUME HandlersOK, NEW d \in Deliveries, NEW pc, Goto(d, pc),
           pc \notin {"stream", "salvage", "settle"}
    PROVE  HandlersKept
<1>1. del' = [del EXCEPT ![d] = [del[d] EXCEPT !.pc = pc]]
  BY DEF Goto
<1>2. [del[d] EXCEPT !.pc = pc].pc = pc
  BY DEF HandlersOK, HandlerRow, DeliveryRow
<1> QED BY <1>1, <1>2 DEF HandlersKept, HandlersOK, HasLiveTurn

(* A settlement carries a live turn only out of the stream.                *)
LEMMA SettleByKept ==
    ASSUME HandlersOK, NEW d \in Deliveries, NEW p \in DOMAIN Plans,
           SettleBy(d, p),
           del[d].pc = "stream" \/ p \notin {"answered", "modelError",
                                             "streamAbort", "toolAbort"}
    PROVE  HandlersKept
<1> DEFINE x == [del[d] EXCEPT !.pc = "settle", !.plan = p]
<1>1. del' = [del EXCEPT ![d] = x]
  BY DEF SettleBy
<1>2. x.pc = "settle" /\ x.plan = p /\ x.run = del[d].run
  BY DEF HandlersOK, HandlerRow, DeliveryRow
<1>3. HasLiveTurn(x) => HasLiveTurn(del[d])
  BY <1>2, LivePlans DEF HasLiveTurn
<1> QED BY <1>1, <1>2, <1>3 DEF HandlersKept, HandlersOK

(* An abort starts no live turn.                                           *)
LEMMA AbortKept ==
    ASSUME HandlersOK, NEW d, NEW a, del' = [del EXCEPT ![d].abort = a]
    PROVE  HandlersKept
BY DEF HandlersKept, HandlersOK, HandlerRow, DeliveryRow, HasLiveTurn

(* A handler that returned or died has no live turn.                       *)
LEMMA GoneHasNoTurn == \A pc \in {"done", "dead"} : ~HasLiveTurn(Gone(pc))
BY DEF Gone, Unused, HasLiveTurn

(* The steps of a delivery that write neither row nor reply.               *)
LEMMA QuietSteps ==
    ASSUME SafetyInv, NEW d \in Deliveries,
           \/ Pickup(d) \/ CreateClient(d) \/ Recheck(d) \/ Verify(d) \/ Return(d)
           \/ HandlerThrows(d) \/ Timeout(d) \/ Prepare(d) \/ Streaming(d)
           \/ ProgressLost(d) \/ SettleErrs(d)
    PROVE  UNCHANGED <<run, reply>> /\ HandlersKept
<1>1. HandlersOK
  BY DEF SafetyInv, TypeInv
<1>2. UNCHANGED <<run, reply>>
  BY DEF Pickup, CreateClient, Recheck, Verify, Return, HandlerThrows, Timeout,
         Prepare, Streaming, ToolRequested, ToolCompleted, NativeUnknown,
         NativeBegin, StreamEnds, ProgressLost, SettleErrs, store
<1> SUFFICES HandlersKept
  BY <1>2
<1>3. CASE Pickup(d) \/ Verify(d) \/ Prepare(d)
  BY <1>1, <1>3, GotoKept, SettleByKept, PlanNames DEF Pickup, Verify, Prepare
<1>4. CASE CreateClient(d)
  <2>1. CASE SettleBy(d, "pickupFailure")
    BY <1>1, <2>1, SettleByKept, PlanNames
  <2>2. CASE del' = [del EXCEPT ![d].pc = "recheck", ![d].registered = TRUE]
    BY <1>1, <2>2 DEF HandlersKept, HandlersOK, HandlerRow, DeliveryRow,
                      HasLiveTurn
  <2> QED BY <1>4, <2>1, <2>2 DEF CreateClient
<1>5. CASE Recheck(d)
  <2>1. CASE Goto(d, "claim")
    BY <1>1, <2>1, GotoKept
  <2>2. CASE del' = [del EXCEPT ![d].pc = "settle", ![d].registered = FALSE,
                                ![d].plan = "cancelBeforeStart"]
    <3> DEFINE x == [del[d] EXCEPT !.pc = "settle", !.registered = FALSE,
                                   !.plan = "cancelBeforeStart"]
    <3>1. del' = [del EXCEPT ![d] = x]
      BY <2>2
    <3>2. x.pc = "settle" /\ x.plan = "cancelBeforeStart"
      BY <1>1 DEF HandlersOK, HandlerRow, DeliveryRow
    <3>3. ~HasLiveTurn(x)
      BY <3>2, LivePlans, PlanNames DEF HasLiveTurn
    <3> QED BY <1>1, <3>1, <3>3 DEF HandlersKept, HandlersOK
  <2> QED BY <1>5, <2>1, <2>2 DEF Recheck
<1>6. CASE Return(d)
  BY <1>1, <1>6, GoneHasNoTurn DEF Return, HandlersKept, HandlersOK
<1>7. CASE Timeout(d) \/ NativeUnknown(d)
  BY <1>1, <1>7, AbortKept DEF Timeout, NativeUnknown
<1>8. CASE \/ ToolRequested(d) \/ ToolCompleted(d)
           \/ \E bound \in BOOLEAN : NativeBegin(d, bound)
  BY <1>8 DEF ToolRequested, ToolCompleted, NativeBegin, HandlersKept
<1>9. ASSUME NEW plan \in StreamPlans, StreamEnds(d, plan) PROVE HandlersKept
  BY <1>1, <1>9, SettleByKept, PlanNames DEF StreamEnds, StreamPlans, At
<1>10. CASE ProgressLost(d)
  BY <1>1, <1>10, SettleByKept, PlanNames DEF ProgressLost
<1>12. CASE HandlerThrows(d)
  <2> DEFINE x == [del[d] EXCEPT !.pc = "nack",
                                 !.registered = @ /\ ~At(d, "recheck")]
  <2>1. del' = [del EXCEPT ![d] = x]
    BY <1>12 DEF HandlerThrows
  <2>2. x.pc = "nack"
    BY <1>1 DEF HandlersOK, HandlerRow, DeliveryRow
  <2> QED BY <1>1, <2>1, <2>2 DEF HandlersKept, HandlersOK, HasLiveTurn
<1>11. CASE SettleErrs(d)
  <2>1. del[d].pc = "settle" /\ Goto(d, PlanOf(d).err)
    BY <1>11 DEF SettleErrs, At
  <2>2. del[d].plan \in DOMAIN Plans /\ PlanOf(d).err \in {"nack", "verify", "salvage"}
    BY <1>1, <2>1, PlanFacts DEF HandlersOK, HandlerRow, DeliveryRow
  <2>3. CASE PlanOf(d).err # "salvage"
    BY <1>1, <2>1, <2>2, <2>3, GotoKept
  <2>4. CASE PlanOf(d).err = "salvage"
    <3>1. HasLiveTurn(del[d])
      BY <2>1, <2>2, <2>4, LivePlans DEF HasLiveTurn, PlanOf
    <3>2. del' = [del EXCEPT ![d] = [del[d] EXCEPT !.pc = "salvage"]]
      BY <2>1, <2>4 DEF Goto
    <3>3. [del[d] EXCEPT !.pc = "salvage"].run = del[d].run
      BY <1>1 DEF HandlersOK, HandlerRow, DeliveryRow
    <3> QED BY <1>1, <3>1, <3>2, <3>3 DEF HandlersKept, HandlersOK
  <2> QED BY <2>3, <2>4
<1> QED BY <1>3, <1>4, <1>5, <1>6, <1>7, <1>8, <1>9, <1>10, <1>11, <1>12
        DEF Streaming

(* The claim: a Run's new attempt belongs to a delivery with no live turn. *)
LEMMA ClaimReplies ==
    ASSUME SafetyInv, NEW d \in Deliveries, Claim(d)
    PROVE  RowsKept /\ RepliesKept /\ TurnsKept
<1> DEFINE r == del[d].run
<1>1. HandlersOK /\ StoreOK
  BY DEF SafetyInv, TypeInv
<1>2. del[d].pc \in LiveSteps /\ At(d, "claim")
  BY DEF Claim, At, LiveSteps, Steps
<1>3. r \in Runs
  BY <1>1, <1>2, LiveHandler
<1>4. HandlersKept
  BY <1>1, <1>2, GotoKept, SettleByKept, PlanNames DEF Claim
<1>5. CASE del[d].abort # "no"
  <2>1. del[d].abort \in TerminalStatuses
    BY <1>1, <1>2, <1>5, LiveHandler DEF TerminalStatuses
  <2>2. FinishUnfenced(r, del[d].abort)
    BY <1>5 DEF Claim
  <2> QED BY <1>1, <1>3, <1>4, <2>1, <2>2, FinishUnfencedReplies,
             FinishUnfencedAttempts, KeptTurns
<1>6. CASE del[d].abort = "no" /\ CanStart(run[r])
  <2>1. run' = [run EXCEPT ![r] = MarkStarted(@, d)] /\ UNCHANGED reply
    BY <1>6 DEF Claim
  <2>2. /\ run'[r].status = "running_model" /\ run'[r].activeAttempt = d
        /\ run'[r].message = run[r].message
    BY <1>1, <1>3, <2>1 DEF StoreOK, MarkStarted, RunRow
  <2>3. \A q \in Runs \ {r} : run'[q] = run[q]
    BY <1>1, <1>3, <2>1 DEF StoreOK
  <2>4. RowsKept
    BY <1>6, <2>2, <2>3 DEF RowsKept, CanStart
  <2>5. RepliesKept
    BY <2>1, <2>2, <2>3 DEF RepliesKept, SafetyInv, TerminalRunHasFinalReply,
                            ActiveRuns, IsActive, ActiveStatuses
  <2>6. ~HasLiveTurn(del[d])
    BY <1>2 DEF HasLiveTurn, At
  <2>7. TurnsKept
    <3> SUFFICES ASSUME NEW e \in Deliveries, HasLiveTurn(del'[e]),
                        HoldsAttempt(run'[del'[e].run], e)
                 PROVE  /\ HasLiveTurn(del[e]) /\ del'[e].run = del[e].run
                        /\ HoldsAttempt(run[del[e].run], e)
      BY DEF TurnsKept
    <3>1. HasLiveTurn(del[e]) /\ del'[e].run = del[e].run
      BY <1>4 DEF HandlersKept
    <3>2. e # d /\ del[e].run \in Runs
      BY <1>1, <2>6, <3>1, LiveTurnHasRun
    <3>3. del[e].run # r
      BY <2>2, <3>1, <3>2 DEF HoldsAttempt
    <3> QED BY <2>3, <3>1, <3>2, <3>3
  <2> QED BY <2>4, <2>5, <2>7
<1>7. CASE del[d].abort = "no" /\ ~CanStart(run[r])
  <2>1. FinishUnfenced(r, "cancelled") \/ UNCHANGED store
    BY <1>7 DEF Claim
  <2>2. CASE FinishUnfenced(r, "cancelled")
    BY <1>1, <1>3, <1>4, <2>2, FinishUnfencedReplies, FinishUnfencedAttempts,
       KeptTurns DEF TerminalStatuses
  <2>3. CASE UNCHANGED store
    BY <1>1, <1>4, <2>3, QuietReplies, KeptTurns DEF store, AttemptsKept
  <2> QED BY <2>1, <2>2, <2>3
<1> QED BY <1>5, <1>6, <1>7

(* The dispatch: the only step that starts a reply, and only for the       *)
(* attempt that holds the Run.                                             *)
LEMMA DispatchReplies ==
    ASSUME SafetyInv, TypeInv', NEW d \in Deliveries, DispatchAttempt(d)
    PROVE  TerminalRunHasFinalReply' /\ LiveTurnOwnsReply'
<1> DEFINE r == del[d].run
           m == run[r].message
<1>1. HandlersOK /\ StoreOK
  BY DEF SafetyInv, TypeInv
<1>2. del[d].pc \in LiveSteps
  BY DEF DispatchAttempt, At, LiveSteps, Steps
<1>3. r \in Runs
  BY <1>1, <1>2, LiveHandler
<1>4. CASE UNCHANGED reply /\ (Goto(d, "ack") \/ SettleBy(d, "replyCompleted"))
  <2>1. HandlersKept
    BY <1>1, <1>4, GotoKept, SettleByKept, PlanNames
  <2>2. UNCHANGED run
    BY DEF DispatchAttempt
  <2>3. TurnsKept
    BY <1>1, <2>1, <2>2, KeptTurns DEF AttemptsKept
  <2> QED BY <1>4, <2>2, <2>3, QuietReplies, KeptReplies
<1>5. CASE /\ HoldsAttempt(run[r], d) /\ Goto(d, "stream")
           /\ reply' = [reply EXCEPT ![m] = RunningReply(r, d)]
  <2>1. UNCHANGED run
    BY DEF DispatchAttempt
  <2>2. \A x \in Messages :
           reply'[x] = IF x = m THEN RunningReply(r, d) ELSE reply[x]
    BY <1>1, <1>5 DEF StoreOK
  <2>3. RunningReply(r, d).run = r /\ RunningReply(r, d).attempt = d
    BY DEF RunningReply
  <2>4. TerminalRunHasFinalReply'
    BY <1>3, <1>5, <2>1, <2>2, <2>3
       DEF TerminalRunHasFinalReply, SafetyInv, ActiveRuns, HoldsAttempt
  <2>5. \A e \in Deliveries \ {d} : del'[e] = del[e]
    BY <1>1, <1>5 DEF Goto, HandlersOK
  <2>6. LiveTurnOwnsReply'
    <3> SUFFICES ASSUME NEW e \in Deliveries, NEW x \in Messages,
                        HasLiveTurn(del'[e]), HoldsAttempt(run[del'[e].run], e),
                        run[del'[e].run].message = x,
                        reply'[x].status = "running"
                 PROVE  reply'[x].attempt = e
      BY <2>1 DEF LiveTurnOwnsReply, HasLiveTurn, HoldsAttempt
    <3>1. del'[e].run \in Runs /\ IsActive(run[del'[e].run])
      BY LiveTurnHasRun, TypeInv' DEF TypeInv, HoldsAttempt, HandlersOK, HandlerRow,
                             DeliveryRow, HasLiveTurn, LiveSteps, Steps
    <3>2. del'[e].run = r
      BY <1>3, <1>5, <3>1 DEF SafetyInv, SingleFlight, ActiveRuns, HoldsAttempt
    <3>3. e = d /\ x = m
      BY <1>5, <3>2 DEF HoldsAttempt
    <3> QED BY <2>2, <2>3, <3>3
  <2> QED BY <2>4, <2>6
<1> QED BY <1>4, <1>5 DEF DispatchAttempt

(* The settle and the salvage.                                             *)
LEMMA PersistedNotRunning ==
    ASSUME NEW y \in ReplyRow, NEW r, NEW d, NEW s, NEW w,
           PersistAttemptTurn(y, r, d, s, w).status = "running"
    PROVE  PersistAttemptTurn(y, r, d, s, w) = y
BY FinalNotRunning DEF PersistAttemptTurn

(* The settle and the salvage meet the frame conditions.                   *)
LEMMA SettleReplies ==
    ASSUME SafetyInv, NEW d \in Deliveries,
           SettleWins(d) \/ SettleLoses(d) \/ Salvage(d)
    PROVE  RowsKept /\ RepliesKept /\ TurnsKept
<1> DEFINE r == del[d].run
           m == run[r].message
<1>1. HandlersOK /\ StoreOK
  BY DEF SafetyInv, TypeInv
<1>2. del[d].pc \in {"settle", "salvage"} /\ del[d].pc \in LiveSteps
  BY DEF SettleWins, SettleLoses, Salvage, At, LiveSteps, Steps
<1>3. r \in Runs /\ del[d].plan \in DOMAIN Plans
  BY <1>1, <1>2, LiveHandler
<1>4. HandlersKept
  BY <1>1, <1>2, PlanFacts, GotoKept, SettleByKept, PlanNames
     DEF SettleWins, SettleLoses, Salvage
<1>5. CASE SettleWins(d)
  <2>1. PlanStatus(d) \in TerminalStatuses
    BY <1>1, <1>2, PlanFacts
  <2>2. PlanOf(d).live \in BOOLEAN
    BY <1>3, PlansTyped DEF PlanOf, PlanRow
  <2>3. PlanOf(d).live => PlanOf(d).fenced
    BY <1>3, PlanNames DEF PlanOf, Plans
  <2>4. PlanOf(d).live =>
           /\ Fence(d) = d /\ run[r].activeAttempt = d /\ HasLiveTurn(del[d])
    <3> SUFFICES ASSUME PlanOf(d).live
                 PROVE  /\ Fence(d) = d /\ run[r].activeAttempt = d
                        /\ HasLiveTurn(del[d])
      OBVIOUS
    <3>1. Fence(d) = d
      BY <2>3 DEF Fence
    <3>2. HasLiveTurn(del[d])
      BY <1>5 DEF SettleWins, At, HasLiveTurn, PlanOf
    <3>3. d # None
      BY NoneFresh
    <3> QED BY <1>5, <3>1, <3>2, <3>3 DEF SettleWins, CanFinish
  <2>5. RowsKept /\ RepliesKept
    BY <1>3, <1>5, <2>1, <2>2, <2>4, FinishReplies DEF SettleWins
  <2>6. AttemptsKept
    BY <1>1, <1>3, <1>5, <2>1, FinishAttempts DEF SettleWins
  <2> QED BY <1>1, <1>4, <2>5, <2>6, KeptTurns
<1>6. CASE SettleLoses(d) \/ Salvage(d)
  <2>1. UNCHANGED run
    BY <1>6 DEF SettleLoses, Salvage, HandleLostFinish
  <2>2. \E s, w : \/ UNCHANGED reply
                  \/ reply' = [reply EXCEPT ![m] = PersistAttemptTurn(@, r, d, s, w)]
    <3>1. CASE SettleLoses(d)
      BY <1>1, <3>1 DEF SettleLoses, HandleLostFinish, StoreOK
    <3>2. CASE Salvage(d)
      BY <3>2 DEF Salvage
    <3> QED BY <1>6, <3>1, <3>2
  <2>3. ASSUME NEW x \in Messages, reply'[x].status = "running"
        PROVE  reply'[x] = reply[x]
    BY <1>1, <2>2, <2>3, PersistedNotRunning DEF StoreOK
  <2>4. RowsKept /\ RepliesKept
    BY <2>1, <2>3 DEF RowsKept, RepliesKept, SafetyInv,
                      TerminalRunHasFinalReply, ActiveRuns
  <2> QED BY <1>1, <1>4, <2>1, <2>4, KeptTurns DEF AttemptsKept
<1> QED BY <1>5, <1>6

(* The expiry that admission makes.                                        *)
LEMMA ExpiredReplies ==
    ASSUME SafetyInv, NEW m \in Messages, ExpiredReply[m].status = "running"
    PROVE  ExpiredReply[m] = reply[m] /\ IsActive(ExpiredRun[reply[m].run])
<1>1. StoreOK /\ adm \in AdmissionRow
  BY DEF SafetyInv, TypeInv, RequestsOK
<1>2. CASE ~Expires
  BY <1>2 DEF ExpiredReply, ExpiredRun, SafetyInv, TerminalRunHasFinalReply,
              ActiveRuns
<1>3. CASE Expires
  <2> DEFINE b == adm.blocker
  <2>1. b \in Runs /\ IsActive(run[b])
    BY <1>1, <1>3 DEF Expires, AdmissionRow, OrNone, CanFinish
  <2>2. CASE run[b].message = m
    <3>1. ExpiredReply[m] = FinalizeRunReply(reply[m], b, "expired", None, FALSE)
      BY <1>1, <1>3, <2>2 DEF ExpiredReply, StoreOK
    <3>2. reply[m] \in ReplyRow
      BY <1>1 DEF StoreOK
    <3> QED BY <3>1, <3>2, FinalNotRunning DEF FinalizeRunReply, IsCompletedTurn
  <2>3. CASE run[b].message # m
    <3>1. ExpiredReply[m] = reply[m]
      BY <1>1, <1>3, <2>3 DEF ExpiredReply, StoreOK
    <3>2. /\ reply[m].run \in Runs /\ IsActive(run[reply[m].run])
          /\ run[reply[m].run].message = m
      BY <3>1 DEF SafetyInv, TerminalRunHasFinalReply, ActiveRuns
    <3>3. ExpiredRun[reply[m].run] = run[reply[m].run]
      BY <1>1, <1>3, <2>3, <3>2 DEF ExpiredRun, StoreOK
    <3> QED BY <3>1, <3>2, <3>3
  <2> QED BY <2>2, <2>3
<1> QED BY <1>2, <1>3

(* So does a refused follow-up, which commits its expiry.                  *)
LEMMA RefuseReplies ==
    ASSUME SafetyInv, AdmitRefuse
    PROVE  RowsKept /\ RepliesKept /\ TurnsKept
<1>1. StoreOK /\ HandlersOK /\ adm \in AdmissionRow
  BY DEF SafetyInv, TypeInv, RequestsOK
<1>2. RepliesKept
  BY ExpiredReplies DEF AdmitRefuse, RepliesKept
<1>3. ASSUME NEW q \in Runs, IsActive(run'[q]) PROVE run'[q] = run[q]
  <2>1. run'[q] = ExpiredRun[q]
    BY DEF AdmitRefuse
  <2>2. CASE ~Expires
    BY <2>1, <2>2 DEF ExpiredRun
  <2>3. CASE Expires /\ q = adm.blocker
    <3>1. ExpiredRun[q].status = "expired"
      BY <1>1, <2>3, MarkFinishedStatus DEF ExpiredRun, StoreOK
    <3> QED BY <1>3, <2>1, <3>1 DEF IsActive, ActiveStatuses
  <2>4. CASE Expires /\ q # adm.blocker
    BY <1>1, <2>1, <2>4 DEF ExpiredRun, StoreOK
  <2> QED BY <2>2, <2>3, <2>4
<1>4. RowsKept /\ AttemptsKept
  BY <1>3 DEF RowsKept, AttemptsKept, HoldsAttempt
<1>5. HandlersKept
  BY DEF AdmitRefuse, HandlersKept
<1> QED BY <1>1, <1>2, <1>4, <1>5, KeptTurns

(* An acceptance keeps the reply invariants.                               *)
LEMMA AcceptReplies ==
    ASSUME SafetyInv, TypeInv', NEW r \in Runs, NEW m \in Messages,
           AdmitAccept(r, m)
    PROVE  TerminalRunHasFinalReply' /\ LiveTurnOwnsReply'
<1>1. ASSUME NEW x \in Messages PROVE reply'[x].status # "running"
  <2> SUFFICES ASSUME reply'[x].status = "running" PROVE FALSE
    OBVIOUS
  <2>1. ExpiredReply[x] = reply[x] /\ IsActive(ExpiredRun[reply[x].run])
    BY AcceptEffect, ExpiredReplies
  <2>2. reply[x].run \in Runs
    BY <2>1, AcceptEffect DEF SafetyInv, TerminalRunHasFinalReply, ActiveRuns
  <2> QED BY <2>1, <2>2, AcceptEffect
<1> QED BY <1>1 DEF TerminalRunHasFinalReply, LiveTurnOwnsReply

(* Every other step meets the frame conditions.                            *)
LEMMA OtherReplies ==
    ASSUME SafetyInv,
           \/ \E a \in Actions : AdmitJudge(a)
           \/ AdmitConflict \/ AdmitRefuse \/ Requests \/ Queue
           \/ \E p \in Processes : Crash(p)
    PROVE  RowsKept /\ RepliesKept /\ TurnsKept
<1>1. HandlersOK /\ StoreOK /\ RegistryOK
  BY DEF SafetyInv, TypeInv
<1>2. ASSUME UNCHANGED <<run, reply>>, HandlersKept
      PROVE  RowsKept /\ RepliesKept /\ TurnsKept
  BY <1>1, <1>2, QuietReplies, KeptTurns DEF AttemptsKept
<1>3. CASE (\E a \in Actions : AdmitJudge(a)) \/ AdmitConflict
  BY <1>2, <1>3 DEF AdmitJudge, AdmitConflict, store, HandlersKept
<1>4. CASE AdmitRefuse
  BY <1>4, RefuseReplies
<1>5. ASSUME NEW r \in Runs, Enqueue(r) \/ EnqueueThrows(r) \/ HeartbeatLost(r)
      PROVE  RowsKept /\ RepliesKept /\ TurnsKept
  BY <1>2, <1>5 DEF Enqueue, EnqueueThrows, HeartbeatLost, store, HandlersKept
<1>6. ASSUME NEW r \in Runs, AbortInProcess(r)
      PROVE  RowsKept /\ RepliesKept /\ TurnsKept
  <2>1. HandlersKept
    BY <1>1, <1>6, AbortKept DEF AbortInProcess, HandlersKept
  <2> QED BY <1>2, <1>6, <2>1 DEF AbortInProcess, store
<1>7. ASSUME NEW r \in Runs, FailUndispatched(r) \/ DeadLetter(r)
      PROVE  RowsKept /\ RepliesKept /\ TurnsKept
  <2>1. HandlersKept
    BY <1>7 DEF FailUndispatched, DeadLetter, HandlersKept
  <2>2. PICK s \in TerminalStatuses : FinishUnfenced(r, s) \/ UNCHANGED store
    BY <1>7 DEF FailUndispatched, DeadLetter, TerminalStatuses
  <2>3. CASE UNCHANGED store
    BY <1>2, <2>1, <2>3 DEF store
  <2>4. CASE FinishUnfenced(r, s)
    BY <1>1, <2>1, <2>4, FinishUnfencedReplies, FinishUnfencedAttempts, KeptTurns
  <2> QED BY <2>2, <2>3, <2>4
<1>8. ASSUME NEW r \in Runs, RequestCancel(r)
      PROVE  RowsKept /\ RepliesKept /\ TurnsKept
  <2>1. /\ run' = [run EXCEPT ![r] = [run[r] EXCEPT !.cancelRequested = TRUE]]
        /\ UNCHANGED <<reply, del>>
    BY <1>8 DEF RequestCancel
  <2>2. \A q \in Runs : /\ run'[q].status = run[q].status
                        /\ run'[q].message = run[q].message
                        /\ run'[q].activeAttempt = run[q].activeAttempt
    BY <1>1, <2>1 DEF StoreOK, RunRow
  <2>3. RowsKept /\ RepliesKept
    BY <2>1, <2>2 DEF RowsKept, RepliesKept, IsActive, SafetyInv,
                      TerminalRunHasFinalReply, ActiveRuns
  <2>4. AttemptsKept /\ HandlersKept
    BY <2>1, <2>2 DEF AttemptsKept, HandlersKept, HoldsAttempt, IsActive
  <2> QED BY <1>1, <2>3, <2>4, KeptTurns
<1>9. ASSUME NEW d \in Deliveries, NEW r \in Runs, NEW p \in Processes,
             Fetch(d, r, p)
      PROVE  RowsKept /\ RepliesKept /\ TurnsKept
  <2> DEFINE x == [del[d] EXCEPT !.pc = "pickup", !.run = r, !.process = p]
  <2>1. del' = [del EXCEPT ![d] = x]
    BY <1>9 DEF Fetch
  <2>2. x.pc = "pickup"
    BY <1>1 DEF HandlersOK, HandlerRow, DeliveryRow
  <2>3. HandlersKept
    BY <1>1, <2>1, <2>2 DEF HandlersKept, HandlersOK, HasLiveTurn
  <2> QED BY <1>2, <1>9, <2>3 DEF Fetch, store
<1>10. ASSUME NEW p \in Processes, Crash(p)
       PROVE  RowsKept /\ RepliesKept /\ TurnsKept
  <2>1. HandlersKept
    BY <1>10, GoneHasNoTurn DEF Crash, HandlersKept
  <2> QED BY <1>2, <1>10, <2>1 DEF Crash, store
<1> QED BY <1>3, <1>4, <1>5, <1>6, <1>7, <1>8, <1>9, <1>10 DEF Requests, Queue

-----------------------------------------------------------------------------
(* The induction.                                                          *)

(* The judgement records the blocker it saw.                               *)
LEMMA JudgeSlot ==
    ASSUME SafetyInv, NEW a \in Actions, AdmitJudge(a)
    PROVE  SlotJudged'
<1>1. UNCHANGED run
  BY DEF AdmitJudge, store
<1>2. ActiveRuns(run) \subseteq {adm'.blocker}
  BY DEF AdmitJudge, SafetyInv, SingleFlight
<1> QED BY <1>1, <1>2 DEF SlotJudged, ActiveRuns

(* No other step changes a judgement but to end it.                        *)
LEMMA OtherStepsKeepJudgement ==
    ASSUME Next, ~\E a \in Actions : AdmitJudge(a)
    PROVE  adm' = adm \/ adm' = Idle
<1>1. ASSUME NEW d \in Deliveries, Delivery(d) PROVE adm' = adm
  BY <1>1 DEF Delivery, WorkerStep, Streaming, Settle, Pickup, CreateClient,
     Recheck, Claim, Prepare, DispatchAttempt, SettleWins, SettleLoses,
     SettleErrs, Salvage, Verify, Return, HandlerThrows, Timeout, ToolRequested,
     ToolCompleted, NativeUnknown, NativeBegin, StreamEnds, ProgressLost, requests
<1>2. CASE Requests \/ Queue
  BY <1>2 DEF Requests, Queue, Enqueue, EnqueueThrows, FailUndispatched,
     RequestCancel, AbortInProcess, Fetch, HeartbeatLost, DeadLetter, requests
<1>3. CASE Admission
  BY <1>3 DEF Admission, AdmitConflict, AdmitRefuse, AdmitAccept
<1>4. CASE \E p \in Processes : Crash(p)
  BY <1>4 DEF Crash
<1> QED BY <1>1, <1>2, <1>3, <1>4 DEF Next

(* The initial states are safe.                                            *)
LEMMA InitSafe == Init => SafetyInv
<1> SUFFICES ASSUME Init PROVE SafetyInv
  OBVIOUS
<1>1. \A r \in Runs : ~IsActive(run[r]) /\ ~IsTerminal(run[r])
  BY DEF Init, AbsentRun, IsActive, IsTerminal, ActiveStatuses, TerminalStatuses
<1>2. \A r \in Runs : log[r].terminal = <<>>
  BY DEF Init, EmptyLog
<1>3. \A m \in Messages : reply[m].status # "running"
  BY DEF Init, NoReply
<1>4. adm.phase # "judged"
  BY DEF Init, Idle
<1> QED BY <1>1, <1>2, <1>3, <1>4, InitTyped
        DEF SafetyInv, OneTerminalEvent, SingleFlight, ActiveRuns, SlotJudged,
            TerminalRunHasFinalReply, LiveTurnOwnsReply

(* Every step of the pipeline keeps the invariant.                         *)
LEMMA StepSafe == SafetyInv /\ [Next]_vars => SafetyInv'
<1> SUFFICES ASSUME SafetyInv, [Next]_vars PROVE SafetyInv'
  OBVIOUS
<1>1. TypeInv'
  BY StepTyped DEF SafetyInv
<1>2. CASE UNCHANGED vars
  BY <1>1, <1>2
     DEF vars, SafetyInv, OneTerminalEvent, SingleFlight, ActiveRuns, SlotJudged,
         TerminalRunHasFinalReply, LiveTurnOwnsReply, IsActive, IsTerminal,
         HoldsAttempt, HasLiveTurn
<1>3. ASSUME Next, NEW r \in Runs, NEW m \in Messages, AdmitAccept(r, m)
      PROVE  SafetyInv'
  <2>1. SlotJudged'
    BY <1>3 DEF AdmitAccept, Idle, SlotJudged
  <2> QED BY <1>1, <1>3, <2>1, AcceptKeeps, AcceptReplies DEF SafetyInv
<1>4. ASSUME Next, OnlySettles,
             TerminalRunHasFinalReply', LiveTurnOwnsReply'
      PROVE  SafetyInv'
  <2>1. OneTerminalEvent' /\ SingleFlight' /\ ActiveRuns(run') \subseteq ActiveRuns(run)
    BY <1>1, <1>4, OnlySettlesKeeps DEF ActiveRuns
  <2>2. SlotJudged'
    <3>1. CASE \E a \in Actions : AdmitJudge(a)
      BY <3>1, JudgeSlot
    <3>2. CASE ~\E a \in Actions : AdmitJudge(a)
      <4>1. adm' = adm \/ adm' = Idle
        BY <1>4, <3>2, OtherStepsKeepJudgement
      <4> QED BY <2>1, <4>1 DEF SafetyInv, SlotJudged, Idle, ActiveRuns
    <3> QED BY <3>1, <3>2
  <2> QED BY <1>1, <1>4, <2>1, <2>2 DEF SafetyInv
<1>5. ASSUME Next, NEW d \in Deliveries, Delivery(d) PROVE SafetyInv'
  <2>1. OnlySettles
    BY <1>5, DeliverySettles DEF SafetyInv
  <2>2. CASE DispatchAttempt(d)
    BY <1>1, <1>4, <1>5, <2>1, <2>2, DispatchReplies
  <2>3. CASE ~DispatchAttempt(d)
    <3>1. RowsKept /\ RepliesKept /\ TurnsKept
      <4>1. CASE \/ Pickup(d) \/ CreateClient(d) \/ Recheck(d) \/ Verify(d)
                 \/ Return(d) \/ HandlerThrows(d) \/ Timeout(d) \/ Prepare(d)
                 \/ Streaming(d) \/ ProgressLost(d) \/ SettleErrs(d)
        <5>1. UNCHANGED <<run, reply>> /\ HandlersKept
          BY <4>1, QuietSteps
        <5>2. TurnsKept
          BY <5>1, KeptTurns DEF SafetyInv, TypeInv, AttemptsKept
        <5> QED BY <5>1, <5>2, QuietReplies
      <4>2. CASE Claim(d)
        BY <4>2, ClaimReplies
      <4>3. CASE SettleWins(d) \/ SettleLoses(d) \/ Salvage(d)
        BY <4>3, SettleReplies
      <4> QED BY <1>5, <2>3, <4>1, <4>2, <4>3 DEF Delivery, WorkerStep, Settle
    <3> QED BY <1>1, <1>4, <1>5, <2>1, <3>1, KeptReplies
  <2> QED BY <2>2, <2>3
<1>6. ASSUME Next,
             \/ \E a \in Actions : AdmitJudge(a)
             \/ AdmitConflict \/ AdmitRefuse \/ Requests \/ Queue
             \/ \E p \in Processes : Crash(p)
      PROVE  SafetyInv'
  <2>1. OnlySettles
    BY <1>6, OtherStepsSettle DEF SafetyInv
  <2> QED BY <1>1, <1>4, <1>6, <2>1, OtherReplies, KeptReplies
<1> QED BY <1>2, <1>3, <1>5, <1>6 DEF Next, Admission

(* The inductive invariant of the pipeline holds in every state.           *)
THEOREM SafetyInvariant == Spec => []SafetyInv
BY InitSafe, StepSafe, PTL DEF Spec

(* One Run of a Chat is in flight at a time, however admissions, retries,  *)
(* dead letters and crashes interleave.                                    *)
THEOREM SingleFlightHolds == Spec => []SingleFlight
BY SafetyInvariant, PTL DEF SafetyInv

(* When createRunForMessage runs, clearActiveRunSlot has left nothing in   *)
(* flight: its cancellation of stale Runs never finds one.                 *)
THEOREM ClearedSlotIsFreeHolds == Spec => []ClearedSlotIsFree
BY SafetyInvariant, SlotIsFree, PTL

(* No terminal Run is visible with a reply that is still running.          *)
THEOREM FinalReplyHolds == Spec => []TerminalRunHasFinalReply
BY SafetyInvariant, PTL DEF SafetyInv

-----------------------------------------------------------------------------
(* Refinement.                                                             *)

(* What a Run does in a settling step is a contract step.                  *)
LEMMA SettlesIsContractStep ==
    ASSUME SafetyInv, NEW r \in Runs, Stays(r) \/ Settles(r)
    PROVE  \/ /\ Phase(run'[r]) = Phase(run[r])
              /\ log'[r].terminal = log[r].terminal
           \/ /\ Phase(run[r]) = "inflight" /\ Phase(run'[r]) \in TerminalStatuses
              /\ log[r].terminal = <<>>
              /\ log'[r].terminal = <<Phase(run'[r])>>
<1>1. CASE Stays(r)
  BY <1>1 DEF Stays, Phase, IsActive
<1>2. CASE Settles(r)
  <2>1. log[r].terminal = <<>>
    BY <1>2 DEF Settles, SafetyInv, OneTerminalEvent, IsTerminal, IsActive,
                ActiveStatuses, TerminalStatuses
  <2>2. Phase(run[r]) = "inflight" /\ Phase(run'[r]) = run'[r].status
    BY <1>2 DEF Settles, Phase, IsTerminal, IsActive, ActiveStatuses,
                TerminalStatuses
  <2> QED BY <1>2, <2>1, <2>2 DEF Settles, IsTerminal
<1> QED BY <1>1, <1>2

(* Initial states map to initial states of the contract.                   *)
LEMMA ContractInit == Init => Contract!Init
BY DEF Init, Contract!Init, Phase, AbsentRun, EmptyLog, IsActive, ActiveStatuses

(* Every step maps to a step of the contract or a stutter.                 *)
LEMMA ContractStep ==
    ASSUME SafetyInv, SafetyInv', [Next]_vars
    PROVE  [Contract!Next]_(<<[r \in Runs |-> Phase(run[r])],
                              [r \in Runs |-> log[r].terminal]>>)
<1>1. CASE UNCHANGED vars
  BY <1>1 DEF vars, Phase, IsActive
<1>2. CASE Next
  <2>1. \A q, r \in Runs : Phase(run'[q]) = "inflight" /\ Phase(run'[r]) = "inflight"
                              => q = r
    <3>1. \A q \in Runs : Phase(run'[q]) = "inflight" => IsActive(run'[q])
      BY DEF SafetyInv, TypeInv, StoreOK, RunRow, Phase, ActiveStatuses,
             TerminalStatuses
    <3> QED BY <3>1 DEF SafetyInv, SingleFlight, ActiveRuns
  <2>2. ASSUME NEW r \in Runs
        PROVE  \/ /\ Phase(run'[r]) = Phase(run[r])
                  /\ log'[r].terminal = log[r].terminal
               \/ /\ Phase(run[r]) = "absent" /\ Phase(run'[r]) = "inflight"
                  /\ log'[r].terminal = log[r].terminal
               \/ /\ Phase(run[r]) = "inflight"
                  /\ Phase(run'[r]) \in TerminalStatuses
                  /\ log[r].terminal = <<>>
                  /\ log'[r].terminal = <<Phase(run'[r])>>
    <3>1. CASE \E q \in Runs, m \in Messages : AdmitAccept(q, m)
      <4>1. PICK q \in Runs, m \in Messages : AdmitAccept(q, m)
        BY <3>1
      <4>2. CASE r = q
        BY <4>1, <4>2, AcceptSettles DEF Phase, IsActive, ActiveStatuses
      <4>3. CASE r # q
        BY <4>1, <4>3, AcceptSettles, SettlesIsContractStep
      <4> QED BY <4>2, <4>3
    <3>2. CASE ~\E q \in Runs, m \in Messages : AdmitAccept(q, m)
      <4>1. OnlySettles
        BY <1>2, <3>2, DeliverySettles, OtherStepsSettle
           DEF Next, Admission, SafetyInv
      <4> QED BY <4>1, SettlesIsContractStep DEF OnlySettles
    <3> QED BY <3>1, <3>2
  <2> QED BY <2>1, <2>2
          DEF Contract!Next, Contract!Keep, Contract!Accept, Contract!Settle
<1> QED BY <1>1, <1>2

(* The pipeline implements the durable-run contract: every Run settles     *)
(* exactly once, its terminal event is published with that state, nothing  *)
(* changes afterwards, and the Chat has one Run in flight.                 *)
THEOREM ContractHolds == Spec => KeepsDurableRunContract
<1>1. SafetyInv /\ SafetyInv' /\ [Next]_vars
        => [Contract!Next]_(<<[r \in Runs |-> Phase(run[r])],
                              [r \in Runs |-> log[r].terminal]>>)
  BY ContractStep
<1> QED BY <1>1, ContractInit, SafetyInvariant, PTL
        DEF Spec, KeepsDurableRunContract, Contract!Spec
=============================================================================
