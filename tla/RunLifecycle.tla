---------------------------- MODULE RunLifecycle ----------------------------
(***************************************************************************)
(* The durable Run pipeline of one Chat: admission of a message or a       *)
(* follow-up, dispatch onto the `runs` queue, the worker's executeJob and  *)
(* executeRun for every delivery of that job, cancellation, the dead       *)
(* letter, process crashes and failed transactions.                        *)
(*                                                                         *)
(* Each action is one database transaction, one queue transition or one    *)
(* in-memory step between two awaits, so deliveries of the same Run (a     *)
(* paused worker and its replacement), the cancel endpoint, admission and  *)
(* the dead-letter handler interleave at every point the code yields.      *)
(***************************************************************************)
EXTENDS RunStore

CONSTANTS
    Processes,   \* operating-system processes that consume the queue
    Api,         \* the process that serves the HTTP API (may also consume)
    RetryLimit,  \* the queue's retryLimit
    MayStall,    \* whether a live holder may be declared dead by the queue
    MaxErrors,   \* bound on failed transactions and other thrown steps
    MaxCrashes   \* bound on process crashes

ASSUME BoundsAssumption ==
    /\ Api \in Processes
    /\ RetryLimit \in Nat /\ MaxErrors \in Nat /\ MaxCrashes \in Nat
    /\ MayStall \in BOOLEAN

VARIABLES
    run,        \* the runs rows
    reply,      \* the assistant reply of each user message
    log,        \* what the run_events log of each Run records
    latest,     \* the Chat's newest Run
    job,        \* the runs-queue job named by the Run's id
    dead,       \* the Run's job on the dead-letter queue
    dispatching, \* what each Run's accepting request has left to do
    cancelling, \* cancel requests that recorded the flag and not yet aborted
    adm,        \* the admission transaction holding the Chat's row lock
    del,        \* the deliveries' handler state
    registry,   \* RunAbortRegistry of each process
    errors, crashes

vars == <<run, reply, log, latest, job, dead, dispatching, cancelling, adm, del,
          registry, errors, crashes>>
store == <<run, reply, log>>
queue == <<job, dead>>
requests == <<latest, dispatching, cancelling, adm>>

(* How a delivery settles its Run: the terminal status ("abort": the one   *)
(* classifyAbortedRun reads off the signal), whether the write is fenced   *)
(* by the attempt, whether the attempt's live turn goes with it, and where *)
(* the handler goes when finishRun returned or errored.                    *)
Plans ==
  [cancelBeforeStart |-> [status |-> "cancelled", fenced |-> FALSE,
                          live |-> FALSE, ok |-> "ack", err |-> "nack"],
   pickupFailure     |-> [status |-> "failed", fenced |-> FALSE,
                          live |-> FALSE, ok |-> "ack", err |-> "nack"],
   nativeRecovery    |-> [status |-> "failed", fenced |-> TRUE,
                          live |-> FALSE, ok |-> "ack", err |-> "nack"],
   abortedRun        |-> [status |-> "abort", fenced |-> TRUE,
                          live |-> FALSE, ok |-> "ack", err |-> "nack"],
   modelContext      |-> [status |-> "failed", fenced |-> TRUE,
                          live |-> FALSE, ok |-> "verify", err |-> "verify"],
   replyCompleted    |-> [status |-> "completed", fenced |-> TRUE,
                          live |-> FALSE, ok |-> "ack", err |-> "nack"],
   streamThrow       |-> [status |-> "failed", fenced |-> TRUE,
                          live |-> FALSE, ok |-> "nack", err |-> "nack"],
   progressFailure   |-> [status |-> "failed", fenced |-> TRUE,
                          live |-> FALSE, ok |-> "verify", err |-> "verify"],
   answered          |-> [status |-> "completed", fenced |-> TRUE,
                          live |-> TRUE, ok |-> "verify", err |-> "salvage"],
   modelError        |-> [status |-> "failed", fenced |-> TRUE,
                          live |-> TRUE, ok |-> "verify", err |-> "salvage"],
   streamAbort       |-> [status |-> "abort", fenced |-> TRUE,
                          live |-> TRUE, ok |-> "verify", err |-> "salvage"],
   toolAbort         |-> [status |-> "abort", fenced |-> TRUE,
                          live |-> TRUE, ok |-> "verify", err |-> "salvage"]]

JobStates == {"absent", "created", "retry", "active", "completed", "failed"}
Steps == {"unused", "pickup", "client", "recheck", "claim", "prepare",
          "dispatch", "stream", "settle", "salvage", "verify", "ack", "nack",
          "done", "dead"}
LiveSteps == Steps \ {"unused", "done", "dead"}

Unused == [pc |-> "unused", run |-> None, plan |-> "abortedRun",
           abort |-> "no", registered |-> FALSE, process |-> Api]
(* A handler that returned, or died with its process.                      *)
Gone(pc) == [Unused EXCEPT !.pc = pc]

Idle == [phase |-> "idle", action |-> "send", blocker |-> None, live |-> FALSE]

JobRow == [state : JobStates, retries : Nat, holder : OrNone(Deliveries)]
AdmissionRow == [phase : {"idle", "judged"}, action : Actions,
                 blocker : OrNone(Runs), live : BOOLEAN]
DeliveryRow == [pc : Steps, run : OrNone(Runs), plan : DOMAIN Plans,
                abort : {"no", "cancelled", "expired", "failed"},
                registered : BOOLEAN, process : Processes]

(* The types of the rows, the queue and the handlers' state.               *)
TypeOK ==
    /\ run \in [Runs -> RunRow]
    /\ reply \in [Messages -> ReplyRow]
    /\ log \in [Runs -> RunLog]
    /\ latest \in OrNone(Runs)
    /\ job \in [Runs -> JobRow]
    /\ dead \in [Runs -> {"none", "queued", "completed", "failed"}]
    /\ dispatching \in [Runs -> {"nothing", "enqueue", "fail"}]
    /\ cancelling \in SUBSET Runs
    /\ adm \in AdmissionRow
    /\ del \in [Deliveries -> DeliveryRow]
    /\ registry \in [Processes -> [Runs -> OrNone(Deliveries)]]
    /\ errors \in Nat
    /\ crashes \in Nat

Init ==
    /\ run = [r \in Runs |-> AbsentRun]
    /\ reply = [m \in Messages |-> NoReply]
    /\ log = [r \in Runs |-> EmptyLog]
    /\ latest = None
    /\ job = [r \in Runs |-> [state |-> "absent", retries |-> 0, holder |-> None]]
    /\ dead = [r \in Runs |-> "none"]
    /\ dispatching = [r \in Runs |-> "nothing"]
    /\ cancelling = {} /\ adm = Idle
    /\ del = [d \in Deliveries |-> Unused]
    /\ registry = [p \in Processes |-> [r \in Runs |-> None]]
    /\ errors = 0 /\ crashes = 0

ActiveRuns(rows) == {r \in Runs : IsActive(rows[r])}
MessagesUsed == {run[r].message : r \in Runs} \ {None}
FailOnce == errors < MaxErrors /\ errors' = errors + 1
At(d, pc) == del[d].pc = pc
Goto(d, pc) == del' = [del EXCEPT ![d].pc = pc]
SettleBy(d, plan) == del' = [del EXCEPT ![d].pc = "settle", ![d].plan = plan]

-----------------------------------------------------------------------------
(* The terminal transaction.                                               *)

Finish(r, status, fence, live) ==
    LET m == run[r].message IN
    /\ run' = [run EXCEPT ![r] = MarkFinished(@, status, fence)]
    /\ reply' = [reply EXCEPT ![m] = FinalizeRunReply(@, r, status, fence, live)]
    /\ log' = [log EXCEPT ![r] = TerminalLog(@, reply[m], status)]

FinishUnfenced(r, status) ==
    IF CanFinish(run[r], None)
    THEN Finish(r, status, None, FALSE)
    ELSE UNCHANGED store

(* Another writer won: while the Run is terminal or still names this       *)
(* attempt, its live turn may still finalize the reply.                    *)
HandleLostFinish(r, d, status, live) ==
    LET keeps == live /\ (run[r].activeAttempt = d \/ IsTerminal(run[r])) IN
    /\ reply' = [reply EXCEPT ![run[r].message] =
                   IF keeps
                   THEN PersistAttemptTurn(@, r, d, status,
                                           run[r].status = "expired")
                   ELSE @]
    /\ UNCHANGED <<run, log>>

-----------------------------------------------------------------------------
(* Admission: persistUserMessageAndRun and admitFollowUpRun.  The          *)
(* transaction holds the Chat's row lock from the judgement to the commit. *)

(* Mutant: a completed job is taken to have settled its Run.               *)
BlockerStuckUnlessCompleted(b) == job[b].state \in {"absent", "failed"}

BlockerMayBeStuck(b) == job[b].state \notin {"created", "retry", "active"}

(* The blocking Run's job state is read inside the transaction, through    *)
(* the queue's own connection.  An unreadable state, and an absent job     *)
(* younger than one liveness window, count as live.                        *)
AdmitJudge(action) ==
    /\ adm.phase = "idle"
    /\ \E r \in Runs : run[r].status = "absent"
    /\ IF action = "send" THEN Messages \ MessagesUsed # {} ELSE latest # None
    /\ \/ /\ ActiveRuns(run) = {}
          /\ adm' = [phase |-> "judged", action |-> action, blocker |-> None,
                     live |-> FALSE]
       \/ \E b \in ActiveRuns(run), live \in BOOLEAN :
             /\ live \/ BlockerMayBeStuck(b)
             /\ adm' = [phase |-> "judged", action |-> action, blocker |-> b,
                        live |-> live]
    /\ UNCHANGED <<store, queue, latest, dispatching, cancelling, del, registry,
                   errors, crashes>>

(* clearActiveRunSlot's writes: expire the stuck blocker unless it became  *)
(* terminal meanwhile.                                                     *)
Expires == adm.blocker # None /\ ~adm.live /\ CanFinish(run[adm.blocker], None)
ExpiredRun ==
    IF Expires
    THEN [run EXCEPT ![adm.blocker] = MarkFinished(@, "expired", None)]
    ELSE run
(* Mutant: the expiry forgets the blocker's reply.                         *)
UnfinalizedExpiry == reply

ExpiredReply ==
    IF Expires
    THEN [reply EXCEPT ![run[adm.blocker].message] =
            FinalizeRunReply(@, adm.blocker, "expired", None, FALSE)]
    ELSE reply
ExpiredLog ==
    IF Expires
    THEN [log EXCEPT ![adm.blocker] =
            TerminalLog(@, reply[run[adm.blocker].message], "expired")]
    ELSE log

(* Mutant: a Run still queued does not count as in flight.                 *)
ConflictWhenRunning == adm.live /\ \E r \in Runs : run[r].status = "running_model"

(* Another Run is in flight: 409, nothing is written.                      *)
Conflict == adm.live /\ ActiveRuns(run) # {}

AdmitConflict ==
    /\ adm.phase = "judged" /\ Conflict
    /\ adm' = Idle
    /\ UNCHANGED <<store, queue, latest, dispatching, cancelling, del, registry,
                   errors, crashes>>

FollowUpAllowed(action, m) ==
    /\ latest # None
    /\ ExpiredRun[latest].message = m
    /\ IF action = "continue"
       THEN Continuable(latest, ExpiredRun[latest], ExpiredReply[m])
       ELSE Regenerable(ExpiredRun[latest])

(* A refused follow-up still commits the expiry it made.                   *)
AdmitRefuse ==
    /\ adm.phase = "judged" /\ ~Conflict /\ adm.action # "send"
    /\ ~FollowUpAllowed(adm.action, run[latest].message)
    /\ run' = ExpiredRun /\ reply' = ExpiredReply /\ log' = ExpiredLog
    /\ adm' = Idle
    /\ UNCHANGED <<queue, latest, dispatching, cancelling, del, registry, errors,
                   crashes>>

(* createRunForMessage: cancel stale active Runs of the message, then      *)
(* insert the row under the in-flight unique index.                        *)
Superseded(m) == {q \in ActiveRuns(ExpiredRun) : ExpiredRun[q].message = m}

CreateRun(r, m, action) ==
    /\ ActiveRuns(ExpiredRun) \subseteq Superseded(m)
    /\ run' = [q \in Runs |->
                 IF q = r THEN NewRun(m, action)
                 ELSE IF q \in Superseded(m)
                 THEN MarkFinished(ExpiredRun[q], "cancelled", None)
                 ELSE ExpiredRun[q]]
    /\ log' = [q \in Runs |->
                 IF q \in Superseded(m)
                 THEN [ExpiredLog[q] EXCEPT !.terminal = Append(@, "cancelled")]
                 ELSE ExpiredLog[q]]
    /\ reply' = ExpiredReply

AdmitAccept(r, m) ==
    /\ adm.phase = "judged" /\ ~Conflict
    /\ run[r].status = "absent"
    /\ IF adm.action = "send" THEN m \notin MessagesUsed
       ELSE FollowUpAllowed(adm.action, m)
    /\ CreateRun(r, m, adm.action)
    /\ latest' = r
    /\ dispatching' = [dispatching EXCEPT ![r] = "enqueue"]
    /\ adm' = Idle
    /\ UNCHANGED <<queue, cancelling, del, registry, errors, crashes>>

-----------------------------------------------------------------------------
(* RunDispatchService.dispatch, after the accepting transaction committed. *)

Enqueue(r) ==
    /\ dispatching[r] = "enqueue"
    /\ dispatching' = [dispatching EXCEPT ![r] = "nothing"]
    /\ job' = [job EXCEPT ![r].state = "created"]
    /\ UNCHANGED <<store, dead, latest, cancelling, adm, del, registry, errors,
                   crashes>>

(* The enqueue throws, whether or not the job was stored.                  *)
EnqueueThrows(r) ==
    /\ dispatching[r] = "enqueue" /\ FailOnce
    /\ dispatching' = [dispatching EXCEPT ![r] = "fail"]
    /\ \E landed \in BOOLEAN :
          job' = IF landed THEN [job EXCEPT ![r].state = "created"] ELSE job
    /\ UNCHANGED <<store, dead, latest, cancelling, adm, del, registry, crashes>>

(* failRunTransactionally: best effort, in a transaction of its own.       *)
FailUndispatched(r) ==
    /\ dispatching[r] = "fail"
    /\ dispatching' = [dispatching EXCEPT ![r] = "nothing"]
    /\ \/ FinishUnfenced(r, "failed") /\ UNCHANGED errors
       \/ FailOnce /\ UNCHANGED store
    /\ UNCHANGED <<queue, latest, cancelling, adm, del, registry, crashes>>

-----------------------------------------------------------------------------
(* The queue (pg-boss, external): at-least-once delivery of the job named  *)
(* by the Run's id.  Settling a job goes by that id, whichever delivery    *)
(* reports.                                                                *)

Fetch(d, r, p) ==
    /\ At(d, "unused") /\ job[r].state \in {"created", "retry"}
    /\ job' = [job EXCEPT ![r].state = "active", ![r].holder = d]
    /\ del' = [del EXCEPT ![d].pc = "pickup", ![d].run = r, ![d].process = p]
    /\ UNCHANGED <<store, dead, requests, registry, errors, crashes>>

CompleteJob(r) ==
    /\ job' = IF job[r].state = "active"
              THEN [job EXCEPT ![r].state = "completed", ![r].holder = None]
              ELSE job
    /\ UNCHANGED dead

(* Mutant: the queue has no dead letter.                                   *)
RetryWithoutDeadLetter(r) ==
    /\ job' = IF job[r].retries < RetryLimit
              THEN [job EXCEPT ![r].state = "retry", ![r].retries = @ + 1,
                               ![r].holder = None]
              ELSE [job EXCEPT ![r].state = "failed", ![r].holder = None]
    /\ UNCHANGED dead

RetryOrDeadLetter(r) ==
    IF job[r].retries < RetryLimit
    THEN /\ job' = [job EXCEPT ![r].state = "retry", ![r].retries = @ + 1,
                              ![r].holder = None]
         /\ UNCHANGED dead
    ELSE /\ job' = [job EXCEPT ![r].state = "failed", ![r].holder = None]
         /\ dead' = [dead EXCEPT ![r] = "queued"]

FailJob(r) ==
    IF job[r].state = "active" THEN RetryOrDeadLetter(r) ELSE UNCHANGED queue

(* The heartbeat monitor: the holder stopped beating, because it died or,  *)
(* where MayStall, because it is only paused.                              *)
HeartbeatLost(r) ==
    /\ job[r].state = "active"
    /\ MayStall \/ At(job[r].holder, "dead")
    /\ RetryOrDeadLetter(r)
    /\ UNCHANGED <<store, requests, del, registry, errors, crashes>>

(* expireDeadLetteredRun.  The dead-letter queue retries nothing, so a     *)
(* handler that throws, or dies, is the job's last.                        *)
DeadLetter(r) ==
    /\ dead[r] = "queued"
    /\ \/ /\ FinishUnfenced(r, "expired")
          /\ dead' = [dead EXCEPT ![r] = "completed"]
          /\ UNCHANGED errors
       \/ /\ FailOnce
          /\ dead' = [dead EXCEPT ![r] = "failed"]
          /\ UNCHANGED store
    /\ UNCHANGED <<job, requests, del, registry, crashes>>

-----------------------------------------------------------------------------
(* RunsWorkerService.executeJob.                                           *)

Pickup(d) ==
    LET row == run[del[d].run] IN
    /\ At(d, "pickup")
    /\ CASE IsTerminal(row)     -> Goto(d, "ack")
         [] row.cancelRequested -> SettleBy(d, "cancelBeforeStart")
         [] OTHER               -> Goto(d, "client")
    /\ UNCHANGED <<store, queue, requests, registry, errors, crashes>>

(* createClient and the registration of the abort controller; a model that *)
(* is gone or misconfigured fails the Run.                                 *)
CreateClient(d) ==
    /\ At(d, "client")
    /\ \/ /\ registry' = [registry EXCEPT ![del[d].process][del[d].run] = d]
          /\ del' = [del EXCEPT ![d].pc = "recheck", ![d].registered = TRUE]
       \/ SettleBy(d, "pickupFailure") /\ UNCHANGED registry
    /\ UNCHANGED <<store, queue, requests, errors, crashes>>

Unregister(d) ==
    registry' = [registry EXCEPT ![del[d].process][del[d].run] =
                   IF del[d].registered THEN None ELSE @]

Recheck(d) ==
    /\ At(d, "recheck")
    /\ IF run[del[d].run].cancelRequested
       THEN /\ Unregister(d)
            /\ del' = [del EXCEPT ![d].pc = "settle", ![d].registered = FALSE,
                                  ![d].plan = "cancelBeforeStart"]
       ELSE Goto(d, "claim") /\ UNCHANGED registry
    /\ UNCHANGED <<store, queue, requests, errors, crashes>>

(* The stream drained, or preparation failed on the model context: only a  *)
(* durably terminal Run lets the job succeed.                              *)
Verify(d) ==
    /\ At(d, "verify")
    /\ Goto(d, IF IsTerminal(run[del[d].run]) THEN "ack" ELSE "nack")
    /\ UNCHANGED <<store, queue, requests, registry, errors, crashes>>

(* The handler returns or throws: its finally block, then the queue.       *)
Return(d) ==
    /\ \/ At(d, "ack") /\ CompleteJob(del[d].run)
       \/ At(d, "nack") /\ FailJob(del[d].run)
    /\ Unregister(d)
    /\ del' = [del EXCEPT ![d] = Gone("done")]
    /\ UNCHANGED <<store, requests, errors, crashes>>

(* Any other failed read or write of the handler: the queue retries.  The  *)
(* recheck is outside the try block, so its controller stays registered.   *)
HandlerThrows(d) ==
    /\ del[d].pc \in {"pickup", "client", "recheck", "claim", "prepare",
                      "dispatch", "verify"}
    /\ FailOnce
    /\ del' = [del EXCEPT ![d].pc = "nack",
                          ![d].registered = @ /\ ~At(d, "recheck")]
    /\ UNCHANGED <<store, queue, requests, registry, crashes>>

(* The wall-clock budget or the execution ceiling.                         *)
Timeout(d) ==
    /\ del[d].pc \in {"claim", "prepare", "dispatch", "stream"}
    /\ del[d].abort = "no"
    /\ del' = [del EXCEPT ![d].abort = "expired"]
    /\ UNCHANGED <<store, queue, requests, registry, errors, crashes>>

-----------------------------------------------------------------------------
(* RunExecutionService.executeRun.                                         *)

(* The claim transaction.  A Run with a recorded native attempt is claimed *)
(* for recovery only, and appends no run.started.                          *)
Claim(d) ==
    LET r == del[d].run IN
    /\ At(d, "claim")
    /\ CASE del[d].abort # "no" ->
              FinishUnfenced(r, del[d].abort) /\ Goto(d, "ack")
         [] del[d].abort = "no" /\ CanStart(run[r]) ->
              /\ run' = [run EXCEPT ![r] = MarkStarted(@, d)]
              /\ UNCHANGED reply
              /\ IF HasMutation(log[r])
                 THEN SettleBy(d, "nativeRecovery") /\ UNCHANGED log
                 ELSE /\ log' = [log EXCEPT ![r].startedBy = d]
                      /\ Goto(d, "prepare")
         [] OTHER ->
              /\ IF run[r].cancelRequested
                 THEN FinishUnfenced(r, "cancelled")
                 ELSE UNCHANGED store
              /\ Goto(d, "ack")
    /\ UNCHANGED <<queue, requests, registry, errors, crashes>>

(* Context preparation, up to the last abort check before the dispatch.    *)
Prepare(d) ==
    /\ At(d, "prepare")
    /\ IF del[d].abort # "no" THEN SettleBy(d, "abortedRun")
       ELSE Goto(d, "dispatch") \/ SettleBy(d, "modelContext")
    /\ UNCHANGED <<store, queue, requests, registry, errors, crashes>>

(* The dispatch transaction: the attempt fence, then the reply reset.      *)
DispatchAttempt(d) ==
    LET r == del[d].run
        m == run[r].message IN
    /\ At(d, "dispatch")
    /\ IF ~HoldsAttempt(run[r], d) THEN Goto(d, "ack") /\ UNCHANGED reply
       ELSE IF ~ReplaceableReply(reply[m], r, run[r].action)
       THEN SettleBy(d, "replyCompleted") /\ UNCHANGED reply
       ELSE /\ reply' = [reply EXCEPT ![m] = RunningReply(r, d)]
            /\ Goto(d, "stream")
    /\ UNCHANGED <<run, log, queue, requests, registry, errors, crashes>>

(* tool.requested and tool.completed, appended without any attempt fence.  *)
ToolRequested(d) ==
    /\ At(d, "stream") /\ del[d].abort = "no" /\ d \notin log[del[d].run].open
    /\ log' = [log EXCEPT ![del[d].run].open = @ \cup {d}]
    /\ UNCHANGED <<run, reply, queue, requests, del, registry, errors, crashes>>

ToolCompleted(d) ==
    /\ At(d, "stream") /\ d \in log[del[d].run].open
    /\ log' = [log EXCEPT ![del[d].run].open = @ \ {d}]
    /\ UNCHANGED <<run, reply, queue, requests, del, registry, errors, crashes>>

(* NativeFilesRepository.begin for a mutating call of the open tool call:  *)
(* the delivery must own the newest run.started, and a path bound to one   *)
(* host also needs a live, uncancelled Run.                                *)
NativeBegin(d, bound) ==
    LET r == del[d].run IN
    /\ At(d, "stream") /\ del[d].abort = "no"
    /\ d \in log[r].open /\ d \notin log[r].native
    /\ log[r].startedBy = d
    /\ bound => CanStart(run[r])
    /\ log' = [log EXCEPT ![r].native = @ \cup {d}]
    /\ UNCHANGED <<run, reply, queue, requests, del, registry, errors, crashes>>

(* A native mutation whose outcome is unknown aborts the attempt.          *)
NativeUnknown(d) ==
    /\ At(d, "stream") /\ del[d].abort = "no"
    /\ d \in log[del[d].run].open \cap log[del[d].run].native
    /\ del' = [del EXCEPT ![d].abort = "failed"]
    /\ UNCHANGED <<store, queue, requests, registry, errors, crashes>>

OpenCall(d) == d \in log[del[d].run].open

(* How a stream ends.  onFinish: a completed answer has no call open.      *)
Answers(d) == del[d].abort = "no" /\ ~OpenCall(d)
(* onError, or a finish whose reason is an error.                          *)
ModelFails(d) == del[d].abort = "no"
(* streamText threw before any callback could fire.                        *)
StreamThrows(d) == del[d].abort = "no" /\ ~OpenCall(d)
(* The abort found no call open: a callback, or the throw, settles it.     *)
StreamAborted(d) == del[d].abort # "no" /\ ~OpenCall(d)
(* The abort found calls open: settleToolsOnParentAbort settles it.        *)
ToolsAborted(d) == del[d].abort # "no" /\ OpenCall(d)

(* Every outcome settles the attempt's open calls durably first.           *)
StreamEnds(d, plan) ==
    /\ At(d, "stream")
    /\ CASE plan = "answered"    -> Answers(d)
         [] plan = "modelError"  -> ModelFails(d)
         [] plan = "streamThrow" -> StreamThrows(d)
         [] plan = "streamAbort" -> StreamAborted(d)
         [] plan = "abortedRun"  -> StreamAborted(d)
         [] plan = "toolAbort"   -> ToolsAborted(d)
         [] OTHER                -> FALSE
    /\ SettleBy(d, plan)
    /\ log' = [log EXCEPT ![del[d].run].open = @ \ {d}]
    /\ UNCHANGED <<run, reply, queue, requests, registry, errors, crashes>>

(* A progress event could not be stored: the Run may only settle failed,   *)
(* without its live turn.                                                  *)
ProgressLost(d) ==
    /\ At(d, "stream") /\ FailOnce
    /\ SettleBy(d, "progressFailure")
    /\ UNCHANGED <<store, queue, requests, registry, crashes>>

PlanOf(d) == Plans[del[d].plan]
PlanStatus(d) ==
    IF PlanOf(d).status = "abort" THEN del[d].abort ELSE PlanOf(d).status
Fence(d) == IF PlanOf(d).fenced THEN d ELSE None

(* finishRun: won, lost to another writer, or rolled back.                 *)
SettleWins(d) ==
    LET r == del[d].run IN
    /\ At(d, "settle")
    /\ CanFinish(run[r], Fence(d))
    /\ ~FinalizeThrows(reply[run[r].message], log[r], PlanStatus(d))
    /\ Finish(r, PlanStatus(d), Fence(d), PlanOf(d).live)
    /\ Goto(d, PlanOf(d).ok)
    /\ UNCHANGED <<queue, requests, registry, errors, crashes>>

SettleLoses(d) ==
    LET r == del[d].run IN
    /\ At(d, "settle")
    /\ ~CanFinish(run[r], Fence(d))
    /\ HandleLostFinish(r, d, PlanStatus(d), PlanOf(d).live)
    /\ Goto(d, PlanOf(d).ok)
    /\ UNCHANGED <<queue, requests, registry, errors, crashes>>

SettleErrs(d) ==
    LET r == del[d].run IN
    /\ At(d, "settle")
    /\ \/ /\ CanFinish(run[r], Fence(d))
          /\ FinalizeThrows(reply[run[r].message], log[r], PlanStatus(d))
          /\ UNCHANGED errors
       \/ FailOnce
    /\ Goto(d, PlanOf(d).err)
    /\ UNCHANGED <<store, queue, requests, registry, crashes>>

(* salvageAssistantMessage, best effort; an abort that settled open calls  *)
(* then fails the Run over its progress.                                   *)
Salvage(d) ==
    LET r == del[d].run IN
    /\ At(d, "salvage")
    /\ \/ /\ reply' = [reply EXCEPT ![run[r].message] =
                         PersistAttemptTurn(@, r, d, PlanStatus(d), TRUE)]
          /\ UNCHANGED errors
       \/ FailOnce /\ UNCHANGED reply
    /\ IF del[d].plan = "toolAbort" THEN SettleBy(d, "progressFailure")
       ELSE Goto(d, "verify")
    /\ UNCHANGED <<run, log, queue, requests, registry, crashes>>

-----------------------------------------------------------------------------
(* RunsController.updateRun: record the request, then abort in process.    *)

RequestCancel(r) ==
    /\ CanRequestCancel(run[r])
    /\ run' = [run EXCEPT ![r].cancelRequested = TRUE]
    /\ cancelling' = cancelling \cup {r}
    /\ UNCHANGED <<reply, log, queue, latest, dispatching, adm, del, registry,
                   errors, crashes>>

(* Mutant: only a delivery that is already streaming can be aborted.       *)
AbortStreamsOnly(r) ==
    LET d == registry[Api][r] IN
    /\ r \in cancelling
    /\ cancelling' = cancelling \ {r}
    /\ del' = IF d # None /\ At(d, "stream") /\ del[d].abort = "no"
              THEN [del EXCEPT ![d].abort = "cancelled"] ELSE del
    /\ UNCHANGED <<store, queue, latest, dispatching, adm, registry, errors,
                   crashes>>

AbortInProcess(r) ==
    LET d == registry[Api][r] IN
    /\ r \in cancelling
    /\ cancelling' = cancelling \ {r}
    /\ del' = IF d = None \/ del[d].abort # "no" THEN del
              ELSE [del EXCEPT ![d].abort = "cancelled"]
    /\ UNCHANGED <<store, queue, latest, dispatching, adm, registry, errors,
                   crashes>>

(* A process dies: its handlers, its registry and, in the API process,     *)
(* its open requests are gone; an open transaction rolls back.             *)
Crash(p) ==
    /\ crashes < MaxCrashes
    /\ crashes' = crashes + 1
    /\ del' = [d \in Deliveries |->
                 IF del[d].process = p /\ del[d].pc \in LiveSteps
                 THEN Gone("dead") ELSE del[d]]
    /\ registry' = [registry EXCEPT ![p] = [r \in Runs |-> None]]
    /\ IF p = Api
       THEN /\ dispatching' = [r \in Runs |-> "nothing"]
            /\ cancelling' = {} /\ adm' = Idle
       ELSE UNCHANGED <<dispatching, cancelling, adm>>
    /\ UNCHANGED <<store, queue, latest, errors>>

-----------------------------------------------------------------------------
StreamPlans == {"answered", "modelError", "streamThrow", "streamAbort",
                "abortedRun", "toolAbort"}

Settle(d) == SettleWins(d) \/ SettleLoses(d) \/ SettleErrs(d)

(* What the worker process does for delivery d while it is alive.          *)
WorkerStep(d) ==
    \/ Pickup(d) \/ CreateClient(d) \/ Recheck(d) \/ Claim(d) \/ Prepare(d)
    \/ DispatchAttempt(d) \/ Settle(d) \/ Salvage(d) \/ Verify(d) \/ Return(d)

Streaming(d) ==
    \/ ToolRequested(d) \/ ToolCompleted(d) \/ NativeUnknown(d)
    \/ \E bound \in BOOLEAN : NativeBegin(d, bound)
    \/ \E plan \in StreamPlans : StreamEnds(d, plan)

Delivery(d) ==
    \/ WorkerStep(d) \/ Streaming(d) \/ Timeout(d)
    \/ HandlerThrows(d) \/ ProgressLost(d)

Admission ==
    \/ \E action \in Actions : AdmitJudge(action)
    \/ AdmitConflict \/ AdmitRefuse
    \/ \E r \in Runs, m \in Messages : AdmitAccept(r, m)

Queue ==
    \/ \E d \in Deliveries, r \in Runs, p \in Processes : Fetch(d, r, p)
    \/ \E r \in Runs : HeartbeatLost(r) \/ DeadLetter(r)

Requests ==
    \E r \in Runs : Enqueue(r) \/ EnqueueThrows(r) \/ FailUndispatched(r)
                    \/ RequestCancel(r) \/ AbortInProcess(r)

Next ==
    \/ Admission \/ Requests \/ Queue
    \/ \E d \in Deliveries : Delivery(d)
    \/ \E p \in Processes : Crash(p)

Spec == Init /\ [][Next]_vars

(* What the scheduling guarantees: an accepting request goes on to its     *)
(* dispatch, the queue offers a stored job and notices a dead holder, a    *)
(* live handler keeps running, the execution ceiling is always armed and   *)
(* an aborted stream ends.  Nothing says that a model ever answers, that   *)
(* a user cancels or that a step fails.                                    *)
AbortedStreamEnds(d) ==
    del[d].abort # "no" /\ \E plan \in StreamPlans : StreamEnds(d, plan)

Fairness ==
    /\ \A r \in Runs :
          /\ WF_vars(Enqueue(r))
          /\ WF_vars(\E d \in Deliveries, p \in Processes : Fetch(d, r, p))
          /\ WF_vars(HeartbeatLost(r) /\ At(job[r].holder, "dead"))
          /\ WF_vars(DeadLetter(r))
    /\ \A d \in Deliveries :
          WF_vars(WorkerStep(d)) /\ WF_vars(Timeout(d))
          /\ WF_vars(AbortedStreamEnds(d))

FairSpec == Spec /\ Fairness

-----------------------------------------------------------------------------
(* Properties.                                                             *)

(* Per-chat single-flight: at most one non-terminal Run exists, whatever   *)
(* admission judged about a job that changed state meanwhile.              *)
SingleFlight == \A q, r \in ActiveRuns(run) : q = r

(* No reader observes a Run as terminal while its reply is not final: a    *)
(* reply still `running` belongs to a live Run of that very message.       *)
TerminalRunHasFinalReply ==
    \A m \in Messages :
        reply[m].status = "running" =>
            /\ reply[m].run \in ActiveRuns(run)
            /\ run[reply[m].run].message = m

(* A Run never reports an answer it did not store: once it completed, its  *)
(* message's reply is completed unless a Regenerate took the turn over.    *)
CompletedRunHasAnswer ==
    \A r \in Runs :
        run[r].status = "completed" =>
            \/ IsCompletedTurn(reply[run[r].message])
            \/ \E q \in Runs \ {r} : /\ run[q].message = run[r].message
                                     /\ run[q].action = "regenerate"

(* A stored answer is never lost: a completed reply changes only when a    *)
(* Regenerate Run other than the one it names dispatches over it.          *)
AnswerNeverLost ==
    [][\A m \in Messages :
          IsCompletedTurn(reply[m]) /\ reply'[m] # reply[m] =>
              /\ reply'[m].status = "running"
              /\ reply'[m].run # reply[m].run
              /\ run[reply'[m].run].action = "regenerate"]_vars

(* A stale attempt never clobbers a newer attempt's reply: the attempt a   *)
(* reply names changes only when the Run's active attempt dispatches.      *)
StaleAttemptNeverPublishes ==
    [][\A m \in Messages :
          reply'[m].attempt # reply[m].attempt =>
              /\ reply'[m].status = "running"
              /\ HoldsAttempt(run[reply'[m].run], reply'[m].attempt)]_vars

(* No model loop starts over a recorded native effect: the attempt that    *)
(* dispatches finds no native.attempt of any attempt in the Run's log.     *)
NativeEffectNeverReplayed ==
    [][\A m \in Messages :
          reply'[m].status = "running" /\ reply'[m] # reply[m] =>
              log[reply'[m].run].native = {}]_vars

(* A cleared slot stays clear until the commit: whatever the blocker did   *)
(* between the judgement and the insert, no Run of the Chat is in flight   *)
(* when createRunForMessage runs, so it never has a Run to supersede.      *)
ClearedSlotIsFree ==
    adm.phase = "judged" /\ ~Conflict => ActiveRuns(ExpiredRun) = {}

(* A cancel that was recorded and delivered is not forgotten: an attempt   *)
(* that still holds the Run in the API's own process has been aborted,     *)
(* whichever of the request and the registration came first.               *)
CancelReachesWorker ==
    \A d \in Deliveries :
        /\ del[d].pc \in {"prepare", "dispatch", "stream"}
        /\ del[d].process = Api
        /\ HoldsAttempt(run[del[d].run], d)
        /\ run[del[d].run].cancelRequested
        /\ del[d].run \notin cancelling
        => del[d].abort # "no"

(* Native effect admission requires a live, uncancelled Run and the active *)
(* attempt, atomically with the native.attempt record.                     *)
NativeAdmissionFenced ==
    [][\A r \in Runs, d \in Deliveries :
          d \in log'[r].native \ log[r].native =>
              CanStart(run[r]) /\ run[r].activeAttempt = d]_vars

(* A Run nobody works on is never stranded, even after a stale delivery    *)
(* acknowledged the job of the one that replaced it: the queue delivers it *)
(* again, notices its dead holder, or admission may expire it              *)
(* (queue/pgboss-queue.service.ts consume, clearActiveRunSlot).            *)
RunNeverStranded ==
    \A r \in Runs :
        /\ IsActive(run[r]) /\ dispatching[r] = "nothing"
        /\ ~\E d \in Deliveries : del[d].run = r /\ del[d].pc \in LiveSteps
        => \/ job[r].state \in {"created", "retry"}
           \/ job[r].state = "active" /\ At(job[r].holder, "dead")
           \/ BlockerMayBeStuck(r)

(* No two Runs of the Chat execute at the same instant.                    *)
SameChatRunsNeverOverlap ==
    \A d, e \in Deliveries :
        At(d, "stream") /\ At(e, "stream") => del[d].run = del[e].run

(* A run is never stuck once the queue has its job: it reaches a terminal  *)
(* state through its worker, a retry or the dead letter.                   *)
DispatchedRunEnds ==
    \A r \in Runs : job[r].state # "absent" ~> IsTerminal(run[r])

(* The pipeline keeps the promise of DurableRun: seen through its status   *)
(* and its log's terminal events, every Run settles once and for all, and  *)
(* the Chat never has two in flight.                                       *)
Phase(row) == IF IsActive(row) THEN "inflight" ELSE row.status

Contract == INSTANCE DurableRun
    WITH Terminal <- TerminalStatuses,
         phase <- [r \in Runs |-> Phase(run[r])],
         published <- [r \in Runs |-> log[r].terminal]

KeepsDurableRunContract == Contract!Spec
=============================================================================
