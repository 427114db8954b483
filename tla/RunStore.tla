------------------------------ MODULE RunStore ------------------------------
(***************************************************************************)
(* The durable rows a Run is made of, and what the repositories do to them *)
(* inside one tenant transaction: the `runs` row, the assistant reply of   *)
(* each user message, and the facts other code reads back from the         *)
(* append-only `run_events` log.                                           *)
(*                                                                         *)
(* An operator takes the current value of a row and returns the new one,   *)
(* so one transaction that makes several writes composes them.  An         *)
(* execution attempt is named by the queue delivery that claimed it:       *)
(* `markStarted` draws a fresh `activeAttemptId` for every claim, and a    *)
(* delivery claims at most once.                                           *)
(***************************************************************************)
EXTENDS Naturals, Sequences, FiniteSets

CONSTANTS
    Runs,         \* Run ids one Chat may ever use
    Messages,     \* user message ids of that Chat
    Deliveries,   \* queue deliveries; each claims at most one attempt
    None          \* SQL NULL

ASSUME NoneFresh == None \notin Runs \cup Messages \cup Deliveries

TerminalStatuses == {"completed", "failed", "cancelled", "expired"}
ActiveStatuses == {"queued", "running_model"}
Actions == {"send", "continue", "regenerate"}

OrNone(S) == S \cup {None}

RunRow == [status           : {"absent"} \cup ActiveStatuses \cup TerminalStatuses,
           message          : OrNone(Messages),
           action           : Actions,
           cancelRequested  : BOOLEAN,
           activeAttempt    : OrNone(Deliveries),
           completedAttempt : OrNone(Deliveries)]

(* A reply's usage: its turn status and the Run and attempt it names.      *)
ReplyRow == [status  : {"none", "running", "completed", "error", "aborted"},
             run     : OrNone(Runs),
             attempt : OrNone(Deliveries)]

(* What readers ask of a Run's event log: the terminal `run.*` events in   *)
(* order, the attempts with a `tool.requested` that no `tool.completed`    *)
(* answers, the attempt of the newest `run.started`, the attempts with a   *)
(* `native.attempt`.                                                       *)
RunLog == [terminal  : Seq(TerminalStatuses),
           open      : SUBSET Deliveries,
           startedBy : OrNone(Deliveries),
           native    : SUBSET Deliveries]

AbsentRun == [status |-> "absent", message |-> None, action |-> "send",
              cancelRequested |-> FALSE, activeAttempt |-> None,
              completedAttempt |-> None]
NoReply == [status |-> "none", run |-> None, attempt |-> None]
EmptyLog == [terminal |-> <<>>, open |-> {}, startedBy |-> None, native |-> {}]

IsTerminal(row) == row.status \in TerminalStatuses
IsActive(row) == row.status \in ActiveStatuses

-----------------------------------------------------------------------------
(* RunsRepository.                                                         *)

NewRun(m, action) ==
    [AbsentRun EXCEPT !.status = "queued", !.message = m, !.action = action]

(* Mutant: the claim forgets that a terminal Run is immutable.             *)
CanStartUncancelled(row) == ~row.cancelRequested

CanStart(row) == IsActive(row) /\ ~row.cancelRequested

MarkStarted(row, d) ==
    [row EXCEPT !.status = "running_model", !.activeAttempt = d]

CanRequestCancel(row) == IsActive(row) /\ ~row.cancelRequested

(* Mutant: the terminal write forgets the first-writer-wins guard.         *)
CanFinishAnyStatus(row, fence) == fence = None \/ row.activeAttempt = fence

(* The terminal write's predicate; `fence` is None for a settler outside   *)
(* any attempt.                                                            *)
CanFinish(row, fence) ==
    IsActive(row) /\ (fence = None \/ row.activeAttempt = fence)

(* Mutant: a failed Run is stored under its turn status.                   *)
MarkFinishedAsTurn(row, status, fence) ==
    [row EXCEPT !.status = IF status = "failed" THEN "error" ELSE status]

MarkFinished(row, status, fence) ==
    [row EXCEPT !.status = status,
                !.completedAttempt = IF status = "completed" THEN fence ELSE @]

(* Mutant: only effects whose call never settled count.                    *)
HasUnsettledMutation(log) == log.native \cap log.open # {}

(* A native effect was admitted, whatever became of it.                    *)
HasMutation(log) == log.native # {}

HoldsAttempt(row, d) == IsActive(row) /\ row.activeAttempt = d

-----------------------------------------------------------------------------
(* The reply.                                                              *)

TurnStatusForTerminalRun(status) ==
    CASE status = "completed" -> "completed"
      [] status = "failed"    -> "error"
      [] OTHER                -> "aborted"

IsCompletedTurn(reply) == reply.status = "completed"

RunningReply(r, d) == [status |-> "running", run |-> r, attempt |-> d]

(* Mutant: a dispatch always resets the reply.                             *)
ReplaceableAlways(reply, r, action) == TRUE

(* Whether Run r of the given action may reset the reply at dispatch.      *)
ReplaceableReply(reply, r, action) ==
    \/ ~IsCompletedTurn(reply)
    \/ action = "regenerate" /\ reply.run \notin {None, r}

(* Mutant: any attempt may finalize a reply that is still running.         *)
OwnsRunningReply(reply, d, widened) == reply.status = "running" \/ widened

OwnsLiveReply(reply, d, widened) ==
    IF reply.status = "none"
    THEN widened
    ELSE /\ ~IsCompletedTurn(reply)
         /\ widened \/ reply.status = "running"
         /\ reply.attempt = d

(* The attempt's live turn, whose telemetry names its own Run and attempt. *)
LiveReply(r, d, status) ==
    [status |-> TurnStatusForTerminalRun(status), run |-> r, attempt |-> d]

(* A running reply rebuilt from the log keeps the identity its usage has.  *)
RebuiltReply(reply, status) ==
    IF reply.status = "running"
    THEN [reply EXCEPT !.status = TurnStatusForTerminalRun(status)]
    ELSE reply

(* finalizeRunReply refuses to complete a Run over open durable calls; the *)
(* whole transaction rolls back.                                           *)
FinalizeThrows(reply, log, status) ==
    /\ ~IsCompletedTurn(reply)
    /\ status = "completed"
    /\ log.open # {}

(* Mutant: the attempt's own turn is not written with the terminal status. *)
FinalizeRebuiltOnly(reply, r, status, fence, live) ==
    IF IsCompletedTurn(reply) \/ live THEN reply ELSE RebuiltReply(reply, status)

FinalizeRunReply(reply, r, status, fence, live) ==
    IF IsCompletedTurn(reply) THEN reply
    ELSE IF ~live THEN RebuiltReply(reply, status)
    ELSE IF OwnsLiveReply(reply, fence, TRUE) THEN LiveReply(r, fence, status)
    ELSE reply

(* The log after the finalizer settled the open calls and the terminal     *)
(* writer appended its event.                                              *)
TerminalLog(log, reply, status) ==
    [log EXCEPT !.open = IF IsCompletedTurn(reply) THEN @ ELSE {},
                !.terminal = Append(@, status)]

(* persistAttemptTurn: the live turn outside its own terminal transition.  *)
PersistAttemptTurn(reply, r, d, status, salvage) ==
    IF OwnsLiveReply(reply, d, salvage) THEN LiveReply(r, d, status) ELSE reply

-----------------------------------------------------------------------------
(* Follow-up admission checks on the turn's newest Run and its reply.      *)

Continuable(r, row, reply) ==
    /\ row.status \in {"failed", "cancelled", "expired"}
    /\ reply.status # "none"
    /\ reply.run = r
    /\ ~IsCompletedTurn(reply)

Regenerable(row) == IsTerminal(row)
=============================================================================
