----------------------------- MODULE RunEvents -----------------------------
(***************************************************************************)
(* The event log of one Run and the streams that follow it.                *)
(*                                                                         *)
(* A row of run_events takes its sequence from an identity column when it  *)
(* is inserted and becomes visible when its transaction commits, so two    *)
(* open transactions may become visible out of order.  Readers poll with a *)
(* cursor: the SSE endpoint (RunsController.pumpRunEvents), whose client   *)
(* reconnects with the last id it saw, and the UI bridge                   *)
(* (RunStreamBridgeService.pumpUiMessageEvents), which follows one         *)
(* accepted turn on one connection.                                        *)
(***************************************************************************)
EXTENDS Naturals, Sequences, FiniteSets, SequencesExt

CONSTANTS
    Writers,     \* transactions that append progress: attempts, native files
    Settler,     \* the transaction that settles the Run
    Sse, Ui,     \* readers of the two kinds
    MaxEvents,   \* bound on the sequences drawn
    MaxBreaks    \* bound on dropped connections and failed reads

ASSUME StreamAssumption ==
    /\ Settler \notin Writers
    /\ Sse \cap Ui = {}
    /\ MaxEvents \in Nat /\ MaxBreaks \in Nat

VARIABLES
    status,    \* the Run's row: not terminal, terminal, deleted
    drawn,     \* the newest sequence the identity column gave out
    visible,   \* the sequences of the committed events
    terminal,  \* the sequence of the Run's terminal event, 0 before it commits
    open,      \* the sequence each open transaction holds, 0 for none
    late,      \* history: those that committed after a later one was visible
    reader,
    breaks

vars == <<status, drawn, visible, terminal, open, late, reader, breaks>>
logVars == <<status, drawn, visible, terminal, open, late>>

Appenders == Writers \cup {Settler}
Readers == Sse \cup Ui
Sequence == 0..MaxEvents

ReaderRow == [pc : {"away", "poll", "recheck", "idle", "row", "tail", "done",
                    "closed", "left", "notfound"},
              cursor : Sequence,
              terminalSeen : BOOLEAN,
              got : Seq(Sequence),     \* the frames sent to this client
              kept : Nat]              \* those it has from earlier connections

(* The log, the transactions and the readers keep their types.             *)
TypeOK ==
    /\ status \in {"active", "terminal", "deleted"}
    /\ drawn \in Sequence /\ terminal \in Sequence
    /\ visible \subseteq 1..MaxEvents /\ late \subseteq 1..MaxEvents
    /\ open \in [Appenders -> Sequence]
    /\ reader \in [Readers -> ReaderRow]
    /\ breaks \in 0..MaxBreaks

Init ==
    /\ status = "active" /\ drawn = 0 /\ visible = {} /\ terminal = 0
    /\ open = [w \in Appenders |-> 0] /\ late = {}
    /\ reader = [c \in Readers |->
                   [pc |-> IF c \in Sse THEN "away" ELSE "poll", cursor |-> 0,
                    terminalSeen |-> FALSE, got |-> <<>>, kept |-> 0]]
    /\ breaks = 0

-----------------------------------------------------------------------------
(* The log.                                                                *)

(* An insert draws the next sequence.  Progress is appended without regard *)
(* to the Run's status; the settler appends only where it won the guarded  *)
(* terminal update.                                                        *)
Insert(w) ==
    /\ open[w] = 0 /\ status # "deleted" /\ drawn < MaxEvents
    /\ w = Settler => status = "active"
    /\ drawn' = drawn + 1
    /\ open' = [open EXCEPT ![w] = drawn + 1]
    /\ UNCHANGED <<status, visible, terminal, late, reader, breaks>>

(* Whether some later sequence is visible before this one.                 *)
Overtaken(s) == \E v \in visible : v > s

(* Mutant: a terminal status is committed without its event.               *)
CommitStatusOnly(w) ==
    /\ open[w] # 0
    /\ open' = [open EXCEPT ![w] = 0]
    /\ IF w = Settler
       THEN status' = "terminal" /\ UNCHANGED <<visible, terminal>>
       ELSE visible' = visible \cup {open[w]} /\ UNCHANGED <<status, terminal>>
    /\ late' = late \cup {s \in {open[w]} : Overtaken(s)}
    /\ UNCHANGED <<drawn, reader, breaks>>

(* The terminal status and its event become visible together.              *)
Commit(w) ==
    /\ open[w] # 0
    /\ open' = [open EXCEPT ![w] = 0]
    /\ visible' = visible \cup {open[w]}
    /\ IF w = Settler THEN status' = "terminal" /\ terminal' = open[w]
       ELSE UNCHANGED <<status, terminal>>
    /\ late' = late \cup {s \in {open[w]} : Overtaken(s)}
    /\ UNCHANGED <<drawn, reader, breaks>>

(* A rolled-back insert leaves a gap: identity values are not given back.  *)
Rollback(w) ==
    /\ open[w] # 0
    /\ open' = [open EXCEPT ![w] = 0]
    /\ UNCHANGED <<status, drawn, visible, terminal, late, reader, breaks>>

(* Deleting the Chat cascades to the Run and its events.  The foreign key  *)
(* makes it wait for open inserts.                                         *)
DeleteRun ==
    /\ status # "deleted" /\ \A w \in Appenders : open[w] = 0
    /\ status' = "deleted" /\ visible' = {}
    /\ UNCHANGED <<drawn, terminal, open, late, reader, breaks>>

-----------------------------------------------------------------------------
(* What every reader does with the events past its cursor.                 *)

Fresh(c) == {s \in visible : s > reader[c].cursor}

(* The rows a read returns, ascending in sequence.                         *)
Ordered(S) == CHOOSE rows \in [1..Cardinality(S) -> S] :
                 \A i, j \in 1..Cardinality(S) : i < j => rows[i] < rows[j]

(* The reader's row after a drain that leads to pc: each event is sent,    *)
(* and the cursor follows the last one.                                    *)
Drained(c, pc) ==
    LET rows == Ordered(Fresh(c)) IN
    [reader[c] EXCEPT !.pc = pc,
                      !.cursor = IF Fresh(c) = {} THEN @ ELSE Last(rows),
                      !.got = @ \o rows]

Move(c, row) == reader' = [reader EXCEPT ![c] = row]

-----------------------------------------------------------------------------
(* RunsController.streamRunEvents.                                         *)

(* Mutant: a reconnecting client's Last-Event-ID is not read.              *)
QueryCursor(c) == 0

(* The Last-Event-ID of a reconnecting client.                             *)
ResumeCursor(c) ==
    IF reader[c].got = <<>> THEN 0 ELSE Last(reader[c].got)

(* Mutant: the pump starts without the status of the row it found.         *)
ConnectUnread(c) ==
    /\ reader[c].pc = "away"
    /\ Move(c, [reader[c] EXCEPT
                  !.pc = IF status = "deleted" THEN "notfound" ELSE "poll",
                  !.cursor = ResumeCursor(c), !.terminalSeen = FALSE,
                  !.kept = Len(reader[c].got)])
    /\ UNCHANGED <<logVars, breaks>>

Connect(c) ==
    /\ reader[c].pc = "away"
    /\ Move(c, [reader[c] EXCEPT
                  !.pc = IF status = "deleted" THEN "notfound" ELSE "poll",
                  !.cursor = ResumeCursor(c),
                  !.terminalSeen = (status = "terminal"),
                  !.kept = Len(reader[c].got)])
    /\ UNCHANGED <<logVars, breaks>>

(* One pass: drain, then close on an idle pass of a terminal Run, re-read  *)
(* the row after a pass that found events, or sleep.                       *)
PollSse(c) ==
    LET row == reader[c] IN
    /\ c \in Sse /\ row.pc = "poll"
    /\ Move(c, Drained(c, CASE Fresh(c) = {} /\ row.terminalSeen    -> "done"
                            [] Fresh(c) = {} /\ ~row.terminalSeen   -> "idle"
                            [] Fresh(c) # {} /\ row.terminalSeen    -> "poll"
                            [] Fresh(c) # {} /\ ~row.terminalSeen   -> "recheck"))
    /\ UNCHANGED <<logVars, breaks>>

(* Mutant: the stream closes as soon as the row is terminal.               *)
RecheckAndClose(c) ==
    /\ reader[c].pc = "recheck"
    /\ Move(c, [reader[c] EXCEPT
                  !.pc = CASE status = "deleted" -> "away"
                           [] status = "terminal" -> "done"
                           [] OTHER -> "poll"])
    /\ UNCHANGED <<logVars, breaks>>

(* refreshTerminalSeen; a deleted Run ends the stream.                     *)
Recheck(c) ==
    /\ reader[c].pc = "recheck"
    /\ Move(c, IF status = "deleted"
               THEN [reader[c] EXCEPT !.pc = "away"]
               ELSE [reader[c] EXCEPT !.pc = "poll",
                                      !.terminalSeen = (status = "terminal")])
    /\ UNCHANGED <<logVars, breaks>>

Wake(c) ==
    /\ reader[c].pc = "idle"
    /\ Move(c, [reader[c] EXCEPT !.pc = "poll"])
    /\ UNCHANGED <<logVars, breaks>>

(* MAX_STREAM_MS: the stream ends without [DONE] and the client reconnects.*)
Deadline(c) ==
    /\ reader[c].pc = "idle"
    /\ Move(c, [reader[c] EXCEPT !.pc = "away"])
    /\ UNCHANGED <<logVars, breaks>>

(* The connection drops or a read fails; the client has some of the frames *)
(* that were sent on it.                                                   *)
BreakSse(c) ==
    /\ c \in Sse /\ reader[c].pc \in {"poll", "recheck", "idle"}
    /\ breaks < MaxBreaks /\ breaks' = breaks + 1
    /\ \E n \in reader[c].kept..Len(reader[c].got) :
          Move(c, [reader[c] EXCEPT !.pc = "away", !.got = SubSeq(@, 1, n)])
    /\ UNCHANGED logVars

-----------------------------------------------------------------------------
(* RunStreamBridgeService.pumpUiMessageEvents.                             *)

PollUi(c) ==
    /\ c \in Ui /\ reader[c].pc = "poll"
    /\ Move(c, Drained(c, CASE terminal \in Fresh(c) -> "done"
                            [] Fresh(c) = {}         -> "row"
                            [] OTHER                 -> "poll"))
    /\ UNCHANGED <<logVars, breaks>>

(* Mutant: an idle pass over a terminal row closes the stream at once.     *)
RowAndClose(c) ==
    /\ reader[c].pc = "row"
    /\ Move(c, [reader[c] EXCEPT
                  !.pc = IF status = "active" THEN "poll" ELSE "closed"])
    /\ UNCHANGED <<logVars, breaks>>

(* After an idle pass the row decides whether to go on.                    *)
ReadRow(c) ==
    /\ reader[c].pc = "row"
    /\ Move(c, [reader[c] EXCEPT
                  !.pc = IF status = "active" THEN "poll" ELSE "tail"])
    /\ UNCHANGED <<logVars, breaks>>

(* One more drain before closing, with [DONE] if it found the terminal.    *)
DrainTail(c) ==
    /\ reader[c].pc = "tail"
    /\ Move(c, Drained(c, IF terminal \in Fresh(c) THEN "done" ELSE "closed"))
    /\ UNCHANGED <<logVars, breaks>>

(* The client is gone, or a read failed.                                   *)
BreakUi(c) ==
    /\ c \in Ui /\ reader[c].pc \in {"poll", "row", "tail"}
    /\ breaks < MaxBreaks /\ breaks' = breaks + 1
    /\ Move(c, [reader[c] EXCEPT !.pc = "left"])
    /\ UNCHANGED logVars

-----------------------------------------------------------------------------
Log == DeleteRun \/ \E w \in Appenders : Insert(w) \/ Commit(w) \/ Rollback(w)

SseStep(c) == Connect(c) \/ PollSse(c) \/ Recheck(c) \/ Wake(c)
UiStep(c) == PollUi(c) \/ ReadRow(c) \/ DrainTail(c)

Next ==
    \/ Log
    \/ \E c \in Sse : SseStep(c) \/ Deadline(c) \/ BreakSse(c)
    \/ \E c \in Ui : UiStep(c) \/ BreakUi(c)

Spec == Init /\ [][Next]_vars

(* A pump keeps polling, an SSE client reconnects, and a stream that sits  *)
(* idle again and again meets its deadline.  Nothing makes a writer        *)
(* commit.                                                                 *)
Fairness ==
    /\ \A c \in Sse : WF_vars(SseStep(c)) /\ SF_vars(Deadline(c))
    /\ \A c \in Ui : WF_vars(UiStep(c))

FairSpec == Spec /\ Fairness

-----------------------------------------------------------------------------
(* Properties.                                                             *)

(* A client never gets an event twice or out of order, across any number   *)
(* of reconnects with whatever prefix of the frames it kept.               *)
DeliveredInOrder ==
    \A c \in Readers : \A i, j \in DOMAIN reader[c].got :
        i < j => reader[c].got[i] < reader[c].got[j]

(* The visible events a stream's cursor, or its [DONE], stands for that    *)
(* were never sent on it.                                                  *)
Missed(c) ==
    LET row == reader[c]
        upTo == IF row.pc = "done" THEN terminal ELSE row.cursor IN
    IF row.pc \in {"away", "left"} THEN {}
    ELSE {s \in visible : s <= upTo} \ Range(row.got)

(* A stream loses an event only if it became visible after a later one: a  *)
(* cursor stands for everything else up to it, across refreshes from the   *)
(* last id seen, and [DONE] for everything up to the terminal event.       *)
OnlyLateLost == \A c \in Readers : Missed(c) \subseteq late

(* A refresh resumes from the last id seen with nothing lost               *)
(* (runs.controller.ts:164).                                               *)
NothingLost == \A c \in Readers : Missed(c) = {}

(* The SSE streams that have not noticed the Run is terminal and poll, or  *)
(* sleep, with nothing past their cursor.                                  *)
Hidden == {c \in Sse : /\ reader[c].pc \in {"poll", "idle"}
                      /\ ~reader[c].terminalSeen /\ status = "terminal"
                      /\ Fresh(c) = {}}

(* A terminal Run whose event was not overtaken surfaces past the cursor   *)
(* of every stream that has not noticed it: the row is re-read only after  *)
(* a pass with events (refreshTerminalSeen).                               *)
TerminalSurfacesInOrder == terminal \notin late => Hidden = {}

(* An idle poll can never be hiding a terminal transition                  *)
(* (runs.controller.ts:220).                                               *)
TerminalSurfaces == Hidden = {}

(* The UI bridge closes a connected client's stream without the terminal   *)
(* event only when the Run was deleted or that event was overtaken: the    *)
(* client reads the missing finish chunk as an interrupted turn.           *)
UiSeesTerminal ==
    \A c \in Ui : reader[c].pc = "closed" =>
                    status = "deleted" \/ terminal \in late

(* Every stream of a Run that settled or was deleted ends, and an SSE      *)
(* client is told so, even where its cursor has passed the terminal event. *)
ReadersEnd ==
    \A c \in Readers :
        status # "active" ~>
            reader[c].pc \in {"done", "notfound", "closed", "left"}
=============================================================================
