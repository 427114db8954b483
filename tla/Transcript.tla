----------------------------- MODULE Transcript -----------------------------
(***************************************************************************)
(* The reply of one Run, from the model's stream to the stored message.    *)
(*                                                                         *)
(* An attempt of executeRun feeds every delivery of its stream to a part   *)
(* collector and, coalesced in two buffers, to a serialized chain of event *)
(* writes.  Whoever settles the Run stores the collector's parts when it   *)
(* holds them, and otherwise replays the event log through the same        *)
(* collector (reconstructDurableAssistant), taking the events of the       *)
(* attempt the reply names.  The UI bridge translates the same log into    *)
(* the parts a connected client sees.                                      *)
(*                                                                         *)
(* Text is a sequence of tokens <<attempt, number>>; provider metadata is  *)
(* left out except where its delivery starts a part.                       *)
(***************************************************************************)
EXTENDS Naturals, Sequences, FiniteSets, SequencesExt

CONSTANTS
    MaxAttempts,  \* bound on the claims of the Run
    Calls,        \* the tool calls one attempt may make
    Bash,         \* those that run in the shell and outlive an abort
    CallKinds,    \* how a call may be admitted, a subset of AllCallKinds
    PartIds,      \* the adapter's part ids; None where the wire sends none
    None,
    MaxTokens,    \* bound on the deliveries with text of one attempt
    MaxSteps,     \* maxStepsPerRun
    MayStage,     \* whether a step may carry an in-Run context item
    MayOverlap,   \* whether a stalled attempt lives on after the next claim
    MaxFailures   \* bound on failed event writes

AllCallKinds == {"allow", "deny", "unavailable", "refuse", "resolve"}

ASSUME TranscriptAssumption ==
    /\ MaxAttempts \in Nat \ {0} /\ MaxTokens \in Nat /\ MaxSteps \in Nat
    /\ MaxFailures \in Nat /\ IsFiniteSet(Calls) /\ Bash \subseteq Calls
    /\ CallKinds \subseteq AllCallKinds
    /\ MayStage \in BOOLEAN /\ MayOverlap \in BOOLEAN

VARIABLES
    run,      \* the Run's row: its status and its active attempt
    log,      \* run_events, in sequence order
    reply,    \* the assistant message
    att,      \* what the process of each attempt holds
    failures

vars == <<run, log, reply, att, failures>>

Attempts == 1..MaxAttempts

-----------------------------------------------------------------------------
(* AssistantPartCollectorImpl.                                             *)

EmptyCollector == [parts |-> <<>>, textId |-> None, reasoningId |-> None,
                   reasoningIds |-> {}, settled |-> {}]

(* Two defined ids that differ start a part; an absent one says nothing.   *)
IsNewPart(openId, id) == id # None /\ openId # None /\ id # openId

(* Characters go into the last part unless its kind, step or id differs.   *)
ExtendsLast(c, kind, openId, id, step) ==
    /\ c.parts # <<>>
    /\ Last(c.parts).kind = kind
    /\ ~IsNewPart(openId, id)
    /\ Last(c.parts).step = step

Chars(kind, toks, step) == [kind |-> kind, toks |-> toks, step |-> step]

WithChars(parts, toks) ==
    Append(Front(parts), [Last(parts) EXCEPT !.toks = @ \o toks])

CollectText(c, toks, id, step) ==
    IF ExtendsLast(c, "text", c.textId, id, step)
    THEN [c EXCEPT !.parts = WithChars(@, toks),
                   !.textId = IF id = None THEN @ ELSE id]
    ELSE [c EXCEPT !.parts = Append(@, Chars("text", toks, step)),
                   !.textId = id]

Named(id) == IF id = None THEN {} ELSE {id}

CollectReasoning(c, toks, id, step) ==
    IF ExtendsLast(c, "reasoning", c.reasoningId, id, step)
    THEN [c EXCEPT !.parts = WithChars(@, toks),
                   !.reasoningId = IF id = None THEN @ ELSE id,
                   !.reasoningIds = @ \cup Named(id)]
    ELSE [c EXCEPT !.parts = Append(@, Chars("reasoning", toks, step)),
                   !.reasoningId = id,
                   !.reasoningIds = @ \cup Named(id)]

(* A metadata delivery under an id no part has yet starts an empty part.   *)
StartsReasoningPart(c, id) == id # None /\ id \notin c.reasoningIds

CollectWithheld(c, id, step) ==
    IF StartsReasoningPart(c, id)
    THEN [c EXCEPT !.parts = Append(@, Chars("reasoning", <<>>, step)),
                   !.reasoningId = id,
                   !.reasoningIds = @ \cup {id}]
    ELSE c

ReserveTool(c, call, step) ==
    [c EXCEPT !.parts = Append(@, [kind |-> "pending-tool", call |-> call,
                                   step |-> step])]

(* At most one outcome per call, in the place its request reserved.        *)
SettleTool(c, call, result) ==
    IF call \in c.settled THEN c
    ELSE [c EXCEPT !.settled = @ \cup {call},
                   !.parts = [i \in DOMAIN @ |->
                       IF @[i].kind = "pending-tool" /\ @[i].call = call
                       THEN [kind |-> "tool", call |-> call, result |-> result,
                             step |-> @[i].step]
                       ELSE @[i]]]

CollectPart(c, part) == [c EXCEPT !.parts = Append(@, part)]
CapNotice == [kind |-> "notice"]
Item(n) == [kind |-> "item", item |-> n]

(* The parts of no such kind, in their order.                              *)
Keep(kept, part, kinds) == IF part.kind \in kinds THEN kept ELSE Append(kept, part)
Without(parts, kinds) ==
    LET kept[n \in 0..Len(parts)] ==
            IF n = 0 THEN <<>> ELSE Keep(kept[n - 1], parts[n], kinds) IN
    kept[Len(parts)]

(* Only settled tool parts are history.                                    *)
PartsOf(c) == Without(c.parts, {"pending-tool"})

-----------------------------------------------------------------------------
(* The event log and what is rebuilt from it.                              *)

Event(type) == [type |-> type, toks |-> <<>>, id |-> None, step |-> 0,
                call |-> None, result |-> None, attempt |-> 0]
Delta(type, toks, id, step) ==
    [Event(type) EXCEPT !.toks = toks, !.id = id, !.step = step]
ToolEvent(type, call) == [Event(type) EXCEPT !.call = call]
Completed(call, result) ==
    [ToolEvent("tool.completed", call) EXCEPT !.result = result]

(* DurableAssistantReconstructor.applyEvent.                               *)
ApplyEvent(r, e) ==
    CASE e.type = "model.delta" ->
           [r EXCEPT !.coll = CollectText(@, e.toks, e.id, e.step)]
      [] e.type = "reasoning.delta" /\ e.toks # <<>> ->
           [r EXCEPT !.coll = CollectReasoning(@, e.toks, e.id, e.step)]
      [] e.type = "reasoning.delta" /\ e.toks = <<>> ->
           [r EXCEPT !.coll = CollectWithheld(@, e.id, e.step)]
      [] e.type = "run.step_cap_reached" ->
           [r EXCEPT !.coll = CollectPart(@, CapNotice)]
      [] e.type = "tool.requested" /\ e.call \notin r.seen ->
           [r EXCEPT !.coll = ReserveTool(@, e.call, e.step), !.open = @ \cup {e.call},
                     !.seen = @ \cup {e.call}]
      [] e.type = "tool.completed" /\ e.call \in r.open ->
           [r EXCEPT !.coll = SettleTool(@, e.call, e.result),
                     !.open = @ \ {e.call}]
      [] OTHER -> r

NothingRebuilt == [coll |-> EmptyCollector, open |-> {}, seen |-> {}]

(* reconstructDurableAssistant.                                            *)
Rebuild(events) ==
    LET rebuilt[n \in 0..Len(events)] ==
            IF n = 0 THEN NothingRebuilt
            ELSE ApplyEvent(rebuilt[n - 1], events[n]) IN
    rebuilt[Len(events)]

RebuiltParts(events) == PartsOf(Rebuild(events).coll)

(* Mutant: the events of every attempt.                                    *)
WholeLog(events, a) == events

(* One attempt's events, from the request that names it up to the next     *)
(* claim.                                                                  *)
AttemptWindow(events, a) ==
    LET start == SelectInSeq(events, LAMBDA e : e.type = "model.requested"
                                                /\ e.attempt = a)
        rest == SubSeq(events, start, Len(events))
        end == SelectInSeq(rest, LAMBDA e : e.type = "run.started") IN
    IF start = 0 THEN <<>>
    ELSE IF end = 0 THEN rest
    ELSE SubSeq(rest, 1, end - 1)

CallsIn(parts) == {parts[i].call : i \in {j \in DOMAIN parts :
                                            parts[j].kind = "tool"}}

(* Mutant: a stored item goes to the end of the rebuilt parts.             *)
ItemLast(placed, snapshot, i) == Append(placed, snapshot[i])

(* The snapshot's i-th part, an item, goes after the last rebuilt part     *)
(* whose call precedes it in the snapshot, and after the items there.      *)
PlaceItem(placed, snapshot, i) ==
    LET earlier == CallsIn(SubSeq(snapshot, 1, i))
        after == SelectLastInSeq(placed, LAMBDA p : p.kind = "tool"
                                                    /\ p.call \in earlier)
        items == SelectInSeq(SubSeq(placed, after + 1, Len(placed)),
                             LAMBDA p : p.kind # "item")
        at == IF items = 0 THEN Len(placed) + 1 ELSE after + items IN
    InsertAt(placed, at, snapshot[i])

PlacePart(placed, snapshot, i) ==
    IF snapshot[i].kind = "item" THEN PlaceItem(placed, snapshot, i) ELSE placed

(* placeStoredContextItems.                                                *)
PlaceStoredItems(rebuilt, snapshot) ==
    LET placed[i \in 0..Len(snapshot)] ==
            IF i = 0 THEN rebuilt ELSE PlacePart(placed[i - 1], snapshot, i) IN
    placed[Len(snapshot)]

-----------------------------------------------------------------------------
(* RunEventTranslatorImpl: the parts a connected client is shown.  The     *)
(* open text or reasoning part is always the last one.                     *)

ShowChars(u, kind, toks, opens, id) ==
    IF opens
    THEN [u EXCEPT !.parts = Append(@, [kind |-> kind, toks |-> toks]),
                   !.open = kind, !.id = id]
    ELSE [u EXCEPT !.parts = WithChars(@, toks),
                   !.id = IF id = None THEN @ ELSE id]

ShowPart(u, part) ==
    [u EXCEPT !.parts = Append(@, part), !.open = "none", !.id = None]

ShowResult(u, call, result) ==
    [u EXCEPT !.running = @ \ {call},
              !.parts = [i \in DOMAIN @ |->
                           IF @[i].kind = "tool" /\ @[i].call = call
                           THEN [@[i] EXCEPT !.result = result] ELSE @[i]]]

ShowRequest(u, call) ==
    [ShowPart(u, [kind |-> "tool", call |-> call, result |-> "running"])
       EXCEPT !.running = @ \cup {call}]

Translate(u, e) ==
    CASE e.type = "model.delta" /\ e.toks # <<>> ->
           ShowChars(u, "text", e.toks, u.open # "text", None)
      [] e.type = "reasoning.delta" /\ e.toks # <<>> ->
           ShowChars(u, "reasoning", e.toks,
                     u.open # "reasoning" \/ IsNewPart(u.id, e.id), e.id)
      [] e.type = "tool.requested" -> ShowRequest(u, e.call)
      [] e.type = "tool.completed" /\ e.call \in u.running ->
           ShowResult(u, e.call, e.result)
      [] e.type = "run.step_cap_reached" -> ShowPart(u, CapNotice)
      [] e.type = "run.terminal" ->
           FoldLeft(LAMBDA v, call : ShowResult(v, call, "cancelled"), u,
                    SetToSeq(u.running))
      [] OTHER -> u

UiParts(events) ==
    FoldLeft(Translate, [parts |-> <<>>, open |-> "none", id |-> None,
                         running |-> {}], events).parts

-----------------------------------------------------------------------------
(* An attempt's process: executeRun's closure.                             *)

CallIds == Attempts \X Calls
CallState == {"none", "resolving", "admitted", "denied", "running", "rejected",
              "thrown", "settled"}
Phases == {"new", "claimed", "streaming", "aborting", "draining", "settling",
           "ended", "dead"}

FreshAttempt ==
    [phase |-> "new", coll |-> EmptyCollector,
     textBuf |-> <<>>, textId |-> None,           \* deltas, textPartId
     reasoningBuf |-> <<>>, reasoningId |-> None, \* reasoningDeltas
     chain |-> <<>>,                              \* deltaWrites
     calls |-> [c \in Calls |-> "none"],
     step |-> 0, called |-> FALSE, capped |-> FALSE,
     failed |-> FALSE,                            \* progressWriteFailed
     end |-> "none", tokens |-> 0]

NoReply == [attempt |-> 0, status |-> "none", parts |-> <<>>]

(* The Run, its log, its reply and the attempts keep their types.          *)
TypeOK ==
    /\ run.status \in {"live", "completed", "failed", "cancelled", "expired"}
    /\ run.active \in 0..MaxAttempts
    /\ reply.attempt \in 0..MaxAttempts
    /\ reply.status \in {"none", "running", "completed", "failed",
                          "cancelled", "expired"}
    /\ \A a \in Attempts :
          /\ att[a].phase \in Phases
          /\ att[a].calls \in [Calls -> CallState]
          /\ att[a].tokens \in 0..MaxTokens /\ att[a].step \in 0..MaxSteps
          /\ \A i \in DOMAIN att[a].chain :
                att[a].chain[i].call \in CallIds \cup {None}
    /\ failures \in 0..MaxFailures

Init ==
    /\ run = [status |-> "live", active |-> 0]
    /\ log = <<>> /\ reply = NoReply
    /\ att = [a \in Attempts |-> FreshAttempt]
    /\ failures = 0

Enqueue(l, e) == [l EXCEPT !.chain = Append(@, e)]

FlushReasoning(l) ==
    IF l.reasoningBuf = <<>> THEN l
    ELSE [Enqueue(l, Delta("reasoning.delta", l.reasoningBuf, l.reasoningId,
                           l.step)) EXCEPT !.reasoningBuf = <<>>]
FlushText(l) ==
    IF l.textBuf = <<>> THEN l
    ELSE [Enqueue(l, Delta("model.delta", l.textBuf, l.textId, l.step))
            EXCEPT !.textBuf = <<>>]
Flush(l) == FlushText(FlushReasoning(l))

Set(a, l) == att' = [att EXCEPT ![a] = l]
storeVars == <<run, log, reply, failures>>
Streaming(a) == att[a].phase = "streaming"

(* openToolCalls; the model waits for the result of each but a thrown one. *)
Awaited(l) == {c \in Calls : l.calls[c] \in {"resolving", "admitted", "denied",
                                            "running", "rejected"}}
OpenCalls(l) == Awaited(l) \cup {c \in Calls : l.calls[c] = "thrown"}

(* recordToolCompleted: one durable completion and one settled part.       *)
RecordCompleted(a, l, c, result) ==
    [Enqueue(l, Completed(<<a, c>>, result)) EXCEPT
       !.coll = SettleTool(@, <<a, c>>, result),
       !.calls[c] = "settled"]

(* settleOpenToolCalls of the live attempt.                                *)
SettleOpen(a, l, cs) ==
    LET open == SetToSeq(OpenCalls(l) \cap cs)
        after[n \in 0..Len(open)] ==
            IF n = 0 THEN l
            ELSE RecordCompleted(a, after[n - 1], open[n], "cancelled") IN
    after[Len(open)]

-----------------------------------------------------------------------------
(* Deliveries of the model's stream.                                       *)

Token(a) == <<a, att[a].tokens + 1>>

(* A buffered delta is written at once when it is long or old enough.      *)
PushText(l, tok) ==
    LET buffered == [l EXCEPT !.textBuf = Append(@, tok), !.tokens = @ + 1] IN
    {buffered, FlushText(buffered)}
PushReasoning(l, tok) ==
    LET buffered == [l EXCEPT !.reasoningBuf = Append(@, tok),
                              !.tokens = @ + 1] IN
    {buffered, FlushReasoning(buffered)}

(* Drain before adopting an id, so that no event spans two parts.          *)
AdoptTextId(l, id) ==
    IF id = l.textId THEN l ELSE [FlushText(l) EXCEPT !.textId = id]
AdoptReasoningId(l, id) ==
    IF id = l.reasoningId THEN l
    ELSE [FlushReasoning(l) EXCEPT !.reasoningId = id]

OnTextDelta(a, id) ==
    LET l == [att[a] EXCEPT
                !.coll = CollectText(@, <<Token(a)>>, id, att[a].step)]
        crossed == [FlushReasoning(l) EXCEPT !.reasoningId = None] IN
    /\ Streaming(a) /\ att[a].tokens < MaxTokens
    /\ \E pushed \in PushText(AdoptTextId(crossed, id), Token(a)) : Set(a, pushed)
    /\ UNCHANGED storeVars

(* Mutant: reasoning is buffered without draining the text before it.      *)
CrossReasoningUnflushed(l) == [l EXCEPT !.textId = None]

CrossReasoning(l) == [FlushText(l) EXCEPT !.textId = None]

OnReasoningDelta(a, id) ==
    LET l == [AdoptReasoningId(att[a], id) EXCEPT
                !.coll = CollectReasoning(@, <<Token(a)>>, id, att[a].step)] IN
    /\ Streaming(a) /\ att[a].tokens < MaxTokens
    /\ \E pushed \in PushReasoning(CrossReasoning(l), Token(a)) : Set(a, pushed)
    /\ UNCHANGED storeVars

(* A metadata delivery of a text part drains both buffers; it binds to a   *)
(* stored part and starts none.                                            *)
OnTextMetadata(a) ==
    /\ Streaming(a)
    /\ Set(a, Flush(att[a]))
    /\ UNCHANGED storeVars

(* Mutant: the text buffered before a withheld block is not drained.       *)
BeforeWithheldUnflushed(l, id) == FlushReasoning(l)

BeforeWithheld(l, id) ==
    FlushReasoning(IF StartsReasoningPart(l.coll, id) THEN FlushText(l) ELSE l)

(* A reasoning part's metadata, which starts the part when the provider    *)
(* withheld its text.                                                      *)
OnReasoningMetadata(a, id) ==
    LET l == BeforeWithheld(att[a], id) IN
    /\ Streaming(a) /\ att[a].tokens < MaxTokens
    /\ Set(a, [Enqueue(l, Delta("reasoning.delta", <<>>, id, l.step)) EXCEPT
                 !.coll = CollectWithheld(@, id, l.step), !.tokens = @ + 1])
    /\ UNCHANGED storeVars

-----------------------------------------------------------------------------
(* Tool calls, steps and the step cap.                                     *)

Requested(a, l, c) ==
    Enqueue(l, [ToolEvent("tool.requested", <<a, c>>) EXCEPT !.step = l.step])

(* admitToolCall of the run: the request, and the start of an allowed one. *)
Admit(a, l, c, allowed) ==
    IF allowed
    THEN [Enqueue(Requested(a, l, c), ToolEvent("tool.started", <<a, c>>))
            EXCEPT !.calls[c] = "admitted"]
    ELSE [Requested(a, l, c) EXCEPT !.calls[c] = "denied"]

(* executeBoundTool drains the buffers and reserves the call's place.      *)
Reserve(a, c) ==
    [Flush(att[a]) EXCEPT !.coll = ReserveTool(@, <<a, c>>, att[a].step),
                          !.called = TRUE]

(* The call is allowed or denied at once; refused by the SDK's own check;  *)
(* refused by runTool before its permission is asked, which records no     *)
(* request; or waits for its ssh destination.                              *)
CallTool(a, c, kind) ==
    LET l == Reserve(a, c) IN
    /\ Streaming(a) /\ att[a].calls[c] = "none" /\ att[a].step < MaxSteps
    /\ Set(a, CASE kind = "allow"       -> Admit(a, l, c, TRUE)
                [] kind = "deny"        -> Admit(a, l, c, FALSE)
                [] kind = "unavailable" ->
                     RecordCompleted(a, Requested(a, l, c), c, "unavailable")
                [] kind = "refuse"      -> RecordCompleted(a, l, c, "refused")
                [] kind = "resolve"     -> [l EXCEPT !.calls[c] = "resolving"])
    /\ UNCHANGED storeVars

(* The destination resolved and the call was decided, or it did not.       *)
ResolveCall(a, c) ==
    LET l == att[a] IN
    /\ Streaming(a) /\ l.calls[c] = "resolving"
    /\ \/ \E allowed \in BOOLEAN : Set(a, Admit(a, l, c, allowed))
       \/ Set(a, RecordCompleted(a, l, c, "refused"))
    /\ UNCHANGED storeVars

(* The executor's result, or the denial.  After an abort only a shell call *)
(* still reports its own result.                                           *)
CompleteTool(a, c) ==
    LET l == att[a] IN
    /\ l.phase = "streaming" \/ (l.phase = "aborting" /\ c \in Bash)
    /\ l.calls[c] \in {"running", "rejected"}
    /\ Set(a, RecordCompleted(a, l, c, IF l.calls[c] = "running" THEN "ok"
                                       ELSE "denied"))
    /\ UNCHANGED storeVars

(* The attempt still holds the Run.                                        *)
Fenced(a) == run.status = "live" /\ run.active = a

NewStep(l) ==
    LET next == [Flush(l) EXCEPT !.step = @ + 1, !.called = FALSE] IN
    IF next.step = MaxSteps
    THEN [Enqueue(next, Event("run.step_cap_reached")) EXCEPT !.capped = TRUE]
    ELSE next

(* prepareStep, after every call of the step has returned.                 *)
OnStepStart(a) ==
    /\ Streaming(a) /\ att[a].called /\ att[a].step < MaxSteps
    /\ Awaited(att[a]) = {}
    /\ Set(a, NewStep(att[a]))
    /\ UNCHANGED storeVars

(* storeInRunSnapshot: the item is committed onto the running reply with   *)
(* the parts so far, before the step whose request carries it.             *)
StageItem(a) ==
    LET next == NewStep(att[a])
        item == Item(next.step) IN
    /\ MayStage
    /\ Streaming(a) /\ att[a].called /\ att[a].step < MaxSteps
    /\ Awaited(att[a]) = {}
    /\ Fenced(a) /\ reply.attempt = a /\ reply.status = "running"
    /\ reply' = [reply EXCEPT !.parts = Append(PartsOf(next.coll), item)]
    /\ Set(a, [next EXCEPT !.coll = CollectPart(@, item)])
    /\ UNCHANGED <<run, log, failures>>

-----------------------------------------------------------------------------
(* The chain of event writes.                                              *)

(* An admission waits for the writes before and of its own events; then    *)
(* the call runs or is denied, or throws when any write has failed.        *)
Resume(state, failed) ==
    CASE state \in {"admitted", "denied"} /\ failed -> "thrown"
      [] state = "admitted" /\ ~failed -> "running"
      [] state = "denied" /\ ~failed -> "rejected"
      [] OTHER -> state

Written(a, l) ==
    [l EXCEPT !.calls = [c \in Calls |->
        IF \A i \in DOMAIN l.chain : l.chain[i].call # <<a, c>>
        THEN Resume(@[c], l.failed) ELSE @[c]]]

Persist(a) ==
    /\ att[a].phase # "dead" /\ att[a].chain # <<>>
    /\ log' = Append(log, Head(att[a].chain))
    /\ Set(a, Written(a, [att[a] EXCEPT !.chain = Tail(@)]))
    /\ UNCHANGED <<run, reply, failures>>

(* A failed write is dropped; the chain goes on behind it.                 *)
PersistFails(a) ==
    /\ att[a].phase # "dead" /\ att[a].chain # <<>>
    /\ failures < MaxFailures /\ failures' = failures + 1
    /\ Set(a, Written(a, [att[a] EXCEPT !.chain = Tail(@), !.failed = TRUE]))
    /\ UNCHANGED <<run, log, reply>>

-----------------------------------------------------------------------------
(* The life of an attempt and the settlement of the Run.                   *)

Gone(a) == att[a].phase \in {"new", "ended", "dead"}
Quiet == MayOverlap \/ \A a \in Attempts : Gone(a)

(* The claim: the next delivery takes the Run over.                        *)
Claim(a) ==
    /\ run.status = "live" /\ a = run.active + 1 /\ Quiet
    /\ run' = [run EXCEPT !.active = a]
    /\ log' = Append(log, Event("run.started"))
    /\ Set(a, [att[a] EXCEPT !.phase = "claimed"])
    /\ UNCHANGED <<reply, failures>>

(* upsertRunningReply drops an earlier attempt's output and items.         *)
ResetReply(a) == [attempt |-> a, status |-> "running", parts |-> <<>>]

(* dispatchAttempt: the reply is reset and the request recorded, or, over  *)
(* a salvaged answer, the Run settles completed.                           *)
Dispatch(a) ==
    /\ att[a].phase = "claimed"
    /\ IF ~Fenced(a)
       THEN /\ Set(a, [att[a] EXCEPT !.phase = "ended"])
            /\ UNCHANGED storeVars
       ELSE IF reply.status = "completed"
       THEN /\ run' = [run EXCEPT !.status = "completed"]
            /\ log' = Append(log, Event("run.terminal"))
            /\ Set(a, [att[a] EXCEPT !.phase = "ended"])
            /\ UNCHANGED <<reply, failures>>
       ELSE /\ reply' = ResetReply(a)
            /\ log' = Append(log, [Event("model.requested") EXCEPT !.attempt = a])
            /\ Set(a, [att[a] EXCEPT !.phase = "streaming"])
            /\ UNCHANGED <<run, failures>>

(* onFinish, after every call has returned.                                *)
OnFinish(a, end) ==
    /\ Streaming(a) /\ Awaited(att[a]) = {}
    /\ Set(a, [Flush(att[a]) EXCEPT !.phase = "draining", !.end = end])
    /\ UNCHANGED storeVars

(* onError: the stream fails, or was aborted with no call open.            *)
OnError(a, end) ==
    /\ Streaming(a) /\ (end = "cancelled" => OpenCalls(att[a]) = {})
    /\ Set(a, [Flush(att[a]) EXCEPT !.phase = "draining", !.end = end,
                                    !.capped = FALSE])
    /\ UNCHANGED storeVars

(* Past the first drain: the notice of a finished turn, and the outcome of *)
(* the calls a turn that did not complete leaves open.                     *)
AfterDrain(a, l) ==
    LET noted == IF l.capped THEN [l EXCEPT !.coll = CollectPart(@, CapNotice)]
                 ELSE l IN
    IF l.end = "completed" THEN noted ELSE SettleOpen(a, noted, Calls)

Drain(a) ==
    LET l == att[a] IN
    /\ l.phase = "draining" /\ l.chain = <<>>
    /\ Set(a, [(IF l.failed THEN l ELSE AfterDrain(a, l))
                 EXCEPT !.phase = "settling"])
    /\ UNCHANGED storeVars

(* settleToolsOnParentAbort: the open calls end at once, a shell call      *)
(* after its grace.  The buffers are not drained.                          *)
Abort(a) ==
    LET l == att[a] IN
    /\ Streaming(a) /\ OpenCalls(l) # {}
    /\ Set(a, [SettleOpen(a, l, Calls \ Bash)
                 EXCEPT !.phase = "aborting", !.end = "cancelled"])
    /\ UNCHANGED storeVars

GraceEnds(a) ==
    /\ att[a].phase = "aborting"
    /\ Set(a, [SettleOpen(a, att[a], Calls) EXCEPT !.phase = "settling"])
    /\ UNCHANGED storeVars

(* Mutant: the calls the log leaves open stay open.                        *)
LogCompletionsNone(events) == <<>>

(* settleOpenToolCalls of the finalizer, over the whole log.               *)
LogCompletions(events) ==
    SetToSeq({Completed(call, "cancelled") : call \in Rebuild(events).open})

(* rebuiltReplyWrite: a reply still running is rebuilt from the events of  *)
(* the attempt it names, around the items stored on it.                    *)
RebuiltReply(end) ==
    IF reply.status # "running" THEN reply
    ELSE [reply EXCEPT !.status = end,
                       !.parts = PlaceStoredItems(
                           RebuiltParts(AttemptWindow(log, reply.attempt)
                                        \o LogCompletions(log)), @)]

(* The terminal transaction of a settler without the collector.  Over a    *)
(* completed reply nothing is settled or written.                          *)
SettleFromLog(end) ==
    /\ run' = [run EXCEPT !.status = end]
    /\ reply' = RebuiltReply(end)
    /\ log' = (IF reply.status = "completed" THEN log
               ELSE log \o LogCompletions(log)) \o <<Event("run.terminal")>>

(* The live turn over the reply, where the attempt still owns it.          *)
LiveReply(a) ==
    [attempt |-> a, status |-> att[a].end, parts |-> PartsOf(att[a].coll)]

(* finishRun and settleTerminalRun, fenced by the attempt.                 *)
Finish(a) ==
    LET l == att[a] IN
    /\ l.phase = "settling" /\ l.chain = <<>>
    /\ Set(a, [l EXCEPT !.phase = "ended"])
    /\ CASE ~Fenced(a) ->
              \* handleLostFinish: after an expiry the turn is salvaged
              /\ reply' = IF /\ run.status = "expired" /\ ~l.failed
                             /\ reply.attempt = a /\ reply.status # "completed"
                          THEN LiveReply(a) ELSE reply
              /\ UNCHANGED <<run, log>>
         [] Fenced(a) /\ l.failed -> SettleFromLog("failed")
         [] Fenced(a) /\ ~l.failed /\ l.end = "completed"
              /\ Rebuild(log).open # {} ->
              \* the transaction throws; the answer is salvaged
              /\ reply' = LiveReply(a)
              /\ UNCHANGED <<run, log>>
         [] OTHER ->
              /\ run' = [run EXCEPT !.status = l.end]
              /\ reply' = LiveReply(a)
              /\ log' = log \o LogCompletions(log) \o <<Event("run.terminal")>>
    /\ UNCHANGED failures

(* The dead letter, the expiry by a new message, a pickup failure, or a    *)
(* later attempt that ends before its own dispatch.                        *)
SettleOutside(end) ==
    /\ run.status = "live" /\ run.active > 0 /\ Quiet
    /\ SettleFromLog(end)
    /\ UNCHANGED <<att, failures>>

Crash(a) ==
    /\ ~Gone(a)
    /\ Set(a, [FreshAttempt EXCEPT !.phase = "dead"])
    /\ UNCHANGED storeVars

-----------------------------------------------------------------------------
Stream(a) ==
    \/ \E id \in PartIds : OnTextDelta(a, id) \/ OnReasoningDelta(a, id)
                           \/ OnReasoningMetadata(a, id)
    \/ OnTextMetadata(a) \/ OnStepStart(a) \/ StageItem(a)
    \/ \E c \in Calls : \E kind \in CallKinds : CallTool(a, c, kind)
    \/ \E c \in Calls : ResolveCall(a, c) \/ CompleteTool(a, c)

End(a) ==
    \/ \E end \in {"completed", "failed", "cancelled"} : OnFinish(a, end)
    \/ \E end \in {"failed", "cancelled"} : OnError(a, end)
    \/ Drain(a) \/ Abort(a) \/ GraceEnds(a) \/ Finish(a)

Next ==
    \/ \E a \in Attempts : \/ Claim(a) \/ Dispatch(a) \/ Stream(a) \/ End(a)
                           \/ Persist(a) \/ PersistFails(a) \/ Crash(a)
    \/ \E end \in {"failed", "expired"} : SettleOutside(end)

Spec == Init /\ [][Next]_vars

-----------------------------------------------------------------------------
(* Properties.                                                             *)

(* What a reader sees of a list of parts: the items and notices left out,  *)
(* no part for a block without text, and adjacent parts of a kind read as  *)
(* one.                                                                    *)
View(parts) ==
    FoldLeft(LAMBDA v, p :
               CASE p.kind = "tool" ->
                      Append(v, [kind |-> "tool", call |-> p.call,
                                 result |-> p.result])
                 [] p.kind # "tool" /\ p.toks = <<>> -> v
                 [] p.kind # "tool" /\ v # <<>> /\ Last(v).kind = p.kind ->
                      WithChars(v, p.toks)
                 [] OTHER -> Append(v, [kind |-> p.kind, toks |-> p.toks]),
             <<>>, Without(parts, {"item", "notice"}))

Settled == run.status # "live"
ReplySettled == reply.status \notin {"none", "running"}

(* A transcript replayed from the log and the one collected live are the   *)
(* same: at every moment of the stream, the events written, queued and     *)
(* still buffered rebuild the parts the collector holds.                   *)
ReplayMatchesLive ==
    \A a \in Attempts :
        Streaming(a) /\ run.active = a /\ ~att[a].failed =>
            Without(RebuiltParts(AttemptWindow(log, a) \o Flush(att[a]).chain),
                    {"notice"})
              = Without(PartsOf(att[a].coll), {"notice", "item"})

(* A replay has the calls it holds in the order of the live transcript.    *)
ReplayKeepsCallOrder ==
    \A a \in Attempts :
        Streaming(a) /\ run.active = a /\ ~att[a].failed =>
            LET live == PartsOf(att[a].coll)
                replayed == RebuiltParts(AttemptWindow(log, a)
                                         \o Flush(att[a]).chain)
                ordered(parts, calls) ==
                    View(SelectSeq(parts, LAMBDA p : p.kind = "tool"
                                                     /\ p.call \in calls)) IN
            ordered(replayed, CallsIn(replayed)) = ordered(live, CallsIn(replayed))

ProjectsLog == View(reply.parts) = View(UiParts(log))

(* The stored reply of a Run that one attempt executed is a projection of  *)
(* its event log: whoever settled the Run, wherever the process died, a    *)
(* reload shows what the stream of the log shows.                          *)
ReplyProjectsLog ==
    ReplySettled /\ run.active = 1 /\ reply.status # "cancelled" => ProjectsLog

(* The same for a Run whose calls were settled by an abort.                *)
AbortedReplyProjectsLog ==
    ReplySettled /\ run.active = 1 /\ reply.status = "cancelled" => ProjectsLog

PartFrom(p, a) ==
    CASE p.kind = "tool" -> p.call[1] = a
      [] p.kind \in {"text", "reasoning"} -> \A t \in Range(p.toks) : t[1] = a
      [] OTHER -> TRUE

(* The events of one attempt cannot merge into the reply of another.       *)
ReplyIsOneAttempt ==
    ReplySettled => \A p \in Range(reply.parts) : PartFrom(p, reply.attempt)

RequestedIn(events) ==
    {e.call : e \in {f \in Range(events) : f.type = "tool.requested"}}

(* Once a Run has settled without an answer, every call any attempt        *)
(* requested has an outcome in the log, and the reply shows each call of   *)
(* its attempt.                                                            *)
EveryCallHasOutcome ==
    Settled /\ reply.status # "completed" =>
        /\ Rebuild(log).open = {}
        /\ RequestedIn(AttemptWindow(log, reply.attempt)) \subseteq
             CallsIn(reply.parts)

(* An in-Run item stays after the calls of the steps before it and ahead   *)
(* of what the step that first carried it produced.                        *)
ItemsKeepTheirPlace ==
    \A i, j \in DOMAIN reply.parts :
        LET p == reply.parts[i] q == reply.parts[j] IN
        p.kind = "item" /\ q.kind \notin {"item", "notice"} =>
            /\ q.kind = "tool" /\ q.step < p.item => j < i
            /\ q.step >= p.item => i < j

(* A successful turn and the Run's completion commit together.             *)
AnswerCommitsWithRun == reply.status = "completed" => Settled

(* Only a turn that completed claims to have answered at the step cap.     *)
CapNoticeMeansAnswered ==
    ReplySettled /\ CapNotice \in Range(reply.parts) => reply.status = "completed"
=============================================================================
