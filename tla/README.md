# A verification model of llame

llame is a multi-user chat server. Every user message becomes a *Run*: a row in
Postgres, a job on a pg-boss queue, an append-only event log and an assistant
reply. A worker process executes the Run; the HTTP API admits messages, cancels
Runs and streams their events. While it runs, an attempt talks to a model, to
MCP servers and to remote Machines. The hard part of the program is that these
touch the same rows from different processes, that the queue delivers at least
once, that a worker believed dead may only have been paused, and that what comes
back from a session may speak of one that is gone.

This directory models the life of a Run, the reply it leaves, and the two kinds
of session its tools depend on, in TLA+. TLC checks the models on small
instances, and TLAPS proves the main safety properties of the Run's life for
every instance. Paths below are relative to `src/apps/api/src/` unless they start
with `src/`.

## 1. Inventory

### Modelled

| Component | State it keeps | Operations | Modules |
|---|---|---|---|
| **Run store** (`runs/run-status.ts`, `runs/runs-repository.ts`, `runs/run-reply-finalizer.ts`, `chats/running-reply-repository.ts`, `chats/assistant-completion.ts`) | the `runs` row (status, cancel flag, `activeAttemptId`, `completedAttemptId`), the assistant reply's status and the Run and attempt its usage names, the facts read back from `run_events` | create, claim, request cancel, guarded terminal write, reply reset, reply finalization (live turn or rebuilt from the log), salvage | `RunStore` |
| **Chat admission** (`chats/chat-admission.ts`, `run-creation.ts`, `chat-loop.service.ts`, `follow-up-admission.service.ts`) | a transaction that holds the Chat's row lock | judge the blocking Run, expire it when it is stuck, refuse with 409, accept a Send, Continue or Regenerate | `RunLifecycle` |
| **Dispatch and queue** (`runs/run-dispatch.service.ts`, `runs/run-queues.ts`, `queue/pgboss-queue.service.ts`) | the job named by the Run's id, its retries, its dead letter | enqueue, failed enqueue, fetch, complete, retry, dead-letter, heartbeat expiry | `RunLifecycle` |
| **Worker** (`runs/runs-worker.service.ts`, `runs/run-abort-registry.ts`) | one handler per delivery, one abort registry per process, timers | pick up, register, re-check, claim, verify, unregister, expire a dead-lettered Run | `RunLifecycle` |
| **Run execution** (`runs/run-execution.service.ts`, `runs/native-files-repository.ts`) | the attempt's live turn, open tool calls, admitted native effects | claim transaction, preparation, dispatch transaction, tool calls, native fence, every way to settle | `RunLifecycle` |
| **Run endpoints** (`runs/runs.controller.ts`) | open requests, SSE connections | cancel; stream events with resumption | `RunLifecycle`, `RunEvents` |
| **Event log and UI bridge** (`runs/run-stream-bridge.ts`, `run_events`) | sequences drawn and visible, each reader's cursor | append, commit, poll, re-read the row, last drain | `RunEvents` |
| **Transcript** (`runs/assistant-transcript.ts`, `runs/transcript-text-parts.ts`, `runs/delta-buffer.ts`, the stream callbacks of `runs/run-execution.service.ts`, `attemptWindow` and its callers in `runs/run-reply-finalizer.ts`, the translator of `runs/run-stream-bridge.ts`) | an attempt's part collector, two delta buffers, its chain of event writes and its tool calls; the log; the reply's parts | text and reasoning deltas, steps, tool calls, context items, abort, settlement from memory and from the log, translation to what a client shows | `Transcript` |
| **Remote machines** (`machines/`, `tools/machine-call.ts`, `src/apps/machine`, `src/packages/machine-protocol`) | the connector's session per Machine, its idle timer, the stream tables of both ends, frames in flight, the operations and processes of the daemon | open, request, cancel, answer, heartbeat, idle out, end, MCP channels | `MachineSession` |
| **MCP runtime** (`mcp/mcp-runtime.service.ts`, `mcp/mcp-server-client.ts`) | one server's record: generation, client, catalog, operation, timer, retry budget | connect, discover, refresh, disconnect, tool calls, reconnect, shutdown | `McpRuntime` |
| **durable-runs contract** (`src/openspec/specs/durable-runs/spec.md`) | what a reader sees of a Chat's Runs | accept, settle | `DurableRun` |

How they interact. Admission commits a queued Run and then, outside the
transaction, enqueues the job named by the Run's id. The queue gives the job to
some process; the handler reads the row, builds a client, registers an abort
controller under the Run's id, reads the row again, claims the Run (which draws
an attempt id) and streams the model. Every terminal writer (the attempt, the
pre-start cancel, a failed enqueue, admission's expiry and the dead-letter
handler) goes through one guarded update; the winner finalizes the reply and
appends the terminal event in the same transaction, and the loser may still
publish its live turn into a reply that names its attempt. The cancel endpoint
sets a flag and then aborts the controller of its own process only. Readers poll
the event log and see a row once its transaction commits. An attempt feeds each
delivery of its stream to a collector in memory and, coalesced, to the log; the
reply is stored from the one or rebuilt from the other, and a client sees a third
projection. A tool call may go to a Machine, over a session the connector shares
between calls, or to an MCP server, through the catalog its runtime last
discovered.

### Not modelled

| Component | Why, or when |
|---|---|
| Compaction (`compaction/`) | planned: the checkpoint's compare-and-set against a moving history |
| Search projection (`search/`) | planned: outbox jobs against live rows; ranking and SQL are out of TLC's reach |
| Workspace MCP clients (`mcp/workspace-mcp-clients.ts`) | planned: the holds, starts and stops of a Chat's client sets |
| ssh setup (`ssh/`), file and media operations of a Machine | transport set-up and pure I/O |
| Media (`media/`) | planned: epoch admission and garbage collection |
| Knowledge spaces (`knowledge/`) | planned: optimistic commits to git repositories |
| Live updates (`live/`) | planned: websocket fan-out |
| Built-in tools, models and providers, skills, prompts, memory | argument schemas, text assembly, configuration and provider I/O: no protocol state |
| Titles | a best-effort side job that never changes a Run |
| Projects, pins, identity, auth | CRUD whose only protocol is one SQL statement |
| Database schema | declarative; the in-flight unique index is the guard of `CreateRun` |
| Web client, storybook, executor packages | user interface, process spawning, path and string functions |

Within the modelled components these are left out:

* *Runs*: listing queries, archive and model-selection checks of admission, the
  creation of Chats, prompt assembly, usage accounting, tool permissions, shutdown
  draining (a shutdown that does not drain is a crash). `RunLifecycle` gives an
  attempt one open call or none, which is all the finalizer asks; calls in
  parallel are in `Transcript`.
* *Transcript*: provider metadata other than what starts a part, the seed a
  Continue passes, instruction reads of system origin.
* *Machines*: the reachability cache, the serialization of file mutations, media
  bytes, malformed frames and the shutdown of the module.
* *MCP*: what a server declares and its admission (the executor's hash check may
  refuse a call of a current session), payload limits, protected values, the event
  a dispatched call records, and how long `stop()` waits.

### What is hard, and what would be wrong

* **At-least-once delivery with a paused holder.** Two deliveries execute one
  Run at once. Correct means: one terminal state, no write of the stale attempt
  over the new one's reply, no second run of an effect on the user's files.
* **Five terminal writers.** Whoever wins, the reply must be final as soon as the
  Run is, and exactly one terminal event must exist.
* **One reply row, many Runs.** Retries, Continue and Regenerate take turns on
  it. A stored answer must survive all but a Regenerate of another Run.
* **A judgement that goes stale.** Admission reads the blocker's job through a
  different connection and acts later. The slot must be free at the insert.
* **Cancel against pickup.** The flag, the registration, the re-read and the
  claim interleave; a recorded cancel must reach the attempt that holds the Run.
* **Sequence order is not commit order.** A cursor can pass an event that is not
  visible yet.
* **Three projections of one stream.** Text and reasoning wait in two buffers,
  calls run in parallel, a chain of writes may stop. What the collector holds, what
  the log rebuilds and what the client saw must be the same reply.
* **Answers without an owner.** Frames, notices and promises arrive after their
  call was given up or their session replaced. They must settle nothing else.
* **Did it run?** A session ends around a write; the tool result has to say
  whether a mutation may have happened.
* **Ending at all.** Deliveries die, links go silent, servers crash in a loop.
  Retries, heartbeats and timers have to end every Run, call and stream, and bring
  the tools back.

`PROJECT.json` lists each hazard at its line, with the properties that would
catch it.

## 2. Modules

| Module | Contents |
|---|---|
| `RunStore` | the rows and the repositories' writes as operators on a row's value, so that one transaction composes several |
| `RunLifecycle` | the state machine: every action is one transaction, one queue transition or one in-memory step between two awaits |
| `DurableRun` | the abstract specification `RunLifecycle` implements, through `Contract == INSTANCE DurableRun` |
| `MCRunLifecycle` | the symmetry set for TLC; it redefines nothing |
| `RunEvents` | one Run's event log, the SSE endpoint and the UI bridge's cursor |
| `Transcript` | one Run's attempts, the events they write and the three projections of them |
| `MachineSession` | one Machine: connector, hub session, link, daemon, operations |
| `McpRuntime` | one MCP server's record and the clients it makes |
| `RunSafetyProofs` | type correctness, single-flight, final replies and the implementation of `DurableRun` |
| `RunReplyProofs` | Runs against the queue: nothing is stranded, a cancel arrives; and the answer: stored, kept, fenced, and no native effect twice |
| `RunEventsProofs` | what a stream of the log delivers and can miss |
| `MachineSessionProofs` | both ends of a Machine's sessions |
| `McpRuntimeProofs` | one MCP server's record |
| `TranscriptProofs` | what a reply holds and what its log accounts for |
| `ReplayProofs` | the log replays the turn |
| `ItemProofs` | in-Run items keep their places |

### State and actions of `RunLifecycle`

| Variable | Code |
|---|---|
| `run`, `reply` | the `runs` rows of one Chat, the assistant message of each user message |
| `log` | what the code reads back from `run_events`: terminal events, attempts with an unanswered `tool.requested`, the attempt of the newest `run.started`, the attempts with a `native.attempt` |
| `latest` | the Chat's newest Run, which follow-up admission looks up |
| `job`, `dead` | the job on the `runs` queue and on its dead-letter queue |
| `dispatching`, `cancelling`, `adm` | API requests between two of their steps |
| `del`, `registry` | the handlers' local state, the `RunAbortRegistry` of each process |
| `errors`, `crashes` | counters of the bounds `MaxErrors` and `MaxCrashes` |

An attempt is named by the delivery that claimed it: the code draws a fresh UUID
at each claim and a delivery claims at most once. `Plans` is a table of the ways
a delivery settles its Run (one row per call site of `finishRun`): its status,
whether it is fenced by the attempt, whether it carries the live turn, and where
the handler goes when the settlement returned or threw.

| Actions | Code |
|---|---|
| `AdmitJudge`, `AdmitConflict`, `AdmitRefuse`, `AdmitAccept` | `clearActiveRunSlot` and its callers; the two halves are one transaction, split where it reads the queue |
| `Enqueue`, `EnqueueThrows`, `FailUndispatched` | `dispatch`, `failRunTransactionally` |
| `Fetch`, `Return`, `HeartbeatLost`, `DeadLetter` | pg-boss as the queue service uses it, `expireDeadLetteredRun` |
| `Pickup`, `CreateClient`, `Recheck`, `Verify`, `Timeout`, `HandlerThrows` | `executeJob` |
| `Claim`, `Prepare`, `DispatchAttempt`, `ToolRequested`, `ToolCompleted`, `NativeBegin`, `NativeUnknown`, `StreamEnds`, `ProgressLost` | `executeRun` up to the end of its stream |
| `SettleWins`, `SettleLoses`, `SettleErrs`, `Salvage` | `finishRun` (won, lost to another writer, rolled back), `salvageAssistantMessage` |
| `RequestCancel`, `AbortInProcess` | `updateRun` |
| `Crash` | a process dies; what it kept in memory is gone and its open transaction rolls back |

pg-boss is external: it is modelled from the options the code passes (retry
limit, heartbeat, dead letter) and from how the service settles a job (by its
id, so a stale delivery can settle its successor's job).

### State and actions of `RunEvents`

`drawn` is the identity column, `open` the sequence each uncommitted transaction
holds, `visible` the committed rows, `terminal` the settling event's sequence.
`Insert`, `Commit` and `Rollback` append; `DeleteRun` is the cascade from the
Chat. A reader has its cursor, `terminalSeen`, and `got`, the frames sent to its
client, of which `BreakSse` keeps any prefix that extends what the client already
had. `Ordered` is the read's `ORDER BY sequence`, and a drain leaves the cursor at
the last row it sent. `Connect`, `PollSse`, `Recheck`, `Wake`, `Deadline` are `streamRunEvents` and
`pumpRunEvents`; `PollUi`, `ReadRow`, `DrainTail` are `pumpUiMessageEvents`.
The module abstracts a whole Run to the order of its appends: `Writers` stands
for the attempts' event chains and the native file transactions. `late` is a
history variable: the sequences that committed after a later one was visible.

### State and actions of `Transcript`

`att[a]` is what the process of attempt `a` holds: its collector, the text and
reasoning buffers with their part ids and step, `chain` (events enqueued and not
yet written), its calls and its phase. `log` is `run_events`, `reply` the stored
message. Text is a sequence of tokens, so that a lost, doubled or moved piece of
text shows.

| Definitions | Code |
|---|---|
| `CollectText` .. `PartsOf` | `AssistantPartCollectorImpl` |
| `ApplyEvent`, `Rebuild`, `RebuiltParts`, `AttemptWindow`, `PlaceStoredItems` | reconstruction from the log |
| `Translate`, `UiParts` | `RunEventTranslator` and the client's reading of its chunks |
| `OnTextDelta`, `OnReasoningDelta`, `OnTextMetadata`, `OnReasoningMetadata`, `OnStepStart` | the stream's callbacks |
| `CallTool`, `Resume`, `ResolveCall`, `CompleteTool` | `executeBoundTool`, `runTool`, `settleBoundTool` |
| `Persist`, `PersistFails` | the chain of event writes |
| `StageItem` | an in-Run context item stored in the reply's snapshot |
| `OnFinish`, `OnError`, `Drain`, `Abort`, `GraceEnds`, settlement actions | the ends of an attempt and `finalizeRunReply` |

### State and actions of `MachineSession`

`cur`, `opening`, `armed` are the connector's maps; `sess` and `call` the hub's
end, `dmn` and `op` the daemon's; `up` and `down` the frames between them, which a
silent link swallows and a closed one drops. A call in `Channels` keeps its stream
open (`mcp.open`). `JoinSession`, `StartSession`, `OnEnded`, `IdleOut` are the
connector; `Dispatch` and its failures, `Abort`, `HubReceive`, `HubLinkEnded`,
`HubHeartbeatLost` the hub's session; `DaemonReceive`, `DaemonInputEnded`,
`DaemonHeartbeatLost`, `DaemonDone`, `BudgetExpires`, `Start`, `Complete` the
daemon; `StartServer`, `Published`, `StartFails`, `ServerDies`, `RelayClosed` its
MCP relay. `Faults` names what may go wrong in an instance.

### State and actions of `McpRuntime`

`rec` is the `ServerRecord` (with two additions: `made`, which numbers the
connections, and `fast`, history for one property), `conn[k]` the operation, the
client and the transport of the k-th connection, `call` the executors in use.
`Connected`, `Established`, `Discovered`, `Refreshed` and their failures are the
continuations of the promises; `Notice` is `notifyDisconnect`, `Outcome` the end of
an executor; `ReconnectTimer`, `RefreshTimer` and `Shutdown` are what their names
say. Whether the server is a child process is chosen initially.

## 3. Runs

Every run is `tlc -config <cfg> <module>`. Deadlock is checked in `sessions`,
where only a Machine with no call, no session and no process may rest (`Quiet`).
Elsewhere it is not: a finished Chat, a finished stream, a settled reply and a
stopped runtime legitimately stop.

### Passing

| Run (cfg) | Instance | What it shows |
|---|---|---|
| `overlap` (`RunLifecycle_overlap`) | one Run, two deliveries in one process, one retry, a live holder may be declared dead, one failed transaction anywhere, one crash | a paused worker and its replacement never produce two terminal states, a stale reply, a replayed native effect or a Run nobody can end; the pipeline implements `DurableRun` |
| `followup` (`RunLifecycle_followup`) | two Runs of one message, a live holder may be declared dead | Continue and Regenerate while the earlier Run's delivery is still writing: single-flight, a free slot at the insert, no completed Run without its answer, no lost answer, final replies |
| `liveness` (`RunLifecycle_liveness`) | one Run, two processes, one retry, two crashes, no overlap | `DispatchedRunEnds`: once the queue has the job, retries and the dead letter end the Run; a cancel that races the pickup is not forgotten |
| `streams` (`RunEvents_streams`) | two writers and the settler, overlapping, three events, one break | events come once and in order, a stream misses only events that were overtaken, a terminal Run whose event was not overtaken surfaces, every stream of a settled or deleted Run ends |
| `replay` (`Transcript_replay`) | one attempt, two parallel calls, two part ids, two deltas, two steps, context items | the live collector, the replay of the log and the client's stream agree; an item keeps its place in a rebuilt reply |
| `outcome` (`Transcript_outcome`) | two attempts that do not overlap, one shell call, one failed event write, crash, abort | a settled reply has parts of one attempt; each requested call has an outcome in the log |
| `sessions` (`MachineSession_sessions`) | a command and a channel, one stream, two sessions; the link may close, calls may be given up, answers and requests may be unframable | late answers settle nothing else, an unsent request never runs, the stream tables stay in step, no command outlives its session, the connector neither forgets a live session nor keeps an idle one |
| `settle` (`MachineSession_settle`) | a command and a channel, one session; the link may also go silent and the handshake or the server may fail | every call settles, abandoned work stops and stays stopped, a mutation reported as not executed was not |
| `session` (`McpRuntime_session`) | two faults (three sessions), one fast restart, two calls | no stale callback withdraws a healthy session, no client is forgotten, the catalog is the live session's, a crash loop slows down, the tools come back, shutdown closes every client |

In `overlap` the stale delivery's late acknowledgement can complete its
replacement's job before the process crashes; `RunNeverStranded` says that the next message can still end such a Run.
`RunEvents` and `Transcript` state their types as `TypeOK` too, as documentation of
their variables; the runs spend their time on the other properties.

### Violated: where the code and what it says of itself disagree

| Run | Statement refuted | What happens |
|---|---|---|
| `registry` | `runs-worker.service.ts:217` "any later cancel hits the live controller instead" | a paused delivery returns in the process that also runs its replacement and unregisters, by Run id, the replacement's controller; a later cancel aborts nothing |
| `idlepoll` | `runs.controller.ts:220` "an idle poll can never be hiding a terminal transition" | a progress event drawn after the terminal event and committed before it moves the cursor past it; the row is re-read only after a pass with events |
| `answer` | `durable-runs/spec.md:129` "the finalized assistant message and terminal completion commit atomically" | a call left open by a dead attempt makes the next attempt's settlement roll back; its answer is salvaged into the reply while the Run stays live |

`CancelReachesWorker` appears in both tables: it holds where deliveries do not
overlap, and `registry` drops exactly that restriction. `idlepoll` checks
`TerminalSurfacesInOrder` of `streams` without its condition.

### Known disagreements outside the run list

The configurations below are kept beside the runs and refute their property the
same way; they are not part of the regular list.

| Configuration | Statement refuted | What happens |
|---|---|---|
| `RunLifecycle_deadletter` | `durable-runs/spec.md:133` "A run SHALL NOT remain non-terminal indefinitely" | the dead-letter queue has retry limit 0 and no dead letter of its own, so one failed transaction in `expireDeadLetteredRun` leaves a Run that only the owner's next message ends |
| `RunLifecycle_native` | `durable-runs/spec.md:104`: admission of a native effect checks a non-terminal, uncancelled Run | the check is made only for a path bound to one host |
| `RunLifecycle_samechat` | `durable-runs/spec.md:219` "no two runs belonging to the same chat are ever executing at the same instant" | a paused delivery of an expired Run streams beside the Chat's next Run |
| `RunEvents_nothinglost` | `runs.controller.ts:164` "a refresh resumes from the last id seen with nothing lost" | an overtaken event is sent on no stream that passed it |
| `Transcript_refused` | `assistant-transcript.ts:13` a replayed and a live transcript "are indistinguishable to the UI" | a call refused before it is admitted has a live part and none in the replay |
| `Transcript_resolve` | the same statement | a call that waits for its ssh destination has its live place reserved and its request not yet recorded; a parallel call admitted meanwhile, or text, is recorded first, so a reply rebuilt from the log shows them in the other order |
| `Transcript_merged` | `durable-runs/spec.md:355` "the events of A cannot merge into the assistant projection of B" | progress events carry no attempt id and no fence; a paused attempt's events fall into its replacement's window |
| `Transcript_abort` | `run-execution.service.ts:1774` "the live stream, the event log and history then agree" | an abort settles tool calls ahead of text that is still in the buffers |
| `Transcript_capnotice` | `run-execution.service.ts:2222`: a Run that errors after capping does not claim to have completed with the cap | the notice is rebuilt whatever ended the Run |
| `MachineSession_oversize` | `machines/machine-session.ts:255` "`sent` says whether the frame had reached the link" | the error frame for a request too large to frame counts as the request |
| `MachineSession_internal` | `tools/machine-call.ts:11`: only what was not sent is `machine_unavailable` | an operation that ran and could not be answered is reported so |
| `MachineSession_serverdone` | `src/apps/machine/src/serve.ts:283` "The session is over only once every process group it started is gone" | a session that ends while an MCP server is starting reports itself done with the server running |
| `MachineSession_deadserver` | `src/openspec/specs/remote-machines/spec.md:286` "A lost channel SHALL be treated as a crashed server" | a relay whose server died closes its stream without a frame; the hub's channel stays open |

### Bounds, and why they are enough

* *Two deliveries* are what any stale-against-new race needs. A third would
  repeat the relation between the second and the first.
* *Two Runs* give a blocker and its successor, and *one message* makes the second
  a follow-up that shares the first one's reply, the harder of the two cases. The
  theorems of section 5 drop both bounds, and allow any number of crashes where
  `followup` has none: a crash that loses a request between its commit and its
  dispatch is in `overlap` (`RunNeverStranded`), with two Runs in the theorems.
* *One retry* reaches both arms of the queue (`RetryOrDeadLetter`); limit 0
  reaches the dead letter with fewer steps, so two Runs fit.
* *One failed transaction* is placed by TLC before every step that can fail. Two
  failures in one Run (a salvage that fails after a settlement that failed) are
  left to the theorems, whose number of failures is arbitrary.
* *Three sequences* are the terminal event and one on each side of it, in every
  order of commits and rollbacks; one break tests resumption. The safety of
  `streams` is proved for any number of each (section 5), so the bound only matters
  for `ReadersEnd`.
* *Two deltas and two part ids* give a part that continues, one that changes its
  id and text that crosses a step or a tool call; *two calls* finish in either
  order. A second attempt, a wire without part ids and a call answered at once as
  unavailable are in `outcome`; the theorems of `ReplayProofs` cover the last too.
* *One stream for two calls* puts every request at the limit; *two sessions* are
  an old one and its replacement. A third call would wait for the same stream.
* *Two faults* are a session that is lost, one that replaces it and is lost while
  callbacks of the first are pending, and a third; with one fast restart allowed,
  the second loss reaches the settled schedule.
* No run bounds the length of a behaviour: each explores the whole state space.
* Symmetry is used on Runs, messages and deliveries in the runs without liveness;
  no definition singles out one of them.

### Fairness

`RunLifecycle!Fairness` assumes only what keeps running when nobody helps:

* an accepting request goes on to its dispatch (`Enqueue`): the call follows the
  commit in the same handler. A crash may still take the request away;
* the queue offers a stored job and notices a *dead* holder: the pg-boss polling
  loop and its heartbeat monitor. It need not notice a paused one;
* a live handler keeps taking steps, and the dead-letter handler runs;
* the execution ceiling is armed for as long as the handler is (`Timeout`), and an
  aborted stream ends: `executeJob` bounds every attempt with a timer and passes
  the signal to the stream.

Nothing says that a model answers, a user cancels, a tool completes or a step
fails. In `RunEvents`, a pump keeps polling, an SSE client reconnects (the
EventSource contract), and `Deadline` is strongly fair, since `MAX_STREAM_MS` is
compared with the clock on each pass: a stream that is idle again and again
meets it. Nothing makes a writer commit.

In `MachineSession`, arrived frames and queued callbacks are processed, both
heartbeats and the idle timer fire, a budget expires (`withBudget`), a server
start ends one way or the other, and an operation that was told to stop ends
(its process group is killed). A command need not end by itself, no caller need
cancel, and the link may stay silent for ever.

In `McpRuntime`, timers fire, a pending connect, discovery or refresh settles
(each has `DISCOVERY_DEADLINE_MS`), a notice that will come comes and a close ends
(`CLOSE_DEADLINE_MS`). `Recovers` says what holds once faults stop: their number is
bounded by `MaxFaults` and nothing else fails.

## 4. Abstract specification

`DurableRun` has one phase per Run (`absent`, `inflight`, or a terminal status)
and the terminal events its log shows. A step accepts a Run, settles a Run with
its single event, or both for different Runs, and at most one Run is in flight.
`RunLifecycle` maps `queued` and `running_model` to `inflight` and reads
`published` off the log. The mapping is checked by TLC in `overlap` and proved in
`RunSafetyProofs`.

## 5. Proofs

Every theorem holds for all constants that satisfy the modules' assumptions,
unless its row says more.

| Module | Theorem | States |
|---|---|---|
| `RunSafetyProofs` | `TypeCorrect` | `Spec => []TypeOK` |
| | `SingleFlightHolds` | `Spec => []SingleFlight` |
| | `ClearedSlotIsFreeHolds` | `Spec => []ClearedSlotIsFree` |
| | `FinalReplyHolds` | `Spec => []TerminalRunHasFinalReply` |
| | `ContractHolds` | `Spec => Contract!Spec` |
| `RunReplyProofs` | `QueueInvariant` | `Spec => []QueueInv` |
| | `NoRunStranded` | `Spec => []RunNeverStranded` |
| | `CancelAlwaysReaches` | `Spec => []CancelReachesWorker`, if `~MayStall` |
| | `ReplyInvariant` | `Spec => []ReplyInv` |
| | `CompletionIsAnswered` | `Spec => []CompletedRunHasAnswer` |
| | `AnswerIsNeverLost` | `Spec => AnswerNeverLost` (action property) |
| | `StaleAttemptIsFenced` | `Spec => StaleAttemptNeverPublishes` (action property) |
| | `NativeEffectsRunOnce` | `Spec => NativeEffectNeverReplayed` (action property) |
| `RunEventsProofs` | `StreamInvariant` | `Spec => []StreamInv` |
| | `EventsInOrder` | `Spec => []DeliveredInOrder` |
| | `OnlyLateEventsLost` | `Spec => []OnlyLateLost` |
| | `TerminalAlwaysSurfaces` | `Spec => []TerminalSurfacesInOrder` |
| | `BridgeSeesTerminal` | `Spec => []UiSeesTerminal` |
| `MachineSessionProofs` | `MachineInvariant` | `Spec => [](MachineInv /\ ResultsOK)` |
| | `MachineTypes` | `Spec => []TypeOK` |
| | `AnswersNeverCross` | `Spec => []AnswersTheirOwnCall` |
| | `UnsentCallsNeverRun` | `Spec => []UnsentNeverRuns` |
| | `DaemonAlwaysHasRoom` | `Spec => []DaemonHasRoom` |
| | `NoCommandOutlives` | `Spec => []CommandsGoneWhenDone` |
| | `OneLiveSession` | `Spec => []LiveSessionIsCurrent` |
| | `IdleAlwaysArmed` | `Spec => []IdleSessionIsArmed` |
| | `UnavailableIsHonest` | `Spec => []UnavailableMeansNotExecuted`, if `"internal" \notin Faults` |
| `McpRuntimeProofs` | `SessionInvariant` | `Spec => []SessionInv` |
| | `SessionTypes` | `Spec => []TypeOK` |
| | `NoClientOrphaned` | `Spec => []NoOrphanClient` |
| | `CatalogAlwaysCurrent` | `Spec => []CatalogIsCurrent` |
| | `AlwaysScheduled` | `Spec => []StaysScheduled` |
| | `CrashLoopAlwaysSettles` | `Spec => []CrashLoopSettles` |
| | `OnlyItsOwnWithdraws` | `Spec => WithdrawnOnlyByItsOwn` (action property) |
| `TranscriptProofs` | `TranscriptTypes` | `Spec => [](WellTyped /\ TypeOK)` |
| | `ReplyNeverMixesAttempts` | `Spec => [](Undisturbed /\ ReplyIsOneAttempt)`, if `~MayOverlap` |
| | `SettledCallsHaveOutcomes` | `Spec => []EveryCallHasOutcome`, if `~MayOverlap` |
| `ReplayProofs` | `ReplayFollowsTurn` | `Spec => []ReplayMatchesLive`, if `~MayOverlap` and `CallKinds \subseteq AnsweredKinds` |
| `ItemProofs` | `ItemsStayPlaced` | `Spec => []ItemsKeepTheirPlace`, if `~MayOverlap` and `MaxFailures = 0` |

**Assumptions.** `NoneFresh` (SQL NULL is no id) and `BoundsAssumption` (the API is
a process, the limits are naturals) for the pipeline; `StreamAssumption`,
`MachineAssumption`, `McpAssumption` and `TranscriptAssumption` for the rest: bounds
are naturals, the settler is none of the progress writers, no reader is of both
kinds, a channel or a shell call is a call, and a Machine or an attempt has
finitely many calls (`IsFiniteSet(Calls)`, needed to count open streams and to
list open calls). The sets of Runs,
messages, deliveries, processes, writers and readers are arbitrary, infinite ones
included, and so are the numbers of retries, failures, crashes and faults.

Six theorems have a hypothesis, and a run or a configuration that drops it
refutes the property. `~MayStall`: pg-boss never declares a live holder dead.
`registry` shows the cancel that is lost otherwise. `"internal" \notin Faults`: no
command has its effect and then cannot be answered. `MachineSession_internal`
shows the report that is false otherwise. `~MayOverlap`: the process of an attempt
is gone before the Run is claimed again. Progress events name no attempt, so
`Transcript_merged` shows two attempts in one reply otherwise; the theorems still
cover any number of attempts, crashed or failed, one after another.
`CallKinds \subseteq AnsweredKinds`: no call is refused before it is requested, at
once or after its ssh destination was looked up. `Transcript_refused` shows the
part without a replay otherwise, `Transcript_resolve` the changed order.
`MaxFailures = 0`: no event write fails. The
instance of `replay` with one failure refutes `ItemsKeepTheirPlace`: the request of
a call is written and its start is not, so the call throws and the step ends
without its outcome; the item staged next is stored on a reply that does not show
the call, the process dies, and the reply rebuilt from the log shows the call,
cancelled, behind the item.

The invariants were checked by TLC before they were proved: `QueueInv` and
`ReplyInv` on the instances of `liveness` and `overlap` in full, `SessionInv` on
`session`, `MachineInv` on `sessions` and on an instance with one session, two
streams and every fault, `StreamInv` on `streams` with four events, `Seating` with two
attempts that make one call, answered in any of the five ways.

**Type correctness of the pipeline.** `TypeOK` alone is not inductive. `TypeInv`
adds two facts about the handlers: one in a live step was given a Run (a step
reads and writes the rows of that Run), and one that settles by what its abort
signal says has been aborted. Without the second, `classifyAbortedRun` would store
the status of a signal that never fired.

**Safety of the pipeline.** `SafetyInv` is `TypeInv` with five parts that need each
other:

1. `OneTerminalEvent`: a Run's log shows its terminal status once, and nothing
   before that;
2. `SingleFlight`;
3. `SlotJudged`: while the admission transaction is open, no Run can be in flight
   but the one it judged. Admission is the only creator and holds the row lock,
   so this is what carries the stale judgement to the commit, and what makes
   `ClearedSlotIsFree` and the unique index's guard agree;
4. `TerminalRunHasFinalReply`;
5. `LiveTurnOwnsReply`: while a delivery with a live turn holds its Run, a running
   reply of the message names that very attempt. The fourth part needs it: the
   winner of the terminal write finalizes a running reply through
   `OwnsLiveReply`, and would leave it running if the reply named another attempt.

Each part has one lemma per action or group of actions that can disturb it;
`ContractHolds` reads every step of `RunLifecycle` as a step of `DurableRun` from
parts 1 to 3.

**The queue.** The job settles by the Run's id whichever delivery reports, so
nothing about a job follows from what its delivery believes. `QueueInv` says
instead that an active job names a handler of its Run that lives or died with its
process (`JobsHeld`), from which `RunNeverStranded` follows with stalls and all.
Without stalls the converse holds too (`SoleHandler`): a live handler is the one its
job names, so nobody else can unregister its controller, and `CancelsReach` follows
a cancel through the flag, the registration, the second look and the claim.

**The answer.** Each property asks what an attempt that passed a fence in one
transaction may still rely on in a later one. `ReplyInv` states it for every
attempt that still holds its Run: before its dispatch the log has no native
effect (`CleanStart`, because a claim over one goes to recovery and only the holder
admits one); from then on the reply names its turn (`TurnStored`); and a reply it
found complete is complete when it settles over it (`FoundComplete`). The three
action properties are then case analyses of the one step that may change the
reply's attempt, the dispatch.

**Streams.** `StreamInv` has two parts about the log (a sequence is drawn once and
is invisible while its transaction is open; the terminal status and its event are
one) and one per reader, `RowInv`. Its core is that a connected reader's cursor is
the last frame of its client, and that whatever is visible, older than a frame and
missing was late. This survives a client that keeps any prefix, because an
ascending sequence has its older frames in the prefix. That a terminal event which
is not late lies past every cursor needs that its sequence was drawn once: it
differs from every visible one. That a read's rows exist in ascending order is
`AscendingExists`, by a least counterexample.

**Machines.** Hub and daemon share nothing but frames, so `MachineInv` says what
each frame vouches for: a request for a call that was sent and has not begun, a
cancel for a call that is over, an answer for a call whose operation closed its
stream. Stream numbers grow, which keeps late answers from a new call.
`DaemonHasRoom` is the one that needs the order of the queue: at every request on its
way, the streams the daemon holds, with the requests before it and without the
cancels before it, are fewer than the limit (`RoomAt`, by cardinalities of finite
sets).

**The MCP runtime.** `SessionInv` ties identities together: the record's operation
and client are of its generation, an operation that has its client shares it with
the record, work of the current generation is the record's operation, and every
other connection is of an older generation. So a late promise, notice or outcome
of an old session compares unequal and withdraws nothing.

**The transcript.** A log is rebuilt by a function on `0..Len(events)`, so every
statement about `Rebuild`, `Without`, `PlaceStoredItems` or `SettleOpen` is proved by
the induction of sets, `EveryNatural` and `EverySequence`, instead of the library's
theorems with an operator parameter. The invariant has three parts.

1. `WellTyped`: the rows, and of each attempt its collector, buffers, queue and
   calls; its tokens and calls are its own.
2. `Undisturbed`: an attempt at work is the Run's active one and any other rests
   with nothing queued (`Calm`); the log's last window is that attempt's, and every
   window holds its own attempt's events only (`Windowed`). The stored parts and
   what is rebuilt from the window are then those of the attempt the reply names,
   which is `ReplyIsOneAttempt`. `Booked`, a part of `Calm`, ties the state of a call
   to its place in the collector: a call in progress has a pending part, a settled
   one its outcome, one not made neither part nor event.
3. `Accounted`: what is open in a window is open in the whole log, what the log
   has requested of an attempt is in its window, a call the attempt at work has
   not made is requested nowhere, and an attempt about to settle without an answer
   has no call open.

`EveryCallHasOutcome` follows at the step that settles. A live turn shows every call
it made, because each is settled. A settlement from the log
completes exactly the calls `Rebuild` leaves open (`CompletionsClose`), the rebuilt
parts show every call requested in the window (`ShownCalls`), and placing the stored
items loses none (`PlacedCalls`). From then on neither log nor reply moves (`SettledRests`).

**The replay.** `ReplayMatchesLive` compares two folds that grow at different ends:
the collector at once, the log after a buffer, a chain and a write that may fail.
`Mirrored` therefore speaks of the whole way. Of every attempt that streams and has
not failed, with notices and items set aside, the window of the log, the chain behind
it and the two buffers rebuild the collected parts (`Follows`); and a call that is
open in the attempt is open in what the log rebuilds (`Holding`). It is inductive
with three facts about the buffers: at most one holds anything, a buffered delivery
joins the part the collector gave its characters (`JoinedTwice`), and no characters
of the current step lie behind an item or a notice (`Fresh`), without which setting
those aside would merge two parts. Each callback of a turn has a lemma that its
delivery keeps this (`TextTracks` and its likes), and a write moves the head
of the chain into the window and changes nothing.

**The items.** `ItemsKeepTheirPlace` speaks of a reply that comes from either of two
sources: the collector, where an item is appended when its step begins, and
`placeStoredContextItems`, which finds the item's place among rebuilt parts by the
calls that precede it in the stored reply. `Seating` ties them together.

1. `Steady`: steps never fall along the written and the queued events of an
   attempt. The rebuilt parts then rise with their steps (`RebuildRises`), each from
   an event of its step.
2. `Cuts`: a request in the window is of a call the stored reply shows ahead of an
   item exactly if its step is before the item's. So the last rebuilt part whose
   call precedes the item is the last call of an earlier step, and the place behind
   it and the items there is the right one (`PlaceIs`, `ItemPlaced`, `StoredPlaced`).
3. `Kept`, of the process at work: what is collected is `Seated` and of no later step
   than the current one (`Laid`), a collected call has the step of its request
   (`Matched`), a call whose destination is looked up is of the current step
   (`Unresolved`), no call has thrown (`Unthrown`), and a call the stored reply shows
   is settled, so that no later request is of it (`ShownSettled`).

`StageKept` is the step where all of them meet: a step ends with no call awaited
and none thrown, so every request made so far is of a call with an outcome, and the
item cuts the requests where it cuts the calls. Without the hypothesis on writes
`Unthrown` fails, and with it `Cuts`.

**Only model-checked.** `ReplyProjectsLog` of `Transcript`, which compares the
reply of a settled Run with what a client reads of its log. Liveness
(`DispatchedRunEnds`, `ReadersEnd`, `EveryCallSettles`, `AbandonedWorkStops`,
`Recovers`, `ShutdownCloses`) is out of the prover's reach and stays with TLC.

## 6. Plan

In the order of importance:

1. **A last theorem about `Transcript`**: a reload against the client's reading of
   the log (`ReplyProjectsLog`).
2. **Workspace MCP clients**: client sets keyed by Chat, root and binding
   generation, stop epochs against starts in flight, and the one hold per Chat.
3. **Compaction**: the checkpoint's compare-and-set while messages arrive.
4. **Search outbox**: projection jobs against rows that change or vanish.
5. **Media epochs and the live hub.**
