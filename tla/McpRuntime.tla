----------------------------- MODULE McpRuntime -----------------------------
(***************************************************************************)
(* One server of McpRuntimeService: the record that keeps an MCP session,  *)
(* its catalog and its timers, and the clients it makes.                   *)
(*                                                                         *)
(* Connecting, discovering and refreshing are promises; disconnect         *)
(* notices, the outcomes of tool calls and the two timers call back at any *)
(* time, possibly long after the session they speak of was replaced.  The  *)
(* record is protected by identities only: the operation, the client and a *)
(* generation each callback captured.                                      *)
(*                                                                         *)
(* A connection stands for the operation that made it, the client it       *)
(* yields and the refreshes of that client, which never overlap.  What a   *)
(* server declares is left out: the executor's hash check may refuse a     *)
(* call of a current session.                                              *)
(***************************************************************************)
EXTENDS Naturals, FiniteSets

CONSTANTS
    MaxFaults,  \* bound on the faults of servers, networks and calls
    MaxFast,    \* STDIO_MAX_FAST_ATTEMPTS
    Calls       \* tool calls, each made at most once

ASSUME McpAssumption == MaxFaults \in Nat /\ MaxFast \in Nat

VARIABLES
    rec,       \* the ServerRecord
    conn,      \* each connection: its work, its client, its transport
    call,      \* each call: its step, and the connection it was bound to
    stopping,  \* shuttingDown
    faults

vars == <<rec, conn, call, stopping, faults>>

(* A connection ends by a fault, so this many are enough.                  *)
Conns == 1..(MaxFaults + 1)

NoTimer == [kind |-> "none", gen |-> 0, k |-> 0]

Init ==
    /\ rec \in {[gen |-> 0, state |-> "connecting", attempt |-> 0,
                 readyAt |-> FALSE, catalog |-> 0, client |-> 0, op |-> 0,
                 timer |-> NoTimer, made |-> 0, fast |-> 0,
                 restartsProcess |-> p] : p \in BOOLEAN}
    /\ conn = [k \in Conns |-> [work |-> "none", gen |-> 0, client |-> "none",
                                link |-> "up", notice |-> FALSE,
                                pending |-> FALSE]]
    /\ call = [c \in Calls |-> [at |-> "idle", k |-> 0]]
    /\ stopping = FALSE /\ faults = 0

-----------------------------------------------------------------------------
(* Who is current.                                                         *)

IsCurrentOperation(k) ==
    ~stopping /\ rec.op = k /\ rec.gen = conn[k].gen

(* Mutant: a callback is trusted whichever session it speaks of.           *)
IsCurrentClientAny(k) == ~stopping

IsCurrentClient(k) ==
    ~stopping /\ rec.gen = conn[k].gen /\ rec.client = k

-----------------------------------------------------------------------------
(* The record's transitions, each on a value of the record.                *)

(* Mutant: every session that was ready refunds the budget.                *)
NoteSessionEndedRefund(r, lasted) ==
    [r EXCEPT !.readyAt = FALSE,
              !.attempt = IF r.readyAt THEN 0 ELSE @,
              !.fast = IF r.readyAt /\ lasted THEN 0 ELSE @]

(* A session that was ready refunds the fast retries of a remote server;   *)
(* of a child process only when it lasted STDIO_STABLE_AFTER_MS.           *)
NoteSessionEnded(r, lasted) ==
    [r EXCEPT !.readyAt = FALSE,
              !.attempt = IF r.readyAt /\ (lasted \/ ~r.restartsProcess)
                          THEN 0 ELSE @,
              !.fast = IF r.readyAt /\ lasted THEN 0 ELSE @]

Settled(r) == r.restartsProcess /\ r.attempt >= MaxFast

(* Mutant: a settled server is not tried again.                            *)
ScheduleReconnectWhileFast(r) ==
    IF r.timer.kind # "none" \/ Settled(r) THEN r
    ELSE [r EXCEPT !.timer = [kind |-> "fast", gen |-> r.gen, k |-> 0],
                   !.attempt = @ + 1, !.fast = @ + 1]

(* `fast` is history: the fast retries since a session that lasted.        *)
ScheduleReconnect(r) ==
    IF r.timer.kind # "none" THEN r
    ELSE [r EXCEPT
            !.timer = [kind |-> IF Settled(r) THEN "slow" ELSE "fast",
                       gen |-> r.gen, k |-> 0],
            !.attempt = @ + 1,
            !.fast = IF Settled(r) THEN @ ELSE @ + 1]

ScheduleRefresh(r, k) ==
    [r EXCEPT !.timer = [kind |-> "refresh", gen |-> conn[k].gen, k |-> k]]

(* failCurrentOperation; the connect's finally block clears the operation. *)
FailCurrentOperation(r, k, lasted) ==
    ScheduleReconnect(NoteSessionEnded(
        [r EXCEPT !.catalog = 0, !.state = "reconnecting", !.op = 0,
                  !.client = IF @ = k THEN 0 ELSE @], lasted))

(* Mutant: the refresh timer survives the session.                         *)
TransitionKeepingTimer(r, k, lasted) ==
    ScheduleReconnect(NoteSessionEnded(
        [r EXCEPT !.catalog = 0, !.state = "reconnecting",
                  !.client = 0, !.gen = @ + 1, !.op = IF @ = k THEN 0 ELSE @],
        lasted))

(* Mutant: the tools of the lost session are still offered.                *)
TransitionKeepingCatalog(r, k, lasted) ==
    ScheduleReconnect(NoteSessionEnded(
        [r EXCEPT !.timer = NoTimer, !.client = 0, !.gen = @ + 1,
                  !.op = IF @ = k THEN 0 ELSE @],
        lasted))

TransitionToReconnect(r, k, lasted) ==
    ScheduleReconnect(NoteSessionEnded(
        [r EXCEPT !.timer = NoTimer, !.catalog = 0, !.state = "reconnecting",
                  !.client = 0, !.gen = @ + 1, !.op = IF @ = k THEN 0 ELSE @],
        lasted))

(* Mutant: the finally block is missing.                                   *)
OperationKept(r, k) == r

(* The finally block of an operation.                                      *)
OperationEnded(r, k) == [r EXCEPT !.op = IF @ = k THEN 0 ELSE @]

(* client.close(), which silences its notices; it ends by itself.          *)
Closing(x) ==
    IF x.client # "live" THEN x
    ELSE [x EXCEPT !.client = "closing", !.link = "down", !.notice = FALSE,
                   !.pending = FALSE]

(* handleDisconnect on a connection whose row is becoming x.               *)
HandleDisconnect(k, x) ==
    IF stopping THEN conn' = [conn EXCEPT ![k] = x] /\ UNCHANGED rec
    ELSE /\ conn' = [conn EXCEPT ![k] = Closing(x)]
         /\ IF IsCurrentClient(k)
            THEN \E lasted \in BOOLEAN :
                    rec' = TransitionToReconnect(rec, k, lasted)
            ELSE UNCHANGED rec

-----------------------------------------------------------------------------
(* Operations.                                                             *)

BeginConnect(r) ==
    LET k == r.made + 1 IN
    /\ k \in Conns
    /\ rec' = [r EXCEPT !.timer = NoTimer, !.gen = @ + 1, !.op = k,
                        !.made = k,
                        !.state = IF r.gen = 0 THEN "connecting"
                                  ELSE "reconnecting"]
    /\ conn' = [conn EXCEPT ![k].work = "connecting", ![k].gen = r.gen + 1]

Start ==
    /\ rec.gen = 0 /\ ~stopping
    /\ BeginConnect(rec)
    /\ UNCHANGED <<call, stopping, faults>>

ReconnectTimer ==
    LET r == [rec EXCEPT !.timer = NoTimer] IN
    /\ rec.timer.kind \in {"fast", "slow"}
    /\ IF /\ rec.gen = rec.timer.gen /\ rec.state = "reconnecting"
          /\ rec.op = 0
       THEN BeginConnect(r)
       ELSE rec' = r /\ UNCHANGED conn
    /\ UNCHANGED <<call, stopping, faults>>

RefreshTimer ==
    LET k == rec.timer.k IN
    /\ rec.timer.kind = "refresh"
    /\ IF IsCurrentClient(k) /\ rec.op = 0
       THEN /\ rec' = [rec EXCEPT !.timer = NoTimer, !.op = k]
            /\ conn' = [conn EXCEPT ![k].work = "refreshing"]
       ELSE rec' = [rec EXCEPT !.timer = NoTimer] /\ UNCHANGED conn
    /\ UNCHANGED <<call, stopping, faults>>

(* A request is answered while the transport is up, or was until a drop    *)
(* whose notice is still to come or until its client began to close.       *)
Answered(k) ==
    conn[k].link = "up" \/ conn[k].notice \/ conn[k].client = "closing"

(* It fails because the transport is down, because its signal was aborted  *)
(* or by a fault of its own.                                               *)
Fails(k) ==
    IF conn[k].link = "down" \/ ~IsCurrentOperation(k) THEN UNCHANGED faults
    ELSE faults < MaxFaults /\ faults' = faults + 1

Idle(k) == [conn[k] EXCEPT !.work = "none"]

(* finishConnection: from here on the client reports its disconnection.    *)
Connected(k) ==
    /\ conn[k].work = "connecting"
    /\ conn' = [conn EXCEPT ![k].work = "connected", ![k].client = "live"]
    /\ UNCHANGED <<rec, call, stopping, faults>>

ConnectFails(k) ==
    /\ conn[k].work = "connecting" /\ Fails(k)
    /\ conn' = [conn EXCEPT ![k] = Idle(k)]
    /\ IF IsCurrentOperation(k)
       THEN \E lasted \in BOOLEAN :
                rec' = FailCurrentOperation(rec, k, lasted)
       ELSE rec' = OperationEnded(rec, k)
    /\ UNCHANGED <<call, stopping>>

(* Mutant: a stale client is forgotten, not closed.                        *)
EstablishedUnclosed(k) ==
    /\ conn[k].work = "connected"
    /\ IF ~IsCurrentOperation(k)
       THEN conn' = [conn EXCEPT ![k] = Idle(k)] /\ rec' = OperationEnded(rec, k)
       ELSE /\ conn' = [conn EXCEPT ![k].work = "discovering"]
            /\ rec' = [rec EXCEPT !.client = k]
    /\ UNCHANGED <<call, stopping, faults>>

(* establishConnection goes on: a stale client is closed, and a disconnect *)
(* noticed before the record had the client is handled now.                *)
Established(k) ==
    /\ conn[k].work = "connected"
    /\ IF ~IsCurrentOperation(k)
       THEN /\ conn' = [conn EXCEPT ![k] = Closing(Idle(k))]
            /\ rec' = OperationEnded(rec, k)
       ELSE IF conn[k].pending
       THEN /\ conn' = [conn EXCEPT ![k] = Closing(Idle(k))]
            /\ \E lasted \in BOOLEAN :
                  rec' = TransitionToReconnect([rec EXCEPT !.client = k], k,
                                               lasted)
       ELSE /\ conn' = [conn EXCEPT ![k].work = "discovering"]
            /\ rec' = [rec EXCEPT !.client = k]
    /\ UNCHANGED <<call, stopping, faults>>

Discovered(k) ==
    /\ conn[k].work = "discovering" /\ Answered(k)
    /\ IF IsCurrentClient(k)
       THEN /\ rec' = ScheduleRefresh([OperationEnded(rec, k) EXCEPT
                          !.catalog = k, !.state = "ready",
                          !.readyAt = TRUE], k)
            /\ conn' = [conn EXCEPT ![k] = Idle(k)]
       ELSE /\ rec' = OperationEnded(rec, k)
            /\ conn' = [conn EXCEPT ![k] = Closing(Idle(k))]
    /\ UNCHANGED <<call, stopping, faults>>

(* Mutant: the client of a failed discovery is forgotten, not closed.      *)
DiscoveryFailsUnclosed(k) ==
    /\ conn[k].work = "discovering" /\ Fails(k)
    /\ conn' = [conn EXCEPT ![k] = Idle(k)]
    /\ IF IsCurrentOperation(k)
       THEN \E lasted \in BOOLEAN :
                rec' = FailCurrentOperation(rec, k, lasted)
       ELSE rec' = OperationEnded(rec, k)
    /\ UNCHANGED <<call, stopping>>

DiscoveryFails(k) ==
    /\ conn[k].work = "discovering" /\ Fails(k)
    /\ conn' = [conn EXCEPT ![k] = Closing(Idle(k))]
    /\ IF IsCurrentOperation(k)
       THEN \E lasted \in BOOLEAN :
                rec' = FailCurrentOperation(rec, k, lasted)
       ELSE rec' = OperationEnded(rec, k)
    /\ UNCHANGED <<call, stopping>>

Refreshed(k) ==
    /\ conn[k].work = "refreshing" /\ Answered(k)
    /\ conn' = [conn EXCEPT ![k] = Idle(k)]
    /\ rec' = IF IsCurrentClient(k)
              THEN ScheduleRefresh([OperationEnded(rec, k) EXCEPT
                                        !.catalog = k], k)
              ELSE OperationEnded(rec, k)
    /\ UNCHANGED <<call, stopping, faults>>

RefreshFails(k) ==
    /\ conn[k].work = "refreshing" /\ Fails(k)
    /\ IF IsCurrentClient(k)
       THEN /\ conn' = [conn EXCEPT ![k] = Closing(Idle(k))]
            /\ \E lasted \in BOOLEAN :
                  rec' = TransitionToReconnect(rec, k, lasted)
       ELSE /\ conn' = [conn EXCEPT ![k] = Idle(k)]
            /\ rec' = OperationEnded(rec, k)
    /\ UNCHANGED <<call, stopping>>

-----------------------------------------------------------------------------
(* The transport and its client.                                           *)

(* The server dies or the connection is lost.  A child's end is noticed    *)
(* once its client listens; a remote server may offer nothing to notice it *)
(* by.                                                                     *)
Drop(k) ==
    /\ faults < MaxFaults /\ faults' = faults + 1
    /\ conn[k].link = "up"
    /\ conn[k].work = "connecting" \/ conn[k].client = "live"
    /\ \E n \in BOOLEAN :
        /\ n \/ ~rec.restartsProcess \/ conn[k].client = "none"
        /\ conn' = [conn EXCEPT ![k].link = "down", ![k].notice = n]
    /\ UNCHANGED <<rec, call, stopping>>

(* notifyDisconnect: once, and not after close.  Before the record has the *)
(* client it is left to establishConnection.                               *)
Notice(k) ==
    /\ conn[k].notice /\ conn[k].client = "live"
    /\ IF conn[k].work = "connected"
       THEN /\ conn' = [conn EXCEPT ![k].notice = FALSE, ![k].pending = TRUE]
            /\ UNCHANGED rec
       ELSE HandleDisconnect(k, [conn[k] EXCEPT !.notice = FALSE])
    /\ UNCHANGED <<call, stopping, faults>>

CloseEnds(k) ==
    /\ conn[k].client = "closing"
    /\ conn' = [conn EXCEPT ![k].client = "closed"]
    /\ UNCHANGED <<rec, call, stopping, faults>>

-----------------------------------------------------------------------------
(* Tool calls.                                                             *)

Done == [at |-> "done", k |-> 0]

(* resolveDynamicTool.                                                     *)
Bind(c) ==
    /\ call[c].at = "idle" /\ rec.state = "ready"
    /\ call' = [call EXCEPT ![c] = [at |-> "bound", k |-> rec.catalog]]
    /\ UNCHANGED <<rec, conn, stopping, faults>>

(* The executor: a call of a current session is dispatched, or refused for *)
(* its declaration; any other is refused.                                  *)
Execute(c) ==
    /\ call[c].at = "bound"
    /\ \/ /\ IsCurrentClient(call[c].k) /\ rec.state = "ready"
          /\ call' = [call EXCEPT ![c].at = "sent"]
       \/ call' = [call EXCEPT ![c] = Done]
    /\ UNCHANGED <<rec, conn, stopping, faults>>

(* The outcome stays with the call, or asks to reconnect the session the   *)
(* call was bound to.                                                      *)
Outcome(c) ==
    LET k == call[c].k IN
    /\ call[c].at = "sent"
    /\ call' = [call EXCEPT ![c] = Done]
    /\ \/ UNCHANGED <<rec, conn, faults>>
       \/ /\ HandleDisconnect(k, conn[k])
          /\ IF rec.client = k /\ conn[k].link = "up"
             THEN faults < MaxFaults /\ faults' = faults + 1
             ELSE UNCHANGED faults
    /\ UNCHANGED stopping

-----------------------------------------------------------------------------
(* shutdown: the client it closes is the record's, which its operation, if *)
(* it has one already, shares.  How long stop() waits is left out.         *)
Shutdown ==
    /\ ~stopping /\ stopping' = TRUE
    /\ rec' = [rec EXCEPT !.timer = NoTimer, !.gen = @ + 1,
                          !.state = "closing", !.catalog = 0, !.client = 0,
                          !.op = 0]
    /\ conn' = [k \in Conns |-> IF k = rec.client THEN Closing(conn[k])
                                ELSE conn[k]]
    /\ UNCHANGED <<call, faults>>

-----------------------------------------------------------------------------
Settles(k) ==
    \/ Connected(k) \/ ConnectFails(k) \/ Established(k)
    \/ Discovered(k) \/ DiscoveryFails(k) \/ Refreshed(k) \/ RefreshFails(k)

Next ==
    \/ Start \/ ReconnectTimer \/ RefreshTimer \/ Shutdown
    \/ \E k \in Conns : Settles(k) \/ Drop(k) \/ Notice(k) \/ CloseEnds(k)
    \/ \E c \in Calls : Bind(c) \/ Execute(c) \/ Outcome(c)

Spec == Init /\ [][Next]_vars

(* The module starts, timers fire, a pending promise settles (each has a   *)
(* deadline), notices arrive and closing ends.  No call, fault or shutdown *)
(* is promised.                                                            *)
Fairness ==
    /\ WF_vars(Start) /\ WF_vars(ReconnectTimer) /\ WF_vars(RefreshTimer)
    /\ \A k \in Conns : /\ WF_vars(Settles(k)) /\ WF_vars(Notice(k))
                        /\ WF_vars(CloseEnds(k))

FairSpec == Spec /\ Fairness

-----------------------------------------------------------------------------
(* The record, its connections and its calls keep their types, and an      *)
(* operation in the record is really in flight.                            *)
TypeOK ==
    /\ rec.gen \in Nat /\ rec.attempt \in Nat /\ rec.readyAt \in BOOLEAN
    /\ rec.state \in {"connecting", "ready", "reconnecting", "closing"}
    /\ rec.client \in 0..rec.made /\ rec.catalog \in 0..rec.made
    /\ rec.made \in 0..(MaxFaults + 1)
    /\ rec.timer.kind \in {"none", "fast", "slow", "refresh"}
    /\ \A k \in Conns :
        /\ conn[k].work \in {"none", "connecting", "connected", "discovering",
                             "refreshing"}
        /\ conn[k].client \in {"none", "live", "closing", "closed"}
        /\ conn[k].link \in {"up", "down"}
    /\ \A c \in Calls : call[c].at \in {"idle", "bound", "sent", "done"}
    /\ rec.op # 0 => conn[rec.op].work # "none"
    /\ faults \in 0..MaxFaults

(* Every client that is not being closed is the record's, or is about to   *)
(* be judged by its own connect: no child process and no socket is left    *)
(* that nothing will ever close (mcp-runtime.service.ts                    *)
(* establishConnection, connectAndDiscover).                               *)
NoOrphanClient ==
    \A k \in Conns :
        conn[k].client = "live" => rec.client = k \/ conn[k].work = "connected"

(* The tools offered are those of the live session: the record is ready    *)
(* exactly while it has a catalog, which its own client answered, in the   *)
(* generation its executors compare (snapshotCandidates, createExecutor).  *)
CatalogIsCurrent ==
    /\ rec.state = "ready" <=> rec.catalog # 0
    /\ rec.catalog # 0 =>
        /\ rec.client = rec.catalog /\ conn[rec.catalog].client = "live"
        /\ IsCurrentClient(rec.catalog)

(* A started record always has its next occasion: an operation in flight   *)
(* or one timer, of its current generation and, for a refresh, of its      *)
(* client.  After shutdown it has none (scheduleReconnect,                 *)
(* scheduleRefresh).                                                       *)
StaysScheduled ==
    IF stopping \/ rec.gen = 0 THEN rec.op = 0 /\ rec.timer.kind = "none"
    ELSE /\ rec.op # 0 <=> rec.timer.kind = "none"
         /\ rec.op = 0 => rec.timer.gen = rec.gen
         /\ rec.state = "ready" /\ rec.op = 0 => rec.timer.k = rec.client

(* A crash-looping child gets at most MaxFast fast restarts between two    *)
(* sessions that lasted, however often it reaches ready                    *)
(* (noteSessionEnded).                                                     *)
CrashLoopSettles == rec.restartsProcess => rec.fast <= MaxFast

(* The tools are offered and the session behind them is up.                *)
Healthy ==
    rec.state = "ready" /\ \E k \in Conns : rec.client = k /\ conn[k].link = "up"

(* A healthy session is withdrawn only by a fault of its own or by         *)
(* shutdown, never by a late notice, outcome or promise of an earlier one  *)
(* (handleDisconnect, isCurrentClient).                                    *)
WithdrawnOnlyByItsOwn ==
    [][Healthy /\ rec'.state # "ready" => stopping' \/ faults' # faults]_vars

(* When the faults end, the tools come back: the record is again and again *)
(* ready with a session that is up, or was stopped.                        *)
Recovers == []<>(stopping \/ Healthy)

(* After shutdown every client the runtime made ends closed, the one of a  *)
(* connect still in flight included.                                       *)
ShutdownCloses ==
    stopping ~> [](\A k \in Conns : conn[k].client \in {"none", "closed"})
=============================================================================
