-------------------------- MODULE McpRuntimeProofs --------------------------
(***************************************************************************)
(* Safety of one MCP server's record for any number of faults, fast        *)
(* restarts and tool calls.                                                *)
(*                                                                         *)
(* None of the properties is inductive alone.  They rest on one another    *)
(* through what the identities say: the record's operation and its client  *)
(* are of the record's generation, an operation that has its client shares *)
(* it with the record, and any other connection is of an older generation. *)
(***************************************************************************)
EXTENDS McpRuntime, TLAPS

ConnIds == 0..(MaxFaults + 1)
TimerRow == [kind : {"none", "fast", "slow", "refresh"}, gen : Nat, k : Nat]
RecordRow ==
    [gen : Nat, state : {"connecting", "ready", "reconnecting", "closing"},
     attempt : Nat, readyAt : BOOLEAN, catalog : ConnIds, client : ConnIds,
     op : ConnIds, timer : TimerRow, made : ConnIds, fast : Nat,
     restartsProcess : BOOLEAN]
ConnRow ==
    [work : {"none", "connecting", "connected", "discovering", "refreshing"},
     gen : Nat, client : {"none", "live", "closing", "closed"},
     link : {"up", "down"}, notice : BOOLEAN, pending : BOOLEAN]
CallRow == [at : {"idle", "bound", "sent", "done"}, k : ConnIds]

RowsOK ==
    /\ rec \in RecordRow /\ conn \in [Conns -> ConnRow]
    /\ stopping \in BOOLEAN

(* A call that was bound names a connection that was once the record's.    *)
CallsOK ==
    /\ call \in [Calls -> CallRow] /\ faults \in 0..MaxFaults
    /\ \A c \in Calls :
        call[c].at \in {"bound", "sent"} =>
            /\ call[c].k \in 1..rec.made
            /\ conn[call[c].k].work \notin {"connecting", "connected"}

(* A connection is of the current generation or an earlier one; those not  *)
(* made yet are untouched, and a connect owns the client it is making.     *)
ConnsOK ==
    \A k \in Conns :
        /\ conn[k].gen <= rec.gen
        /\ k > rec.made => conn[k].work = "none" /\ conn[k].client = "none"
        /\ conn[k].work = "connecting" => conn[k].client = "none"
        /\ conn[k].work = "connected" => conn[k].client = "live"
        /\ conn[k].notice => conn[k].link = "down"

(* The record's operation is in flight and of its generation; it shares    *)
(* its client with the record as soon as it has one.                       *)
OperationOK ==
    rec.op # 0 =>
        LET x == conn[rec.op] IN
        /\ ~stopping /\ rec.op <= rec.made /\ x.gen = rec.gen
        /\ x.work # "none"
        /\ rec.client = IF x.work \in {"discovering", "refreshing"}
                        THEN rec.op ELSE 0
        /\ rec.state = "ready" <=> x.work = "refreshing"

(* Work of the current generation is the record's operation.               *)
WorkIsOperation ==
    \A k \in Conns :
        conn[k].work # "none" /\ conn[k].gen = rec.gen /\ ~stopping => rec.op = k

(* The record's client is live and of its generation; with no operation in *)
(* flight it is the session the tools come from.                           *)
ClientOK ==
    rec.client # 0 =>
        /\ ~stopping /\ rec.client <= rec.made
        /\ conn[rec.client].gen = rec.gen /\ conn[rec.client].client = "live"
        /\ conn[rec.client].work \in {"none", "discovering", "refreshing"}
        /\ rec.op = 0 => rec.state = "ready"

(* The catalog is the client's, exactly while the record is ready.         *)
CatalogOK ==
    /\ rec.state = "ready" <=> rec.catalog # 0
    /\ rec.catalog # 0 => rec.client = rec.catalog
    /\ rec.gen = 0 => rec.state # "ready"

(* One timer or one operation, of the kind the state calls for.            *)
TimerOK ==
    IF stopping \/ rec.gen = 0 THEN rec.op = 0 /\ rec.timer.kind = "none"
    ELSE /\ rec.op # 0 <=> rec.timer.kind = "none"
         /\ rec.op = 0 => rec.timer.gen = rec.gen
         /\ rec.timer.kind = "refresh" =>
                rec.state = "ready" /\ rec.timer.k = rec.client
         /\ rec.timer.kind \in {"fast", "slow"} => rec.state = "reconnecting"

(* The budget of fast restarts is the one the attempt count pays for.      *)
Budget(r) == r.restartsProcess => r.fast <= r.attempt /\ r.fast <= MaxFast
BudgetOK == Budget(rec)

CoreInv ==
    /\ RowsOK /\ ConnsOK /\ OperationOK /\ WorkIsOperation
    /\ ClientOK /\ CatalogOK /\ TimerOK /\ BudgetOK /\ NoOrphanClient

SessionInv == CoreInv /\ CallsOK

-----------------------------------------------------------------------------
(* What the record's transitions do to it.                                 *)

(* The end of a session keeps the record but for the budget it may refund. *)
LEMMA SessionEnded ==
    ASSUME NEW r \in RecordRow, NEW lasted \in BOOLEAN, Budget(r)
    PROVE  LET t == NoteSessionEnded(r, lasted) IN
           /\ t \in RecordRow /\ Budget(t)
           /\ t.gen = r.gen /\ t.state = r.state /\ t.catalog = r.catalog
           /\ t.client = r.client /\ t.made = r.made /\ t.op = r.op
           /\ t.timer = r.timer
<1> DEFINE a == IF r.readyAt /\ (lasted \/ ~r.restartsProcess)
                THEN 0 ELSE r.attempt
           f == IF r.readyAt /\ lasted THEN 0 ELSE r.fast
<1>1. a \in Nat /\ f \in Nat /\ (r.restartsProcess => f <= a /\ f <= MaxFast)
  BY McpAssumption DEF RecordRow, Budget
<1>2. NoteSessionEnded(r, lasted)
        = [r EXCEPT !.readyAt = FALSE, !.attempt = a, !.fast = f]
  BY DEF NoteSessionEnded
<1> HIDE DEF a, f
<1> QED BY <1>1, <1>2 DEF RecordRow, Budget

(* A record without a timer gets one of its own generation, and a fast     *)
(* restart is taken only from the budget.                                  *)
LEMMA ReconnectScheduled ==
    ASSUME NEW r \in RecordRow, Budget(r), r.timer.kind = "none"
    PROVE  LET t == ScheduleReconnect(r) IN
           /\ t \in RecordRow /\ Budget(t)
           /\ t.gen = r.gen /\ t.state = r.state /\ t.catalog = r.catalog
           /\ t.client = r.client /\ t.made = r.made /\ t.op = r.op
           /\ t.timer.kind \in {"fast", "slow"} /\ t.timer.gen = r.gen
<1> DEFINE m == [kind |-> IF Settled(r) THEN "slow" ELSE "fast",
                 gen |-> r.gen, k |-> 0]
           f == IF Settled(r) THEN r.fast ELSE r.fast + 1
           a == r.attempt + 1
<1>1. m \in TimerRow /\ m.kind \in {"fast", "slow"} /\ m.gen = r.gen
  BY DEF RecordRow, TimerRow
<1>2. f \in Nat /\ a \in Nat
      /\ (r.restartsProcess => f <= a /\ f <= MaxFast)
  BY McpAssumption DEF RecordRow, Budget, Settled
<1>3. ScheduleReconnect(r) = [r EXCEPT !.timer = m, !.attempt = a, !.fast = f]
  BY DEF ScheduleReconnect
<1> HIDE DEF m, f, a
<1>4. ScheduleReconnect(r) \in RecordRow
  BY <1>1, <1>2, <1>3 DEF RecordRow
<1>5. Budget(ScheduleReconnect(r))
  <2>1. LET t == ScheduleReconnect(r) IN
        t.restartsProcess = r.restartsProcess /\ t.fast = f
        /\ t.attempt = a
    BY <1>3 DEF RecordRow
  <2> QED BY <1>2, <2>1 DEF Budget
<1> QED BY <1>1, <1>2, <1>3, <1>4, <1>5 DEF RecordRow

(* Losing the session: nothing of it is left in the record, and a          *)
(* reconnect of the new generation is scheduled.                           *)
LEMMA SessionLost ==
    ASSUME NEW r \in RecordRow, Budget(r), NEW k, NEW lasted \in BOOLEAN
    PROVE  LET t == TransitionToReconnect(r, k, lasted) IN
           /\ t \in RecordRow /\ Budget(t)
           /\ t.gen = r.gen + 1 /\ t.state = "reconnecting"
           /\ t.catalog = 0 /\ t.client = 0 /\ t.made = r.made
           /\ t.op = IF r.op = k THEN 0 ELSE r.op
           /\ t.timer.kind \in {"fast", "slow"} /\ t.timer.gen = t.gen
<1> DEFINE g == r.gen + 1
           o == IF r.op = k THEN 0 ELSE r.op
           q == [r EXCEPT !.timer = NoTimer, !.catalog = 0,
                          !.state = "reconnecting", !.client = 0,
                          !.gen = g, !.op = o]
           n == NoteSessionEnded(q, lasted)
<1>0. g \in Nat /\ o \in ConnIds
  BY McpAssumption DEF RecordRow, ConnIds
<1> HIDE DEF g, o
<1>1. q \in RecordRow /\ Budget(q) /\ q.timer.kind = "none"
  <2>1. NoTimer \in TimerRow /\ NoTimer.kind = "none"
    BY DEF TimerRow, NoTimer
  <2>2. 0 \in ConnIds
    BY McpAssumption DEF ConnIds
  <2>3. q \in RecordRow /\ q.timer = NoTimer
    BY <1>0, <2>1, <2>2 DEF RecordRow
  <2>4. q.restartsProcess = r.restartsProcess /\ q.fast = r.fast
        /\ q.attempt = r.attempt
    BY DEF RecordRow
  <2> QED BY <2>1, <2>3, <2>4 DEF Budget
<1>2. /\ q.gen = g /\ q.state = "reconnecting" /\ q.catalog = 0
      /\ q.client = 0 /\ q.made = r.made /\ q.op = o
  BY DEF RecordRow
<1> HIDE DEF q
<1>3. n \in RecordRow /\ Budget(n) /\ n.timer = q.timer
      /\ n.gen = q.gen /\ n.state = q.state /\ n.catalog = q.catalog
      /\ n.client = q.client /\ n.made = q.made /\ n.op = q.op
  BY <1>1, SessionEnded
<1> HIDE DEF n
<1>4. LET t == ScheduleReconnect(n) IN
      /\ t \in RecordRow /\ Budget(t)
      /\ t.gen = n.gen /\ t.state = n.state /\ t.catalog = n.catalog
      /\ t.client = n.client /\ t.made = n.made /\ t.op = n.op
      /\ t.timer.kind \in {"fast", "slow"} /\ t.timer.gen = n.gen
  BY <1>1, <1>3, ReconnectScheduled
<1> QED BY <1>2, <1>3, <1>4 DEF TransitionToReconnect, q, n, g, o

(* Failing the current operation: the same within its generation.          *)
LEMMA OperationFailed ==
    ASSUME NEW r \in RecordRow, Budget(r), NEW k, NEW lasted \in BOOLEAN,
           r.timer.kind = "none"
    PROVE  LET t == FailCurrentOperation(r, k, lasted) IN
           /\ t \in RecordRow /\ Budget(t)
           /\ t.gen = r.gen /\ t.state = "reconnecting" /\ t.catalog = 0
           /\ t.client = (IF r.client = k THEN 0 ELSE r.client)
           /\ t.made = r.made /\ t.op = 0
           /\ t.timer.kind \in {"fast", "slow"} /\ t.timer.gen = t.gen
<1> DEFINE q == [r EXCEPT !.catalog = 0, !.state = "reconnecting", !.op = 0,
                          !.client = IF @ = k THEN 0 ELSE @]
           n == NoteSessionEnded(q, lasted)
<1>1. q \in RecordRow /\ Budget(q) /\ q.timer.kind = "none"
  <2>1. 0 \in ConnIds
    BY McpAssumption DEF ConnIds
  <2> QED BY <2>1 DEF RecordRow, Budget
<1>2. /\ q.gen = r.gen /\ q.state = "reconnecting" /\ q.catalog = 0
      /\ q.client = (IF r.client = k THEN 0 ELSE r.client)
      /\ q.made = r.made /\ q.op = 0
  BY DEF RecordRow
<1> HIDE DEF q
<1>3. n \in RecordRow /\ Budget(n) /\ n.timer = q.timer
      /\ n.gen = q.gen /\ n.state = q.state /\ n.catalog = q.catalog
      /\ n.client = q.client /\ n.made = q.made /\ n.op = q.op
  BY <1>1, SessionEnded
<1> HIDE DEF n
<1>4. LET t == ScheduleReconnect(n) IN
      /\ t \in RecordRow /\ Budget(t)
      /\ t.gen = n.gen /\ t.state = n.state /\ t.catalog = n.catalog
      /\ t.client = n.client /\ t.made = n.made /\ t.op = n.op
      /\ t.timer.kind \in {"fast", "slow"} /\ t.timer.gen = n.gen
  BY <1>1, <1>3, ReconnectScheduled
<1> QED BY <1>2, <1>3, <1>4 DEF FailCurrentOperation, q, n

(* Closing a connection's client changes nothing else that is looked at.   *)
LEMMA ClosingRow ==
    ASSUME NEW x \in ConnRow
    PROVE  /\ Closing(x) \in ConnRow
           /\ Closing(x).work = x.work /\ Closing(x).gen = x.gen
           /\ Closing(x).client = IF x.client = "live" THEN "closing"
                                  ELSE x.client
           /\ Closing(x).notice => x.notice /\ Closing(x).link = x.link
BY DEF Closing, ConnRow

-----------------------------------------------------------------------------
(* The kinds of step there are.                                            *)

(* A connection moves on and the record does not: its work of an older     *)
(* generation ends, or its client is made, noticed or closed.              *)
LEMMA ConnectionMoves ==
    ASSUME CoreInv, NEW k \in Conns, NEW x \in ConnRow,
           UNCHANGED <<rec, stopping>>, conn' = [conn EXCEPT ![k] = x],
           x.gen = conn[k].gen, x.notice => x.link = "down",
           \/ x.work = conn[k].work
           \/ x.work = "none" /\ rec.op # k
           \/ conn[k].work = "connecting" /\ x.work = "connected",
           x.work = "connecting" => x.client = "none",
           x.work = "connected" => x.client = "live",
           rec.client = k => x.client = "live",
           x.client = "live" => rec.client = k \/ x.work = "connected",
           k > rec.made => x.work = "none" /\ x.client = "none"
    PROVE  CoreInv'
<1> USE DEF CoreInv
<1>1. RowsOK'
  BY DEF RowsOK
<1>2. conn[k] \in ConnRow /\ \A j \in Conns : conn'[j] = IF j = k THEN x ELSE conn[j]
  BY DEF RowsOK
<1>3. rec.op \in ConnIds /\ rec.client \in ConnIds
  BY DEF RowsOK, RecordRow
<1>4. \A i \in ConnIds : i # 0 => i \in Conns
  BY McpAssumption DEF ConnIds, Conns
<1>5. ConnsOK'
  BY <1>2 DEF ConnsOK
<1>6. OperationOK'
  BY <1>2, <1>3, <1>4 DEF OperationOK
<1>7. WorkIsOperation'
  BY <1>2 DEF WorkIsOperation
<1>8. ClientOK'
  BY <1>2, <1>3, <1>4 DEF ClientOK, OperationOK
<1>9. NoOrphanClient'
  BY <1>2 DEF NoOrphanClient
<1> QED BY <1>1, <1>5, <1>6, <1>7, <1>8, <1>9
        DEF CatalogOK, TimerOK, BudgetOK

(* The record's session, or the connection about to become it, is lost.    *)
LEMMA RecordLosesSession ==
    ASSUME CoreInv, NEW k \in Conns, NEW x \in ConnRow, UNCHANGED stopping,
           ~stopping, rec.client = k \/ (rec.op = k /\ rec.client = 0),
           conn' = [conn EXCEPT ![k] = x],
           x.gen = conn[k].gen, x.notice => x.link = "down",
           x.work \in {"none", conn[k].work}, x.client # "live",
           x.work \notin {"connecting", "connected"}, NEW lasted \in BOOLEAN, NEW r \in RecordRow,
           r.gen = rec.gen, r.made = rec.made, r.op = rec.op, Budget(r),
           rec' = TransitionToReconnect(r, k, lasted)
    PROVE  CoreInv'
<1> USE DEF CoreInv
<1>0. /\ rec' \in RecordRow /\ Budget(rec') /\ rec'.gen = rec.gen + 1
      /\ rec'.state = "reconnecting" /\ rec'.catalog = 0 /\ rec'.client = 0
      /\ rec'.made = rec.made /\ rec'.op = IF rec.op = k THEN 0 ELSE rec.op
      /\ rec'.timer.kind \in {"fast", "slow"} /\ rec'.timer.gen = rec'.gen
  BY SessionLost
<1>1. RowsOK'
  BY <1>0 DEF RowsOK
<1>2. conn[k] \in ConnRow /\ \A j \in Conns : conn'[j] = IF j = k THEN x ELSE conn[j]
  BY DEF RowsOK
<1>3. rec.op \in ConnIds /\ rec.client \in ConnIds /\ rec.gen \in Nat
      /\ rec.made \in Nat /\ \A j \in Conns : conn[j].gen \in Nat
  BY McpAssumption DEF RowsOK, RecordRow, ConnRow, ConnIds
<1>4. \A i \in ConnIds : i # 0 => i \in Conns
  BY McpAssumption DEF ConnIds, Conns
<1>5. rec'.op = 0 /\ k <= rec.made
  BY <1>0, <1>3, <1>4 DEF OperationOK, ClientOK, Conns
<1>6. ConnsOK'
  BY <1>0, <1>2, <1>3, <1>5 DEF ConnsOK, Conns
<1>7. WorkIsOperation'
  BY <1>0, <1>2, <1>3 DEF ConnsOK, WorkIsOperation
<1>8. NoOrphanClient'
  <2>1. rec.client # 0 => rec.client = k
    OBVIOUS
  <2> QED BY <1>0, <1>2, <1>3, <2>1 DEF NoOrphanClient, Conns
<1>9. TimerOK'
  BY <1>0, <1>3, <1>5 DEF TimerOK
<1> QED BY <1>0, <1>1, <1>5, <1>6, <1>7, <1>8, <1>9
        DEF OperationOK, ClientOK, CatalogOK, BudgetOK

(* The record's operation fails.                                           *)
LEMMA RecordFailsOperation ==
    ASSUME CoreInv, NEW k \in Conns, NEW x \in ConnRow, UNCHANGED stopping,
           IsCurrentOperation(k), conn' = [conn EXCEPT ![k] = x],
           x.gen = conn[k].gen, x.notice => x.link = "down",
           x.work = "none", x.client # "live", NEW lasted \in BOOLEAN,
           rec' = FailCurrentOperation(rec, k, lasted)
    PROVE  CoreInv'
<1> USE DEF CoreInv
<1>0. /\ rec' \in RecordRow /\ Budget(rec') /\ rec'.gen = rec.gen
      /\ rec'.state = "reconnecting" /\ rec'.catalog = 0
      /\ rec'.client = (IF rec.client = k THEN 0 ELSE rec.client)
      /\ rec'.made = rec.made /\ rec'.op = 0
      /\ rec'.timer.kind \in {"fast", "slow"} /\ rec'.timer.gen = rec'.gen
  <2>1. rec \in RecordRow /\ Budget(rec) /\ rec.timer.kind = "none"
    BY DEF RowsOK, BudgetOK, TimerOK, IsCurrentOperation, Conns
  <2> QED BY <2>1, OperationFailed
<1>1. RowsOK'
  BY <1>0 DEF RowsOK
<1>2. conn[k] \in ConnRow /\ \A j \in Conns : conn'[j] = IF j = k THEN x ELSE conn[j]
  BY DEF RowsOK
<1>3. rec.gen \in Nat /\ rec.made \in Nat /\ \A j \in Conns : conn[j].gen \in Nat
  BY McpAssumption DEF RowsOK, RecordRow, ConnRow, ConnIds
<1>4. rec.op = k /\ k # 0 /\ k <= rec.made /\ ~stopping /\ rec.gen # 0
      /\ rec.client \in {0, k}
  BY <1>3 DEF IsCurrentOperation, OperationOK, TimerOK, Conns
<1>5. ConnsOK'
  BY <1>0, <1>2, <1>3, <1>4 DEF ConnsOK, Conns
<1>6. WorkIsOperation'
  BY <1>0, <1>2, <1>3, <1>4 DEF WorkIsOperation
<1>7. NoOrphanClient'
  BY <1>0, <1>2, <1>4 DEF NoOrphanClient, Conns
<1>8. TimerOK'
  BY <1>0, <1>3, <1>4 DEF TimerOK
<1> QED BY <1>0, <1>1, <1>4, <1>5, <1>6, <1>7, <1>8
        DEF OperationOK, ClientOK, CatalogOK, BudgetOK

(* A connection is made for the record, which had no operation, no client  *)
(* and no timer left.                                                      *)
LEMMA RecordConnects ==
    ASSUME CoreInv, ~stopping, UNCHANGED stopping, rec.op = 0, rec.client = 0,
           rec.catalog = 0, rec.state # "ready", NEW r \in RecordRow,
           r.gen = rec.gen, r.state = rec.state, r.catalog = rec.catalog,
           r.client = rec.client, r.made = rec.made, Budget(r),
           BeginConnect(r)
    PROVE  CoreInv'
<1> USE DEF CoreInv
<1> DEFINE k == r.made + 1
           x == [conn[k] EXCEPT !.work = "connecting", !.gen = r.gen + 1]
           g == r.gen + 1
           st == IF r.gen = 0 THEN "connecting" ELSE "reconnecting"
<1>1. k \in Conns /\ k \in ConnIds /\ k > rec.made /\ g \in Nat /\ g > rec.gen
      /\ rec.gen \in Nat
      /\ \A j \in Conns : conn[j].gen \in Nat
  BY McpAssumption DEF BeginConnect, Conns, ConnIds, RecordRow, RowsOK, ConnRow
<1>2. conn' = [conn EXCEPT ![k] = x]
  BY <1>1 DEF BeginConnect, RowsOK, ConnRow
<1>3. x \in ConnRow /\ x.work = "connecting" /\ x.gen = g
      /\ x.client = "none" /\ (x.notice => x.link = "down")
  <2>1. conn[k] \in ConnRow /\ conn[k].client = "none"
        /\ (conn[k].notice => conn[k].link = "down")
    BY <1>1 DEF RowsOK, ConnsOK
  <2> HIDE DEF k
  <2> QED BY <1>1, <2>1 DEF ConnRow
<1>4. rec' = [r EXCEPT !.timer = NoTimer, !.gen = g, !.op = k, !.made = k,
                       !.state = st]
  BY DEF BeginConnect
<1>5. NoTimer \in TimerRow /\ NoTimer.kind = "none"
  BY DEF NoTimer, TimerRow
<1>6. st \in {"connecting", "reconnecting"}
  OBVIOUS
<1> HIDE DEF x, k, g, st
<1>7. /\ rec' \in RecordRow
      /\ rec'.gen = g /\ rec'.op = k /\ rec'.made = k /\ rec'.state = st
      /\ rec'.catalog = 0 /\ rec'.client = 0 /\ rec'.timer = NoTimer
  BY <1>1, <1>4, <1>5, <1>6 DEF RecordRow
<1>8. Budget(rec')
  <2>1. rec'.restartsProcess = r.restartsProcess /\ rec'.fast = r.fast
        /\ rec'.attempt = r.attempt
    BY <1>4 DEF RecordRow
  <2> QED BY <2>1 DEF Budget
<1>9. RowsOK' /\ \A j \in Conns : conn'[j] = IF j = k THEN x ELSE conn[j]
  BY <1>2, <1>3, <1>7 DEF RowsOK
<1>10. ConnsOK'
  <2>1. rec.made \in Nat /\ k \in Nat
    BY <1>1, McpAssumption DEF RowsOK, RecordRow, ConnIds
  <2>2. ASSUME NEW j \in Conns, j # k
        PROVE  conn[j].gen <= g /\ (j > k => j > rec.made)
    BY <1>1, <2>1 DEF ConnsOK, Conns
  <2> QED BY <1>1, <1>3, <1>7, <1>9, <2>1, <2>2 DEF ConnsOK
<1>11. OperationOK' /\ WorkIsOperation'
  BY <1>1, <1>3, <1>6, <1>7, <1>9
     DEF OperationOK, WorkIsOperation, ConnsOK, Conns
<1>12. NoOrphanClient'
  BY <1>3, <1>7, <1>9 DEF NoOrphanClient, Conns
<1>13. TimerOK'
  BY <1>1, <1>5, <1>7 DEF TimerOK, Conns
<1> QED BY <1>6, <1>7, <1>8, <1>9, <1>10, <1>11, <1>12, <1>13
        DEF ClientOK, CatalogOK, BudgetOK

-----------------------------------------------------------------------------
(* The steps.                                                              *)

(* The operations of a connection that is not the record's end quietly.    *)
LEMMA NotOperation ==
    ASSUME CoreInv, NEW k \in Conns, ~IsCurrentOperation(k)
    PROVE  rec.op # k /\ OperationEnded(rec, k) = rec
<1>1. rec.op # k
  BY DEF CoreInv, IsCurrentOperation, OperationOK, Conns
<1> QED BY <1>1 DEF OperationEnded, CoreInv, RowsOK, RecordRow

(* A working connection that is not the record's operation is not its      *)
(* client either.                                                          *)
LEMMA StaleWorker ==
    ASSUME CoreInv, NEW k \in Conns, conn[k].work # "none", rec.op # k
    PROVE  rec.client # k
BY DEF CoreInv, ClientOK, WorkIsOperation, Conns

(* A connection is of a type that idling and closing keep.                 *)
LEMMA IdleRow ==
    ASSUME CoreInv, NEW k \in Conns
    PROVE  /\ conn[k] \in ConnRow /\ Idle(k) \in ConnRow
           /\ Idle(k).work = "none" /\ Idle(k).gen = conn[k].gen
           /\ Idle(k).client = conn[k].client /\ Idle(k).link = conn[k].link
           /\ Idle(k).notice = conn[k].notice
           /\ conn[k].notice => conn[k].link = "down"
BY DEF CoreInv, RowsOK, ConnRow, Idle, ConnsOK

(* The client a connect was waiting for arrives.                           *)
LEMMA ConnectedSafe ==
    ASSUME CoreInv, NEW k \in Conns, Connected(k)
    PROVE  CoreInv'
<1> DEFINE x == [conn[k] EXCEPT !.work = "connected", !.client = "live"]
<1>1. conn' = [conn EXCEPT ![k] = x] /\ x \in ConnRow
  BY DEF Connected, CoreInv, RowsOK, ConnRow
<1>2. /\ x.work = "connected" /\ x.client = "live" /\ x.gen = conn[k].gen
      /\ x.notice => x.link = "down"
  BY IdleRow DEF ConnRow
<1>3. ~(k > rec.made) /\ conn[k].work = "connecting" /\ UNCHANGED <<rec, stopping>>
  BY DEF Connected, CoreInv, ConnsOK
<1> HIDE DEF x
<1> QED BY <1>1, <1>2, <1>3, ConnectionMoves

(* A connect fails, of the record's generation or of an earlier one.       *)
LEMMA ConnectFailsSafe ==
    ASSUME CoreInv, NEW k \in Conns, ConnectFails(k)
    PROVE  CoreInv'
<1>1. CASE IsCurrentOperation(k)
  <2>1. PICK lasted \in BOOLEAN : rec' = FailCurrentOperation(rec, k, lasted)
    BY <1>1 DEF ConnectFails
  <2>2. conn[k].client = "none"
    BY DEF CoreInv, ConnsOK, ConnectFails
  <2>3. conn' = [conn EXCEPT ![k] = Idle(k)] /\ UNCHANGED stopping
    BY DEF ConnectFails
  <2> QED BY <1>1, <2>1, <2>2, <2>3, IdleRow, RecordFailsOperation
<1>2. CASE ~IsCurrentOperation(k)
  BY <1>2, IdleRow, NotOperation, StaleWorker, ConnectionMoves
     DEF ConnectFails, CoreInv, ConnsOK
<1> QED BY <1>1, <1>2

(* A connect goes on: it is stale, was cut off already, or discovers.      *)
LEMMA EstablishedSafe ==
    ASSUME CoreInv, NEW k \in Conns, Established(k)
    PROVE  CoreInv'
<1> DEFINE x == Closing(Idle(k))
<1>1. /\ x \in ConnRow /\ x.work = "none" /\ x.gen = conn[k].gen
      /\ x.client # "live" /\ (x.notice => x.link = "down")
  BY IdleRow, ClosingRow
<1>2. /\ conn[k].work = "connected" /\ conn[k].client = "live"
      /\ ~(k > rec.made) /\ UNCHANGED stopping
  BY DEF Established, CoreInv, ConnsOK
<1> HIDE DEF x
<1>3. CASE ~IsCurrentOperation(k)
  BY <1>1, <1>2, <1>3, NotOperation, StaleWorker, ConnectionMoves
     DEF Established, x
<1>4. CASE IsCurrentOperation(k) /\ conn[k].pending
  <2>1. PICK lasted \in BOOLEAN :
          rec' = TransitionToReconnect([rec EXCEPT !.client = k], k, lasted)
    BY <1>4 DEF Established
  <2>2. conn' = [conn EXCEPT ![k] = x]
    BY <1>4 DEF Established, x
  <2>3. rec.op = k /\ ~stopping /\ rec.client = 0
    BY <1>2, <1>4 DEF IsCurrentOperation, CoreInv, OperationOK, Conns
  <2> DEFINE r == [rec EXCEPT !.client = k]
  <2>4. /\ r \in RecordRow /\ r.gen = rec.gen /\ r.made = rec.made
        /\ r.op = rec.op /\ r.restartsProcess = rec.restartsProcess
        /\ r.fast = rec.fast /\ r.attempt = rec.attempt
    <3>1. k \in ConnIds
      BY McpAssumption DEF Conns, ConnIds
    <3> QED BY <3>1 DEF CoreInv, RowsOK, RecordRow
  <2>5. Budget(r)
    BY <2>4 DEF CoreInv, BudgetOK, Budget
  <2> HIDE DEF r
  <2>6. rec' = TransitionToReconnect(r, k, lasted)
    BY <2>1 DEF r
  <2> QED BY <1>1, <1>2, <2>2, <2>3, <2>4, <2>5, <2>6, RecordLosesSession
<1>5. CASE IsCurrentOperation(k) /\ ~conn[k].pending
  <2> DEFINE y == [conn[k] EXCEPT !.work = "discovering"]
  <2>1. conn' = [conn EXCEPT ![k] = y] /\ y \in ConnRow
    BY <1>5 DEF Established, CoreInv, RowsOK, ConnRow
  <2>2. /\ y.work = "discovering" /\ y.client = "live" /\ y.gen = conn[k].gen
        /\ y.notice => y.link = "down"
    BY <1>2, IdleRow DEF ConnRow
  <2> HIDE DEF y
  <2>3. /\ rec' \in RecordRow /\ rec'.client = k
        /\ rec'.gen = rec.gen /\ rec'.made = rec.made /\ rec'.op = rec.op
        /\ rec'.state = rec.state /\ rec'.catalog = rec.catalog
        /\ rec'.timer = rec.timer /\ rec'.restartsProcess = rec.restartsProcess
        /\ rec'.fast = rec.fast /\ rec'.attempt = rec.attempt
    <3>1. k \in ConnIds
      BY McpAssumption DEF Conns, ConnIds
    <3> QED BY <1>5, <3>1 DEF Established, CoreInv, RowsOK, RecordRow
  <2>4. rec.op = k /\ ~stopping /\ rec.client = 0 /\ k # 0 /\ rec.gen = conn[k].gen
        /\ rec.state # "ready" /\ k <= rec.made
    BY <1>2, <1>5 DEF IsCurrentOperation, CoreInv, OperationOK, Conns
  <2>5. RowsOK' /\ \A j \in Conns : conn'[j] = IF j = k THEN y ELSE conn[j]
    BY <1>2, <2>1, <2>3 DEF CoreInv, RowsOK
  <2>6. ConnsOK'
    BY <1>2, <2>2, <2>3, <2>5 DEF CoreInv, ConnsOK
  <2>7. OperationOK' /\ WorkIsOperation'
    BY <1>2, <2>2, <2>3, <2>4, <2>5
       DEF CoreInv, OperationOK, WorkIsOperation
  <2>8. ClientOK' /\ NoOrphanClient'
    BY <1>2, <2>2, <2>3, <2>4, <2>5 DEF CoreInv, ClientOK, NoOrphanClient, Conns
  <2>9. CatalogOK' /\ TimerOK' /\ BudgetOK'
    BY <1>2, <2>3, <2>4 DEF CoreInv, CatalogOK, TimerOK, BudgetOK, Budget
  <2> QED BY <2>5, <2>6, <2>7, <2>8, <2>9 DEF CoreInv
<1> QED BY <1>3, <1>4, <1>5

(* Discovery fails; its client is closed in every case.                    *)
LEMMA DiscoveryFailsSafe ==
    ASSUME CoreInv, NEW k \in Conns, DiscoveryFails(k)
    PROVE  CoreInv'
<1> DEFINE x == Closing(Idle(k))
<1>1. /\ x \in ConnRow /\ x.work = "none" /\ x.gen = conn[k].gen
      /\ x.client # "live" /\ (x.notice => x.link = "down")
  BY IdleRow, ClosingRow
<1>2. /\ conn[k].work = "discovering" /\ ~(k > rec.made) /\ UNCHANGED stopping
      /\ conn' = [conn EXCEPT ![k] = x]
  BY DEF DiscoveryFails, CoreInv, ConnsOK
<1> HIDE DEF x
<1>3. CASE IsCurrentOperation(k)
  <2>1. PICK lasted \in BOOLEAN : rec' = FailCurrentOperation(rec, k, lasted)
    BY <1>3 DEF DiscoveryFails
  <2> QED BY <1>1, <1>2, <1>3, <2>1, RecordFailsOperation
<1>4. CASE ~IsCurrentOperation(k)
  BY <1>1, <1>2, <1>4, NotOperation, StaleWorker, ConnectionMoves
     DEF DiscoveryFails
<1> QED BY <1>3, <1>4

(* The record's session answered: its tools are offered and its next       *)
(* refresh is due.                                                         *)
LEMMA SessionPublished ==
    ASSUME CoreInv, NEW k \in Conns, IsCurrentClient(k), conn[k].work # "none",
           conn' = [conn EXCEPT ![k] = Idle(k)], UNCHANGED stopping,
           rec' \in RecordRow, Budget(rec'), rec'.gen = rec.gen,
           rec'.client = rec.client, rec'.made = rec.made, rec'.op = 0,
           rec'.catalog = k, rec'.state = "ready",
           rec'.timer = [kind |-> "refresh", gen |-> conn[k].gen, k |-> k]
    PROVE  CoreInv'
<1> USE DEF CoreInv
<1>1. RowsOK' /\ \A j \in Conns : conn'[j] = IF j = k THEN Idle(k) ELSE conn[j]
  BY IdleRow DEF RowsOK
<1>2. rec.op = k /\ rec.client = k /\ k # 0 /\ ~stopping /\ k <= rec.made
      /\ rec.gen = conn[k].gen /\ conn[k].client = "live" /\ rec.gen # 0
  BY DEF IsCurrentClient, WorkIsOperation, ClientOK, TimerOK, Conns
<1>3. rec'.timer.kind = "refresh" /\ rec'.timer.gen = rec.gen /\ rec'.timer.k = k
  BY <1>2
<1>4. ConnsOK'
  BY <1>1, IdleRow DEF ConnsOK
<1>5. WorkIsOperation'
  BY <1>1, <1>2, IdleRow DEF WorkIsOperation
<1>6. ClientOK' /\ NoOrphanClient'
  BY <1>1, <1>2, IdleRow DEF ClientOK, NoOrphanClient
<1>7. TimerOK'
  BY <1>2, <1>3 DEF TimerOK
<1> QED BY <1>1, <1>2, <1>4, <1>5, <1>6, <1>7 DEF OperationOK, CatalogOK, BudgetOK

(* The tools of a session arrive, in time or too late.                     *)
LEMMA DiscoveredSafe ==
    ASSUME CoreInv, NEW k \in Conns, Discovered(k)
    PROVE  CoreInv'
<1>1. conn[k].work = "discovering" /\ ~(k > rec.made) /\ UNCHANGED stopping
  BY DEF Discovered, CoreInv, ConnsOK
<1>2. CASE IsCurrentClient(k)
  <2>1. rec.op = k /\ k \in ConnIds
    BY <1>1, <1>2, McpAssumption
       DEF CoreInv, WorkIsOperation, IsCurrentClient, Conns, ConnIds
  <2> DEFINE m == [kind |-> "refresh", gen |-> conn[k].gen, k |-> k]
  <2>2. rec' = [rec EXCEPT !.op = 0, !.catalog = k, !.state = "ready",
                           !.readyAt = TRUE, !.timer = m]
    BY <1>2, <2>1 DEF Discovered, ScheduleRefresh, OperationEnded
  <2>3. m \in TimerRow /\ 0 \in ConnIds
    BY <2>1, McpAssumption
       DEF TimerRow, CoreInv, RowsOK, ConnRow, ConnIds, Conns
  <2> HIDE DEF m
  <2>4. /\ rec' \in RecordRow /\ rec'.gen = rec.gen /\ rec'.client = rec.client
        /\ rec'.made = rec.made /\ rec'.op = 0 /\ rec'.catalog = k
        /\ rec'.state = "ready" /\ rec'.timer = m
    BY <2>1, <2>2, <2>3 DEF CoreInv, RowsOK, RecordRow
  <2>5. rec'.fast = rec.fast /\ rec'.attempt = rec.attempt
        /\ rec'.restartsProcess = rec.restartsProcess
    BY <2>2 DEF CoreInv, RowsOK, RecordRow
  <2>6. Budget(rec')
    BY <2>5 DEF CoreInv, BudgetOK, Budget
  <2>7. conn' = [conn EXCEPT ![k] = Idle(k)]
    BY <1>2 DEF Discovered
  <2> QED BY <1>1, <1>2, <2>4, <2>6, <2>7, SessionPublished DEF m
<1>3. CASE ~IsCurrentClient(k)
  <2> DEFINE x == Closing(Idle(k))
  <2>1. /\ x \in ConnRow /\ x.work = "none" /\ x.gen = conn[k].gen
        /\ x.client # "live" /\ (x.notice => x.link = "down")
    BY IdleRow, ClosingRow
  <2>2. ~IsCurrentOperation(k)
    BY <1>1, <1>3 DEF IsCurrentOperation, IsCurrentClient, CoreInv, OperationOK,
                      Conns
  <2>3. conn' = [conn EXCEPT ![k] = x] /\ rec' = OperationEnded(rec, k)
    BY <1>3 DEF Discovered
  <2> HIDE DEF x
  <2> QED BY <1>1, <2>1, <2>2, <2>3, NotOperation, StaleWorker, ConnectionMoves
<1> QED BY <1>2, <1>3

(* A refresh is answered, in time or too late.                             *)
LEMMA RefreshedSafe ==
    ASSUME CoreInv, NEW k \in Conns, Refreshed(k)
    PROVE  CoreInv'
<1>1. /\ conn[k].work = "refreshing" /\ ~(k > rec.made) /\ UNCHANGED stopping
      /\ conn' = [conn EXCEPT ![k] = Idle(k)]
  BY DEF Refreshed, CoreInv, ConnsOK
<1>2. CASE IsCurrentClient(k)
  <2>1. rec.op = k /\ k \in ConnIds
    BY <1>1, <1>2, McpAssumption
       DEF CoreInv, WorkIsOperation, IsCurrentClient, Conns, ConnIds
  <2> DEFINE m == [kind |-> "refresh", gen |-> conn[k].gen, k |-> k]
  <2>2. rec' = [rec EXCEPT !.op = 0, !.catalog = k, !.timer = m]
    BY <1>2, <2>1 DEF Refreshed, ScheduleRefresh, OperationEnded
  <2>3. m \in TimerRow /\ 0 \in ConnIds
    BY <2>1, McpAssumption
       DEF TimerRow, CoreInv, RowsOK, ConnRow, ConnIds, Conns
  <2>4. rec.state = "ready"
    BY <1>1, <2>1 DEF CoreInv, OperationOK, Conns
  <2> HIDE DEF m
  <2>5. /\ rec' \in RecordRow /\ rec'.gen = rec.gen /\ rec'.client = rec.client
        /\ rec'.made = rec.made /\ rec'.op = 0 /\ rec'.catalog = k
        /\ rec'.state = "ready" /\ rec'.timer = m
    BY <2>1, <2>2, <2>3, <2>4 DEF CoreInv, RowsOK, RecordRow
  <2>6. rec'.fast = rec.fast /\ rec'.attempt = rec.attempt
        /\ rec'.restartsProcess = rec.restartsProcess
    BY <2>2 DEF CoreInv, RowsOK, RecordRow
  <2>7. Budget(rec')
    BY <2>6 DEF CoreInv, BudgetOK, Budget
  <2> QED BY <1>1, <1>2, <2>5, <2>7, SessionPublished DEF m
<1>3. CASE ~IsCurrentClient(k)
  <2>1. ~IsCurrentOperation(k)
    BY <1>1, <1>3 DEF IsCurrentOperation, IsCurrentClient, CoreInv, OperationOK,
                      Conns
  <2>2. rec' = rec /\ rec.op # k
    BY <1>3, <2>1, NotOperation DEF Refreshed
  <2>3. Idle(k).client = "live" => rec.client = k
    BY <1>1, IdleRow DEF CoreInv, NoOrphanClient
  <2> QED BY <1>1, <2>2, <2>3, IdleRow, StaleWorker, ConnectionMoves
<1> QED BY <1>2, <1>3

(* A refresh fails: the session is lost, if it is still the record's.      *)
LEMMA RefreshFailsSafe ==
    ASSUME CoreInv, NEW k \in Conns, RefreshFails(k)
    PROVE  CoreInv'
<1>1. conn[k].work = "refreshing" /\ ~(k > rec.made) /\ UNCHANGED stopping
  BY DEF RefreshFails, CoreInv, ConnsOK
<1>2. CASE IsCurrentClient(k)
  <2> DEFINE x == Closing(Idle(k))
  <2>1. /\ x \in ConnRow /\ x.work = "none" /\ x.gen = conn[k].gen
        /\ x.client # "live" /\ (x.notice => x.link = "down")
    BY IdleRow, ClosingRow
  <2>2. conn' = [conn EXCEPT ![k] = x]
    BY <1>2 DEF RefreshFails
  <2> HIDE DEF x
  <2>3. PICK lasted \in BOOLEAN : rec' = TransitionToReconnect(rec, k, lasted)
    BY <1>2 DEF RefreshFails
  <2>4. rec \in RecordRow /\ Budget(rec) /\ ~stopping /\ rec.client = k
    BY <1>2 DEF CoreInv, RowsOK, BudgetOK, IsCurrentClient
  <2> QED BY <1>1, <2>1, <2>2, <2>3, <2>4, RecordLosesSession
<1>3. CASE ~IsCurrentClient(k)
  <2>1. ~IsCurrentOperation(k)
    BY <1>1, <1>3 DEF IsCurrentOperation, IsCurrentClient, CoreInv, OperationOK,
                      Conns
  <2>2. rec' = rec /\ rec.op # k /\ conn' = [conn EXCEPT ![k] = Idle(k)]
    BY <1>3, <2>1, NotOperation DEF RefreshFails
  <2>3. Idle(k).client = "live" => rec.client = k
    BY <1>1, IdleRow DEF CoreInv, NoOrphanClient
  <2> QED BY <1>1, <2>2, <2>3, IdleRow, StaleWorker, ConnectionMoves
<1> QED BY <1>2, <1>3

(* The transport breaks; nobody knows yet.                                 *)
LEMMA DropSafe ==
    ASSUME CoreInv, NEW k \in Conns, Drop(k)
    PROVE  CoreInv'
<1>1. PICK n \in BOOLEAN :
        conn' = [conn EXCEPT ![k].link = "down", ![k].notice = n]
  BY DEF Drop
<1> DEFINE x == [conn[k] EXCEPT !.link = "down", !.notice = n]
<1>2. conn' = [conn EXCEPT ![k] = x] /\ x \in ConnRow /\ x.link = "down"
      /\ x.work = conn[k].work /\ x.gen = conn[k].gen
      /\ x.client = conn[k].client
  BY <1>1 DEF CoreInv, RowsOK, ConnRow
<1>3. UNCHANGED <<rec, stopping>>
  BY DEF Drop
<1>4. /\ k > rec.made => conn[k].work = "none" /\ conn[k].client = "none"
      /\ conn[k].work = "connecting" => conn[k].client = "none"
      /\ conn[k].work = "connected" => conn[k].client = "live"
      /\ rec.client = k => conn[k].client = "live"
      /\ conn[k].client = "live" => rec.client = k \/ conn[k].work = "connected"
  BY DEF CoreInv, ConnsOK, ClientOK, NoOrphanClient, Conns
<1> HIDE DEF x
<1> QED BY <1>2, <1>3, <1>4, ConnectionMoves

(* A client has closed.                                                    *)
LEMMA CloseEndsSafe ==
    ASSUME CoreInv, NEW k \in Conns, CloseEnds(k)
    PROVE  CoreInv'
<1> DEFINE x == [conn[k] EXCEPT !.client = "closed"]
<1>1. conn' = [conn EXCEPT ![k] = x] /\ x \in ConnRow /\ x.client = "closed"
      /\ x.work = conn[k].work /\ x.gen = conn[k].gen
      /\ x.link = conn[k].link /\ x.notice = conn[k].notice
  BY DEF CloseEnds, CoreInv, RowsOK, ConnRow
<1>2. /\ UNCHANGED <<rec, stopping>> /\ conn[k].client = "closing"
      /\ ~(k > rec.made) /\ conn[k].work # "connecting"
      /\ conn[k].work # "connected" /\ rec.client # k
      /\ conn[k].notice => conn[k].link = "down"
  BY DEF CloseEnds, CoreInv, ConnsOK, ClientOK, Conns
<1> HIDE DEF x
<1> QED BY <1>1, <1>2, ConnectionMoves

(* A disconnect, wherever it is noticed.                                   *)
LEMMA DisconnectSafe ==
    ASSUME CoreInv, NEW k \in Conns, NEW x \in ConnRow, UNCHANGED stopping,
           x.work = conn[k].work, x.gen = conn[k].gen,
           x.client = conn[k].client, x.notice => x.link = "down",
           conn[k].work \notin {"connecting", "connected"},
           HandleDisconnect(k, x)
    PROVE  CoreInv'
<1>1. /\ k > rec.made => conn[k].work = "none" /\ conn[k].client = "none"
      /\ rec.client = k => conn[k].client = "live" /\ IsCurrentClient(k)
      /\ conn[k].client = "live" => rec.client = k
  BY DEF CoreInv, ConnsOK, ClientOK, NoOrphanClient, Conns, IsCurrentClient
<1> DEFINE y == Closing(x)
<1>2. /\ y \in ConnRow /\ y.work = conn[k].work /\ y.gen = conn[k].gen
      /\ y.client # "live" /\ (y.notice => y.link = "down")
      /\ conn[k].client = "none" => y.client = "none"
  BY ClosingRow
<1>3. CASE stopping
  BY <1>1, <1>3, ConnectionMoves DEF HandleDisconnect
<1>4. CASE ~stopping /\ IsCurrentClient(k)
  <2>1. PICK lasted \in BOOLEAN : rec' = TransitionToReconnect(rec, k, lasted)
    BY <1>4 DEF HandleDisconnect
  <2>2. rec \in RecordRow /\ Budget(rec) /\ rec.client = k
    BY <1>4 DEF CoreInv, RowsOK, BudgetOK, IsCurrentClient
  <2>3. conn' = [conn EXCEPT ![k] = y]
    BY <1>4 DEF HandleDisconnect
  <2> HIDE DEF y
  <2> QED BY <1>2, <1>4, <2>1, <2>2, <2>3, RecordLosesSession
<1>5. CASE ~stopping /\ ~IsCurrentClient(k)
  <2>1. conn' = [conn EXCEPT ![k] = y] /\ UNCHANGED rec /\ rec.client # k
    BY <1>1, <1>5 DEF HandleDisconnect
  <2> HIDE DEF y
  <2> QED BY <1>1, <1>2, <2>1, ConnectionMoves
<1> QED BY <1>3, <1>4, <1>5

(* The transport's end is noticed, before or after the hand-over.          *)
LEMMA NoticeSafe ==
    ASSUME CoreInv, NEW k \in Conns, Notice(k)
    PROVE  CoreInv'
<1>1. /\ k > rec.made => conn[k].work = "none" /\ conn[k].client = "none"
      /\ rec.client = k => conn[k].client = "live"
      /\ conn[k].client = "live" => rec.client = k \/ conn[k].work = "connected"
      /\ conn[k].work # "connecting" /\ UNCHANGED stopping
      /\ conn[k].client = "live"
  BY DEF CoreInv, ConnsOK, ClientOK, NoOrphanClient, Conns, Notice
<1>2. CASE conn[k].work = "connected"
  <2> DEFINE x == [conn[k] EXCEPT !.notice = FALSE, !.pending = TRUE]
  <2>1. conn' = [conn EXCEPT ![k] = x] /\ UNCHANGED rec
    BY <1>2 DEF Notice, CoreInv, RowsOK, ConnRow
  <2>2. x \in ConnRow /\ x.work = conn[k].work /\ x.gen = conn[k].gen
        /\ x.client = conn[k].client /\ ~x.notice
    BY DEF CoreInv, RowsOK, ConnRow
  <2> HIDE DEF x
  <2> QED BY <1>1, <1>2, <2>1, <2>2, ConnectionMoves
<1>3. CASE conn[k].work # "connected"
  <2> DEFINE x == [conn[k] EXCEPT !.notice = FALSE]
  <2>1. x \in ConnRow /\ x.work = conn[k].work /\ x.gen = conn[k].gen
        /\ x.client = conn[k].client /\ ~x.notice
    BY DEF CoreInv, RowsOK, ConnRow
  <2>2. HandleDisconnect(k, x)
    BY <1>3 DEF Notice
  <2> HIDE DEF x
  <2> QED BY <1>1, <1>3, <2>1, <2>2, DisconnectSafe
<1> QED BY <1>2, <1>3

(* The module starts its first connect.                                    *)
LEMMA StartSafe ==
    ASSUME CoreInv, Start
    PROVE  CoreInv'
<1>1. rec.gen = 0 /\ ~stopping /\ UNCHANGED stopping /\ BeginConnect(rec)
  BY DEF Start
<1>2. rec \in RecordRow /\ Budget(rec) /\ rec.op = 0
  BY <1>1 DEF CoreInv, RowsOK, BudgetOK, TimerOK
<1>3. rec.client = 0 /\ rec.catalog = 0 /\ rec.state # "ready"
  BY <1>1, <1>2 DEF CoreInv, CatalogOK, ClientOK
<1> QED BY <1>1, <1>2, <1>3, RecordConnects

(* The reconnect timer starts the next connect.                            *)
LEMMA ReconnectTimerSafe ==
    ASSUME CoreInv, ReconnectTimer
    PROVE  CoreInv'
<1> DEFINE r == [rec EXCEPT !.timer = NoTimer]
<1>1. rec.timer.kind \in {"fast", "slow"} /\ UNCHANGED stopping
  BY DEF ReconnectTimer
<1>2. ~stopping /\ rec.gen # 0 /\ rec.op = 0 /\ rec.timer.gen = rec.gen
      /\ rec.state = "reconnecting"
  BY <1>1 DEF CoreInv, TimerOK
<1>3. rec.catalog = 0 /\ rec.client = 0
  BY <1>2 DEF CoreInv, CatalogOK, ClientOK
<1>4. BeginConnect(r)
  BY <1>2 DEF ReconnectTimer
<1>5. /\ r \in RecordRow /\ r.gen = rec.gen /\ r.state = rec.state
      /\ r.catalog = rec.catalog /\ r.client = rec.client /\ r.made = rec.made
      /\ r.restartsProcess = rec.restartsProcess /\ r.fast = rec.fast
      /\ r.attempt = rec.attempt
  <2>1. NoTimer \in TimerRow
    BY DEF NoTimer, TimerRow
  <2> QED BY <2>1 DEF CoreInv, RowsOK, RecordRow
<1>6. Budget(r)
  BY <1>5 DEF CoreInv, BudgetOK, Budget
<1> HIDE DEF r
<1> QED BY <1>1, <1>2, <1>3, <1>4, <1>5, <1>6, RecordConnects

(* The refresh timer finds its session current, and refreshes it.          *)
LEMMA RefreshTimerSafe ==
    ASSUME CoreInv, RefreshTimer
    PROVE  CoreInv'
<1> DEFINE k == rec.timer.k
           x == [conn[k] EXCEPT !.work = "refreshing"]
<1>1. rec.timer.kind = "refresh" /\ UNCHANGED stopping
  BY DEF RefreshTimer
<1>2. ~stopping /\ rec.gen # 0 /\ rec.op = 0 /\ rec.state = "ready"
      /\ k = rec.client
  BY <1>1 DEF CoreInv, TimerOK
<1>3. k # 0 /\ k \in Conns /\ k \in ConnIds
  BY <1>2, McpAssumption
     DEF CoreInv, CatalogOK, RowsOK, RecordRow, ConnIds, Conns
<1>4. IsCurrentClient(k) /\ conn[k].gen = rec.gen /\ conn[k].client = "live"
      /\ k <= rec.made
  BY <1>2, <1>3 DEF CoreInv, ClientOK, IsCurrentClient
<1>5. rec' = [rec EXCEPT !.timer = NoTimer, !.op = k]
      /\ conn' = [conn EXCEPT ![k].work = "refreshing"]
  BY <1>2, <1>4 DEF RefreshTimer
<1> HIDE DEF k
<1>6. conn' = [conn EXCEPT ![k] = x] /\ x \in ConnRow /\ x.work = "refreshing"
      /\ x.gen = conn[k].gen /\ x.client = "live"
      /\ (x.notice => x.link = "down")
  <2>1. conn[k].notice => conn[k].link = "down"
    BY <1>3 DEF CoreInv, ConnsOK
  <2> QED BY <1>3, <1>4, <1>5, <2>1 DEF CoreInv, RowsOK, ConnRow
<1> HIDE DEF x
<1>7. NoTimer \in TimerRow /\ NoTimer.kind = "none"
  BY DEF NoTimer, TimerRow
<1>8. /\ rec' \in RecordRow /\ rec'.gen = rec.gen /\ rec'.op = k
      /\ rec'.client = k /\ rec'.catalog = rec.catalog /\ rec'.made = rec.made
      /\ rec'.state = "ready" /\ rec'.timer = NoTimer
  BY <1>2, <1>3, <1>5, <1>7 DEF CoreInv, RowsOK, RecordRow
<1>9. Budget(rec')
  <2>1. rec'.restartsProcess = rec.restartsProcess /\ rec'.fast = rec.fast
        /\ rec'.attempt = rec.attempt
    BY <1>5 DEF CoreInv, RowsOK, RecordRow
  <2> QED BY <2>1 DEF CoreInv, BudgetOK, Budget
<1>10. RowsOK' /\ \A j \in Conns : conn'[j] = IF j = k THEN x ELSE conn[j]
  BY <1>1, <1>3, <1>6, <1>8 DEF CoreInv, RowsOK
<1>11. ConnsOK'
  BY <1>3, <1>4, <1>6, <1>8, <1>10, McpAssumption
     DEF CoreInv, ConnsOK, RowsOK, RecordRow, Conns, ConnIds
<1>12. OperationOK' /\ WorkIsOperation'
  <2>1. OperationOK'
    BY <1>1, <1>2, <1>3, <1>4, <1>6, <1>8, <1>10 DEF OperationOK
  <2>2. \A j \in Conns : conn[j].work = "none" \/ conn[j].gen # rec.gen
    BY <1>2 DEF CoreInv, WorkIsOperation, Conns
  <2>3. WorkIsOperation'
    BY <1>8, <1>10, <2>2 DEF WorkIsOperation
  <2> QED BY <2>1, <2>3
<1>13. ClientOK' /\ NoOrphanClient'
  BY <1>1, <1>2, <1>3, <1>4, <1>6, <1>8, <1>10
     DEF CoreInv, ClientOK, NoOrphanClient
<1>14. CatalogOK' /\ TimerOK'
  BY <1>1, <1>2, <1>3, <1>7, <1>8 DEF CoreInv, CatalogOK, TimerOK
<1> QED BY <1>9, <1>10, <1>11, <1>12, <1>13, <1>14 DEF CoreInv, BudgetOK

(* Shutdown leaves no operation, client, catalog or timer behind.          *)
LEMMA ShutdownSafe ==
    ASSUME CoreInv, Shutdown
    PROVE  CoreInv'
<1> DEFINE g == rec.gen + 1
<1>1. NoTimer \in TimerRow /\ NoTimer.kind = "none" /\ 0 \in ConnIds
      /\ g \in Nat /\ g >= rec.gen /\ g # 0
  BY McpAssumption DEF NoTimer, TimerRow, ConnIds, CoreInv, RowsOK, RecordRow
<1>2. /\ rec' = [rec EXCEPT !.timer = NoTimer, !.gen = g, !.state = "closing",
                            !.catalog = 0, !.client = 0, !.op = 0]
      /\ stopping' = TRUE
  BY DEF Shutdown
<1> HIDE DEF g
<1>3. /\ rec' \in RecordRow /\ rec'.gen = g /\ rec'.op = 0 /\ rec'.client = 0
      /\ rec'.catalog = 0 /\ rec'.made = rec.made /\ rec'.state = "closing"
      /\ rec'.timer = NoTimer
  BY <1>1, <1>2 DEF CoreInv, RowsOK, RecordRow
<1>4. Budget(rec')
  <2>1. rec'.restartsProcess = rec.restartsProcess /\ rec'.fast = rec.fast
        /\ rec'.attempt = rec.attempt
    BY <1>2 DEF CoreInv, RowsOK, RecordRow
  <2> QED BY <2>1 DEF CoreInv, BudgetOK, Budget
<1>5. \A j \in Conns : conn'[j] = IF j = rec.client THEN Closing(conn[j])
                                  ELSE conn[j]
  BY DEF Shutdown
<1>6. ASSUME NEW j \in Conns
      PROVE  /\ conn[j] \in ConnRow /\ conn'[j] \in ConnRow
             /\ conn'[j].work = conn[j].work /\ conn'[j].gen = conn[j].gen
             /\ conn'[j].client = (IF j = rec.client /\ conn[j].client = "live"
                                   THEN "closing" ELSE conn[j].client)
             /\ (conn'[j].notice => conn[j].notice /\ conn'[j].link = conn[j].link)
  <2>1. conn[j] \in ConnRow
    BY DEF CoreInv, RowsOK
  <2> QED BY <1>5, <2>1, ClosingRow
<1>7. RowsOK'
  <2>1. conn' \in [Conns -> ConnRow]
    BY <1>6 DEF Shutdown
  <2> QED BY <1>2, <1>3, <2>1 DEF RowsOK
<1>8. ConnsOK'
  <2> SUFFICES ASSUME NEW j \in Conns
               PROVE  /\ conn'[j].gen <= rec'.gen
                      /\ j > rec'.made => conn'[j].work = "none"
                                           /\ conn'[j].client = "none"
                      /\ conn'[j].work = "connecting" => conn'[j].client = "none"
                      /\ conn'[j].work = "connected" => conn'[j].client = "live"
                      /\ conn'[j].notice => conn'[j].link = "down"
    BY DEF ConnsOK
  <2>1. conn[j].gen \in Nat /\ rec.gen \in Nat /\ conn[j].gen <= rec.gen
    BY DEF CoreInv, RowsOK, RecordRow, ConnRow, ConnsOK
  <2>2. j = rec.client => conn[j].work # "connected"
    BY DEF CoreInv, ClientOK, Conns
  <2> QED BY <1>1, <1>3, <1>6, <2>1, <2>2 DEF CoreInv, ConnsOK
<1>9. OperationOK' /\ WorkIsOperation' /\ ClientOK' /\ CatalogOK' /\ TimerOK'
  BY <1>1, <1>2, <1>3
     DEF OperationOK, WorkIsOperation, ClientOK, CatalogOK, TimerOK
<1>10. NoOrphanClient'
  BY <1>3, <1>6 DEF CoreInv, NoOrphanClient
<1> QED BY <1>4, <1>7, <1>8, <1>9, <1>10 DEF CoreInv, BudgetOK

-----------------------------------------------------------------------------
(* Calls keep naming connections that were once the record's.              *)

(* A connection that was handed over is not connecting again.              *)
HandedOverStays ==
    \A j \in Conns :
        j <= rec.made /\ conn[j].work \notin {"connecting", "connected"} =>
            conn'[j].work \notin {"connecting", "connected"}

(* A step that makes no call and undoes no hand-over keeps every call's    *)
(* connection.                                                             *)
LEMMA CallsKept ==
    ASSUME SessionInv, UNCHANGED call, faults' \in 0..MaxFaults,
           rec'.made \in ConnIds, rec.made <= rec'.made, HandedOverStays
    PROVE  CallsOK'
<1>1. rec.made \in ConnIds
  BY DEF SessionInv, CoreInv, RowsOK, RecordRow
<1> SUFFICES ASSUME NEW c \in Calls, call[c].at \in {"bound", "sent"}
             PROVE  /\ call[c].k \in 1..rec'.made
                    /\ conn'[call[c].k].work \notin {"connecting", "connected"}
  BY DEF SessionInv, CallsOK
<1>2. /\ call[c].k \in 1..rec.made
      /\ conn[call[c].k].work \notin {"connecting", "connected"}
  BY DEF SessionInv, CallsOK
<1>3. call[c].k \in Conns /\ call[c].k <= rec.made /\ call[c].k \in 1..rec'.made
  BY <1>1, <1>2, McpAssumption DEF ConnIds, Conns
<1> QED BY <1>2, <1>3 DEF HandedOverStays

(* One connection moves, and does not begin to connect.                    *)
LEMMA OneMoves ==
    ASSUME CoreInv, NEW k \in Conns, NEW x, conn' = [conn EXCEPT ![k] = x],
           \/ conn[k].work \in {"connecting", "connected"}
           \/ x.work \notin {"connecting", "connected"}
    PROVE  HandedOverStays
BY DEF CoreInv, RowsOK, HandedOverStays

(* A fault is counted within its bound.                                    *)
LEMMA FaultCounted ==
    ASSUME SessionInv,
           faults' = faults \/ (faults < MaxFaults /\ faults' = faults + 1)
    PROVE  faults' \in 0..MaxFaults
BY McpAssumption DEF SessionInv, CallsOK

(* The connections the record made are kept by everything but a connect.   *)
LEMMA MadeKept ==
    ASSUME CoreInv, NEW k \in Conns,
           \/ rec' = rec
           \/ rec' = OperationEnded(rec, k)
           \/ IsCurrentOperation(k) /\ \E lasted \in BOOLEAN :
                rec' = FailCurrentOperation(rec, k, lasted)
           \/ \E lasted \in BOOLEAN : rec' = TransitionToReconnect(rec, k, lasted)
    PROVE  rec'.made = rec.made
<1>1. rec \in RecordRow /\ Budget(rec)
  BY DEF CoreInv, RowsOK, BudgetOK
<1>2. CASE rec' = OperationEnded(rec, k)
  BY <1>1, <1>2 DEF OperationEnded, RecordRow
<1>3. CASE IsCurrentOperation(k) /\ \E lasted \in BOOLEAN :
                rec' = FailCurrentOperation(rec, k, lasted)
  <2>1. rec.timer.kind = "none"
    BY <1>3 DEF IsCurrentOperation, CoreInv, TimerOK, Conns
  <2> QED BY <1>1, <1>3, <2>1, OperationFailed
<1>4. CASE \E lasted \in BOOLEAN : rec' = TransitionToReconnect(rec, k, lasted)
  BY <1>1, <1>4, SessionLost
<1> QED BY <1>2, <1>3, <1>4

(* The steps of a connection keep the calls.                               *)
LEMMA ConnectionKeepsCalls ==
    ASSUME SessionInv, NEW k \in Conns,
           Settles(k) \/ Drop(k) \/ Notice(k) \/ CloseEnds(k)
    PROVE  CallsOK'
<1>1. CoreInv /\ conn[k] \in ConnRow /\ rec \in RecordRow /\ rec.made \in ConnIds
      /\ rec.made <= rec.made
  BY McpAssumption DEF SessionInv, CoreInv, RowsOK, RecordRow, ConnIds
<1>2. /\ Idle(k) \in ConnRow /\ Idle(k).work = "none"
      /\ Closing(Idle(k)).work = "none"
  BY <1>1, IdleRow, ClosingRow
<1>3. faults' \in 0..MaxFaults
  <2>1. faults' = faults \/ (faults < MaxFaults /\ faults' = faults + 1)
    BY DEF Settles, Connected, ConnectFails, Established, Discovered,
           DiscoveryFails, Refreshed, RefreshFails, Fails, Drop, Notice,
           CloseEnds
  <2> QED BY <2>1, FaultCounted
<1>4. UNCHANGED call
  BY DEF Settles, Connected, ConnectFails, Established, Discovered,
         DiscoveryFails, Refreshed, RefreshFails, Drop, Notice, CloseEnds
<1>5. rec'.made = rec.made
  <2>1. CASE Connected(k) \/ Drop(k) \/ CloseEnds(k)
    BY <2>1 DEF Connected, Drop, CloseEnds
  <2>2. CASE ConnectFails(k) \/ DiscoveryFails(k)
    BY <1>1, <2>2, MadeKept DEF ConnectFails, DiscoveryFails
  <2>3. CASE Established(k)
    <3>1. CASE rec' = OperationEnded(rec, k)
      BY <1>1, <3>1, MadeKept
    <3>2. CASE rec' = [rec EXCEPT !.client = k]
      BY <1>1, <3>2 DEF RecordRow
    <3>3. ASSUME NEW lasted \in BOOLEAN,
                 rec' = TransitionToReconnect([rec EXCEPT !.client = k], k, lasted)
          PROVE  rec'.made = rec.made
      <4> DEFINE r == [rec EXCEPT !.client = k]
      <4>1. k \in ConnIds
        BY McpAssumption DEF Conns, ConnIds
      <4>2. r \in RecordRow /\ r.made = rec.made
        BY <1>1, <4>1 DEF RecordRow
      <4>3. r.restartsProcess = rec.restartsProcess /\ r.fast = rec.fast
            /\ r.attempt = rec.attempt
        BY <1>1 DEF RecordRow
      <4>4. Budget(r)
        BY <1>1, <4>3 DEF CoreInv, BudgetOK, Budget
      <4>5. rec' = TransitionToReconnect(r, k, lasted)
        BY <3>3
      <4> HIDE DEF r
      <4> QED BY <4>2, <4>4, <4>5, SessionLost
    <3> QED BY <2>3, <3>1, <3>2, <3>3 DEF Established
  <2>4. CASE Discovered(k) \/ Refreshed(k)
    <3>1. CASE rec' = OperationEnded(rec, k)
      BY <1>1, <3>1, MadeKept
    <3>2. OperationEnded(rec, k).made = rec.made
          /\ OperationEnded(rec, k) = [rec EXCEPT !.op = IF rec.op = k THEN 0 ELSE rec.op]
      BY <1>1 DEF OperationEnded, RecordRow
    <3>3. CASE rec' = ScheduleRefresh([OperationEnded(rec, k) EXCEPT
                          !.catalog = k, !.state = "ready", !.readyAt = TRUE], k)
      BY <1>1, <3>2, <3>3 DEF ScheduleRefresh, RecordRow
    <3>4. CASE rec' = ScheduleRefresh([OperationEnded(rec, k) EXCEPT
                                        !.catalog = k], k)
      BY <1>1, <3>2, <3>4 DEF ScheduleRefresh, RecordRow
    <3> QED BY <2>4, <3>1, <3>3, <3>4 DEF Discovered, Refreshed
  <2>5. CASE RefreshFails(k)
    BY <1>1, <2>5, MadeKept DEF RefreshFails
  <2>6. CASE Notice(k)
    BY <1>1, <2>6, MadeKept DEF Notice, HandleDisconnect
  <2> QED BY <2>1, <2>2, <2>3, <2>4, <2>5, <2>6 DEF Settles
<1>6. HandedOverStays
  <2>1. CASE Connected(k)
    BY <1>1, <2>1 DEF CoreInv, RowsOK, Connected, HandedOverStays
  <2>2. CASE ConnectFails(k) \/ Discovered(k) \/ DiscoveryFails(k)
             \/ Refreshed(k) \/ RefreshFails(k)
    <3>1. conn' = [conn EXCEPT ![k] = Idle(k)]
          \/ conn' = [conn EXCEPT ![k] = Closing(Idle(k))]
      BY <2>2 DEF ConnectFails, Discovered, DiscoveryFails, Refreshed, RefreshFails
    <3> QED BY <1>1, <1>2, <3>1, OneMoves
  <2>3. CASE Established(k)
    BY <1>1, <2>3 DEF CoreInv, RowsOK, Established, HandedOverStays
  <2>4. CASE Drop(k) \/ CloseEnds(k)
    BY <1>1, <2>4 DEF CoreInv, RowsOK, ConnRow, Drop, CloseEnds, HandedOverStays
  <2>5. CASE Notice(k)
    <3>1. CASE conn[k].work = "connected"
      BY <1>1, <2>5, <3>1 DEF CoreInv, RowsOK, ConnRow, Notice, HandedOverStays
    <3>2. CASE conn[k].work # "connected"
      <4> DEFINE x == [conn[k] EXCEPT !.notice = FALSE]
      <4>1. x \in ConnRow /\ x.work = conn[k].work /\ x.work # "connecting"
        BY <1>1, <2>5 DEF Notice, ConnRow, CoreInv, ConnsOK
      <4>2. HandleDisconnect(k, x)
        BY <2>5, <3>2 DEF Notice
      <4> HIDE DEF x
      <4>3. Closing(x).work = x.work
        BY <4>1, ClosingRow
      <4>4. conn' = [conn EXCEPT ![k] = x] \/ conn' = [conn EXCEPT ![k] = Closing(x)]
        BY <4>2 DEF HandleDisconnect
      <4> QED BY <1>1, <3>2, <4>1, <4>3, <4>4, OneMoves
    <3> QED BY <3>1, <3>2
  <2> QED BY <2>1, <2>2, <2>3, <2>4, <2>5 DEF Settles
<1> QED BY <1>1, <1>3, <1>4, <1>5, <1>6, CallsKept

(* A connect takes a connection no call can name yet.                      *)
LEMMA ConnectKeepsCalls ==
    ASSUME SessionInv, UNCHANGED <<call, faults>>, NEW r,
           r = rec \/ r = [rec EXCEPT !.timer = NoTimer], BeginConnect(r)
    PROVE  CallsOK'
<1>1. r.made = rec.made /\ rec \in RecordRow /\ rec.made \in ConnIds
      /\ DOMAIN r = DOMAIN rec
  BY DEF SessionInv, CoreInv, RowsOK, RecordRow
<1> DEFINE k == rec.made + 1
<1>2. k \in Conns /\ rec'.made = k
  BY <1>1 DEF BeginConnect, RecordRow
<1>3. k \in ConnIds /\ rec.made <= k /\ \A j \in Conns : j <= rec.made => j # k
  BY <1>1, <1>2, McpAssumption DEF ConnIds, Conns
<1>4. \A j \in Conns : j # k => conn'[j] = conn[j]
  BY <1>1 DEF BeginConnect, SessionInv, CoreInv, RowsOK
<1> HIDE DEF k
<1>5. HandedOverStays
  BY <1>3, <1>4 DEF HandedOverStays
<1>6. faults' \in 0..MaxFaults
  BY DEF SessionInv, CallsOK
<1> QED BY <1>2, <1>3, <1>5, <1>6, CallsKept

(* The record's own steps keep the calls.                                  *)
LEMMA RecordKeepsCalls ==
    ASSUME SessionInv, Start \/ ReconnectTimer \/ RefreshTimer \/ Shutdown
    PROVE  CallsOK'
<1>1. CoreInv /\ rec \in RecordRow /\ rec.made \in ConnIds /\ rec.made <= rec.made
      /\ faults \in 0..MaxFaults /\ conn \in [Conns -> ConnRow]
  BY McpAssumption DEF SessionInv, CoreInv, RowsOK, RecordRow, ConnIds, CallsOK
<1>2. CASE Start
  BY <1>2, ConnectKeepsCalls DEF Start
<1>3. CASE ReconnectTimer
  <2> DEFINE r == [rec EXCEPT !.timer = NoTimer]
  <2>1. CASE BeginConnect(r)
    BY <1>3, <2>1, ConnectKeepsCalls DEF ReconnectTimer
  <2>2. CASE rec' = r /\ UNCHANGED conn
    <3>1. rec'.made = rec.made
      BY <1>1, <2>2 DEF RecordRow
    <3>2. HandedOverStays
      BY <2>2 DEF HandedOverStays
    <3> QED BY <1>1, <1>3, <3>1, <3>2, CallsKept DEF ReconnectTimer
  <2> QED BY <1>3, <2>1, <2>2 DEF ReconnectTimer
<1>4. CASE RefreshTimer
  <2>1. rec'.made = rec.made
    BY <1>1, <1>4 DEF RefreshTimer, RecordRow
  <2>2. HandedOverStays
    BY <1>1, <1>4 DEF RefreshTimer, HandedOverStays, ConnRow
  <2> QED BY <1>1, <1>4, <2>1, <2>2, CallsKept DEF RefreshTimer
<1>5. CASE Shutdown
  <2>1. rec'.made = rec.made
    BY <1>1, <1>5 DEF Shutdown, RecordRow
  <2>2. \A j \in Conns : Closing(conn[j]).work = conn[j].work
    BY <1>1, ClosingRow
  <2>3. HandedOverStays
    BY <1>5, <2>2 DEF Shutdown, HandedOverStays
  <2> QED BY <1>1, <1>5, <2>1, <2>3, CallsKept DEF Shutdown
<1> QED BY <1>2, <1>3, <1>4, <1>5

-----------------------------------------------------------------------------
(* The calls' own steps.                                                   *)

(* A call is bound to the session the tools come from.                     *)
LEMMA BindSafe ==
    ASSUME SessionInv, NEW c \in Calls, Bind(c)
    PROVE  SessionInv'
<1> DEFINE k == rec.catalog
<1>1. /\ UNCHANGED <<rec, conn, stopping, faults>>
      /\ call' = [call EXCEPT ![c] = [at |-> "bound", k |-> k]]
      /\ k = rec.client /\ k \in ConnIds /\ k # 0
  BY DEF Bind, SessionInv, CoreInv, CatalogOK, RowsOK, RecordRow
<1>2. k \in 1..rec.made /\ conn[k].work \notin {"connecting", "connected"}
  BY <1>1, McpAssumption
     DEF SessionInv, CoreInv, ClientOK, ConnIds, RowsOK, RecordRow
<1> HIDE DEF k
<1>3. CoreInv'
  BY <1>1 DEF SessionInv, CoreInv, RowsOK, ConnsOK, OperationOK, WorkIsOperation,
              ClientOK, CatalogOK, TimerOK, BudgetOK, NoOrphanClient
<1>4. CallsOK'
  BY <1>1, <1>2 DEF SessionInv, CallsOK, CallRow
<1> QED BY <1>3, <1>4 DEF SessionInv

(* A call is dispatched or refused.                                        *)
LEMMA ExecuteSafe ==
    ASSUME SessionInv, NEW c \in Calls, Execute(c)
    PROVE  SessionInv'
<1>1. UNCHANGED <<rec, conn, stopping, faults>> /\ call[c].at = "bound"
      /\ call \in [Calls -> CallRow] /\ 0 \in ConnIds
  BY McpAssumption DEF Execute, SessionInv, CallsOK, ConnIds
<1>2. CoreInv'
  BY <1>1 DEF SessionInv, CoreInv, RowsOK, ConnsOK, OperationOK, WorkIsOperation,
              ClientOK, CatalogOK, TimerOK, BudgetOK, NoOrphanClient
<1>3. CallsOK'
  <2>1. CASE call' = [call EXCEPT ![c].at = "sent"]
    BY <1>1, <2>1 DEF SessionInv, CallsOK, CallRow
  <2>2. CASE call' = [call EXCEPT ![c] = Done]
    BY <1>1, <2>2 DEF SessionInv, CallsOK, CallRow, Done
  <2> QED BY <2>1, <2>2 DEF Execute
<1> QED BY <1>2, <1>3 DEF SessionInv

(* The outcome of a call, which may speak of a session long replaced.      *)
LEMMA OutcomeSafe ==
    ASSUME SessionInv, NEW c \in Calls, Outcome(c)
    PROVE  SessionInv'
<1> DEFINE k == call[c].k
<1>1. /\ call[c].at = "sent" /\ call' = [call EXCEPT ![c] = Done]
      /\ UNCHANGED stopping /\ CoreInv
      /\ UNCHANGED <<rec, conn, faults>> \/ HandleDisconnect(k, conn[k])
      /\ faults' = faults \/ (faults < MaxFaults /\ faults' = faults + 1)
  BY DEF Outcome, SessionInv
<1>2. k \in 1..rec.made /\ conn[k].work \notin {"connecting", "connected"}
  BY <1>1 DEF SessionInv, CallsOK
<1>3. k \in Conns /\ conn[k] \in ConnRow /\ 0 \in ConnIds /\ rec.made \in ConnIds
  <2>1. rec.made \in ConnIds
    BY <1>1 DEF CoreInv, RowsOK, RecordRow
  <2>2. k \in Conns /\ 0 \in ConnIds
    BY <1>2, <2>1, McpAssumption DEF Conns, ConnIds
  <2> QED BY <1>1, <2>1, <2>2 DEF CoreInv, RowsOK
<1>4. CASE UNCHANGED <<rec, conn, faults>>
  <2>1. CoreInv'
    BY <1>1, <1>4 DEF CoreInv, RowsOK, ConnsOK, OperationOK,
                      WorkIsOperation, ClientOK, CatalogOK, TimerOK, BudgetOK,
                      NoOrphanClient
  <2>2. CallsOK'
    BY <1>1, <1>3, <1>4 DEF SessionInv, CallsOK, CallRow, Done
  <2> QED BY <2>1, <2>2 DEF SessionInv
<1>5. CASE HandleDisconnect(k, conn[k])
  <2> HIDE DEF k
  <2>1. conn[k].notice => conn[k].link = "down"
    BY <1>1, <1>3 DEF CoreInv, ConnsOK
  <2>2. CoreInv'
    BY <1>1, <1>2, <1>3, <1>5, <2>1, DisconnectSafe
  <2>3. rec'.made = rec.made
    BY <1>1, <1>3, <1>5, MadeKept DEF HandleDisconnect
  <2>4. HandedOverStays
    <3>1. Closing(conn[k]).work = conn[k].work
      BY <1>3, ClosingRow
    <3>2. conn' = [conn EXCEPT ![k] = conn[k]]
          \/ conn' = [conn EXCEPT ![k] = Closing(conn[k])]
      BY <1>5 DEF HandleDisconnect
    <3> QED BY <1>1, <1>2, <1>3, <3>1, <3>2, OneMoves
  <2>5. faults' \in 0..MaxFaults
    BY <1>1, FaultCounted
  <2>6. call' \in [Calls -> CallRow] /\ Done.at = "done"
    BY <1>1, <1>3 DEF SessionInv, CallsOK, CallRow, Done
  <2>7. ASSUME NEW d \in Calls, call'[d].at \in {"bound", "sent"}
        PROVE  /\ call'[d].k \in 1..rec'.made
               /\ conn'[call'[d].k].work \notin {"connecting", "connected"}
    <3>1. call'[d] = call[d]
      BY <1>1, <2>6, <2>7 DEF SessionInv, CallsOK
    <3>2. call[d].k \in 1..rec.made
          /\ conn[call[d].k].work \notin {"connecting", "connected"}
      BY <2>7, <3>1 DEF SessionInv, CallsOK
    <3>3. call[d].k \in Conns /\ call[d].k <= rec.made
      BY <1>3, <3>2, McpAssumption DEF Conns, ConnIds
    <3> QED BY <2>3, <2>4, <3>1, <3>2, <3>3 DEF HandedOverStays
  <2>8. CallsOK'
    BY <2>5, <2>6, <2>7 DEF CallsOK
  <2> QED BY <2>2, <2>8 DEF SessionInv
<1> QED BY <1>1, <1>4, <1>5

-----------------------------------------------------------------------------
(* The inductive invariant.                                                *)

(* It holds before the module starts.                                      *)
LEMMA SessionInit == Init => SessionInv
<1> SUFFICES ASSUME Init PROVE SessionInv
  OBVIOUS
<1>1. 0 \in ConnIds /\ 0 \in 0..MaxFaults /\ NoTimer \in TimerRow
      /\ NoTimer.kind = "none"
  BY McpAssumption DEF ConnIds, NoTimer, TimerRow
<1>2. RowsOK /\ rec.gen = 0 /\ rec.op = 0 /\ rec.client = 0 /\ rec.catalog = 0
      /\ rec.state = "connecting" /\ rec.timer.kind = "none" /\ rec.fast = 0
      /\ rec.attempt = 0
  <2>1. PICK p \in BOOLEAN :
          rec = [gen |-> 0, state |-> "connecting", attempt |-> 0,
                 readyAt |-> FALSE, catalog |-> 0, client |-> 0, op |-> 0,
                 timer |-> NoTimer, made |-> 0, fast |-> 0,
                 restartsProcess |-> p]
    BY Zenon DEF Init
  <2>2. rec \in RecordRow
    BY <1>1, <2>1 DEF RecordRow
  <2>3. conn \in [Conns -> ConnRow] /\ stopping \in BOOLEAN
    BY DEF Init, ConnRow
  <2> QED BY <1>1, <2>1, <2>2, <2>3 DEF RowsOK
<1>3. \A k \in Conns : conn[k].work = "none" /\ conn[k].client = "none"
                       /\ conn[k].gen = 0 /\ ~conn[k].notice
  BY DEF Init
<1>4. ConnsOK /\ WorkIsOperation /\ NoOrphanClient
  BY <1>2, <1>3 DEF ConnsOK, WorkIsOperation, NoOrphanClient
<1>5. BudgetOK
  BY <1>2, McpAssumption DEF BudgetOK, Budget
<1>6. CallsOK
  BY <1>1 DEF Init, CallsOK, CallRow
<1> QED BY <1>2, <1>4, <1>5, <1>6
        DEF SessionInv, CoreInv, OperationOK, ClientOK, CatalogOK, TimerOK

(* Every step keeps it.                                                    *)
LEMMA SessionStep == SessionInv /\ [Next]_vars => SessionInv'
<1> SUFFICES ASSUME SessionInv, [Next]_vars PROVE SessionInv'
  OBVIOUS
<1>0. CoreInv
  BY DEF SessionInv
<1>1. CASE Start
  BY <1>0, <1>1, StartSafe, RecordKeepsCalls DEF SessionInv
<1>2. CASE ReconnectTimer
  BY <1>0, <1>2, ReconnectTimerSafe, RecordKeepsCalls DEF SessionInv
<1>3. CASE RefreshTimer
  BY <1>0, <1>3, RefreshTimerSafe, RecordKeepsCalls DEF SessionInv
<1>4. CASE Shutdown
  BY <1>0, <1>4, ShutdownSafe, RecordKeepsCalls DEF SessionInv
<1>5. ASSUME NEW k \in Conns, Settles(k) \/ Drop(k) \/ Notice(k) \/ CloseEnds(k)
      PROVE  SessionInv'
  <2>1. CallsOK'
    BY <1>5, ConnectionKeepsCalls
  <2>2. CoreInv'
    BY <1>0, <1>5, ConnectedSafe, ConnectFailsSafe, EstablishedSafe,
       DiscoveredSafe, DiscoveryFailsSafe, RefreshedSafe, RefreshFailsSafe,
       DropSafe, NoticeSafe, CloseEndsSafe DEF Settles
  <2> QED BY <2>1, <2>2 DEF SessionInv
<1>6. ASSUME NEW c \in Calls, Bind(c) \/ Execute(c) \/ Outcome(c)
      PROVE  SessionInv'
  BY <1>6, BindSafe, ExecuteSafe, OutcomeSafe
<1>7. CASE UNCHANGED vars
  BY <1>7 DEF vars, SessionInv, CallsOK, CoreInv, RowsOK, ConnsOK, OperationOK,
              WorkIsOperation, ClientOK, CatalogOK, TimerOK, BudgetOK,
              NoOrphanClient
<1> QED BY <1>1, <1>2, <1>3, <1>4, <1>5, <1>6, <1>7 DEF Next

(* The invariant holds for every bound on faults and fast restarts, and    *)
(* for every set of calls.                                                 *)
THEOREM SessionInvariant == Spec => []SessionInv
BY SessionInit, SessionStep, PTL DEF Spec

-----------------------------------------------------------------------------
(* What the checked properties say, for every instance.                    *)

(* What the invariant says of the record's client.                         *)
LEMMA ClientIds ==
    ASSUME CoreInv
    PROVE  /\ rec.op \in ConnIds /\ rec.client \in ConnIds
           /\ rec.op # 0 => rec.op \in Conns
           /\ rec.client # 0 => rec.client \in Conns
BY McpAssumption DEF CoreInv, RowsOK, RecordRow, ConnIds, Conns

(* The record, its connections and its calls keep their types and the      *)
(* record's operation is in flight (McpRuntimeService's ServerRecord).     *)
THEOREM SessionTypes == Spec => []TypeOK
<1>1. SessionInv => TypeOK
  <2> SUFFICES ASSUME SessionInv PROVE TypeOK
    OBVIOUS
  <2>1. CoreInv /\ rec \in RecordRow /\ conn \in [Conns -> ConnRow]
    BY DEF SessionInv, CoreInv, RowsOK
  <2>2. rec.client \in 0..rec.made /\ rec.catalog \in 0..rec.made
        /\ rec.made \in 0..(MaxFaults + 1)
    BY <2>1, McpAssumption
       DEF CoreInv, ClientOK, CatalogOK, RecordRow, ConnIds
  <2>3. rec.op # 0 => conn[rec.op].work # "none"
    BY <2>1 DEF CoreInv, OperationOK
  <2>4. rec.timer \in TimerRow /\ rec.gen \in Nat /\ rec.attempt \in Nat
        /\ rec.readyAt \in BOOLEAN
        /\ rec.state \in {"connecting", "ready", "reconnecting", "closing"}
    BY <2>1 DEF RecordRow
  <2>5. rec.timer.kind \in {"none", "fast", "slow", "refresh"}
    BY <2>4 DEF TimerRow
  <2>6. \A k \in Conns :
        /\ conn[k].work \in {"none", "connecting", "connected", "discovering",
                             "refreshing"}
        /\ conn[k].client \in {"none", "live", "closing", "closed"}
        /\ conn[k].link \in {"up", "down"}
    BY <2>1 DEF ConnRow
  <2>7. /\ \A c \in Calls : call[c].at \in {"idle", "bound", "sent", "done"}
        /\ faults \in 0..MaxFaults
    BY DEF SessionInv, CallsOK, CallRow
  <2> QED BY <2>2, <2>3, <2>4, <2>5, <2>6, <2>7 DEF TypeOK
<1> QED BY <1>1, SessionInvariant, PTL

(* No client is left that nothing will close: it is the record's or its    *)
(* connect is still to judge it (establishConnection).                     *)
THEOREM NoClientOrphaned == Spec => []NoOrphanClient
<1>1. SessionInv => NoOrphanClient
  BY DEF SessionInv, CoreInv
<1> QED BY <1>1, SessionInvariant, PTL

(* The tools offered are those of the live session of the generation its   *)
(* executors compare (snapshotCandidates, createExecutor).                 *)
THEOREM CatalogAlwaysCurrent == Spec => []CatalogIsCurrent
<1>1. SessionInv => CatalogIsCurrent
  BY ClientIds DEF SessionInv, CoreInv, ClientOK, CatalogOK, CatalogIsCurrent,
                   IsCurrentClient
<1> QED BY <1>1, SessionInvariant, PTL

(* A started record always has an operation in flight or one timer of its  *)
(* own generation, a stopped one neither (scheduleReconnect).              *)
THEOREM AlwaysScheduled == Spec => []StaysScheduled
<1>1. SessionInv => StaysScheduled
  <2> SUFFICES ASSUME SessionInv PROVE StaysScheduled
    OBVIOUS
  <2>1. rec.timer.kind \in {"none", "fast", "slow", "refresh"}
    BY DEF SessionInv, CoreInv, RowsOK, RecordRow, TimerRow
  <2> QED BY <2>1 DEF SessionInv, CoreInv, TimerOK, StaysScheduled
<1> QED BY <1>1, SessionInvariant, PTL

(* A crash-looping child is restarted fast at most MaxFast times between   *)
(* two sessions that lasted (noteSessionEnded).                            *)
THEOREM CrashLoopAlwaysSettles == Spec => []CrashLoopSettles
<1>1. SessionInv => CrashLoopSettles
  BY DEF SessionInv, CoreInv, BudgetOK, Budget, CrashLoopSettles
<1> QED BY <1>1, SessionInvariant, PTL

-----------------------------------------------------------------------------
(* Who may withdraw a healthy session.                                     *)

(* The record's own steps: its connects are never made of a ready record.  *)
LEMMA RecordWithdrawsNothing ==
    ASSUME SessionInv, Start \/ ReconnectTimer \/ RefreshTimer,
           rec.state = "ready"
    PROVE  rec'.state = "ready"
<1>1. rec \in RecordRow
  BY DEF SessionInv, CoreInv, RowsOK
<1>2. ~Start
  BY DEF Start, SessionInv, CoreInv, CatalogOK
<1>3. ~ReconnectTimer
  BY DEF ReconnectTimer, SessionInv, CoreInv, TimerOK
<1> QED BY <1>1, <1>2, <1>3 DEF RefreshTimer, RecordRow

(* A connection's own steps: only the failing refresh of the record's      *)
(* client withdraws its tools, and with the transport up that is a fault.  *)
LEMMA ConnectionWithdraws ==
    ASSUME SessionInv, NEW k \in Conns,
           Settles(k) \/ Drop(k) \/ Notice(k) \/ CloseEnds(k),
           Healthy, faults' = faults
    PROVE  rec'.state = "ready"
<1>1. CoreInv /\ rec \in RecordRow /\ rec.state = "ready" /\ faults \in Nat
      /\ (rec.client = k => conn[k].link = "up")
  BY McpAssumption DEF SessionInv, CoreInv, RowsOK, CallsOK, Healthy
<1>2. OperationEnded(rec, k).state = "ready"
  BY <1>1 DEF OperationEnded, RecordRow
<1>3. IsCurrentOperation(k) => conn[k].work = "refreshing"
  BY <1>1 DEF IsCurrentOperation, CoreInv, OperationOK, Conns
<1>4. CASE Connected(k) \/ Drop(k) \/ CloseEnds(k)
  BY <1>1, <1>4 DEF Connected, Drop, CloseEnds
<1>5. CASE ConnectFails(k) \/ DiscoveryFails(k)
  BY <1>2, <1>3, <1>5 DEF ConnectFails, DiscoveryFails
<1>6. CASE Established(k)
  BY <1>2, <1>3, <1>6 DEF Established
<1>7. CASE Discovered(k)
  <2>1. CASE IsCurrentClient(k)
    <3> DEFINE o == OperationEnded(rec, k)
    <3>1. o \in RecordRow
      BY <1>1, McpAssumption DEF OperationEnded, RecordRow, ConnIds
    <3>2. rec' = ScheduleRefresh([o EXCEPT !.catalog = k, !.state = "ready",
                                           !.readyAt = TRUE], k)
      BY <1>7, <2>1 DEF Discovered
    <3> HIDE DEF o
    <3> QED BY <3>1, <3>2 DEF ScheduleRefresh, RecordRow
  <2> QED BY <1>2, <1>7, <2>1 DEF Discovered
<1>8. CASE Refreshed(k)
  <2>1. CASE IsCurrentClient(k)
    <3> DEFINE o == OperationEnded(rec, k)
    <3>1. o \in RecordRow /\ o.state = "ready"
      BY <1>1, <1>2, McpAssumption DEF OperationEnded, RecordRow, ConnIds
    <3>2. rec' = ScheduleRefresh([o EXCEPT !.catalog = k], k)
      BY <1>8, <2>1 DEF Refreshed
    <3> HIDE DEF o
    <3> QED BY <3>1, <3>2 DEF ScheduleRefresh, RecordRow
  <2> QED BY <1>2, <1>8, <2>1 DEF Refreshed
<1>9. CASE RefreshFails(k)
  <2>1. CASE IsCurrentClient(k)
    <3>1. IsCurrentOperation(k) /\ conn[k].link = "up"
      BY <1>1, <1>9, <2>1
         DEF RefreshFails, IsCurrentClient, IsCurrentOperation, CoreInv,
             WorkIsOperation
    <3> QED BY <1>1, <1>9, <3>1 DEF RefreshFails, Fails
  <2> QED BY <1>2, <1>9, <2>1 DEF RefreshFails
<1>10. CASE Notice(k)
  <2>1. ~IsCurrentClient(k)
    BY <1>1, <1>10 DEF Notice, IsCurrentClient, CoreInv, ConnsOK
  <2> QED BY <1>1, <1>10, <2>1 DEF Notice, HandleDisconnect
<1> QED BY <1>4, <1>5, <1>6, <1>7, <1>8, <1>9, <1>10 DEF Settles

(* A healthy session is withdrawn only by a fault of its own or by         *)
(* shutdown, never by a late notice, outcome or promise of an earlier one  *)
(* (handleDisconnect, isCurrentClient).                                    *)
THEOREM OnlyItsOwnWithdraws == Spec => WithdrawnOnlyByItsOwn
<1>1. ASSUME SessionInv, [Next]_vars, Healthy, faults' = faults, ~stopping'
      PROVE  rec'.state = "ready"
  <2>1. rec.state = "ready" /\ CoreInv
    BY <1>1 DEF Healthy, SessionInv
  <2>2. CASE Start \/ ReconnectTimer \/ RefreshTimer
    BY <1>1, <2>1, <2>2, RecordWithdrawsNothing
  <2>3. CASE Shutdown
    BY <1>1, <2>3 DEF Shutdown
  <2>4. ASSUME NEW k \in Conns,
               Settles(k) \/ Drop(k) \/ Notice(k) \/ CloseEnds(k)
        PROVE  rec'.state = "ready"
    BY <1>1, <2>4, ConnectionWithdraws
  <2>5. ASSUME NEW c \in Calls, Bind(c) \/ Execute(c) PROVE rec'.state = "ready"
    BY <2>1, <2>5 DEF Bind, Execute
  <2>6. ASSUME NEW c \in Calls, Outcome(c) PROVE rec'.state = "ready"
    <3>1. CASE UNCHANGED rec
      BY <2>1, <3>1
    <3>2. CASE IsCurrentClient(call[c].k) /\ HandleDisconnect(call[c].k, conn[call[c].k])
      <4>1. rec.client = call[c].k /\ conn[call[c].k].link = "up"
        BY <1>1, <3>2 DEF IsCurrentClient, Healthy
      <4>2. faults \in Nat
        BY <1>1, McpAssumption DEF SessionInv, CallsOK
      <4>3. UNCHANGED rec \/ faults' = faults + 1
        BY <2>6, <4>1 DEF Outcome
      <4> QED BY <1>1, <2>1, <4>2, <4>3
    <3> QED BY <2>6, <3>1, <3>2 DEF Outcome, HandleDisconnect
  <2>7. CASE UNCHANGED vars
    BY <2>1, <2>7 DEF vars
  <2> QED BY <1>1, <2>2, <2>3, <2>4, <2>5, <2>6, <2>7 DEF Next
<1>2. SessionInv /\ [Next]_vars =>
        [Healthy /\ rec'.state # "ready" => stopping' \/ faults' # faults]_vars
  BY <1>1
<1> QED BY <1>2, SessionInvariant, PTL DEF Spec, WithdrawnOnlyByItsOwn
=============================================================================
