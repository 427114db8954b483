--------------------------- MODULE MachineSession ---------------------------
(***************************************************************************)
(* The hub's calls on one Machine, from MachineConnector to the operation  *)
(* the daemon runs.                                                        *)
(*                                                                         *)
(* The connector keeps one session per Machine, opened on demand and       *)
(* closed when idle.  A session is an ssh link whose two ends run the same *)
(* frame multiplexer: the hub numbers a stream per call, the daemon runs   *)
(* the request and answers on the stream.  Either end closes its session   *)
(* when the link ends or goes silent; each call's stream can be given up   *)
(* by the hub while the daemon works on it.                                *)
(*                                                                         *)
(* A step is one turn of an event loop with the promise callbacks it runs. *)
(* The one callback kept apart is the connector's onEnded, which another   *)
(* caller's callback may overtake.                                         *)
(***************************************************************************)
EXTENDS Naturals, Sequences, FiniteSets, SequencesExt

CONSTANTS
    Calls,        \* the calls the tools make, each at most once
    Channels,     \* those that keep their stream: mcp.open
    MaxSessions,  \* bound on the sessions one connector opens
    MaxStreams,   \* MAX_CONCURRENT_STREAMS
    Faults        \* what may go wrong, a subset of AllFaults

AllFaults == {"silent", "closed", "version", "oversize", "internal", "abort",
              "death"}

ASSUME MachineAssumption ==
    /\ IsFiniteSet(Calls) /\ Channels \subseteq Calls
    /\ MaxSessions \in Nat \ {0} /\ MaxStreams \in Nat \ {0}
    /\ Faults \subseteq AllFaults

VARIABLES
    cur,      \* the connector's sessions map: the Machine's entry, or 0
    opening,  \* its opening map: the session in handshake, or 0
    armed,    \* the sessions whose entry has an idle timer pending
    sess,     \* the hub's end of each session
    ended,    \* the sessions whose onEnded callback is queued
    call,     \* each call, as the hub knows it
    link,     \* the ssh link of each session
    up,       \* frames on their way to the daemon
    down,     \* frames on their way to the hub
    dmn,      \* the daemon's end of each session
    op        \* each call's operation in its daemon

hubVars == <<cur, opening, armed, sess, ended, call>>
vars == <<cur, opening, armed, sess, ended, call, link, up, down, dmn, op>>

Sessions == 1..MaxSessions

-----------------------------------------------------------------------------
(* The two stream tables.                                                  *)

(* The streams the hub's multiplexer holds open.                           *)
HubStreams(calls, s) ==
    {c \in Calls : calls[c].sess = s /\ calls[c].at \in {"sent", "open"}}

(* The streams the daemon's multiplexer holds open.                        *)
DaemonStreams(s) == {c \in Calls : call[c].sess = s /\ op[c].open}

(* Mutant: a stream takes the lowest number not in use.                    *)
LowestFreeId(s) == Cardinality(HubStreams(call, s)) + 1

(* Ids only grow, so a closed stream's id is never handed out again.       *)
StreamId(s) == sess[s].next

Ready(s) == s # 0 /\ sess[s].phase = "ready"

-----------------------------------------------------------------------------
(* The connector's idle timer and the hub's session end.                   *)

(* armIdle: restart the timer of the Machine's entry if it carries nothing. *)
ArmIdle(calls) ==
    armed' = IF cur = 0 THEN armed
             ELSE IF Ready(cur) /\ HubStreams(calls, cur) = {}
                  THEN armed \cup {cur} ELSE armed \ {cur}

(* A call's stream closes with this result; request's finally arms the     *)
(* timer, and so does a channel's onClose.                                 *)
Closed(c, res) == [call EXCEPT ![c].at = "done", ![c].result = res]

(* Mutant: a call's end does not restart the timer.                        *)
SettleUnarmed(c, res) == call' = Closed(c, res) /\ UNCHANGED armed

Settle(c, res) ==
    /\ call' = Closed(c, res)
    /\ ArmIdle(Closed(c, res))

(* What ending session s does to the calls that use it: a pending request  *)
(* is rejected with the `sent` it recorded, a channel sees its close, and  *)
(* a caller waiting for the handshake gets its failure.                    *)
Rejected(calls, s) ==
    [c \in Calls |->
        IF calls[c].sess # s THEN calls[c]
        ELSE IF \/ calls[c].at \in {"sent", "open"}
                \/ calls[c].at = "waiting" /\ sess[s].phase = "hello"
             THEN [calls[c] EXCEPT !.at = "done", !.result = "lost"]
             ELSE calls[c]]

(* Mutant: a failed handshake stays in the opening map.                    *)
FinishKeepsOpening(s, calls) ==
    /\ sess[s].phase \in {"hello", "ready"}
    /\ sess' = [sess EXCEPT ![s].phase = "ended"]
    /\ call' = Rejected(calls, s)
    /\ ended' = ended \cup {s}
    /\ link' = [link EXCEPT ![s] = IF @ = "silent" THEN @ ELSE "closed"]
    /\ UNCHANGED opening

(* MachineSession.finish: once, whatever ended the session.  The streams   *)
(* close before the end is announced; closing the transport ends a link    *)
(* that still carries anything.                                            *)
Finish(s, calls) ==
    /\ sess[s].phase \in {"hello", "ready"}
    /\ sess' = [sess EXCEPT ![s].phase = "ended"]
    /\ call' = Rejected(calls, s)
    /\ opening' = IF opening = s THEN 0 ELSE opening
    /\ ended' = ended \cup {s}
    /\ link' = [link EXCEPT ![s] = IF @ = "silent" THEN @ ELSE "closed"]

(* The session ends with streams open: closing them runs armIdle, which    *)
(* clears the timer of an entry that is no longer ready.                   *)
End(s, calls) ==
    /\ Finish(s, calls)
    /\ armed' = IF HubStreams(calls, s) = {} THEN armed ELSE armed \ {cur}

(* Mutant: the entry is removed by the Machine's name alone.               *)
OnEndedByName(s) ==
    /\ s \in ended
    /\ ended' = ended \ {s}
    /\ cur' = 0
    /\ armed' = armed \ {cur}
    /\ UNCHANGED <<opening, sess, call, link, up, down, dmn, op>>

(* onEnded: only the entry that still holds this session is removed.       *)
OnEnded(s) ==
    /\ s \in ended
    /\ ended' = ended \ {s}
    /\ cur' = IF cur = s THEN 0 ELSE cur
    /\ armed' = IF cur = s THEN armed \ {s} ELSE armed
    /\ UNCHANGED <<opening, sess, call, link, up, down, dmn, op>>

(* idleOut: a stream may have opened while the timer was armed.            *)
IdleOut(s) ==
    /\ s \in armed
    /\ ~\E c \in Calls : call[c].sess = s /\ call[c].at = "waiting"
    /\ armed' = armed \ {s}
    /\ IF cur = s /\ HubStreams(call, s) = {} /\ sess[s].phase = "ready"
       THEN Finish(s, call)
       ELSE UNCHANGED <<sess, call, opening, ended, link>>
    /\ UNCHANGED <<cur, up, down, dmn, op>>

-----------------------------------------------------------------------------
(* The connector and the hub's end of a session.                           *)

(* session(name) and startSession: join the live session, join the         *)
(* handshake in flight, or replace the entry by a new session whose        *)
(* handshake is written at once.  The link may be dead from the start.     *)
JoinSession(c) ==
    /\ call[c].at = "idle"
    /\ IF Ready(cur)
       THEN call' = [call EXCEPT ![c].at = "waiting", ![c].sess = cur]
       ELSE /\ opening # 0
            /\ call' = [call EXCEPT ![c].at = "waiting", ![c].sess = opening]
    /\ UNCHANGED <<cur, opening, armed, sess, ended, link, up, down, dmn, op>>

StartSession(c) ==
    /\ call[c].at = "idle" /\ ~Ready(cur) /\ opening = 0
    /\ \E s \in Sessions :
        /\ sess[s].phase = "new"
        /\ \A r \in 1..(s - 1) : sess[r].phase # "new"
        /\ call' = [call EXCEPT ![c].at = "waiting", ![c].sess = s]
        /\ cur' = s /\ opening' = s
        /\ sess' = [sess EXCEPT ![s].phase = "hello"]
        /\ dmn' = [dmn EXCEPT ![s].phase = "serving"]
        /\ link' = [link EXCEPT ![s] = "up"]
        /\ up' = [up EXCEPT ![s] = <<[k |-> "hello"]>>]
    /\ UNCHANGED <<armed, ended, down, op>>

(* What the frames a write leaves on a link are, and whether it carries    *)
(* them: a silent link swallows them, as does one that has just closed.    *)
Written(s, frame) ==
    up' = IF link[s] = "closed" THEN up ELSE [up EXCEPT ![s] = Append(@, frame)]

(* Mutant: `sent` is read before the request is written.                   *)
SentBeforeWrite(c) ==
    [call EXCEPT ![c].at = "sent", ![c].sid = StreamId(call[c].sess)]

(* MachineSession.request and openChannel, once the session is there: the  *)
(* call takes the next stream id and writes its request.                   *)
Sent(c) ==
    [call EXCEPT ![c].at = "sent", ![c].sid = StreamId(call[c].sess),
                 ![c].sent = TRUE]

Dispatch(c) ==
    LET s == call[c].sess IN
    /\ call[c].at = "waiting" /\ sess[s].phase = "ready"
    /\ Cardinality(HubStreams(call, s)) < MaxStreams
    /\ call' = Sent(c)
    /\ Written(s, [k |-> "req", sid |-> StreamId(s), call |-> c])
    /\ sess' = [sess EXCEPT ![s].next = @ + 1]
    /\ UNCHANGED <<cur, opening, armed, ended, link, down, dmn, op>>

(* The write throws because the link is gone: the session ends, and        *)
(* framesWritten leaves this request unsent.                               *)
DispatchThrows(c) ==
    LET s == call[c].sess IN
    /\ call[c].at = "waiting" /\ sess[s].phase = "ready" /\ link[s] = "closed"
    /\ Cardinality(HubStreams(call, s)) < MaxStreams
    /\ End(s, [Sent(c) EXCEPT ![c].sent = FALSE])
    /\ UNCHANGED <<cur, up, down, dmn, op>>

(* The stream cannot open: the session ended meanwhile, or is full.        *)
DispatchRefused(c) ==
    LET s == call[c].sess IN
    /\ call[c].at = "waiting"
    /\ \/ sess[s].phase = "ended"
       \/ /\ sess[s].phase = "ready"
          /\ Cardinality(HubStreams(call, s)) >= MaxStreams
    /\ IF c \in Channels THEN call' = Closed(c, "lost") /\ UNCHANGED armed
                         ELSE Settle(c, "lost")
    /\ UNCHANGED <<cur, opening, sess, ended, link, up, down, dmn, op>>

(* The request exceeds the frame bound: writeFrame refuses the stream,     *)
(* whose error frame the daemon drops as one of an unknown stream but      *)
(* framesWritten counts.                                                   *)
DispatchOversize(c) ==
    LET s == call[c].sess IN
    /\ "oversize" \in Faults
    /\ call[c].at = "waiting" /\ sess[s].phase = "ready"
    /\ Cardinality(HubStreams(call, s)) < MaxStreams
    /\ call' = [Sent(c) EXCEPT ![c].at = "done", ![c].result = "lost"]
    /\ ArmIdle(call')
    /\ sess' = [sess EXCEPT ![s].next = @ + 1]
    /\ UNCHANGED <<cur, opening, ended, link, up, down, dmn, op>>

(* Mutant: the stream closes first, so its cancel is dropped.              *)
CancelAfterClose(c) == UNCHANGED up

(* Giving a stream up: the cancel notification is written while the stream *)
(* is still open, then the stream closes.  A write that throws ends the    *)
(* session.                                                                *)
Cancel(c) == Written(call[c].sess, [k |-> "cancel", sid |-> call[c].sid])

GiveUp(c, res) ==
    /\ \/ /\ Cancel(c)
          /\ Settle(c, res)
          /\ UNCHANGED <<opening, sess, ended, link>>
       \/ /\ link[call[c].sess] = "closed"
          /\ Finish(call[c].sess, Closed(c, res))
          /\ armed' = armed \ {cur}
          /\ UNCHANGED up
    /\ UNCHANGED <<cur, down, dmn, op>>

(* The caller's signal aborts: before dispatch nothing is written.         *)
Abort(c) ==
    /\ "abort" \in Faults
    /\ \/ call[c].at = "sent" /\ GiveUp(c, "aborted")
       \/ /\ call[c].at = "waiting" /\ sess[call[c].sess].phase = "ready"
          /\ IF c \in Channels
             THEN call' = Closed(c, "aborted") /\ UNCHANGED armed
             ELSE Settle(c, "aborted")
          /\ UNCHANGED <<cur, opening, sess, ended, link, up, down, dmn, op>>

(* MachineTransport.close: llame stops a Workspace MCP client.             *)
CloseChannel(c) == call[c].at = "open" /\ GiveUp(c, "closed")

(* handleFrame, receiveMessage and settleStream on the hub: the answer     *)
(* settles the open stream of its id, and a frame of no open stream is     *)
(* dropped.  A channel's stream stays open after its answer.               *)
Receiver(s, frame) ==
    {c \in HubStreams(call, s) : call[c].sid = frame.sid /\ call[c].at = "sent"}

(* A request settles and closes its stream; so does a channel whose answer *)
(* is a refusal, and a channel whose answer is a result stays open.        *)
HubAnswer(s, frame) ==
    /\ frame.k = "answer"
    /\ IF Receiver(s, frame) = {} THEN UNCHANGED <<call, armed>>
       ELSE \E c \in Receiver(s, frame) :
              LET from == [call EXCEPT ![c].from = {frame.call}] IN
              IF c \in Channels /\ frame.res = "ok"
              THEN /\ call' = [from EXCEPT ![c].at = "open", ![c].result = "ok"]
                   /\ UNCHANGED armed
              ELSE /\ call' = [from EXCEPT ![c].at = "done",
                                           ![c].result = frame.res]
                   /\ ArmIdle(call')
    /\ UNCHANGED <<sess, opening, ended, link>>

(* performHandshake's answer: the session is ready and arms its timer, or  *)
(* it is finished as incompatible.                                         *)
HubHello(s, frame) ==
    /\ frame.k = "helloed"
    /\ IF frame.res = "ok"
       THEN /\ sess' = [sess EXCEPT ![s].phase = "ready"]
            /\ opening' = 0
            /\ armed' = IF cur = s THEN armed \cup {s} ELSE armed
            /\ UNCHANGED <<call, ended, link>>
       ELSE End(s, call)

HubReceive(s) ==
    /\ sess[s].phase \in {"hello", "ready"} /\ link[s] # "silent"
    /\ down[s] # <<>>
    /\ HubAnswer(s, Head(down[s])) \/ HubHello(s, Head(down[s]))
    /\ down' = [down EXCEPT ![s] = Tail(@)]
    /\ UNCHANGED <<cur, up, dmn, op>>

(* The hub's session ends by itself: the link's end is observed, or no     *)
(* frame arrived for the heartbeat's misses or the handshake's timeout.    *)
HubLinkEnded(s) ==
    /\ link[s] = "closed"
    /\ End(s, call)
    /\ UNCHANGED <<cur, up, down, dmn, op>>

(* Mutant: the wait is only bounded once the handshake is through.         *)
HubHeartbeatReadyOnly(s) ==
    /\ link[s] = "silent" /\ sess[s].phase = "ready"
    /\ End(s, call)
    /\ UNCHANGED <<cur, up, down, dmn, op>>

HubHeartbeatLost(s) ==
    /\ link[s] = "silent"
    /\ End(s, call)
    /\ UNCHANGED <<cur, up, down, dmn, op>>

-----------------------------------------------------------------------------
(* The daemon's end of a session.                                          *)

Reply(c, res) == [k |-> "answer", sid |-> call[c].sid, call |-> c, res |-> res]

(* respondOnStream and refuse: an answer leaves on an open stream only.    *)
Answer(c, res) ==
    LET s == call[c].sess IN
    down' = IF op[c].open THEN [down EXCEPT ![s] = Append(@, Reply(c, res))]
                          ELSE down

(* closeStream aborts the operation's signal: a running command or server  *)
(* is being stopped, one that has not started yet will find out.           *)
Aborted(o) ==
    [o EXCEPT !.open = FALSE,
              !.at = IF @ \in {"running", "relaying"} THEN "stopping" ELSE @]

(* handleHello: another protocol version refuses and stops the session.    *)
DaemonHello(s, frame) ==
    /\ frame.k = "hello"
    /\ \/ /\ down' = [down EXCEPT ![s] = Append(@, [k |-> "helloed", res |-> "ok"])]
          /\ dmn' = [dmn EXCEPT ![s].helloed = TRUE]
       \/ /\ "version" \in Faults
          /\ down' = [down EXCEPT ![s] = Append(@, [k |-> "helloed", res |-> "bad"])]
          /\ dmn' = [dmn EXCEPT ![s].phase = "ended"]
    /\ UNCHANGED op

(* handleFrame and handleRequest on the daemon: a request of a new stream  *)
(* starts its operation unless the table is full or no hello came.         *)
DaemonRequest(s, frame) ==
    LET c == frame.call IN
    /\ frame.k = "req"
    /\ IF Cardinality(DaemonStreams(s)) >= MaxStreams \/ ~dmn[s].helloed
       THEN /\ down' = [down EXCEPT ![s] = Append(@, Reply(c, "full"))]
            /\ op' = [op EXCEPT ![c].at = "over"]
       ELSE /\ op' = [op EXCEPT ![c].at = "checking", ![c].open = TRUE]
            /\ UNCHANGED down
    /\ UNCHANGED dmn

(* cancelStream on the daemon; a cancel of a closed stream is dropped.     *)
DaemonCancel(s, frame) ==
    /\ frame.k = "cancel"
    /\ op' = [c \in Calls |->
                IF c \in DaemonStreams(s) /\ call[c].sid = frame.sid
                THEN Aborted(op[c]) ELSE op[c]]
    /\ UNCHANGED <<down, dmn>>

(* pump: frames already on their way may arrive after the hub closed.      *)
DaemonReceive(s) ==
    /\ dmn[s].phase = "serving" /\ link[s] # "silent" /\ up[s] # <<>>
    /\ \/ DaemonHello(s, Head(up[s]))
       \/ DaemonRequest(s, Head(up[s]))
       \/ DaemonCancel(s, Head(up[s]))
    /\ up' = [up EXCEPT ![s] = Tail(@)]
    /\ UNCHANGED <<hubVars, link>>

(* Mutant: only relays are tracked.                                        *)
TrackedRelays(s) ==
    {c \in Channels : call[c].sess = s /\ op[c].at \in {"relaying", "stopping"}}

(* What the daemon has handed to `processes.track`: a command from its     *)
(* start, a relay once its server has started.                             *)
Tracked(s) ==
    {c \in Calls : /\ call[c].sess = s
                   /\ op[c].at \in {"running", "relaying", "stopping"}}

(* endSession: every stream closes, and the processes tracked by now are   *)
(* the ones the end waits for.                                             *)
EndSession(s) ==
    /\ dmn[s].phase = "serving"
    /\ dmn' = [dmn EXCEPT ![s].phase = "ended", ![s].waits = Tracked(s)]
    /\ op' = [c \in Calls |->
                IF call[c].sess = s THEN Aborted(op[c]) ELSE op[c]]
    /\ UNCHANGED <<hubVars, link, up, down>>

(* The input ended, or the daemon's own heartbeat missed the hub.          *)
DaemonInputEnded(s) == link[s] = "closed" /\ EndSession(s)

(* Mutant: a session with work in progress is taken to be alive.           *)
DaemonHeartbeatIdleOnly(s) ==
    link[s] = "silent" /\ DaemonStreams(s) = {} /\ EndSession(s)

DaemonHeartbeatLost(s) == link[s] = "silent" /\ EndSession(s)

(* `done` resolves, and with it the exit status of the daemon.             *)
DaemonDone(s) ==
    /\ dmn[s].phase = "ended"
    /\ \A c \in dmn[s].waits : op[c].at = "over"
    /\ dmn' = [dmn EXCEPT ![s].phase = "done"]
    /\ UNCHANGED <<hubVars, link, up, down, op>>

-----------------------------------------------------------------------------
(* One operation of the daemon.                                            *)

(* The request's time budget runs out and aborts the operation's signal.   *)
(* It only bounds the answer of mcp.open, not the server it started.       *)
BudgetExpires(c) ==
    /\ op[c].open /\ ~op[c].expired /\ op[c].at \in {"checking", "starting", "running"}
    /\ op' = [op EXCEPT ![c].expired = TRUE,
                        ![c].at = IF @ = "running" THEN "stopping" ELSE @]
    /\ UNCHANGED <<hubVars, link, up, down, dmn>>

(* The address was checked: the command or the file's change begins,       *)
(* unless its signal has aborted.                                          *)
Start(c) ==
    /\ c \notin Channels /\ op[c].at = "checking"
    /\ op[c].open /\ ~op[c].expired
    /\ op' = [op EXCEPT ![c].at = "running", ![c].effect = TRUE,
                        ![c].proc = TRUE]
    /\ UNCHANGED <<hubVars, link, up, down, dmn>>

(* The address was refused, or the signal aborted before the effect.       *)
Refused(c) ==
    /\ op[c].at = "checking"
    /\ Answer(c, IF op[c].expired THEN "budget" ELSE "refused")
    /\ op' = [op EXCEPT ![c].at = "over", ![c].open = FALSE]
    /\ UNCHANGED <<hubVars, link, up, dmn>>

(* runOperation's end: the work is gone, an expired budget refuses the     *)
(* answer, and an unexpected failure or an oversize answer is `internal`.  *)
(* The stream closes with the answer.                                      *)
Complete(c) ==
    /\ c \notin Channels /\ op[c].at \in {"running", "stopping"}
    /\ \E res \in {"ok", "internal"} :
        /\ res = "internal" => "internal" \in Faults
        /\ Answer(c, IF op[c].expired THEN "budget" ELSE res)
    /\ op' = [op EXCEPT ![c].at = "over", ![c].open = FALSE, ![c].proc = FALSE]
    /\ UNCHANGED <<hubVars, link, up, dmn>>

(* mcp.open: the relay spawns its server without asking the signal.        *)
StartServer(c) ==
    /\ c \in Channels /\ op[c].at = "checking"
    /\ op' = [op EXCEPT ![c].at = "starting", ![c].effect = TRUE,
                        ![c].proc = TRUE]
    /\ UNCHANGED <<hubVars, link, up, down, dmn>>

(* The server started: the relay is tracked and answered; a stream that    *)
(* has closed meanwhile, or an expired budget, stops it at once.           *)
Published(c) ==
    /\ op[c].at = "starting"
    /\ Answer(c, IF op[c].expired THEN "budget" ELSE "ok")
    /\ LET relaying == [op[c] EXCEPT !.at = "relaying"] IN
       op' = [op EXCEPT ![c] = IF op[c].open /\ ~op[c].expired THEN relaying
                               ELSE Aborted(relaying)]
    /\ UNCHANGED <<hubVars, link, up, dmn>>

(* The server did not start: the relay puts its own process down.          *)
StartFails(c) ==
    /\ op[c].at = "starting"
    /\ Answer(c, IF op[c].expired THEN "budget" ELSE "internal")
    /\ op' = [op EXCEPT ![c].at = "over", ![c].open = FALSE, ![c].proc = FALSE]
    /\ UNCHANGED <<hubVars, link, up, dmn>>

(* The server died while it relayed.                                       *)
ServerDies(c) ==
    /\ "death" \in Faults /\ op[c].at = "relaying"
    /\ op' = [op EXCEPT ![c].at = "stopping", ![c].proc = FALSE]
    /\ UNCHANGED <<hubVars, link, up, down, dmn>>

(* closeOnce: the server is gone and the relay closes its stream, for      *)
(* which the protocol has no frame.                                        *)
RelayClosed(c) ==
    /\ c \in Channels /\ op[c].at = "stopping"
    /\ op' = [op EXCEPT ![c].at = "over", ![c].open = FALSE, ![c].proc = FALSE]
    /\ UNCHANGED <<hubVars, link, up, down, dmn>>

-----------------------------------------------------------------------------
(* The network: a link goes silent, or ends under both.                    *)
LinkSilent(s) ==
    /\ "silent" \in Faults /\ link[s] = "up"
    /\ link' = [link EXCEPT ![s] = "silent"]
    /\ UNCHANGED <<hubVars, up, down, dmn, op>>

LinkCloses(s) ==
    /\ "closed" \in Faults /\ link[s] = "up"
    /\ link' = [link EXCEPT ![s] = "closed"]
    /\ UNCHANGED <<hubVars, up, down, dmn, op>>

(* Nothing is left to do: the calls are over or were never made, and every *)
(* session has ended on both sides.                                        *)
Quiet ==
    /\ \A c \in Calls : call[c].at \in {"idle", "done"}
    /\ \A s \in Sessions : /\ sess[s].phase \in {"new", "ended"}
                             /\ dmn[s].phase \in {"none", "done"}
    /\ UNCHANGED vars

Init ==
    /\ cur = 0 /\ opening = 0 /\ armed = {} /\ ended = {}
    /\ sess = [s \in Sessions |-> [phase |-> "new", next |-> 1]]
    /\ call = [c \in Calls |-> [at |-> "idle", sess |-> 0, sid |-> 0,
                                sent |-> FALSE, result |-> "none", from |-> {}]]
    /\ link = [s \in Sessions |-> "closed"]
    /\ up = [s \in Sessions |-> <<>>] /\ down = [s \in Sessions |-> <<>>]
    /\ dmn = [s \in Sessions |-> [phase |-> "none", helloed |-> FALSE,
                                  waits |-> {}]]
    /\ op = [c \in Calls |-> [at |-> "none", open |-> FALSE, expired |-> FALSE,
                              effect |-> FALSE, proc |-> FALSE]]

HubStep ==
    \/ \E c \in Calls :
        \/ JoinSession(c) \/ StartSession(c)
        \/ Dispatch(c) \/ DispatchThrows(c) \/ DispatchRefused(c)
        \/ DispatchOversize(c) \/ Abort(c) \/ CloseChannel(c)
    \/ \E s \in Sessions :
        \/ HubReceive(s) \/ HubLinkEnded(s) \/ HubHeartbeatLost(s)
        \/ OnEnded(s) \/ IdleOut(s)

DaemonStep ==
    \/ \E s \in Sessions :
        \/ DaemonReceive(s) \/ DaemonInputEnded(s) \/ DaemonHeartbeatLost(s)
        \/ DaemonDone(s)
    \/ \E c \in Calls :
        \/ BudgetExpires(c) \/ Start(c) \/ Refused(c) \/ Complete(c)
        \/ StartServer(c) \/ Published(c) \/ StartFails(c)
        \/ ServerDies(c) \/ RelayClosed(c)

NetworkStep == \E s \in Sessions : LinkSilent(s) \/ LinkCloses(s)

Next == HubStep \/ DaemonStep \/ NetworkStep \/ Quiet

Spec == Init /\ [][Next]_vars

(* Promise callbacks and arrived frames are processed, timers fire, and an *)
(* aborted operation ends.  Neither a command's own end nor a caller's     *)
(* cancellation is promised.                                               *)
Fairness ==
    /\ \A s \in Sessions :
        /\ WF_vars(HubReceive(s)) /\ WF_vars(HubLinkEnded(s))
        /\ WF_vars(HubHeartbeatLost(s)) /\ WF_vars(OnEnded(s))
        /\ WF_vars(DaemonReceive(s)) /\ WF_vars(DaemonInputEnded(s))
        /\ WF_vars(DaemonHeartbeatLost(s)) /\ WF_vars(DaemonDone(s))
        /\ WF_vars(IdleOut(s))
    /\ \A c \in Calls :
        /\ WF_vars(Dispatch(c) \/ DispatchRefused(c))
        /\ WF_vars(BudgetExpires(c))
        /\ WF_vars(Start(c) \/ StartServer(c) \/ Refused(c))
        /\ WF_vars(Published(c) \/ StartFails(c))
        /\ WF_vars(op[c].at = "stopping" /\ (Complete(c) \/ RelayClosed(c)))

FairSpec == Spec /\ Fairness

-----------------------------------------------------------------------------
(* Mutant: a lost session is reported the same whatever was sent.          *)
ToolResultUnsent(c) ==
    CASE call[c].result \in {"lost", "internal", "full"} -> "machine_unavailable"
      [] call[c].result = "budget" -> "timed_out"
      [] OTHER -> call[c].result

(* What a tool reports of a mutation (machineCallResult).                  *)
ToolResult(c) ==
    CASE call[c].result = "lost" ->
            IF call[c].sent THEN "outcome_unknown" ELSE "machine_unavailable"
      [] call[c].result = "budget" -> "timed_out"
      [] call[c].result \in {"internal", "full"} -> "machine_unavailable"
      [] OTHER -> call[c].result

Results == {"none", "ok", "internal", "budget", "full", "refused", "lost",
            "aborted", "closed"}

(* Every variable has its type; a stream id belongs to one call, and at    *)
(* most one handshake runs.                                                *)
TypeOK ==
    /\ cur \in 0..MaxSessions /\ opening \in 0..MaxSessions
    /\ armed \subseteq Sessions /\ ended \subseteq Sessions
    /\ sess \in [Sessions -> [phase : {"new", "hello", "ready", "ended"},
                              next : Nat \ {0}]]
    /\ call \in [Calls -> [at : {"idle", "waiting", "sent", "open", "done"},
                           sess : 0..MaxSessions, sid : Nat, sent : BOOLEAN,
                           result : Results, from : SUBSET Calls]]
    /\ link \in [Sessions -> {"up", "silent", "closed"}]
    /\ dmn \in [Sessions -> [phase : {"none", "serving", "ended", "done"},
                             helloed : BOOLEAN, waits : SUBSET Calls]]
    /\ op \in [Calls -> [at : {"none", "checking", "starting", "running",
                               "relaying", "stopping", "over"},
                         open : BOOLEAN, expired : BOOLEAN,
                         effect : BOOLEAN, proc : BOOLEAN]]
    /\ \A s \in Sessions : opening = s <=> sess[s].phase = "hello"

(* A call is settled by the answer to its own request, never by a late one *)
(* of a stream that was given up: the hub matches answers by stream id     *)
(* only (multiplexer.ts handleFrame, settleStream).                        *)
AnswersTheirOwnCall == \A c \in Calls : call[c].from \subseteq {c}

(* A call reported as never sent has not run on the Machine and never      *)
(* will: `sent` decides whether a mutation may be called unavailable       *)
(* (machine-session.ts request, writeFrame).                               *)
UnsentNeverRuns ==
    \A c \in Calls :
        call[c].at = "done" /\ ~call[c].sent =>
            /\ op[c].at = "none"
            /\ \A s \in Sessions : \A f \in Range(up[s]) :
                    f.k = "req" => f.call # c

(* The daemon's stream table never refuses what the hub's table admitted:  *)
(* its streams close in step with the hub's although most closes send no   *)
(* frame (multiplexer.ts closeStream, handleFrame).                        *)
DaemonHasRoom == \A c \in Calls : call[c].result # "full"

(* A session that is not over is the connector's entry: it can be reused,  *)
(* idles out and is closed at shutdown, and no second one is open beside   *)
(* it, although sessions end and are replaced while their callbacks are    *)
(* still queued (machine-connector.service.ts session, onEnded).           *)
LiveSessionIsCurrent ==
    \A s \in Sessions : sess[s].phase \in {"hello", "ready"} => cur = s

(* A ready session that carries no stream has its idle timer pending, so   *)
(* no ssh connection is left open for ever (machine-connector.service.ts   *)
(* armIdle, idleOut).                                                      *)
IdleSessionIsArmed ==
    \A s \in Sessions :
        /\ sess[s].phase = "ready" /\ HubStreams(call, s) = {}
        /\ ~\E c \in Calls : call[c].sess = s /\ call[c].at = "waiting"
        => s \in armed

(* When the daemon reports its session over, every command that session    *)
(* started is gone, however its stream ended (serve.ts endSession,         *)
(* processes.ts settled).                                                  *)
CommandsGoneWhenDone ==
    \A c \in Calls \ Channels :
        call[c].sess # 0 /\ dmn[call[c].sess].phase = "done" => ~op[c].proc

(* The same of the MCP servers it started: the daemon settles "only once   *)
(* every process group this session started is gone" (serve.ts).           *)
ServersGoneWhenDone ==
    \A c \in Channels :
        call[c].sess # 0 /\ dmn[call[c].sess].phase = "done" => ~op[c].proc

(* `sent` is true only of a call whose request was written to the link.    *)
(* (machine-session.ts:255 "`sent` says whether the frame had reached the  *)
(* link").                                                                 *)
SentMeansWritten ==
    \A c \in Calls :
        call[c].at = "done" /\ call[c].sent =>
            \/ op[c].at # "none"
            \/ link[call[c].sess] # "up"
            \/ \E f \in Range(up[call[c].sess]) : f.k = "req" /\ f.call = c

(* A mutation reported as machine_unavailable had no effect                *)
(* (tools/machine-call.ts machineProtocolFailureResult).                   *)
UnavailableMeansNotExecuted ==
    \A c \in Calls \ Channels :
        call[c].at = "done" /\ ToolResult(c) = "machine_unavailable" =>
            ~op[c].effect

(* Every call settles: a silent link, a refused handshake, a lost session  *)
(* or an exhausted budget ends the wait (heartbeat.ts, budget.ts).         *)
EveryCallSettles ==
    \A c \in Calls :
        call[c].at \in {"waiting", "sent"} ~> call[c].at \in {"open", "done"}

(* Work the hub has given up, lost or closed stops on the Machine and      *)
(* stays stopped, whether the cancel frame, the end of the link or only    *)
(* the daemon's heartbeat tells it (serve.ts endSession, mcp-relay.ts      *)
(* start).                                                                 *)
AbandonedWorkStops ==
    \A c \in Calls : call[c].at = "done" ~> [](~op[c].proc)

(* A Workspace server that died on the Machine ends the hub's channel      *)
(* (machine-mcp-transport.ts "a closed channel is a crashed server").      *)
DeadServerClosesChannel ==
    \A c \in Channels :
        (call[c].at = "open" /\ op[c].at = "over") ~> call[c].at = "done"
=============================================================================
