------------------------ MODULE MachineSessionProofs ------------------------
(***************************************************************************)
(* Safety of a Machine's sessions for any number of calls, channels,       *)
(* sessions and streams, whatever may go wrong.                            *)
(*                                                                         *)
(* The two ends share nothing but frames, so the invariant says what each  *)
(* frame on its way vouches for: a request for a call that was sent and    *)
(* has not begun, a cancel for a call that is over, an answer for a call   *)
(* whose operation has closed its stream.  The daemon's table has room     *)
(* because of what precedes each request in the queue.                     *)
(***************************************************************************)
EXTENDS MachineSession, FiniteSetTheorems, TLAPS

SessRow == [phase : {"new", "hello", "ready", "ended"}, next : Nat \ {0}]
CallRow == [at : {"idle", "waiting", "sent", "open", "done"},
            sess : 0..MaxSessions, sid : Nat, sent : BOOLEAN,
            result : Results, from : SUBSET Calls]
DmnRow == [phase : {"none", "serving", "ended", "done"}, helloed : BOOLEAN,
           waits : SUBSET Calls]
OpRow == [at : {"none", "checking", "starting", "running", "relaying",
                "stopping", "over"},
          open : BOOLEAN, expired : BOOLEAN, effect : BOOLEAN, proc : BOOLEAN]

UpFrame == [k : {"hello"}] \cup [k : {"req"}, sid : Nat, call : Calls]
           \cup [k : {"cancel"}, sid : Nat]
DownFrame == [k : {"helloed"}, res : {"ok", "bad"}]
             \cup [k : {"answer"}, sid : Nat, call : Calls, res : Results]

HubTypes ==
    /\ cur \in 0..MaxSessions /\ opening \in 0..MaxSessions
    /\ armed \subseteq Sessions /\ ended \subseteq Sessions
    /\ sess \in [Sessions -> SessRow] /\ call \in [Calls -> CallRow]
DaemonTypes ==
    /\ dmn \in [Sessions -> DmnRow] /\ op \in [Calls -> OpRow]
LinkTypes ==
    /\ link \in [Sessions -> {"up", "silent", "closed"}]
    /\ up \in [Sessions -> Seq(UpFrame)] /\ down \in [Sessions -> Seq(DownFrame)]

(* The connector: one live session, its entry; an idle one is armed even   *)
(* while callers wait for it.                                              *)
ConnectorOK ==
    /\ LiveSessionIsCurrent
    /\ \A s \in Sessions : opening = s <=> sess[s].phase = "hello"
    /\ \A s \in ended : sess[s].phase = "ended"
    /\ \A s \in Sessions :
        sess[s].phase = "ready" /\ HubStreams(call, s) = {} => s \in armed

(* A call has a stream from its dispatch on, of a number its session never *)
(* hands out again, and only while its session is ready.                   *)
CallOK(c) ==
    LET s == call[c].sess IN
    /\ call[c].at = "idle" <=> s = 0
    /\ call[c].at \in {"idle", "waiting"} => call[c].sid = 0
    /\ call[c].sent => call[c].sid # 0
    /\ call[c].at \in {"sent", "open"} =>
            call[c].sid # 0 /\ call[c].sent /\ sess[s].phase = "ready"
    /\ s # 0 => /\ sess[s].phase # "new"
                /\ sess[s].phase \in {"hello", "ready"} =>
                        call[c].sid < sess[s].next
    /\ s # 0 /\ sess[s].phase = "hello" => call[c].at = "waiting"
    /\ call[c].from \subseteq {c}

SidsDiffer ==
    \A c, d \in Calls :
        c # d /\ call[c].sess = call[d].sess /\ call[c].sid = call[d].sid =>
            call[c].sid = 0

CallsOK == (\A c \in Calls : CallOK(c)) /\ SidsDiffer

(* The handshake comes first in both directions, and once.                 *)
Handshake(s) ==
    /\ sess[s].phase = "new" =>
            /\ up[s] = <<>> /\ down[s] = <<>> /\ link[s] = "closed"
            /\ dmn[s].phase = "none" /\ ~dmn[s].helloed
    /\ sess[s].phase = "hello" =>
            \/ up[s] = <<[k |-> "hello"]>> /\ down[s] = <<>>
            \/ /\ up[s] = <<>> 
               /\ \E r \in {"ok", "bad"} :
                    /\ down[s] = <<[k |-> "helloed", res |-> r]>>
                    /\ r = "ok" => dmn[s].helloed
    /\ sess[s].phase = "ready" =>
            /\ dmn[s].helloed
            /\ \A f \in Range(down[s]) : f.k # "helloed"
    /\ \A f \in Range(up[s]) : f.k = "hello" =>
            up[s] = <<[k |-> "hello"]>> /\ ~dmn[s].helloed
            /\ sess[s].phase # "ready"

(* What a frame on its way to the daemon vouches for.                      *)
Vouched(s, f) ==
    /\ f.k = "req" =>
            /\ call[f.call].sess = s /\ call[f.call].sid = f.sid
            /\ call[f.call].sent /\ op[f.call].at = "none"
            /\ dmn[s].helloed
    /\ f.k = "cancel" =>
            /\ f.sid # 0
            /\ sess[s].phase = "ready" => f.sid < sess[s].next
            /\ \A c \in Calls : call[c].sess = s /\ call[c].sid = f.sid =>
                    call[c].at = "done"

(* What an answer on its way to the hub vouches for.                       *)
Truthful(s, f) ==
    f.k = "answer" =>
        /\ call[f.call].sess = s /\ call[f.call].sid = f.sid
        /\ f.sid # 0 /\ op[f.call].at # "none" /\ f.res # "full"
        /\ (f.call \in Channels /\ f.res = "ok") \/ ~op[f.call].open

FramesOK ==
    \A s \in Sessions :
        /\ \A f \in Range(up[s]) : Vouched(s, f)
        /\ \A f \in Range(down[s]) : Truthful(s, f)

(* A request is on its way once, and before the cancel of its stream.      *)
QueueOrder ==
    \A s \in Sessions : \A i, j \in DOMAIN up[s] :
        up[s][i].k = "req" /\ up[s][j].k \in {"req", "cancel"}
            /\ up[s][i].sid = up[s][j].sid =>
                i = j \/ (i < j /\ up[s][j].k = "cancel")

(* The daemon's operations.                                                *)
OpOK(c) ==
    LET s == call[c].sess IN
    /\ op[c].at # "none" => call[c].sent /\ s # 0 /\ dmn[s].helloed
    /\ op[c].open => op[c].at \notin {"none", "over"}
    /\ op[c].proc => op[c].at \in {"starting", "running", "relaying", "stopping"}
    /\ op[c].effect => op[c].at # "none"
    /\ c \notin Channels => op[c].at \notin {"starting", "relaying"}
    /\ s # 0 /\ dmn[s].phase # "serving" =>
            /\ ~op[c].open
            /\ op[c].proc /\ c \notin Channels =>
                    dmn[s].phase = "ended" /\ c \in dmn[s].waits

OpsOK == \A c \in Calls : OpOK(c)

(* The calls that hold a stream of the daemon when it reads frame i.       *)
Requested(s, c, n) == \E j \in 1..n : up[s][j].k = "req" /\ up[s][j].call = c
Cancelled(s, c, n) ==
    \E j \in 1..n : up[s][j].k = "cancel" /\ up[s][j].sid = call[c].sid
Held(s, n) ==
    {c \in Calls : /\ (call[c].sess = s /\ op[c].open) \/ Requested(s, c, n)
                   /\ ~Cancelled(s, c, n)}

(* Every request finds room; and what the whole queue leaves open, the hub *)
(* holds open too, as long as it can write.                                *)
RoomAt(s) ==
    /\ \A i \in DOMAIN up[s] :
        up[s][i].k = "req" => Cardinality(Held(s, i - 1)) < MaxStreams
    /\ sess[s].phase = "ready" /\ link[s] # "closed" =>
        Held(s, Len(up[s])) \subseteq HubStreams(call, s)

RoomOK == \A s \in Sessions : RoomAt(s)

MachineInv ==
    /\ HubTypes /\ DaemonTypes /\ LinkTypes /\ ConnectorOK /\ CallsOK
    /\ \A s \in Sessions : Handshake(s)
    /\ FramesOK /\ QueueOrder /\ OpsOK /\ RoomOK

-----------------------------------------------------------------------------
(* Queues.                                                                 *)

(* What appending a frame does to a queue.                                 *)
LEMMA Appended ==
    ASSUME NEW T, NEW q \in Seq(T), NEW e \in T
    PROVE  LET r == Append(q, e) IN
           /\ r \in Seq(T) /\ Len(r) = Len(q) + 1 /\ DOMAIN r = 1..(Len(q) + 1)
           /\ DOMAIN q = 1..Len(q) /\ Len(q) \in Nat
           /\ \A i \in 1..Len(q) : r[i] = q[i]
           /\ r[Len(q) + 1] = e
           /\ Range(r) = Range(q) \cup {e}
<1>1. /\ Append(q, e) \in Seq(T) /\ Len(Append(q, e)) = Len(q) + 1
      /\ DOMAIN Append(q, e) = 1..(Len(q) + 1)
      /\ DOMAIN q = 1..Len(q) /\ Len(q) \in Nat
      /\ \A i \in 1..Len(q) : Append(q, e)[i] = q[i]
      /\ Append(q, e)[Len(q) + 1] = e
  OBVIOUS
<1>2. ASSUME NEW f PROVE f \in Range(Append(q, e)) <=> f \in Range(q) \cup {e}
  <2>1. ASSUME f \in Range(Append(q, e)) PROVE f \in Range(q) \cup {e}
    <3>1. PICK i \in 1..(Len(q) + 1) : f = Append(q, e)[i]
      BY <1>1, <2>1 DEF Range
    <3>2. CASE i = Len(q) + 1
      BY <1>1, <3>1, <3>2
    <3>3. CASE i # Len(q) + 1
      BY <1>1, <3>1, <3>3 DEF Range
    <3> QED BY <3>2, <3>3
  <2>2. ASSUME f \in Range(q) PROVE f \in Range(Append(q, e))
    <3>1. PICK i \in 1..Len(q) : f = q[i]
      BY <1>1, <2>2 DEF Range
    <3>2. i \in 1..(Len(q) + 1) /\ f = Append(q, e)[i]
      BY <1>1, <3>1
    <3> QED BY <1>1, <3>2 DEF Range
  <2>3. e \in Range(Append(q, e))
    <3>1. Len(q) + 1 \in 1..(Len(q) + 1)
      BY <1>1
    <3> QED BY <1>1, <3>1 DEF Range
  <2> QED BY <2>1, <2>2, <2>3
<1> QED BY <1>1, <1>2

(* What taking the first frame does to a queue.                            *)
LEMMA TakenHead ==
    ASSUME NEW T, NEW q \in Seq(T), q # <<>>
    PROVE  /\ Tail(q) \in Seq(T) /\ Len(q) \in Nat \ {0}
           /\ Len(Tail(q)) = Len(q) - 1
           /\ DOMAIN q = 1..Len(q) /\ DOMAIN Tail(q) = 1..(Len(q) - 1)
           /\ Head(q) = q[1] /\ Head(q) \in T /\ Head(q) \in Range(q)
           /\ \A i \in 1..(Len(q) - 1) : Tail(q)[i] = q[i + 1]
           /\ Range(Tail(q)) \subseteq Range(q)
<1>1. /\ Tail(q) \in Seq(T) /\ Len(q) \in Nat \ {0}
      /\ Len(Tail(q)) = Len(q) - 1
      /\ DOMAIN q = 1..Len(q) /\ DOMAIN Tail(q) = 1..(Len(q) - 1)
      /\ Head(q) = q[1] /\ Head(q) \in T
      /\ \A i \in 1..(Len(q) - 1) : Tail(q)[i] = q[i + 1]
  OBVIOUS
<1>2. Head(q) \in Range(q)
  BY <1>1 DEF Range
<1>3. ASSUME NEW f \in Range(Tail(q)) PROVE f \in Range(q)
  <2>1. PICK i \in 1..(Len(q) - 1) : f = Tail(q)[i]
    BY <1>1, <1>3 DEF Range
  <2>2. i + 1 \in 1..Len(q) /\ f = q[i + 1]
    BY <1>1, <2>1
  <2> QED BY <1>1, <2>2 DEF Range
<1> QED BY <1>1, <1>2, <1>3

-----------------------------------------------------------------------------
(* What the hub does to its calls and sessions.                            *)

HubOK == HubTypes /\ ConnectorOK /\ CallsOK

(* Of what the daemon and the frames know of a call, nothing is taken      *)
(* back; a stream number is new when it is given.                          *)
Steady ==
    \A c \in Calls :
        LET s == call[c].sess IN
        /\ s # 0 => call'[c].sess = s
        /\ call[c].sid # 0 => call'[c].sid = call[c].sid
        /\ call[c].sent => call'[c].sent
        /\ call[c].at = "done" => call'[c].at = "done"
        /\ call'[c].sid # 0 /\ call[c].sid = 0 =>
                s # 0 /\ sess[s].phase = "ready" /\ call'[c].sid = sess[s].next

(* A call is settled, or a channel's stream answered: its session stays as *)
(* it is, and its timer is armed again unless no stream closed.            *)
LEMMA CallChanges ==
    ASSUME HubOK, NEW c \in Calls, NEW x \in CallRow,
           call' = [call EXCEPT ![c] = x], UNCHANGED <<cur, opening, sess, ended>>,
           x.sess = call[c].sess, x.sid = call[c].sid, x.sent = call[c].sent,
           x.from \subseteq {c}, call[c].at # "idle",
           sess[call[c].sess].phase # "hello",
           \/ x.at = "done" /\ ArmIdle(call')
           \/ x.at = "done" /\ call[c].at = "waiting" /\ UNCHANGED armed
           \/ x.at = "open" /\ call[c].at = "sent" /\ UNCHANGED armed
    PROVE  HubOK' /\ Steady
<1>1. /\ call \in [Calls -> CallRow]
      /\ \A d \in Calls : call'[d] = IF d = c THEN x ELSE call[d]
      /\ call' \in [Calls -> CallRow]
  BY DEF HubOK, HubTypes
<1>2. HubTypes'
  <2>1. cur # 0 => cur \in Sessions
    BY MachineAssumption DEF HubOK, HubTypes, Sessions
  <2>2. armed' \subseteq Sessions
    BY <2>1 DEF HubOK, HubTypes, ArmIdle
  <2> QED BY <1>1, <2>2 DEF HubOK, HubTypes
<1>3. ASSUME NEW d \in Calls PROVE CallOK(d)'
  <2>1. CallOK(d)
    BY DEF HubOK, CallsOK
  <2>2. CASE d = c
    BY <1>1, <2>1, <2>2 DEF CallOK
  <2>3. CASE d # c
    BY <1>1, <2>1, <2>3 DEF CallOK
  <2> QED BY <2>2, <2>3
<1>4. SidsDiffer'
  BY <1>1 DEF HubOK, CallsOK, SidsDiffer
<1>5. ConnectorOK'
  <2>1. LiveSessionIsCurrent' /\ (\A s \in ended : sess[s].phase = "ended")'
        /\ (\A s \in Sessions : opening = s <=> sess[s].phase = "hello")'
    BY DEF HubOK, ConnectorOK, LiveSessionIsCurrent
  <2>2. ASSUME NEW s \in Sessions, sess[s].phase = "ready",
               HubStreams(call', s) = {}
        PROVE  s \in armed'
    <3>1. cur = s /\ s # 0 /\ Ready(cur)
      BY <2>2 DEF HubOK, ConnectorOK, LiveSessionIsCurrent, Ready, Sessions
    <3>2. CASE ArmIdle(call')
      BY <2>2, <3>1, <3>2 DEF ArmIdle, Ready
    <3>3. CASE call[c].at = "waiting" \/ x.at = "open"
      <4>1. HubStreams(call, s) = {}
        BY <1>1, <2>2, <3>3 DEF HubStreams
      <4> QED BY <2>2, <4>1, <3>2 DEF HubOK, ConnectorOK
    <3> QED BY <3>2, <3>3
  <2> QED BY <2>1, <2>2 DEF ConnectorOK, HubStreams
<1>6. Steady
  BY <1>1 DEF Steady, HubOK, CallsOK, CallOK
<1> QED BY <1>2, <1>3, <1>4, <1>5, <1>6 DEF HubOK, CallsOK

(* The call takes the next stream number of its ready session.             *)
LEMMA CallDispatched ==
    ASSUME HubOK, NEW c \in Calls, NEW x \in CallRow, NEW s \in Sessions,
           s = call[c].sess, call[c].at = "waiting", sess[s].phase = "ready",
           call' = [call EXCEPT ![c] = x], UNCHANGED <<cur, opening, ended>>,
           sess' = [sess EXCEPT ![s].next = @ + 1],
           x.sess = s, x.sid = StreamId(s), x.sent, x.from = call[c].from,
           \/ x.at = "sent" /\ UNCHANGED armed
           \/ x.at = "done" /\ ArmIdle(call')
    PROVE  HubOK' /\ Steady
<1> DEFINE n == sess[s].next + 1
<1>1. /\ call \in [Calls -> CallRow] /\ call' \in [Calls -> CallRow]
      /\ \A d \in Calls : call'[d] = IF d = c THEN x ELSE call[d]
      /\ s # 0
  BY DEF HubOK, HubTypes, Sessions
<1>2. n \in Nat \ {0} /\ n > sess[s].next /\ sess[s].next \in Nat \ {0}
  BY DEF HubOK, HubTypes, SessRow
<1>3. sess' = [sess EXCEPT ![s].next = n]
  BY DEF HubOK, HubTypes
<1> HIDE DEF n
<1>4. /\ sess' \in [Sessions -> SessRow] /\ sess'[s].next = n
      /\ \A t \in Sessions : sess'[t].phase = sess[t].phase
      /\ \A t \in Sessions : t # s => sess'[t] = sess[t]
  BY <1>2, <1>3 DEF HubOK, HubTypes, SessRow
<1>5. HubTypes'
  <2>1. cur # 0 => cur \in Sessions
    BY MachineAssumption DEF HubOK, HubTypes, Sessions
  <2>2. armed' \subseteq Sessions
    BY <2>1 DEF HubOK, HubTypes, ArmIdle
  <2> QED BY <1>1, <1>4, <2>2 DEF HubOK, HubTypes
<1>6. ASSUME NEW d \in Calls PROVE CallOK(d)'
  <2>1. CallOK(d) /\ call[d] \in CallRow /\ call[d].sid \in Nat
        /\ (call[d].sess # 0 => call[d].sess \in Sessions)
    <3>1. CallOK(d) /\ call[d] \in CallRow
      BY <1>1 DEF HubOK, CallsOK
    <3> QED BY <3>1 DEF CallRow, Sessions
  <2>2. CASE d = c
    <3>1. call'[d].sid < sess'[s].next /\ call'[d].sid # 0
      BY <1>1, <1>2, <1>4, <2>2 DEF StreamId
    <3> QED BY <1>1, <1>4, <2>1, <2>2, <3>1 DEF CallOK
  <2>3. CASE d # c
    <3>1. call[d].sess = s => call[d].sid < sess'[s].next
      BY <1>1, <1>2, <1>4, <2>1 DEF CallOK
    <3> QED BY <1>1, <1>4, <2>1, <2>3, <3>1 DEF CallOK
  <2> QED BY <2>2, <2>3
<1>7. SidsDiffer'
  <2>1. ASSUME NEW d \in Calls, d # c, call[d].sess = s PROVE call[d].sid # x.sid
    <3>1. CallOK(d) /\ call[d].sid \in Nat
      BY <1>1 DEF HubOK, CallsOK, CallRow
    <3> QED BY <1>1, <1>2, <2>1, <3>1 DEF CallOK, StreamId
  <2> QED BY <1>1, <2>1 DEF HubOK, CallsOK, SidsDiffer
<1>8. ConnectorOK'
  <2>1. LiveSessionIsCurrent' /\ (\A t \in ended : sess[t].phase = "ended")'
        /\ (\A t \in Sessions : opening = t <=> sess[t].phase = "hello")'
    BY <1>4 DEF HubOK, HubTypes, ConnectorOK, LiveSessionIsCurrent
  <2>2. ASSUME NEW t \in Sessions, sess'[t].phase = "ready",
               HubStreams(call', t) = {}
        PROVE  t \in armed'
    <3>1. cur = t /\ cur = s /\ cur # 0 /\ sess'[cur].phase = "ready"
      BY <1>1, <1>4, <2>2 DEF HubOK, ConnectorOK, LiveSessionIsCurrent
    <3>2. x.at # "sent"
      BY <1>1, <2>2, <3>1 DEF HubStreams
    <3> QED BY <1>4, <2>2, <3>1, <3>2 DEF ArmIdle, Ready
  <2> QED BY <2>1, <2>2 DEF ConnectorOK, HubStreams
<1>9. Steady
  BY <1>1 DEF Steady, HubOK, CallsOK, CallOK, StreamId
<1> QED BY <1>5, <1>6, <1>7, <1>8, <1>9 DEF HubOK, CallsOK

(* What a call may have become when its session finishes: a dispatch that  *)
(* threw gave it a stream, an abort closed it.                             *)
OnItsWay(s, calls) ==
    /\ calls \in [Calls -> CallRow]
    /\ \A d \in Calls :
        \/ calls[d] = call[d]
        \/ /\ calls[d].sess = s /\ call[d].sess = s /\ sess[s].phase = "ready"
           /\ calls[d].at \in {"sent", "done"} /\ calls[d].from = call[d].from
           /\ \/ calls[d].sid = call[d].sid /\ calls[d].sent = call[d].sent
                 /\ calls[d].at = "done"
              \/ call[d].at = "waiting" /\ calls[d].sid = sess[s].next
                 /\ ~calls[d].sent
    /\ \A c, d \in Calls :
        c # d /\ calls[c].sess = calls[d].sess /\ calls[c].sid = calls[d].sid =>
            calls[c].sid = 0

(* A session finishes: its streams are gone and no session is live.        *)
LEMMA SessionFinishes ==
    ASSUME HubOK, NEW s \in Sessions, NEW calls, OnItsWay(s, calls),
           Finish(s, calls), UNCHANGED cur,
           armed' \in {armed, armed \ {cur}, armed \ {s}}
    PROVE  /\ HubOK' /\ Steady
           /\ \A t \in Sessions : sess'[t].phase = IF t = s THEN "ended"
                                                   ELSE sess[t].phase
           /\ \A t \in Sessions : sess'[t].phase # "ready"
<1>1. sess' = [sess EXCEPT ![s].phase = "ended"]
      /\ sess[s].phase \in {"hello", "ready"} /\ s # 0
  BY DEF Finish, Sessions
<1>2. /\ sess' \in [Sessions -> SessRow]
      /\ \A t \in Sessions : sess'[t].phase = IF t = s THEN "ended"
                                              ELSE sess[t].phase
      /\ \A t \in Sessions : sess'[t].next = sess[t].next
  BY <1>1 DEF HubOK, HubTypes, SessRow
<1>3. \A t \in Sessions : sess'[t].phase \notin {"hello", "ready"}
  BY <1>1, <1>2 DEF HubOK, ConnectorOK, LiveSessionIsCurrent
<1>4. call' = Rejected(calls, s)
  BY DEF Finish
<1>5. ASSUME NEW d \in Calls
      PROVE  /\ call'[d] \in CallRow /\ call[d] \in CallRow
             /\ calls[d] \in CallRow
             /\ call'[d].sess = call[d].sess /\ call'[d].sid = calls[d].sid
             /\ call'[d].sent = calls[d].sent /\ call'[d].from = call[d].from
             /\ call'[d].at \in {calls[d].at, "done"}
             /\ calls[d].at = "done" => call'[d].at = "done"
             /\ call[d].sess = s /\ calls[d].at \in {"sent", "open"} =>
                    call'[d].at = "done"
             /\ call[d].sess = s /\ calls[d].at = "waiting"
                /\ sess[s].phase = "hello" => call'[d].at = "done"
             /\ calls[d].at = "idle" => call'[d].at = "idle"
             /\ call'[d].at = "idle" => calls[d].at = "idle"
  <2>1. calls[d] \in CallRow /\ call[d] \in CallRow /\ calls[d].sess = call[d].sess
        /\ calls[d].from = call[d].from
    BY DEF OnItsWay, HubOK, HubTypes
  <2> DEFINE y == [calls[d] EXCEPT !.at = "done", !.result = "lost"]
  <2>2. y \in CallRow /\ y.at = "done" /\ y.sess = calls[d].sess
        /\ y.sid = calls[d].sid /\ y.sent = calls[d].sent
        /\ y.from = calls[d].from
    BY <2>1 DEF CallRow, Results
  <2>3. call'[d] = IF calls[d].sess # s THEN calls[d]
                   ELSE IF \/ calls[d].at \in {"sent", "open"}
                           \/ calls[d].at = "waiting" /\ sess[s].phase = "hello"
                        THEN y ELSE calls[d]
    BY <1>4 DEF Rejected
  <2> HIDE DEF y
  <2> QED BY <2>1, <2>2, <2>3
<1>6. HubTypes'
  <2>1. call' \in [Calls -> CallRow]
    BY <1>4, <1>5 DEF Rejected
  <2>2. /\ opening' \in 0..MaxSessions /\ ended' \subseteq Sessions
        /\ armed' \subseteq Sessions
    BY MachineAssumption DEF Finish, HubOK, HubTypes
  <2> QED BY <1>2, <2>1, <2>2 DEF HubOK, HubTypes
<1>7. ASSUME NEW d \in Calls PROVE CallOK(d)'
  <2>1. CallOK(d) /\ call[d].sid \in Nat /\ calls[d].sid \in Nat
        /\ (call[d].sess # 0 => call[d].sess \in Sessions)
        /\ sess[s].next \in Nat \ {0}
    BY <1>5 DEF HubOK, CallsOK, CallRow, Sessions, HubTypes, SessRow
  <2>2. CASE calls[d] = call[d]
    BY <1>1, <1>2, <1>3, <1>5, <2>1, <2>2 DEF CallOK
  <2>3. CASE calls[d] # call[d]
    <3>1. calls[d].sess = s /\ call[d].sess = s /\ sess[s].phase = "ready"
          /\ calls[d].at \in {"sent", "done"} /\ call'[d].at = "done"
          /\ (calls[d].sent => call[d].sent /\ calls[d].sid = call[d].sid)
      BY <1>5, <2>3 DEF OnItsWay
    <3> QED BY <1>1, <1>2, <1>3, <1>5, <2>1, <3>1 DEF CallOK
  <2> QED BY <2>2, <2>3
<1>8. SidsDiffer'
  BY <1>5 DEF OnItsWay, SidsDiffer
<1>9. ConnectorOK'
  <2>1. LiveSessionIsCurrent'
    BY <1>3 DEF LiveSessionIsCurrent
  <2>2. \A t \in ended' : sess'[t].phase = "ended"
    BY <1>1, <1>2 DEF Finish, HubOK, HubTypes, ConnectorOK
  <2>3. \A t \in Sessions : opening' = t <=> sess'[t].phase = "hello"
    BY <1>1, <1>2 DEF Finish, HubOK, ConnectorOK, Sessions
  <2> QED BY <1>3, <2>1, <2>2, <2>3 DEF ConnectorOK
<1>10. Steady
  <2> SUFFICES ASSUME NEW d \in Calls
               PROVE  LET t == call[d].sess IN
                      /\ t # 0 => call'[d].sess = t
                      /\ call[d].sid # 0 => call'[d].sid = call[d].sid
                      /\ call[d].sent => call'[d].sent
                      /\ call[d].at = "done" => call'[d].at = "done"
                      /\ call'[d].sid # 0 /\ call[d].sid = 0 =>
                           t # 0 /\ sess[t].phase = "ready"
                           /\ call'[d].sid = sess[t].next
    BY DEF Steady
  <2>1. CallOK(d)
    BY DEF HubOK, CallsOK
  <2>2. CASE calls[d] = call[d]
    BY <1>5, <2>2
  <2>3. CASE calls[d] # call[d]
    BY <1>1, <1>5, <2>1, <2>3 DEF OnItsWay, CallOK
  <2> QED BY <2>2, <2>3
<1> QED BY <1>2, <1>3, <1>6, <1>7, <1>8, <1>9, <1>10 DEF HubOK, CallsOK

-----------------------------------------------------------------------------
(* What the hub's steps leave of the frames and of the daemon.             *)

(* A ready session was ready before, and its numbers only grow.            *)
StaysReady ==
    \A s \in Sessions :
        sess'[s].phase = "ready" =>
            sess[s].phase = "ready" /\ sess[s].next <= sess'[s].next

(* The frames still vouch for what they did, and so do new ones that do.   *)
LEMMA FramesStay ==
    ASSUME MachineInv, HubOK', Steady, StaysReady, UNCHANGED op,
           \A s \in Sessions : sess[s].phase # "new" => dmn'[s] = dmn[s],
           \A s \in Sessions : \A f \in Range(up'[s]) :
                f \in Range(up[s]) \/ Vouched(s, f)',
           \A s \in Sessions : Range(down'[s]) \subseteq Range(down[s]),
           LinkTypes
    PROVE  FramesOK' /\ OpsOK'
<1>1. ASSUME NEW c \in Calls
      PROVE  /\ CallOK(c) /\ OpOK(c) /\ call[c] \in CallRow /\ call[c].sid \in Nat
             /\ call[c].sess # 0 => call'[c].sess = call[c].sess
             /\ call[c].sid # 0 => call'[c].sid = call[c].sid
             /\ call[c].sent => call'[c].sent /\ call[c].sid # 0
             /\ call[c].at = "done" => call'[c].at = "done"
  BY DEF MachineInv, CallsOK, OpsOK, HubTypes, CallRow, Steady, CallOK
<1>2. OpsOK'
  <2> SUFFICES ASSUME NEW c \in Calls PROVE OpOK(c)'
    BY DEF OpsOK
  <2>1. CASE op[c].at = "none"
    BY <1>1, <2>1 DEF OpOK
  <2>2. CASE op[c].at # "none"
    <3>1. call[c].sess \in Sessions
      BY <1>1, <2>2 DEF OpOK, CallRow, Sessions
    <3>2. dmn'[call[c].sess] = dmn[call[c].sess]
      BY <1>1, <2>2, <3>1 DEF OpOK, CallOK
    <3> QED BY <1>1, <2>2, <3>2 DEF OpOK
  <2> QED BY <2>1, <2>2
<1>3. ASSUME NEW s \in Sessions, NEW f \in Range(up[s]) PROVE Vouched(s, f)'
  <2>1. Vouched(s, f)
    BY DEF MachineInv, FramesOK
  <2>2. f \in UpFrame /\ s # 0
    BY <1>3 DEF LinkTypes, Range, Sessions
  <2>0. dmn'[s] = dmn[s]
    <3>1. Handshake(s)
      BY DEF MachineInv
    <3>2. sess[s].phase # "new"
      BY <1>3, <3>1 DEF Handshake, Range
    <3> QED BY <3>2
  <2>3. CASE f.k = "req"
    <3>1. f.call \in Calls
      BY <2>2, <2>3 DEF UpFrame
    <3> QED BY <1>1, <2>0, <2>1, <2>2, <2>3, <3>1 DEF Vouched
  <2>4. CASE f.k = "cancel"
    <3>1. f.sid \in Nat /\ f.sid # 0
      BY <2>1, <2>2, <2>4 DEF UpFrame, Vouched
    <3>2. sess'[s].phase = "ready" => f.sid < sess'[s].next
      <4>1. sess[s].next \in Nat /\ sess'[s].next \in Nat
        BY DEF HubOK, HubTypes, MachineInv, SessRow
      <4> QED BY <2>1, <2>4, <3>1, <4>1 DEF Vouched, StaysReady
    <3>3. ASSUME NEW c \in Calls, call'[c].sess = s, call'[c].sid = f.sid
          PROVE  call'[c].at = "done"
      <4>1. CASE call[c].sid # 0
        BY <1>1, <2>1, <2>4, <2>2, <3>3, <4>1 DEF Vouched, CallOK
      <4>2. CASE call[c].sid = 0
        <5>1. call[c].sess = s /\ sess[s].phase = "ready" /\ f.sid = sess[s].next
          BY <1>1, <3>1, <3>3, <4>2 DEF Steady
        <5>2. sess[s].next \in Nat
          BY DEF HubTypes, MachineInv, SessRow
        <5> QED BY <2>1, <2>4, <3>1, <5>1, <5>2 DEF Vouched
      <4> QED BY <4>1, <4>2
    <3> QED BY <2>4, <3>1, <3>2, <3>3 DEF Vouched
  <2> QED BY <2>3, <2>4 DEF Vouched
<1>4. ASSUME NEW s \in Sessions, NEW f \in Range(down[s]) PROVE Truthful(s, f)'
  <2>1. Truthful(s, f)
    BY DEF MachineInv, FramesOK
  <2>2. f \in DownFrame /\ s # 0
    BY <1>4 DEF LinkTypes, Range, Sessions
  <2>3. CASE f.k = "answer"
    <3>1. f.call \in Calls
      BY <2>2, <2>3 DEF DownFrame
    <3> QED BY <1>1, <2>1, <2>2, <2>3, <3>1 DEF Truthful
  <2> QED BY <2>3 DEF Truthful
<1> QED BY <1>2, <1>3, <1>4 DEF FramesOK

(* Nor does a step of the hub change who holds a stream at a point of the  *)
(* queue.                                                                  *)
LEMMA HeldStays ==
    ASSUME MachineInv, Steady, UNCHANGED op, NEW s \in Sessions,
           NEW n \in Nat, n <= Len(up[s]),
           \A j \in 1..n : up'[s][j] = up[s][j]
    PROVE  Held(s, n)' \subseteq Held(s, n)
<1> SUFFICES ASSUME NEW c \in Calls, c \in Held(s, n)' PROVE c \in Held(s, n)
  BY DEF Held
<1>1. CallOK(c) /\ OpOK(c) /\ up[s] \in Seq(UpFrame) /\ s # 0
      /\ (call[c].sess # 0 => call'[c].sess = call[c].sess)
      /\ (call[c].sid # 0 => call'[c].sid = call[c].sid)
  BY DEF MachineInv, CallsOK, OpsOK, LinkTypes, Steady, Sessions
<1>2. Requested(s, c, n)' <=> Requested(s, c, n)
  BY DEF Requested
<1>3. Requested(s, c, n) => call[c].sid # 0
  <2> SUFFICES ASSUME NEW j \in 1..n, up[s][j].k = "req", up[s][j].call = c
               PROVE  call[c].sid # 0
    BY DEF Requested
  <2>1. up[s][j] \in Range(up[s])
    BY <1>1 DEF Range
  <2> QED BY <1>1, <2>1 DEF MachineInv, FramesOK, Vouched, CallOK
<1>4. op[c].open => call[c].sid # 0 /\ call[c].sess # 0
  BY <1>1 DEF OpOK, CallOK
<1>5. call[c].sid # 0 => (Cancelled(s, c, n)' <=> Cancelled(s, c, n))
  BY <1>1 DEF Cancelled
<1> QED BY <1>1, <1>2, <1>3, <1>4, <1>5 DEF Held

(* A finite set of calls that is part of a smaller one has room.           *)
LEMMA RoomInPart ==
    ASSUME NEW A \in SUBSET Calls, NEW B \in SUBSET A, Cardinality(A) < MaxStreams
    PROVE  Cardinality(B) < MaxStreams
<1>1. IsFiniteSet(A)
  BY MachineAssumption, FS_Subset
<1>2. IsFiniteSet(B) /\ Cardinality(B) <= Cardinality(A)
  BY <1>1, FS_Subset
<1>3. Cardinality(A) \in Nat /\ Cardinality(B) \in Nat
  BY <1>1, <1>2, FS_CardinalityType
<1> QED BY <1>2, <1>3, MachineAssumption

(* A queue the hub does not write to keeps its room, if the hub lets go of *)
(* a stream only when the daemon has.                                      *)
LEMMA RoomStays ==
    ASSUME MachineInv, Steady, StaysReady, UNCHANGED op, NEW s \in Sessions,
           up'[s] = up[s],
           sess'[s].phase = "ready" /\ link'[s] # "closed" =>
                /\ link[s] # "closed"
                /\ \A c \in HubStreams(call, s) :
                    c \in HubStreams(call', s) \/ c \notin Held(s, Len(up[s]))
    PROVE  RoomAt(s)'
<1>1. up[s] \in Seq(UpFrame) /\ Len(up[s]) \in Nat /\ DOMAIN up[s] = 1..Len(up[s])
  BY DEF MachineInv, LinkTypes
<1>2. \A n \in 0..Len(up[s]) : Held(s, n)' \subseteq Held(s, n)
  BY <1>1, HeldStays
<1>3. ASSUME NEW i \in DOMAIN up[s], up[s][i].k = "req"
      PROVE  Cardinality(Held(s, i - 1)') < MaxStreams
  <2>1. i - 1 \in 0..Len(up[s])
    BY <1>1
  <2>2. Cardinality(Held(s, i - 1)) < MaxStreams
    BY <1>3 DEF MachineInv, RoomOK, RoomAt
  <2>3. Held(s, i - 1) \in SUBSET Calls
    BY DEF Held
  <2> QED BY <1>2, <2>1, <2>2, <2>3, RoomInPart
<1>4. ASSUME sess'[s].phase = "ready", link'[s] # "closed"
      PROVE  Held(s, Len(up[s]))' \subseteq HubStreams(call', s)
  <2>1. Held(s, Len(up[s])) \subseteq HubStreams(call, s)
    BY <1>4 DEF MachineInv, RoomOK, RoomAt, StaysReady
  <2>2. \A n \in 0..Len(up[s]) : n = Len(up[s]) =>
            Held(s, n)' \subseteq Held(s, n) /\ Held(s, Len(up[s]))' = Held(s, n)'
    BY <1>2 DEF Held, Requested, Cancelled
  <2> QED BY <1>1, <1>4, <2>1, <2>2
<1> QED BY <1>3, <1>4 DEF RoomAt, Held, Requested, Cancelled, HubStreams

(* A step of the hub that writes nothing.                                  *)
LEMMA QuietHubStep ==
    ASSUME MachineInv, HubOK', Steady, StaysReady, UNCHANGED <<up, dmn, op>>,
           \A s \in Sessions : Range(down'[s]) \subseteq Range(down[s]),
           \A s \in Sessions : sess'[s].phase = "ready" /\ link'[s] # "closed" =>
                /\ link[s] # "closed"
                /\ \A c \in HubStreams(call, s) :
                    c \in HubStreams(call', s) \/ c \notin Held(s, Len(up[s]))
    PROVE  FramesOK' /\ OpsOK' /\ QueueOrder' /\ RoomOK'
<1>1. FramesOK' /\ OpsOK'
  BY FramesStay DEF MachineInv
<1>2. QueueOrder'
  BY DEF MachineInv, QueueOrder
<1>3. RoomOK'
  BY RoomStays DEF RoomOK
<1> QED BY <1>1, <1>2, <1>3

(* A step of the hub that writes the request of a new stream, or the       *)
(* cancel of the only stream it lets go of.                                *)
LEMMA WritingHubStep ==
    ASSUME MachineInv, HubOK', Steady, StaysReady,
           UNCHANGED <<down, link, dmn, op>>,
           NEW s \in Sessions, NEW f \in UpFrame, NEW c \in Calls,
           up' = [up EXCEPT ![s] = Append(@, f)], Vouched(s, f)',
           sess[s].phase = "ready", link[s] # "closed",
           call'[c].sess = s, call'[c].sid = f.sid,
           \/ f.k = "cancel"
           \/ /\ f.k = "req" /\ f.call = c /\ call[c].sid = 0
              /\ call'[c].sid # 0 /\ c \in HubStreams(call', s)
              /\ Cardinality(HubStreams(call, s)) < MaxStreams,
           \A t \in Sessions : \A d \in HubStreams(call, t) :
                d \in HubStreams(call', t) \/ (f.k = "cancel" /\ d = c)
    PROVE  FramesOK' /\ OpsOK' /\ QueueOrder' /\ RoomOK'
<1>0. PICK n \in Nat : n = Len(up[s])
  <2>1. up[s] \in Seq(UpFrame)
    BY DEF MachineInv, LinkTypes
  <2>2. Len(up[s]) \in Nat
    BY <2>1
  <2> QED BY <2>2
<1>1. /\ up[s] \in Seq(UpFrame) /\ n \in Nat /\ DOMAIN up[s] = 1..n
      /\ up'[s] = Append(up[s], f) /\ Len(up'[s]) = n + 1
      /\ DOMAIN up'[s] = 1..(n + 1) /\ up'[s][n + 1] = f
      /\ \A i \in 1..n : up'[s][i] = up[s][i]
      /\ Range(up'[s]) = Range(up[s]) \cup {f}
      /\ \A t \in Sessions : t # s => up'[t] = up[t]
  <2>1. up[s] \in Seq(UpFrame) /\ up'[s] = Append(up[s], f)
        /\ \A t \in Sessions : t # s => up'[t] = up[t]
    BY DEF MachineInv, LinkTypes
  <2> QED BY <1>0, <2>1, Appended
<1>2. FramesOK' /\ OpsOK'
  <2>1. \A t \in Sessions : \A g \in Range(up'[t]) :
            g \in Range(up[t]) \/ Vouched(t, g)'
    BY <1>1
  <2> QED BY <2>1, FramesStay DEF MachineInv
<1>3. ASSUME NEW j \in 1..n, f.k = "req", up[s][j].k \in {"req", "cancel"}
      PROVE  up[s][j].sid # f.sid
  <2>1. f.sid = sess[s].next /\ sess[s].next \in Nat
    BY <1>3 DEF Steady, HubTypes, MachineInv, SessRow, CallsOK, CallOK
  <2>2. up[s][j] \in Range(up[s]) /\ up[s][j] \in UpFrame
    BY <1>1 DEF Range
  <2>3. Vouched(s, up[s][j])
    BY <2>2 DEF MachineInv, FramesOK
  <2>4. CASE up[s][j].k = "cancel"
    <3>1. up[s][j].sid \in Nat
      BY <2>2, <2>4 DEF UpFrame
    <3> QED BY <2>1, <2>3, <2>4, <3>1 DEF Vouched
  <2>5. CASE up[s][j].k = "req"
    <3>1. up[s][j].call \in Calls /\ up[s][j].sid \in Nat
      BY <2>2, <2>5 DEF UpFrame
    <3>2. CallOK(up[s][j].call) /\ s # 0
      BY <3>1 DEF MachineInv, CallsOK, Sessions
    <3> QED BY <2>1, <2>3, <2>5, <3>1, <3>2 DEF Vouched, CallOK
  <2> QED BY <1>3, <2>4, <2>5
<1>4. QueueOrder'
  <2> SUFFICES ASSUME NEW t \in Sessions, NEW i \in DOMAIN up'[t],
                      NEW j \in DOMAIN up'[t], up'[t][i].k = "req",
                      up'[t][j].k \in {"req", "cancel"},
                      up'[t][i].sid = up'[t][j].sid
               PROVE  i = j \/ (i < j /\ up'[t][j].k = "cancel")
    BY DEF QueueOrder
  <2>1. CASE t # s
    BY <1>1, <2>1 DEF MachineInv, QueueOrder
  <2>2. CASE t = s
    <3>1. CASE i \in 1..n /\ j \in 1..n
      BY <1>1, <2>2, <3>1 DEF MachineInv, QueueOrder
    <3>2. CASE i = n + 1 /\ j \in 1..n
      BY <1>1, <1>3, <2>2, <3>2
    <3>3. CASE i \in 1..n /\ j = n + 1
      BY <1>1, <1>3, <2>2, <3>3
    <3> QED BY <1>1, <2>2, <3>1, <3>2, <3>3
  <2> QED BY <2>1, <2>2
<1>5. \A m \in 0..n : Held(s, m)' \subseteq Held(s, m)
  <2> SUFFICES ASSUME NEW m \in 0..n PROVE Held(s, m)' \subseteq Held(s, m)
    OBVIOUS
  <2>1. m \in Nat /\ m <= Len(up[s]) /\ \A j \in 1..m : up'[s][j] = up[s][j]
    BY <1>0, <1>1
  <2> QED BY <2>1, HeldStays
<1>6. Held(s, n)' \subseteq HubStreams(call, s)
  <2>1. Held(s, n) \subseteq HubStreams(call, s)
    BY <1>0 DEF MachineInv, RoomOK, RoomAt
  <2> QED BY <1>1, <1>5, <2>1
<1>7. ASSUME NEW i \in 1..(n + 1), up'[s][i].k = "req"
      PROVE  Cardinality(Held(s, i - 1)') < MaxStreams
  <2>1. CASE i = n + 1
    <3>1. f.k = "req" /\ i - 1 = n /\ HubStreams(call, s) \in SUBSET Calls
      BY <1>1, <1>7, <2>1 DEF HubStreams
    <3> QED BY <1>6, <3>1, RoomInPart
  <2>2. CASE i # n + 1
    <3>1. i \in 1..n /\ i - 1 \in 0..n
      BY <1>1, <2>2
    <3>2. Cardinality(Held(s, i - 1)) < MaxStreams
      BY <1>1, <1>7, <3>1 DEF MachineInv, RoomOK, RoomAt
    <3>3. Held(s, i - 1) \in SUBSET Calls
      BY DEF Held
    <3> QED BY <1>5, <3>1, <3>2, <3>3, RoomInPart
  <2> QED BY <2>1, <2>2
<1>8. ASSUME NEW d \in Calls, d \in Held(s, n + 1)' PROVE d \in HubStreams(call', s)
  <2>1. CASE d = c
    <3>1. f.k # "cancel"
      <4>1. f.k = "cancel" => Cancelled(s, d, n + 1)'
        BY <1>1, <2>1 DEF Cancelled
      <4> QED BY <1>8, <4>1 DEF Held
    <3> QED BY <2>1, <3>1
  <2>2. CASE d # c
    <3>1. Requested(s, d, n + 1)' => Requested(s, d, n)'
      BY <1>1, <2>2 DEF Requested
    <3>2. Cancelled(s, d, n)' => Cancelled(s, d, n + 1)'
      BY <1>1 DEF Cancelled
    <3>3. d \in Held(s, n)'
      BY <1>8, <3>1, <3>2 DEF Held
    <3> QED BY <1>6, <2>2, <3>3
  <2> QED BY <2>1, <2>2
<1>9. RoomAt(s)'
  <2>1. Held(s, n + 1)' \subseteq HubStreams(call', s)
    BY <1>8 DEF Held
  <2>2. Held(s, Len(up[s]))' = Held(s, n + 1)'
    BY <1>1 DEF Held, Requested, Cancelled
  <2>3. HubStreams(call, s)' = HubStreams(call', s)
    BY DEF HubStreams
  <2>4. \A i \in DOMAIN up'[s] : up'[s][i].k = "req" =>
            Cardinality(Held(s, i - 1)') < MaxStreams
    BY <1>1, <1>7
  <2> QED BY <2>1, <2>2, <2>3, <2>4 DEF RoomAt
<1>10. RoomOK'
  <2>1. ASSUME NEW t \in Sessions, t # s PROVE RoomAt(t)'
    <3>1. \A d \in HubStreams(call, t) : d \in HubStreams(call', t) \/ d = c
      OBVIOUS
    <3>2. c \in HubStreams(call, t) => FALSE
      <4>1. call[c].sess # 0 => call'[c].sess = call[c].sess
        BY DEF Steady
      <4> QED BY <2>1, <4>1 DEF HubStreams, Sessions
    <3> QED BY <1>1, <2>1, <3>1, <3>2, RoomStays
  <2> QED BY <1>9, <2>1 DEF RoomOK
<1> QED BY <1>2, <1>4, <1>10

-----------------------------------------------------------------------------
(* The hub's steps, by kind.                                               *)

(* The handshake of a session the hub does not open in this step.          *)
LEMMA HandshakeStays ==
    ASSUME MachineInv, NEW s \in Sessions, UNCHANGED dmn,
           \/ /\ sess'[s].phase = sess[s].phase /\ up'[s] = up[s]
              /\ down'[s] = down[s] /\ link'[s] = link[s]
           \/ /\ sess'[s].phase = sess[s].phase /\ sess[s].phase = "ready"
              /\ \A f \in Range(up'[s]) : f \in Range(up[s]) \/ f.k # "hello"
              /\ Range(down'[s]) \subseteq Range(down[s])
           \/ /\ sess[s].phase \in {"hello", "ready"} /\ up'[s] = up[s]
              /\ sess'[s].phase = "ended"
    PROVE  Handshake(s)'
<1>1. Handshake(s)
  BY DEF MachineInv
<1>2. CASE /\ sess'[s].phase = sess[s].phase /\ up'[s] = up[s]
           /\ down'[s] = down[s] /\ link'[s] = link[s]
  BY <1>1, <1>2 DEF Handshake
<1>3. CASE /\ sess'[s].phase = sess[s].phase /\ sess[s].phase = "ready"
           /\ \A f \in Range(up'[s]) : f \in Range(up[s]) \/ f.k # "hello"
           /\ Range(down'[s]) \subseteq Range(down[s])
  BY <1>1, <1>3 DEF Handshake
<1>4. CASE /\ sess[s].phase \in {"hello", "ready"} /\ up'[s] = up[s]
           /\ sess'[s].phase = "ended"
  BY <1>1, <1>4 DEF Handshake
<1> QED BY <1>2, <1>3, <1>4

(* A step on the hub alone, which changes no session's phase: no stream    *)
(* closes but one the daemon has closed.                                   *)
LEMMA HubAlone ==
    ASSUME MachineInv, HubOK', Steady, StaysReady,
           UNCHANGED <<link, up, down, dmn, op>>,
           \A s \in Sessions : sess'[s].phase = sess[s].phase,
           \A s \in Sessions : \A c \in HubStreams(call, s) :
                c \in HubStreams(call', s) \/ c \notin Held(s, Len(up[s]))
    PROVE  MachineInv'
<1>1. \A s \in Sessions : Handshake(s)'
  BY HandshakeStays
<1>2. FramesOK' /\ OpsOK' /\ QueueOrder' /\ RoomOK'
  BY QuietHubStep
<1>3. DaemonTypes' /\ LinkTypes'
  BY DEF MachineInv, DaemonTypes, LinkTypes
<1> QED BY <1>1, <1>2, <1>3 DEF MachineInv, HubOK

(* A session finishes.                                                     *)
LEMMA FinishStep ==
    ASSUME MachineInv, NEW s \in Sessions, NEW calls, OnItsWay(s, calls),
           Finish(s, calls), UNCHANGED <<cur, up, dmn, op>>,
           armed' \in {armed, armed \ {cur}, armed \ {s}},
           down' \in [Sessions -> Seq(DownFrame)],
           Range(down'[s]) \subseteq Range(down[s]),
           \A t \in Sessions : t # s => down'[t] = down[t]
    PROVE  MachineInv'
<1>1. /\ HubOK' /\ Steady
      /\ \A t \in Sessions : sess'[t].phase = IF t = s THEN "ended"
                                              ELSE sess[t].phase
      /\ \A t \in Sessions : sess'[t].phase # "ready"
  BY SessionFinishes DEF MachineInv, HubOK
<1>2. link' \in [Sessions -> {"up", "silent", "closed"}]
      /\ \A t \in Sessions : t # s => link'[t] = link[t]
  BY DEF Finish, MachineInv, LinkTypes
<1>3. DaemonTypes' /\ LinkTypes'
  BY <1>2 DEF MachineInv, DaemonTypes, LinkTypes
<1>4. StaysReady
  BY <1>1 DEF StaysReady
<1>5. FramesOK' /\ OpsOK' /\ QueueOrder' /\ RoomOK'
  BY <1>1, <1>4, QuietHubStep
<1>6. ASSUME NEW t \in Sessions PROVE Handshake(t)'
  <2>1. CASE t = s
    BY <1>1, <2>1, HandshakeStays DEF Finish
  <2>2. CASE t # s
    BY <1>1, <1>2, <2>2, HandshakeStays
  <2> QED BY <2>1, <2>2
<1> QED BY <1>1, <1>3, <1>5, <1>6 DEF MachineInv, HubOK

(* Its calls may be as they were.                                          *)
LEMMA CallsOnTheirWay ==
    ASSUME MachineInv, NEW s \in Sessions
    PROVE  OnItsWay(s, call)
BY DEF MachineInv, HubTypes, CallsOK, SidsDiffer, OnItsWay

(* What closing a call's stream makes of the call.                         *)
LEMMA ClosedRow ==
    ASSUME MachineInv, NEW c \in Calls, NEW res \in Results
    PROVE  LET x == [call[c] EXCEPT !.at = "done", !.result = res] IN
           /\ Closed(c, res) = [call EXCEPT ![c] = x]
           /\ x \in CallRow /\ x.at = "done" /\ x.sess = call[c].sess
           /\ x.sid = call[c].sid /\ x.sent = call[c].sent
           /\ x.from = call[c].from
<1>1. call[c] \in CallRow /\ call \in [Calls -> CallRow]
  BY DEF MachineInv, HubTypes
<1> DEFINE x == [call[c] EXCEPT !.at = "done", !.result = res]
<1>2. /\ x \in CallRow /\ x.at = "done" /\ x.sess = call[c].sess
      /\ x.sid = call[c].sid /\ x.sent = call[c].sent
      /\ x.from = call[c].from
  BY <1>1 DEF CallRow
<1>3. Closed(c, res) = [call EXCEPT ![c] = x]
  BY <1>1 DEF Closed
<1> QED BY <1>2, <1>3

-----------------------------------------------------------------------------
(* The hub's steps.                                                        *)

(* A caller joins the session that is ready or in handshake.               *)
LEMMA JoinSessionSafe ==
    ASSUME MachineInv, NEW c \in Calls, JoinSession(c)
    PROVE  MachineInv'
<1> DEFINE t == IF Ready(cur) THEN cur ELSE opening
           x == [call[c] EXCEPT !.at = "waiting", !.sess = t]
<1>1. /\ call[c].at = "idle" /\ call[c] \in CallRow /\ t \in 0..MaxSessions
      /\ t # 0 /\ UNCHANGED <<cur, opening, armed, sess, ended, link, up, down, dmn, op>>
      /\ call' = [call EXCEPT ![c].at = "waiting", ![c].sess = t]
  BY DEF JoinSession, Ready, MachineInv, HubTypes
<1>2. t \in Sessions /\ sess[t].phase \in {"hello", "ready"} /\ CallOK(c)
      /\ sess[t].next \in Nat \ {0}
  <2>1. t \in Sessions
    BY <1>1, MachineAssumption DEF Sessions
  <2>2. sess[t].phase \in {"hello", "ready"}
    BY <1>1, <2>1 DEF Ready, MachineInv, ConnectorOK
  <2> QED BY <2>1, <2>2 DEF MachineInv, CallsOK, HubTypes, SessRow
<1> HIDE DEF t
<1>3. call' = [call EXCEPT ![c] = x] /\ x \in CallRow /\ x.at = "waiting"
      /\ x.sess = t /\ x.sid = call[c].sid /\ x.sent = call[c].sent
      /\ x.from = call[c].from
  BY <1>1 DEF MachineInv, HubTypes, CallRow
<1> HIDE DEF x
<1>4. call' \in [Calls -> CallRow]
      /\ \A d \in Calls : call'[d] = IF d = c THEN x ELSE call[d]
  BY <1>3 DEF MachineInv, HubTypes
<1>5. \A s : HubStreams(call', s) = HubStreams(call, s)
  BY <1>1, <1>3, <1>4 DEF HubStreams
<1>6. x.sid = 0 /\ ~x.sent
  BY <1>1, <1>2, <1>3 DEF CallOK
<1>7. HubOK'
  <2>1. HubTypes'
    BY <1>1, <1>4 DEF MachineInv, HubTypes
  <2>2. ConnectorOK'
    BY <1>1, <1>5 DEF MachineInv, ConnectorOK, LiveSessionIsCurrent, HubStreams
  <2>3. ASSUME NEW d \in Calls PROVE CallOK(d)'
    <3>1. CASE d = c
      <4>1. x.sid < sess[t].next /\ x.from \subseteq {c}
        BY <1>2, <1>3, <1>6 DEF CallOK
      <4>2. /\ call'[d].sess = t /\ call'[d].at = "waiting" /\ call'[d].sid = 0
            /\ ~call'[d].sent /\ call'[d].from = x.from /\ t # 0 /\ sess' = sess
            /\ call'[d].sid = x.sid
        BY <1>1, <1>3, <1>4, <1>6, <3>1
      <4> QED BY <1>2, <3>1, <4>1, <4>2 DEF CallOK
    <3>2. CASE d # c
      BY <1>1, <1>4, <3>2 DEF CallOK, MachineInv, CallsOK
    <3> QED BY <3>1, <3>2
  <2>4. SidsDiffer'
    BY <1>4, <1>6 DEF MachineInv, CallsOK, SidsDiffer
  <2> QED BY <2>1, <2>2, <2>3, <2>4 DEF HubOK, CallsOK
<1>8. Steady /\ StaysReady
  <2>1. Steady
    BY <1>1, <1>2, <1>3, <1>4, <1>6 DEF Steady, CallOK
  <2>2. \A s \in Sessions : sess[s].next \in Nat
    BY DEF MachineInv, HubTypes, SessRow
  <2> QED BY <1>1, <2>1, <2>2 DEF StaysReady
<1> QED BY <1>1, <1>5, <1>7, <1>8, HubAlone

(* A new session: nothing was ever sent on it.                             *)
LEMMA StartSessionSafe ==
    ASSUME MachineInv, NEW c \in Calls, StartSession(c)
    PROVE  MachineInv'
<1>0. PICK s \in Sessions :
        /\ sess[s].phase = "new"
        /\ call' = [call EXCEPT ![c].at = "waiting", ![c].sess = s]
        /\ cur' = s /\ opening' = s
        /\ sess' = [sess EXCEPT ![s].phase = "hello"]
        /\ dmn' = [dmn EXCEPT ![s].phase = "serving"]
        /\ link' = [link EXCEPT ![s] = "up"]
        /\ up' = [up EXCEPT ![s] = <<[k |-> "hello"]>>]
  BY DEF StartSession
<1> DEFINE x == [call[c] EXCEPT !.at = "waiting", !.sess = s]
<1>1. /\ call[c].at = "idle" /\ call[c] \in CallRow /\ CallOK(c)
      /\ ~Ready(cur) /\ opening = 0 /\ UNCHANGED <<armed, ended, down, op>>
      /\ s # 0 /\ s \in 0..MaxSessions
  BY DEF StartSession, MachineInv, HubTypes, CallsOK, Sessions
<1>2. call' = [call EXCEPT ![c] = x] /\ x \in CallRow /\ x.at = "waiting"
      /\ x.sess = s /\ x.sid = call[c].sid /\ x.sent = call[c].sent
      /\ x.from = call[c].from
  BY <1>0, <1>1 DEF MachineInv, HubTypes, CallRow
<1> HIDE DEF x
<1>3. call' \in [Calls -> CallRow]
      /\ \A d \in Calls : call'[d] = IF d = c THEN x ELSE call[d]
  BY <1>2 DEF MachineInv, HubTypes
<1>4. /\ sess' \in [Sessions -> SessRow] /\ dmn' \in [Sessions -> DmnRow]
      /\ \A t \in Sessions : sess'[t].phase = IF t = s THEN "hello" ELSE sess[t].phase
      /\ \A t \in Sessions : sess'[t].next = sess[t].next /\ sess[t].next \in Nat \ {0}
      /\ \A t \in Sessions : t # s => dmn'[t] = dmn[t]
      /\ dmn'[s].phase = "serving" /\ dmn'[s].helloed = dmn[s].helloed
  BY <1>0 DEF MachineInv, HubTypes, SessRow, DaemonTypes, DmnRow
<1>5. /\ up' \in [Sessions -> Seq(UpFrame)] /\ up'[s] = <<[k |-> "hello"]>>
      /\ \A t \in Sessions : t # s => up'[t] = up[t] /\ link'[t] = link[t]
      /\ link' \in [Sessions -> {"up", "silent", "closed"}]
      /\ Range(up'[s]) = {[k |-> "hello"]}
  <2>1. [k |-> "hello"] \in UpFrame
    BY DEF UpFrame
  <2>2. <<[k |-> "hello"]>> \in Seq(UpFrame)
    BY <2>1
  <2>3. Range(<<[k |-> "hello"]>>) = {[k |-> "hello"]}
    BY DEF Range
  <2> QED BY <1>0, <2>2, <2>3 DEF MachineInv, LinkTypes
<1>6. \A t : HubStreams(call', t) = HubStreams(call, t)
  BY <1>1, <1>2, <1>3 DEF HubStreams
<1>7. x.sid = 0 /\ ~x.sent
  BY <1>1, <1>2 DEF CallOK
<1>8. \A t \in Sessions : sess[t].phase \notin {"hello", "ready"}
  BY <1>1 DEF MachineInv, ConnectorOK, LiveSessionIsCurrent, Ready, Sessions
<1>9. HubOK'
  <2>1. HubTypes'
    BY <1>0, <1>1, <1>3, <1>4 DEF MachineInv, HubTypes
  <2>2. LiveSessionIsCurrent'
    BY <1>0, <1>4, <1>8 DEF LiveSessionIsCurrent
  <2>3. \A t \in ended' : sess'[t].phase = "ended"
    BY <1>0, <1>1, <1>4 DEF MachineInv, ConnectorOK, HubTypes
  <2>4. \A t \in Sessions : opening' = t <=> sess'[t].phase = "hello"
    BY <1>0, <1>4, <1>8
  <2>5. \A t \in Sessions : sess'[t].phase # "ready"
    BY <1>4, <1>8
  <2>6. ConnectorOK'
    BY <2>2, <2>3, <2>4, <2>5 DEF ConnectorOK
  <2>7. ASSUME NEW d \in Calls PROVE CallOK(d)'
    <3>1. CASE d = c
      <4>1. x.sid < sess'[s].next /\ x.from \subseteq {c}
        BY <1>1, <1>2, <1>4, <1>7 DEF CallOK
      <4>2. /\ call'[d].sess = s /\ call'[d].at = "waiting" /\ call'[d].sid = 0
            /\ ~call'[d].sent /\ call'[d].from = x.from /\ s # 0
            /\ call'[d].sid = x.sid /\ sess'[s].phase = "hello"
        BY <1>1, <1>2, <1>3, <1>4, <1>7, <3>1
      <4> QED BY <3>1, <4>1, <4>2 DEF CallOK
    <3>2. CASE d # c
      <4>1. CallOK(d) /\ call'[d] = call[d] /\ call[d].sess # s
            /\ (call[d].sess # 0 => call[d].sess \in Sessions)
        BY <1>0, <1>1, <1>3, <3>2
           DEF CallOK, MachineInv, CallsOK, HubTypes, CallRow, Sessions
      <4> QED BY <1>4, <4>1 DEF CallOK
    <3> QED BY <3>1, <3>2
  <2>8. SidsDiffer'
    BY <1>3, <1>7 DEF MachineInv, CallsOK, SidsDiffer
  <2> QED BY <2>1, <2>6, <2>7, <2>8 DEF HubOK, CallsOK
<1>10. Steady /\ StaysReady
  <2>1. Steady
    BY <1>1, <1>2, <1>3, <1>7 DEF Steady, CallOK
  <2> QED BY <1>4, <1>8, <2>1 DEF StaysReady
<1>11. FramesOK' /\ OpsOK'
  <2>1. Vouched(s, [k |-> "hello"])'
    BY DEF Vouched
  <2>2. \A t \in Sessions : \A f \in Range(up'[t]) :
            f \in Range(up[t]) \/ Vouched(t, f)'
    BY <1>5, <2>1
  <2> QED BY <1>0, <1>1, <1>4, <1>9, <1>10, <2>2, FramesStay DEF MachineInv
<1>12. QueueOrder'
  <2>1. \A i \in DOMAIN up'[s] : up'[s][i].k # "req"
    BY <1>5 DEF Range
  <2> QED BY <1>5, <2>1 DEF MachineInv, QueueOrder
<1>13. RoomOK'
  <2>1. ASSUME NEW t \in Sessions, t # s PROVE RoomAt(t)'
    BY <1>1, <1>5, <1>6, <1>10, <2>1, RoomStays
  <2>2. RoomAt(s)'
    <3>1. \A i \in DOMAIN up'[s] : up'[s][i].k # "req"
      BY <1>5 DEF Range
    <3> QED BY <1>4, <3>1 DEF RoomAt
  <2> QED BY <2>1, <2>2 DEF RoomOK
<1>14. ASSUME NEW t \in Sessions PROVE Handshake(t)'
  <2>1. Handshake(t)
    BY DEF MachineInv
  <2>2. CASE t = s
    BY <1>0, <1>1, <1>4, <1>5, <2>1, <2>2 DEF Handshake
  <2>3. CASE t # s
    BY <1>1, <1>4, <1>5, <2>1, <2>3 DEF Handshake
  <2> QED BY <2>2, <2>3
<1>15. DaemonTypes' /\ LinkTypes'
  BY <1>1, <1>4, <1>5 DEF MachineInv, DaemonTypes, LinkTypes
<1> QED BY <1>9, <1>11, <1>12, <1>13, <1>14, <1>15 DEF MachineInv, HubOK

(* What a dispatch knows, and what it makes of its call.                   *)
LEMMA SentRow ==
    ASSUME MachineInv, NEW c \in Calls, call[c].at = "waiting",
           sess[call[c].sess].phase = "ready"
    PROVE  LET s == call[c].sess
               x == [call[c] EXCEPT !.at = "sent", !.sid = StreamId(s),
                                    !.sent = TRUE]
           IN
           /\ Sent(c) = [call EXCEPT ![c] = x]
           /\ x \in CallRow /\ x.at = "sent" /\ x.sess = s /\ x.sent
           /\ x.sid = StreamId(s) /\ x.from = call[c].from
           /\ s \in Sessions /\ StreamId(s) \in Nat \ {0}
           /\ call[c].sid = 0 /\ ~call[c].sent /\ op[c].at = "none"
           /\ dmn[s].helloed
<1> DEFINE s == call[c].sess
           x == [call[c] EXCEPT !.at = "sent", !.sid = StreamId(s), !.sent = TRUE]
<1>1. call[c] \in CallRow /\ CallOK(c) /\ OpOK(c) /\ call \in [Calls -> CallRow]
  BY DEF MachineInv, HubTypes, CallsOK, OpsOK
<1>2. s \in Sessions
  BY <1>1 DEF CallOK, CallRow, Sessions
<1>3. StreamId(s) \in Nat \ {0}
  BY <1>2 DEF MachineInv, HubTypes, SessRow, StreamId
<1>4. x \in CallRow /\ x.at = "sent" /\ x.sess = s /\ x.sent
      /\ x.sid = StreamId(s) /\ x.from = call[c].from
  BY <1>1, <1>3 DEF CallRow
<1>5. Sent(c) = [call EXCEPT ![c] = x]
  BY <1>1 DEF Sent
<1>6. call[c].sid = 0 /\ ~call[c].sent /\ op[c].at = "none"
  BY <1>1 DEF CallOK, OpOK
<1>7. Handshake(s)
  BY <1>2 DEF MachineInv
<1> QED BY <1>2, <1>3, <1>4, <1>5, <1>6, <1>7 DEF Handshake

(* A request is written on its new stream.                                 *)
LEMMA DispatchSafe ==
    ASSUME MachineInv, NEW c \in Calls, Dispatch(c)
    PROVE  MachineInv'
<1>0. PICK s : s = call[c].sess
  OBVIOUS
<1> DEFINE x == [call[c] EXCEPT !.at = "sent", !.sid = StreamId(s), !.sent = TRUE]
           f == [k |-> "req", sid |-> sess[s].next, call |-> c]
<1>1. /\ call[c].at = "waiting" /\ sess[s].phase = "ready"
      /\ Cardinality(HubStreams(call, s)) < MaxStreams
      /\ call' = Sent(c) /\ Written(s, f)
      /\ sess' = [sess EXCEPT ![s].next = @ + 1]
      /\ UNCHANGED <<cur, opening, armed, ended, link, down, dmn, op>>
  BY <1>0 DEF Dispatch, StreamId
<1>2. /\ call' = [call EXCEPT ![c] = x]
      /\ x \in CallRow /\ x.at = "sent" /\ x.sess = s /\ x.sent
      /\ x.sid = StreamId(s) /\ x.from = call[c].from
      /\ s \in Sessions /\ StreamId(s) \in Nat \ {0}
      /\ call[c].sid = 0 /\ ~call[c].sent /\ op[c].at = "none"
      /\ dmn[s].helloed
  BY <1>0, <1>1, SentRow
<1> HIDE DEF x
<1>3. HubOK' /\ Steady
  BY <1>0, <1>1, <1>2, CallDispatched DEF MachineInv, HubOK
<1>4. \A t \in Sessions : sess'[t].phase = sess[t].phase
                          /\ sess[t].next <= sess'[t].next
  BY <1>1, <1>2 DEF MachineInv, HubTypes, SessRow
<1>5. StaysReady
  BY <1>4 DEF StaysReady
<1>6. \A d \in Calls : call'[d] = IF d = c THEN x ELSE call[d]
  BY <1>2 DEF MachineInv, HubTypes
<1>7. c \in HubStreams(call', s)
      /\ \A t \in Sessions : HubStreams(call, t) \subseteq HubStreams(call', t)
  BY <1>1, <1>2, <1>6 DEF HubStreams
<1>8. CASE link[s] = "closed"
  BY <1>1, <1>3, <1>4, <1>5, <1>7, <1>8, HubAlone DEF Written
<1>9. CASE link[s] # "closed"
  <2>1. f \in UpFrame /\ f.k = "req" /\ f.call = c /\ f.sid = sess[s].next
    BY <1>2 DEF UpFrame, StreamId
  <2>2. up' = [up EXCEPT ![s] = Append(@, f)]
    BY <1>1, <1>9 DEF Written
  <2>3. call'[c].sess = s /\ call'[c].sid = f.sid /\ call'[c].sid # 0
        /\ call'[c].sent
    BY <1>2, <1>6, <2>1 DEF StreamId
  <2> HIDE DEF f
  <2>4. PICK g \in UpFrame : g = f
    BY <2>1
  <2>5. Vouched(s, g)'
    BY <1>1, <1>2, <2>1, <2>3, <2>4 DEF Vouched
  <2>6. FramesOK' /\ OpsOK' /\ QueueOrder' /\ RoomOK'
    BY <1>1, <1>2, <1>3, <1>5, <1>7, <1>9, <2>1, <2>2, <2>3, <2>4, <2>5, WritingHubStep
  <2>7. /\ up' \in [Sessions -> Seq(UpFrame)] /\ Range(up'[s]) = Range(up[s]) \cup {g}
        /\ \A t \in Sessions : t # s => up'[t] = up[t]
    <3>1. up \in [Sessions -> Seq(UpFrame)] /\ up[s] \in Seq(UpFrame)
      BY <1>2 DEF MachineInv, LinkTypes
    <3>2. Append(up[s], g) \in Seq(UpFrame)
          /\ Range(Append(up[s], g)) = Range(up[s]) \cup {g}
      BY <3>1, Appended
    <3> QED BY <1>2, <2>2, <2>4, <3>1, <3>2
  <2>8. DaemonTypes' /\ LinkTypes'
    BY <1>1, <2>7 DEF MachineInv, DaemonTypes, LinkTypes
  <2>9. ASSUME NEW t \in Sessions PROVE Handshake(t)'
    <3>1. CASE t = s
      BY <1>1, <1>4, <2>1, <2>4, <2>7, <3>1, HandshakeStays
    <3>2. CASE t # s
      BY <1>1, <1>4, <2>7, <3>2, HandshakeStays
    <3> QED BY <3>1, <3>2
  <2> QED BY <1>3, <2>6, <2>8, <2>9 DEF MachineInv, HubOK
<1> QED BY <1>8, <1>9

(* The write throws: the session ends, and the request was not sent.       *)
LEMMA DispatchThrowsSafe ==
    ASSUME MachineInv, NEW c \in Calls, DispatchThrows(c)
    PROVE  MachineInv'
<1>0. PICK s : s = call[c].sess
  OBVIOUS
<1> DEFINE x == [call[c] EXCEPT !.at = "sent", !.sid = StreamId(s), !.sent = TRUE]
           y == [x EXCEPT !.sent = FALSE]
           calls == [Sent(c) EXCEPT ![c].sent = FALSE]
<1>1. /\ call[c].at = "waiting" /\ sess[s].phase = "ready"
      /\ End(s, calls) /\ UNCHANGED <<cur, up, down, dmn, op>>
  BY <1>0 DEF DispatchThrows
<1>2. /\ Sent(c) = [call EXCEPT ![c] = x]
      /\ x \in CallRow /\ x.at = "sent" /\ x.sess = s
      /\ x.sid = StreamId(s) /\ x.from = call[c].from
      /\ s \in Sessions /\ StreamId(s) \in Nat \ {0}
      /\ call[c].sid = 0 /\ ~call[c].sent
  BY <1>0, <1>1, SentRow
<1> HIDE DEF x
<1>3. y \in CallRow /\ y.at = "sent" /\ y.sess = s /\ ~y.sent
      /\ y.sid = sess[s].next /\ y.from = call[c].from
  BY <1>2 DEF CallRow, StreamId
<1>4. calls = [call EXCEPT ![c] = y] /\ call \in [Calls -> CallRow]
  BY <1>2 DEF MachineInv, HubTypes
<1> HIDE DEF y, calls
<1>5. calls \in [Calls -> CallRow]
      /\ \A d \in Calls : calls[d] = IF d = c THEN y ELSE call[d]
  BY <1>3, <1>4
<1>6. OnItsWay(s, calls)
  <2>1. ASSUME NEW d \in Calls, d # c, call[d].sess = s
        PROVE  call[d].sid # y.sid
    <3>1. CallOK(d) /\ call[d].sid \in Nat /\ s # 0 /\ sess[s].next \in Nat
      BY <1>2, <1>4 DEF MachineInv, CallsOK, CallRow, Sessions, StreamId
    <3> QED BY <1>1, <1>3, <2>1, <3>1 DEF CallOK
  <2>2. \A e, d \in Calls :
          e # d /\ calls[e].sess = calls[d].sess /\ calls[e].sid = calls[d].sid =>
            calls[e].sid = 0
    BY <1>0, <1>3, <1>5, <2>1 DEF MachineInv, CallsOK, SidsDiffer
  <2>3. \A d \in Calls :
        \/ calls[d] = call[d]
        \/ /\ calls[d].sess = s /\ call[d].sess = s /\ sess[s].phase = "ready"
           /\ calls[d].at = "sent" /\ calls[d].from = call[d].from
           /\ call[d].at = "waiting" /\ calls[d].sid = sess[s].next
           /\ ~calls[d].sent
    BY <1>0, <1>1, <1>3, <1>5
  <2> QED BY <1>5, <2>2, <2>3 DEF OnItsWay
<1>7. Finish(s, calls) /\ armed' \in {armed, armed \ {cur}, armed \ {s}}
  BY <1>1 DEF End
<1>8. down' \in [Sessions -> Seq(DownFrame)]
  BY <1>1 DEF MachineInv, LinkTypes
<1> QED BY <1>1, <1>2, <1>6, <1>7, <1>8, FinishStep

(* A waiting call is settled without a stream.                             *)
LEMMA WaitingSettles ==
    ASSUME MachineInv, NEW c \in Calls, NEW res \in Results,
           call[c].at = "waiting", sess[call[c].sess].phase # "hello",
           \/ call' = Closed(c, res) /\ UNCHANGED armed
           \/ Settle(c, res),
           UNCHANGED <<cur, opening, sess, ended, link, up, down, dmn, op>>
    PROVE  MachineInv'
<1> DEFINE x == [call[c] EXCEPT !.at = "done", !.result = res]
<1>1. /\ Closed(c, res) = [call EXCEPT ![c] = x]
      /\ x \in CallRow /\ x.at = "done" /\ x.sess = call[c].sess
      /\ x.sid = call[c].sid /\ x.sent = call[c].sent
      /\ x.from = call[c].from
  BY ClosedRow
<1> HIDE DEF x
<1>2. call' = [call EXCEPT ![c] = x] /\ (UNCHANGED armed \/ ArmIdle(call'))
  BY <1>1 DEF Settle
<1>3. x.from \subseteq {c}
  BY <1>1 DEF MachineInv, CallsOK, CallOK
<1>4. HubOK' /\ Steady
  BY <1>1, <1>2, <1>3, CallChanges DEF MachineInv, HubOK
<1>5. \A d \in Calls : call'[d] = IF d = c THEN x ELSE call[d]
  BY <1>2 DEF MachineInv, HubTypes
<1>6. \A t : HubStreams(call', t) = HubStreams(call, t)
  BY <1>1, <1>5 DEF HubStreams
<1>7. StaysReady
  BY DEF StaysReady, MachineInv, HubTypes, SessRow
<1> QED BY <1>4, <1>6, <1>7, HubAlone

(* The stream cannot open.                                                 *)
LEMMA DispatchRefusedSafe ==
    ASSUME MachineInv, NEW c \in Calls, DispatchRefused(c)
    PROVE  MachineInv'
<1>1. /\ call[c].at = "waiting" /\ sess[call[c].sess].phase # "hello"
      /\ (call' = Closed(c, "lost") /\ UNCHANGED armed) \/ Settle(c, "lost")
      /\ UNCHANGED <<cur, opening, sess, ended, link, up, down, dmn, op>>
      /\ "lost" \in Results
  BY DEF DispatchRefused, Results
<1> QED BY <1>1, WaitingSettles

(* The request is too large: its stream is refused before it was known.    *)
LEMMA DispatchOversizeSafe ==
    ASSUME MachineInv, NEW c \in Calls, DispatchOversize(c)
    PROVE  MachineInv'
<1>0. PICK s : s = call[c].sess
  OBVIOUS
<1> DEFINE x == [call[c] EXCEPT !.at = "sent", !.sid = StreamId(s), !.sent = TRUE]
           y == [x EXCEPT !.at = "done", !.result = "lost"]
<1>1. /\ call[c].at = "waiting" /\ sess[s].phase = "ready"
      /\ call' = [Sent(c) EXCEPT ![c].at = "done", ![c].result = "lost"]
      /\ ArmIdle(call') /\ sess' = [sess EXCEPT ![s].next = @ + 1]
      /\ UNCHANGED <<cur, opening, ended, link, up, down, dmn, op>>
  BY <1>0 DEF DispatchOversize
<1>2. /\ Sent(c) = [call EXCEPT ![c] = x]
      /\ x \in CallRow /\ x.at = "sent" /\ x.sess = s /\ x.sent
      /\ x.sid = StreamId(s) /\ x.from = call[c].from
      /\ s \in Sessions /\ StreamId(s) \in Nat \ {0}
  BY <1>0, <1>1, SentRow
<1> HIDE DEF x
<1>3. y \in CallRow /\ y.at = "done" /\ y.sess = s /\ y.sent
      /\ y.sid = StreamId(s) /\ y.from = call[c].from
  BY <1>2 DEF CallRow, Results
<1>4. call' = [call EXCEPT ![c] = y] /\ call \in [Calls -> CallRow]
  BY <1>1, <1>2 DEF MachineInv, HubTypes
<1> HIDE DEF y
<1>5. HubOK' /\ Steady
  BY <1>0, <1>1, <1>2, <1>3, <1>4, CallDispatched DEF MachineInv, HubOK
<1>6. \A t \in Sessions : sess'[t].phase = sess[t].phase
                          /\ sess[t].next <= sess'[t].next
  BY <1>1, <1>2 DEF MachineInv, HubTypes, SessRow
<1>7. StaysReady
  BY <1>6 DEF StaysReady
<1>8. \A t : HubStreams(call', t) = HubStreams(call, t)
  BY <1>1, <1>3, <1>4 DEF HubStreams
<1> QED BY <1>1, <1>5, <1>6, <1>7, <1>8, HubAlone

(* A stream is given up: its cancel is written, or the session ends.       *)
LEMMA GiveUpSafe ==
    ASSUME MachineInv, NEW c \in Calls, call[c].at \in {"sent", "open"},
           NEW res \in Results, GiveUp(c, res)
    PROVE  MachineInv'
<1>0. PICK s : s = call[c].sess
  OBVIOUS
<1> DEFINE x == [call[c] EXCEPT !.at = "done", !.result = res]
           f == [k |-> "cancel", sid |-> call[c].sid]
<1>1. /\ CallOK(c) /\ sess[s].phase = "ready" /\ s \in Sessions
      /\ call[c].sid \in Nat /\ call[c].sid # 0 /\ s # 0
  <2>1. CallOK(c) /\ call[c] \in CallRow
    BY DEF MachineInv, CallsOK, HubTypes
  <2> QED BY <1>0, <2>1 DEF CallOK, CallRow, Sessions
<1>2. /\ Closed(c, res) = [call EXCEPT ![c] = x]
      /\ x \in CallRow /\ x.at = "done" /\ x.sess = s
      /\ x.sid = call[c].sid /\ x.sent = call[c].sent
      /\ x.from = call[c].from
  BY <1>0, ClosedRow
<1> HIDE DEF x
<1>3. UNCHANGED <<cur, down, dmn, op>>
  BY DEF GiveUp
<1>4. CASE Cancel(c) /\ Settle(c, res) /\ UNCHANGED <<opening, sess, ended, link>>
  <2>1. call' = [call EXCEPT ![c] = x] /\ ArmIdle(call')
    BY <1>2, <1>4 DEF Settle
  <2>2. x.from \subseteq {c}
    BY <1>1, <1>2 DEF CallOK
  <2>3. HubOK' /\ Steady
    BY <1>0, <1>1, <1>2, <1>3, <1>4, <2>1, <2>2, CallChanges DEF MachineInv, HubOK
  <2>4. \A d \in Calls : call'[d] = IF d = c THEN x ELSE call[d]
    BY <2>1 DEF MachineInv, HubTypes
  <2>5. \A t \in Sessions : \A d \in HubStreams(call, t) :
            d \in HubStreams(call', t) \/ d = c
    BY <2>4 DEF HubStreams
  <2>6. StaysReady
    BY <1>4 DEF StaysReady, MachineInv, HubTypes, SessRow
  <2>7. CASE link[s] = "closed"
    <3>1. UNCHANGED up
      BY <1>0, <1>4, <2>7 DEF Cancel, Written
    <3>2. FramesOK' /\ OpsOK' /\ QueueOrder' /\ RoomOK'
      <4>1. ASSUME NEW t \in Sessions, link[t] # "closed"
            PROVE  HubStreams(call, t) \subseteq HubStreams(call', t)
        <5>1. call[c].sess # t
          BY <1>0, <2>7, <4>1
        <5> QED BY <2>5, <5>1 DEF HubStreams
      <4> QED BY <1>3, <1>4, <2>3, <2>6, <3>1, <4>1, QuietHubStep
    <3>3. \A t \in Sessions : Handshake(t)'
      BY <1>3, <1>4, <3>1, HandshakeStays
    <3>4. DaemonTypes' /\ LinkTypes'
      BY <1>3, <1>4, <3>1 DEF MachineInv, DaemonTypes, LinkTypes
    <3> QED BY <2>3, <3>2, <3>3, <3>4 DEF MachineInv, HubOK
  <2>8. CASE link[s] # "closed"
    <3>1. f \in UpFrame /\ f.k = "cancel" /\ f.sid = call[c].sid
      BY <1>1 DEF UpFrame
    <3>2. up' = [up EXCEPT ![s] = Append(@, f)]
      BY <1>0, <1>4, <2>8 DEF Cancel, Written
    <3> HIDE DEF f
    <3>3. PICK g \in UpFrame : g = f
      BY <3>1
    <3>4. call'[c].sess = s /\ call'[c].sid = g.sid /\ call'[c].at = "done"
          /\ g.k = "cancel" /\ g.sid # 0
      BY <1>1, <1>2, <2>4, <3>1, <3>3
    <3>5. Vouched(s, g)'
      <4>1. g.sid < sess'[s].next
        BY <1>0, <1>1, <1>4, <3>1, <3>3 DEF CallOK
      <4>2. ASSUME NEW d \in Calls, call'[d].sess = s, call'[d].sid = g.sid
            PROVE  call'[d].at = "done"
        <5>1. SidsDiffer'
          BY <2>3 DEF HubOK, CallsOK
        <5>2. d = c
          BY <3>4, <4>2, <5>1 DEF SidsDiffer
        <5> QED BY <3>4, <5>2
      <4> QED BY <3>4, <4>1, <4>2 DEF Vouched
    <3>6. FramesOK' /\ OpsOK' /\ QueueOrder' /\ RoomOK'
      BY <1>1, <1>3, <1>4, <2>3, <2>5, <2>6, <2>8, <3>2, <3>3, <3>4, <3>5,
         WritingHubStep
    <3>7. /\ up' \in [Sessions -> Seq(UpFrame)]
          /\ Range(up'[s]) = Range(up[s]) \cup {g}
          /\ \A t \in Sessions : t # s => up'[t] = up[t]
      <4>1. up \in [Sessions -> Seq(UpFrame)] /\ up[s] \in Seq(UpFrame)
        BY <1>1 DEF MachineInv, LinkTypes
      <4>2. Append(up[s], g) \in Seq(UpFrame)
            /\ Range(Append(up[s], g)) = Range(up[s]) \cup {g}
        BY <4>1, Appended
      <4> QED BY <1>1, <3>2, <3>3, <4>1, <4>2
    <3>8. DaemonTypes' /\ LinkTypes'
      BY <1>3, <1>4, <3>7 DEF MachineInv, DaemonTypes, LinkTypes
    <3>9. ASSUME NEW t \in Sessions PROVE Handshake(t)'
      <4>1. CASE t = s
        BY <1>1, <1>3, <1>4, <3>4, <3>7, <4>1, HandshakeStays
      <4>2. CASE t # s
        BY <1>3, <1>4, <3>7, <4>2, HandshakeStays
      <4> QED BY <4>1, <4>2
    <3> QED BY <2>3, <3>6, <3>8, <3>9 DEF MachineInv, HubOK
  <2> QED BY <2>7, <2>8
<1>5. CASE /\ Finish(s, Closed(c, res)) /\ armed' = armed \ {cur} /\ UNCHANGED up
  <2> DEFINE calls == Closed(c, res)
  <2>1. calls = [call EXCEPT ![c] = x] /\ call \in [Calls -> CallRow]
    BY <1>2 DEF MachineInv, HubTypes
  <2> HIDE DEF calls
  <2>2. calls \in [Calls -> CallRow]
        /\ \A d \in Calls : calls[d] = IF d = c THEN x ELSE call[d]
    BY <1>2, <2>1
  <2>3. OnItsWay(s, calls)
    <3>1. \A e, d \in Calls :
          e # d /\ calls[e].sess = calls[d].sess /\ calls[e].sid = calls[d].sid =>
            calls[e].sid = 0
      BY <1>0, <1>2, <2>2 DEF MachineInv, CallsOK, SidsDiffer
    <3>2. \A d \in Calls :
            \/ calls[d] = call[d]
            \/ /\ calls[d].sess = s /\ call[d].sess = s /\ sess[s].phase = "ready"
               /\ calls[d].at = "done" /\ calls[d].from = call[d].from
               /\ calls[d].sid = call[d].sid /\ calls[d].sent = call[d].sent
      BY <1>0, <1>1, <1>2, <2>2
    <3> QED BY <2>2, <3>1, <3>2 DEF OnItsWay
  <2>4. down' \in [Sessions -> Seq(DownFrame)]
    BY <1>3 DEF MachineInv, LinkTypes
  <2>5. Finish(s, calls)
    BY <1>5 DEF calls
  <2> QED BY <1>1, <1>3, <1>5, <2>3, <2>4, <2>5, FinishStep
<1> QED BY <1>0, <1>4, <1>5 DEF GiveUp

(* A caller aborts, before or after its dispatch.                          *)
LEMMA AbortSafe ==
    ASSUME MachineInv, NEW c \in Calls, Abort(c)
    PROVE  MachineInv'
<1>1. "aborted" \in Results
  BY DEF Results
<1>2. CASE call[c].at = "sent" /\ GiveUp(c, "aborted")
  BY <1>1, <1>2, GiveUpSafe
<1>3. CASE /\ call[c].at = "waiting" /\ sess[call[c].sess].phase = "ready"
           /\ IF c \in Channels
              THEN call' = Closed(c, "aborted") /\ UNCHANGED armed
              ELSE Settle(c, "aborted")
           /\ UNCHANGED <<cur, opening, sess, ended, link, up, down, dmn, op>>
  BY <1>1, <1>3, WaitingSettles
<1> QED BY <1>2, <1>3 DEF Abort

(* A channel is closed.                                                    *)
LEMMA CloseChannelSafe ==
    ASSUME MachineInv, NEW c \in Calls, CloseChannel(c)
    PROVE  MachineInv'
<1>1. "closed" \in Results
  BY DEF Results
<1> QED BY <1>1, GiveUpSafe DEF CloseChannel

(* Nothing of the calls or the sessions changes but who is armed, current  *)
(* or announced.                                                           *)
LEMMA ConnectorAlone ==
    ASSUME MachineInv, UNCHANGED <<opening, sess, call, link, up, down, dmn, op>>,
           cur' \in 0..MaxSessions, armed' \subseteq Sessions,
           ended' \subseteq ended, LiveSessionIsCurrent',
           \A t \in Sessions :
              sess[t].phase = "ready" /\ HubStreams(call, t) = {} => t \in armed'
    PROVE  MachineInv'
<1>1. HubTypes'
  BY DEF MachineInv, HubTypes
<1>2. ConnectorOK'
  BY DEF MachineInv, ConnectorOK, HubStreams
<1>3. CallsOK'
  BY DEF MachineInv, CallsOK, CallOK, SidsDiffer
<1>4. Steady
  BY DEF Steady, MachineInv, CallsOK, CallOK
<1>5. StaysReady
  BY DEF StaysReady, MachineInv, HubTypes, SessRow
<1> QED BY <1>1, <1>2, <1>3, <1>4, <1>5, HubAlone DEF HubOK

(* The end of a session is announced, perhaps after it was replaced.       *)
LEMMA OnEndedSafe ==
    ASSUME MachineInv, NEW s \in Sessions, OnEnded(s)
    PROVE  MachineInv'
<1>1. /\ sess[s].phase = "ended" /\ cur' = (IF cur = s THEN 0 ELSE cur)
      /\ armed' = (IF cur = s THEN armed \ {s} ELSE armed)
      /\ ended' = ended \ {s}
      /\ UNCHANGED <<opening, sess, call, link, up, down, dmn, op>>
  BY DEF OnEnded, MachineInv, ConnectorOK
<1>2. cur' \in 0..MaxSessions /\ armed' \subseteq Sessions
  BY <1>1, MachineAssumption DEF MachineInv, HubTypes
<1>3. LiveSessionIsCurrent'
  BY <1>1 DEF MachineInv, ConnectorOK, LiveSessionIsCurrent
<1>4. \A t \in Sessions :
        sess[t].phase = "ready" /\ HubStreams(call, t) = {} => t \in armed'
  BY <1>1 DEF MachineInv, ConnectorOK
<1> QED BY <1>1, <1>2, <1>3, <1>4, ConnectorAlone

(* The idle timer fires: it ends an idle session, and only that.           *)
LEMMA IdleOutSafe ==
    ASSUME MachineInv, NEW s \in Sessions, IdleOut(s)
    PROVE  MachineInv'
<1>1. armed' = armed \ {s} /\ UNCHANGED <<cur, up, down, dmn, op>>
  BY DEF IdleOut
<1>2. CASE Finish(s, call)
  <2>1. down' \in [Sessions -> Seq(DownFrame)]
    BY <1>1 DEF MachineInv, LinkTypes
  <2> QED BY <1>1, <1>2, <2>1, CallsOnTheirWay, FinishStep
<1>3. CASE /\ ~(cur = s /\ HubStreams(call, s) = {} /\ sess[s].phase = "ready")
           /\ UNCHANGED <<sess, call, opening, ended, link>>
  <2>1. LiveSessionIsCurrent'
    BY <1>1, <1>3 DEF MachineInv, ConnectorOK, LiveSessionIsCurrent
  <2>2. cur' \in 0..MaxSessions /\ armed' \subseteq Sessions
    BY <1>1 DEF MachineInv, HubTypes
  <2>3. \A t \in Sessions :
        sess[t].phase = "ready" /\ HubStreams(call, t) = {} => t \in armed'
    BY <1>1, <1>3 DEF MachineInv, ConnectorOK, LiveSessionIsCurrent
  <2> QED BY <1>1, <1>3, <2>1, <2>2, <2>3, ConnectorAlone
<1> QED BY <1>2, <1>3 DEF IdleOut

(* The link ended, or nothing was heard of it for too long.                *)
LEMMA HubEndsSafe ==
    ASSUME MachineInv, NEW s \in Sessions, HubLinkEnded(s) \/ HubHeartbeatLost(s)
    PROVE  MachineInv'
<1>1. End(s, call) /\ UNCHANGED <<cur, up, down, dmn, op>>
  BY DEF HubLinkEnded, HubHeartbeatLost
<1>2. Finish(s, call) /\ armed' \in {armed, armed \ {cur}, armed \ {s}}
  BY <1>1 DEF End
<1>3. down' \in [Sessions -> Seq(DownFrame)]
  BY <1>1 DEF MachineInv, LinkTypes
<1> QED BY <1>1, <1>2, <1>3, CallsOnTheirWay, FinishStep

(* The queue a frame was taken from.                                       *)
LEMMA DownTaken ==
    ASSUME MachineInv, NEW s \in Sessions, down[s] # <<>>,
           down' = [down EXCEPT ![s] = Tail(@)]
    PROVE  /\ down' \in [Sessions -> Seq(DownFrame)]
           /\ Range(down'[s]) \subseteq Range(down[s])
           /\ \A t \in Sessions : t # s => down'[t] = down[t]
           /\ Head(down[s]) \in Range(down[s]) /\ Head(down[s]) \in DownFrame
           /\ Truthful(s, Head(down[s]))
<1>1. down \in [Sessions -> Seq(DownFrame)] /\ down[s] \in Seq(DownFrame)
  BY DEF MachineInv, LinkTypes
<1>2. Tail(down[s]) \in Seq(DownFrame) /\ Range(Tail(down[s])) \subseteq Range(down[s])
      /\ Head(down[s]) \in Range(down[s]) /\ Head(down[s]) \in DownFrame
  BY <1>1, TakenHead
<1> QED BY <1>1, <1>2 DEF MachineInv, FramesOK

(* An answer settles the call it answers, which the daemon is done with    *)
(* unless it opened a channel; one of no open stream is dropped.           *)
LEMMA HubAnswerSafe ==
    ASSUME MachineInv, NEW s \in Sessions, HubReceive(s),
           HubAnswer(s, Head(down[s]))
    PROVE  MachineInv'
<1>0. PICK f : f = Head(down[s])
  OBVIOUS
<1>1. /\ sess[s].phase \in {"hello", "ready"} /\ down[s] # <<>>
      /\ down' = [down EXCEPT ![s] = Tail(@)] /\ f.k = "answer"
      /\ UNCHANGED <<cur, up, dmn, op, sess, opening, ended, link>>
  BY <1>0 DEF HubReceive, HubAnswer
<1>2. /\ down' \in [Sessions -> Seq(DownFrame)]
      /\ Range(down'[s]) \subseteq Range(down[s])
      /\ \A t \in Sessions : t # s => down'[t] = down[t]
      /\ f \in Range(down[s]) /\ f \in DownFrame /\ Truthful(s, f)
  BY <1>0, <1>1, DownTaken
<1>3. sess[s].phase = "ready"
  <2>1. Handshake(s)
    BY DEF MachineInv
  <2>2. CASE sess[s].phase = "hello"
    <3>1. PICK r \in {"ok", "bad"} : down[s] = <<[k |-> "helloed", res |-> r]>>
      BY <1>1, <2>1, <2>2 DEF Handshake
    <3>2. f.k = "helloed"
      BY <1>0, <3>1
    <3> QED BY <1>1, <3>2
  <2> QED BY <1>1, <2>2
<1>4. DaemonTypes' /\ LinkTypes'
  BY <1>1, <1>2 DEF MachineInv, DaemonTypes, LinkTypes
<1>5. ASSUME NEW t \in Sessions PROVE Handshake(t)'
  <2>1. CASE t = s
    BY <1>1, <1>2, <1>3, <2>1, HandshakeStays
  <2>2. CASE t # s
    BY <1>1, <1>2, <2>2, HandshakeStays
  <2> QED BY <2>1, <2>2
<1>6. StaysReady
  BY <1>1 DEF StaysReady, MachineInv, HubTypes, SessRow
<1>7. \A t \in Sessions : Range(down'[t]) \subseteq Range(down[t])
  BY <1>2
<1>8. CASE UNCHANGED <<call, armed>>
  <2>1. HubOK'
    <3>1. HubTypes'
      BY <1>1, <1>8 DEF MachineInv, HubTypes
    <3>2. ConnectorOK'
      BY <1>1, <1>8 DEF MachineInv, ConnectorOK, LiveSessionIsCurrent, HubStreams
    <3>3. CallsOK'
      BY <1>1, <1>8 DEF MachineInv, CallsOK, CallOK, SidsDiffer
    <3> QED BY <3>1, <3>2, <3>3 DEF HubOK
  <2>2. Steady
    BY <1>8 DEF Steady, MachineInv, CallsOK, CallOK
  <2>3. FramesOK' /\ OpsOK' /\ QueueOrder' /\ RoomOK'
    BY <1>1, <1>6, <1>7, <1>8, <2>1, <2>2, QuietHubStep
  <2> QED BY <1>4, <1>5, <2>1, <2>3 DEF MachineInv, HubOK
<1>9. ASSUME NEW c \in Receiver(s, f),
             LET from == [call EXCEPT ![c].from = {f.call}] IN
             IF c \in Channels /\ f.res = "ok"
             THEN /\ call' = [from EXCEPT ![c].at = "open", ![c].result = "ok"]
                  /\ UNCHANGED armed
             ELSE /\ call' = [from EXCEPT ![c].at = "done", ![c].result = f.res]
                  /\ ArmIdle(call')
      PROVE  MachineInv'
  <2>1. /\ c \in Calls /\ call[c].sess = s /\ call[c].at = "sent"
        /\ call[c].sid = f.sid /\ f.call \in Calls /\ f.res \in Results
        /\ call \in [Calls -> CallRow] /\ call[c] \in CallRow
    BY <1>1, <1>2 DEF Receiver, HubStreams, DownFrame, MachineInv, HubTypes
  <2>2. f.call = c /\ op[c].at # "none"
        /\ ((c \in Channels /\ f.res = "ok") \/ ~op[c].open)
    BY <1>1, <1>2, <2>1 DEF Truthful, MachineInv, CallsOK, SidsDiffer
  <2> DEFINE stays == c \in Channels /\ f.res = "ok"
  <2>3. PICK a \in {"open", "done"}, res \in Results :
          /\ (a = "open" <=> stays)
          /\ call' = [[call EXCEPT ![c].from = {c}] EXCEPT ![c].at = a, ![c].result = res]
          /\ IF a = "open" THEN UNCHANGED armed ELSE ArmIdle(call')
    <3>1. "ok" \in Results
      BY DEF Results
    <3>2. CASE stays
      BY <1>9, <2>1, <2>2, <3>1, <3>2
    <3>3. CASE ~stays
      BY <1>9, <2>1, <2>2, <3>3
    <3> QED BY <3>2, <3>3
  <2> DEFINE x == [call[c] EXCEPT !.from = {c}, !.at = a, !.result = res]
  <2>4. call' = [call EXCEPT ![c] = x]
    BY <2>1, <2>3
  <2>5. x \in CallRow /\ x.at = a /\ x.sess = s /\ x.sid = call[c].sid
        /\ x.sent = call[c].sent /\ x.from \subseteq {c}
    BY <2>1 DEF CallRow
  <2> HIDE DEF x
  <2>6. HubOK' /\ Steady
    <3>1. \/ x.at = "done" /\ ArmIdle(call')
          \/ x.at = "open" /\ call[c].at = "sent" /\ UNCHANGED armed
      BY <2>1, <2>3, <2>5
    <3>2. HubOK /\ call[c].at # "idle" /\ sess[call[c].sess].phase # "hello"
          /\ x.sess = call[c].sess
      BY <1>3, <2>1, <2>5 DEF MachineInv, HubOK
    <3>3. UNCHANGED <<cur, opening, sess, ended>>
      BY <1>1
    <3> QED BY <2>1, <2>4, <2>5, <3>1, <3>2, <3>3, CallChanges
  <2>7. \A d \in Calls : call'[d] = IF d = c THEN x ELSE call[d]
    BY <2>1, <2>4
  <2>8. ~stays => c \notin Held(s, Len(up[s]))
    <3>1. ~Requested(s, c, Len(up[s]))
      <4> SUFFICES ASSUME NEW j \in 1..Len(up[s]), up[s][j].k = "req",
                          up[s][j].call = c
                   PROVE  FALSE
        BY DEF Requested
      <4>1. up[s] \in Seq(UpFrame)
        BY DEF MachineInv, LinkTypes
      <4>2. up[s][j] \in Range(up[s])
        BY <4>1 DEF Range
      <4>3. Vouched(s, up[s][j])
        BY <4>2 DEF MachineInv, FramesOK
      <4> QED BY <2>2, <4>3 DEF Vouched
    <3> QED BY <2>2, <3>1 DEF Held
  <2>9. \A t \in Sessions : \A d \in HubStreams(call, t) :
            d \in HubStreams(call', t) \/ d \notin Held(t, Len(up[t]))
    <3> SUFFICES ASSUME NEW t \in Sessions, NEW d \in HubStreams(call, t),
                        d \notin HubStreams(call', t)
                 PROVE  d \notin Held(t, Len(up[t]))
      OBVIOUS
    <3>1. d = c /\ t = s /\ ~stays
      BY <2>1, <2>3, <2>5, <2>7 DEF HubStreams
    <3> QED BY <2>8, <3>1
  <2>10. FramesOK' /\ OpsOK' /\ QueueOrder' /\ RoomOK'
    BY <1>1, <1>6, <1>7, <2>6, <2>9, QuietHubStep
  <2> QED BY <1>4, <1>5, <2>6, <2>10 DEF MachineInv, HubOK
<1> QED BY <1>0, <1>8, <1>9 DEF HubAnswer

(* The handshake's answer: the session is ready, with nothing on its way,  *)
(* or it ends.                                                             *)
LEMMA HubHelloSafe ==
    ASSUME MachineInv, NEW s \in Sessions, HubReceive(s), HubHello(s, Head(down[s]))
    PROVE  MachineInv'
<1>0. PICK f : f = Head(down[s])
  OBVIOUS
<1>1. /\ sess[s].phase \in {"hello", "ready"} /\ down[s] # <<>>
      /\ down' = [down EXCEPT ![s] = Tail(@)] /\ f.k = "helloed"
      /\ UNCHANGED <<cur, up, dmn, op>>
  BY <1>0 DEF HubReceive, HubHello
<1>2. /\ down' \in [Sessions -> Seq(DownFrame)]
      /\ Range(down'[s]) \subseteq Range(down[s])
      /\ \A t \in Sessions : t # s => down'[t] = down[t]
      /\ f \in Range(down[s]) /\ f \in DownFrame
  BY <1>0, <1>1, DownTaken
<1>3. Handshake(s)
  BY DEF MachineInv
<1>4. sess[s].phase = "hello"
  BY <1>1, <1>2, <1>3 DEF Handshake
<1>5. /\ down'[s] = <<>> /\ up[s] = <<>> /\ (f.res = "ok" => dmn[s].helloed)
  <2>1. PICK r \in {"ok", "bad"} :
          down[s] = <<[k |-> "helloed", res |-> r]>> /\ (r = "ok" => dmn[s].helloed)
    BY <1>1, <1>3, <1>4 DEF Handshake
  <2>2. up[s] = <<>>
    BY <1>1, <1>3, <1>4 DEF Handshake
  <2>3. f.res = r /\ Tail(down[s]) = <<>>
    BY <1>0, <2>1
  <2>4. down'[s] = Tail(down[s])
    BY <1>1 DEF MachineInv, LinkTypes
  <2> QED BY <2>1, <2>2, <2>3, <2>4
<1>6. CASE f.res # "ok"
  <2>1. End(s, call)
    BY <1>0, <1>6 DEF HubHello
  <2>2. Finish(s, call) /\ armed' \in {armed, armed \ {cur}, armed \ {s}}
    BY <2>1 DEF End
  <2> QED BY <1>1, <1>2, <2>2, CallsOnTheirWay, FinishStep
<1>7. CASE f.res = "ok"
  <2>1. /\ sess' = [sess EXCEPT ![s].phase = "ready"] /\ opening' = 0
        /\ armed' = (IF cur = s THEN armed \cup {s} ELSE armed)
        /\ UNCHANGED <<call, ended, link>>
    BY <1>0, <1>7 DEF HubHello
  <2>2. /\ sess' \in [Sessions -> SessRow]
        /\ \A t \in Sessions : sess'[t].phase = IF t = s THEN "ready" ELSE sess[t].phase
        /\ \A t \in Sessions : sess'[t].next = sess[t].next
    BY <2>1 DEF MachineInv, HubTypes, SessRow
  <2>3. cur = s /\ \A t \in Sessions : t # s => sess[t].phase \notin {"hello", "ready"}
    BY <1>4 DEF MachineInv, ConnectorOK, LiveSessionIsCurrent
  <2>4. HubTypes'
    BY <1>1, <2>1, <2>2, MachineAssumption DEF MachineInv, HubTypes
  <2>5. ConnectorOK'
    <3>1. LiveSessionIsCurrent'
      BY <1>1, <2>2, <2>3 DEF LiveSessionIsCurrent
    <3>2. \A t \in Sessions : opening' = t <=> sess'[t].phase = "hello"
      BY <2>1, <2>2, <2>3 DEF Sessions
    <3>3. \A t \in ended' : sess'[t].phase = "ended"
      BY <1>4, <2>1, <2>2 DEF MachineInv, ConnectorOK, HubTypes
    <3>4. \A t \in Sessions : sess'[t].phase = "ready" => t \in armed'
      BY <2>1, <2>2, <2>3
    <3> QED BY <3>1, <3>2, <3>3, <3>4 DEF ConnectorOK
  <2>6. CallsOK'
    <3>1. ASSUME NEW d \in Calls PROVE CallOK(d)'
      <4>1. CallOK(d) /\ call'[d] = call[d]
            /\ (call[d].sess # 0 => call[d].sess \in Sessions)
        BY <2>1 DEF MachineInv, CallsOK, HubTypes, CallRow, Sessions
      <4>2. CASE call[d].sess = s
        BY <1>4, <2>2, <4>1, <4>2 DEF CallOK
      <4>3. CASE call[d].sess # s
        BY <2>2, <4>1, <4>3 DEF CallOK
      <4> QED BY <4>2, <4>3
    <3>2. SidsDiffer'
      BY <2>1 DEF MachineInv, CallsOK, SidsDiffer
    <3> QED BY <3>1, <3>2 DEF CallsOK
  <2>7. FramesOK'
    <3>1. ASSUME NEW t \in Sessions, NEW g \in Range(up'[t]) PROVE Vouched(t, g)'
      <4>1. t # s /\ g \in Range(up[t])
        BY <1>1, <1>5, <3>1 DEF Range
      <4>2. Vouched(t, g)
        BY <4>1 DEF MachineInv, FramesOK
      <4> QED BY <1>1, <2>1, <2>2, <4>1, <4>2 DEF Vouched
    <3>2. ASSUME NEW t \in Sessions, NEW g \in Range(down'[t]) PROVE Truthful(t, g)'
      <4>1. g \in Range(down[t])
        BY <1>2, <3>2
      <4>2. Truthful(t, g)
        BY <4>1 DEF MachineInv, FramesOK
      <4> QED BY <1>1, <2>1, <4>2 DEF Truthful
    <3> QED BY <3>1, <3>2 DEF FramesOK
  <2>8. QueueOrder' /\ OpsOK'
    BY <1>1, <2>1 DEF MachineInv, QueueOrder, OpsOK, OpOK
  <2>9. RoomOK'
    <3>1. ASSUME NEW c \in Calls, call[c].sess = s PROVE ~op[c].open
      BY <1>4, <3>1 DEF MachineInv, OpsOK, OpOK, CallsOK, CallOK, Sessions
    <3>2. RoomAt(s)'
      <4>1. up'[s] = <<>> /\ DOMAIN up'[s] = {} /\ Len(up'[s]) = 0
        BY <1>1, <1>5
      <4>2. Held(s, Len(up[s]))' = {}
        BY <1>1, <2>1, <3>1, <4>1 DEF Held, Requested
      <4> QED BY <4>1, <4>2 DEF RoomAt
    <3>3. ASSUME NEW t \in Sessions, t # s PROVE RoomAt(t)'
      <4>1. RoomAt(t)
        BY DEF MachineInv, RoomOK
      <4>2. sess'[t].phase # "ready"
        BY <2>2, <2>3, <3>3
      <4>3. \A i \in DOMAIN up[t] : Held(t, i - 1)' = Held(t, i - 1)
        BY <1>1, <2>1 DEF Held, Requested, Cancelled
      <4> QED BY <1>1, <4>1, <4>2, <4>3 DEF RoomAt
    <3> QED BY <3>2, <3>3 DEF RoomOK
  <2>10. ASSUME NEW t \in Sessions PROVE Handshake(t)'
    <3>1. CASE t = s
      <4>1. Range(down'[s]) = {} /\ Range(up'[s]) = {}
        BY <1>1, <1>5 DEF Range
      <4> QED BY <1>1, <1>5, <1>7, <2>2, <3>1, <4>1 DEF Handshake
    <3>2. CASE t # s
      BY <1>1, <1>2, <2>1, <2>2, <3>2, HandshakeStays
    <3> QED BY <3>1, <3>2
  <2>11. DaemonTypes' /\ LinkTypes'
    BY <1>1, <1>2, <2>1 DEF MachineInv, DaemonTypes, LinkTypes
  <2> QED BY <2>4, <2>5, <2>6, <2>7, <2>8, <2>9, <2>10, <2>11 DEF MachineInv
<1> QED BY <1>6, <1>7

-----------------------------------------------------------------------------
(* What the daemon's steps leave of the rest.                              *)

(* The hub does not notice.                                                *)
LEMMA HubUntouched ==
    ASSUME MachineInv, UNCHANGED hubVars
    PROVE  HubTypes' /\ ConnectorOK' /\ CallsOK'
<1>1. UNCHANGED <<cur, opening, armed, sess, ended, call>>
  BY DEF hubVars
<1>2. HubTypes'
  BY <1>1 DEF MachineInv, HubTypes
<1>3. ConnectorOK'
  BY <1>1 DEF MachineInv, ConnectorOK, LiveSessionIsCurrent, HubStreams
<1>4. CallsOK'
  BY <1>1 DEF MachineInv, CallsOK, CallOK, SidsDiffer
<1> QED BY <1>2, <1>3, <1>4

(* Operations begin and streams close for good, so frames stay true.       *)
LEMMA DaemonFrames ==
    ASSUME MachineInv, UNCHANGED hubVars,
           \A s \in Sessions : dmn[s].helloed => dmn'[s].helloed,
           \A c \in Calls : op[c].at # "none" =>
                op'[c].at # "none" /\ (op'[c].open => op[c].open),
           \A s \in Sessions : \A f \in Range(up'[s]) :
                f \in Range(up[s]) /\ (f.k = "req" => op'[f.call].at = "none"),
           \A s \in Sessions : \A f \in Range(down'[s]) :
                f \in Range(down[s]) \/ Truthful(s, f)'
    PROVE  FramesOK'
<1>1. UNCHANGED <<sess, call>> /\ LinkTypes
  BY DEF hubVars, MachineInv
<1>2. ASSUME NEW s \in Sessions, NEW f \in Range(up'[s]) PROVE Vouched(s, f)'
  <2>1. f \in Range(up[s]) /\ (f.k = "req" => op'[f.call].at = "none")
    BY <1>2
  <2>2. Vouched(s, f)
    BY <2>1 DEF MachineInv, FramesOK
  <2> QED BY <1>1, <2>1, <2>2 DEF Vouched
<1>3. ASSUME NEW s \in Sessions, NEW f \in Range(down[s]) PROVE Truthful(s, f)'
  <2>1. Truthful(s, f)
    BY DEF MachineInv, FramesOK
  <2>2. f.k = "answer" => f.call \in Calls
    BY <1>1, <1>3 DEF LinkTypes, Range, DownFrame
  <2> QED BY <1>1, <2>1, <2>2 DEF Truthful
<1> QED BY <1>2, <1>3 DEF FramesOK

(* A queue nobody reads keeps its room while no stream of it opens.        *)
LEMMA RoomElsewhere ==
    ASSUME MachineInv, UNCHANGED <<hubVars>>, NEW s \in Sessions,
           up'[s] = up[s], link'[s] # "closed" => link[s] # "closed",
           \A c \in Calls : call[c].sess = s /\ op'[c].open => op[c].open
    PROVE  RoomAt(s)'
<1>1. UNCHANGED <<sess, call>> /\ RoomAt(s)
  BY DEF hubVars, MachineInv, RoomOK
<1>2. \A i \in DOMAIN up[s] : Held(s, i - 1)' \subseteq Held(s, i - 1)
  BY <1>1 DEF Held, Requested, Cancelled
<1>3. Held(s, Len(up[s]))' \subseteq Held(s, Len(up[s]))
  BY <1>1 DEF Held, Requested, Cancelled
<1>4. \A i \in DOMAIN up[s] : up[s][i].k = "req" =>
        Cardinality(Held(s, i - 1)') < MaxStreams
  <2> SUFFICES ASSUME NEW i \in DOMAIN up[s], up[s][i].k = "req"
               PROVE  Cardinality(Held(s, i - 1)') < MaxStreams
    OBVIOUS
  <2>1. Held(s, i - 1) \in SUBSET Calls
    BY DEF Held
  <2>2. Cardinality(Held(s, i - 1)) < MaxStreams
    BY <1>1 DEF RoomAt
  <2>3. Held(s, i - 1)' \in SUBSET Held(s, i - 1)
    BY <1>2
  <2> QED BY <2>1, <2>2, <2>3, RoomInPart
<1>5. HubStreams(call, s)' = HubStreams(call, s)
  BY <1>1 DEF HubStreams
<1> QED BY <1>1, <1>3, <1>4, <1>5 DEF RoomAt

(* An operation goes on, and may answer while its stream is open.          *)
LEMMA OperationMoves ==
    ASSUME MachineInv, UNCHANGED <<hubVars, link, up, dmn>>, NEW c \in Calls,
           NEW y \in OpRow, op' = [op EXCEPT ![c] = y],
           op[c].at # "none", y.at # "none", y.open => op[c].open,
           y.open => y.at # "over",
           y.proc => y.at \in {"starting", "running", "relaying", "stopping"},
           c \notin Channels =>
                /\ y.at \notin {"starting", "relaying"}
                /\ y.proc => op[c].proc \/ op[c].open,
           NEW res \in Results, res # "full",
           \/ down' = down
           \/ /\ op[c].open
              /\ down' = [down EXCEPT ![call[c].sess] = Append(@, Reply(c, res))]
              /\ (c \in Channels /\ res = "ok") \/ ~y.open
    PROVE  MachineInv'
<1>1. /\ HubTypes' /\ ConnectorOK' /\ CallsOK' /\ UNCHANGED <<sess, call>>
      /\ op \in [Calls -> OpRow] /\ OpOK(c) /\ CallOK(c) /\ call[c] \in CallRow
  BY HubUntouched DEF hubVars, MachineInv, DaemonTypes, OpsOK, CallsOK, HubTypes
<1>2. op' \in [Calls -> OpRow]
      /\ \A d \in Calls : op'[d] = IF d = c THEN y ELSE op[d]
  BY <1>1
<1>3. PICK s : s = call[c].sess
  OBVIOUS
<1>4. /\ s \in Sessions /\ s # 0 /\ call[c].sent /\ dmn[s].helloed
      /\ call[c].sid # 0 /\ call[c].sid \in Nat
      /\ sess[s].phase \in {"ready", "ended"}
  <2>1. s # 0 /\ call[c].sent /\ dmn[s].helloed
    BY <1>1, <1>3 DEF OpOK
  <2>2. s \in Sessions
    BY <1>1, <1>3, <2>1 DEF CallRow, Sessions
  <2>3. call[c].sid # 0 /\ call[c].at \notin {"idle", "waiting"}
    BY <1>1, <2>1 DEF CallOK
  <2>4. sess[s].phase \in {"new", "hello", "ready", "ended"}
    BY <2>2 DEF MachineInv, HubTypes, SessRow
  <2> QED BY <1>1, <1>3, <2>1, <2>2, <2>3, <2>4 DEF CallOK, CallRow
<1>5. OpsOK'
  <2> SUFFICES ASSUME NEW d \in Calls PROVE OpOK(d)'
    BY DEF OpsOK
  <2>1. OpOK(d)
    BY DEF MachineInv, OpsOK
  <2>2. CASE d = c
    BY <1>1, <1>2, <2>1, <2>2 DEF OpOK
  <2>3. CASE d # c
    BY <1>1, <1>2, <2>1, <2>3 DEF OpOK
  <2> QED BY <2>2, <2>3
<1>6. RoomOK'
  BY <1>2, RoomElsewhere DEF RoomOK
<1>7. QueueOrder'
  BY DEF MachineInv, QueueOrder
<1> DEFINE g == Reply(c, res)
<1>8. g \in DownFrame /\ g.k = "answer" /\ g.call = c /\ g.res = res
      /\ g.sid = call[c].sid
  BY <1>4 DEF Reply, DownFrame
<1>9. /\ down' \in [Sessions -> Seq(DownFrame)]
      /\ \A t \in Sessions : t # s => down'[t] = down[t]
      /\ \/ down' = down
         \/ /\ Range(down'[s]) = Range(down[s]) \cup {g}
            /\ (c \in Channels /\ res = "ok") \/ ~y.open
  <2>1. down \in [Sessions -> Seq(DownFrame)] /\ down[s] \in Seq(DownFrame)
    BY <1>4 DEF MachineInv, LinkTypes
  <2>2. CASE down' = down
    BY <2>1, <2>2
  <2>3. CASE /\ down' = [down EXCEPT ![s] = Append(@, g)]
             /\ (c \in Channels /\ res = "ok") \/ ~y.open
    <3> HIDE DEF g
    <3>1. Append(down[s], g) \in Seq(DownFrame)
          /\ Range(Append(down[s], g)) = Range(down[s]) \cup {g}
      BY <1>8, <2>1, Appended
    <3> QED BY <1>4, <2>1, <2>3, <3>1
  <2> QED BY <1>3, <2>2, <2>3
<1>10. FramesOK'
  <2>1. ASSUME NEW t \in Sessions, NEW f \in Range(up'[t])
        PROVE  f \in Range(up[t]) /\ (f.k = "req" => op'[f.call].at = "none")
    <3>1. f \in Range(up[t]) /\ f \in UpFrame
      BY <2>1 DEF MachineInv, LinkTypes, Range
    <3>2. Vouched(t, f)
      BY <3>1 DEF MachineInv, FramesOK
    <3>3. f.k = "req" => f.call \in Calls
      BY <3>1 DEF UpFrame
    <3> QED BY <1>2, <3>1, <3>2, <3>3 DEF Vouched
  <2>2. ASSUME NEW t \in Sessions, NEW f \in Range(down'[t])
        PROVE  f \in Range(down[t]) \/ Truthful(t, f)'
    <3>1. CASE f \in Range(down[t])
      BY <3>1
    <3>2. CASE f \notin Range(down[t])
      <4>1. t = s /\ f = g /\ ((c \in Channels /\ res = "ok") \/ ~y.open)
        BY <1>9, <2>2, <3>2
      <4> HIDE DEF g
      <4> QED BY <1>1, <1>2, <1>3, <1>4, <1>8, <4>1 DEF Truthful
    <3> QED BY <3>1, <3>2
  <2> QED BY <1>2, <2>1, <2>2, DaemonFrames
<1>11. ASSUME NEW t \in Sessions PROVE Handshake(t)'
  <2>1. Handshake(t)
    BY DEF MachineInv
  <2>2. CASE t # s \/ down' = down
    BY <1>1, <1>9, <2>1, <2>2 DEF Handshake
  <2>3. CASE t = s /\ Range(down'[s]) = Range(down[s]) \cup {g}
    <3> HIDE DEF g
    <3> QED BY <1>1, <1>4, <1>8, <2>1, <2>3 DEF Handshake
  <2> QED BY <1>9, <2>2, <2>3
<1>12. DaemonTypes' /\ LinkTypes'
  BY <1>2, <1>9 DEF MachineInv, DaemonTypes, LinkTypes
<1> QED BY <1>1, <1>5, <1>6, <1>7, <1>10, <1>11, <1>12 DEF MachineInv

(* What closing a stream's signal makes of an operation.                   *)
LEMMA AbortedRow ==
    ASSUME NEW o \in OpRow
    PROVE  /\ Aborted(o) \in OpRow /\ ~Aborted(o).open
           /\ Aborted(o).proc = o.proc /\ Aborted(o).effect = o.effect
           /\ Aborted(o).at = IF o.at \in {"running", "relaying"} THEN "stopping"
                              ELSE o.at
BY DEF Aborted, OpRow

(* The steps of an operation that answer nothing.                          *)
LEMMA OperationSafe ==
    ASSUME MachineInv, NEW c \in Calls,
           BudgetExpires(c) \/ Start(c) \/ StartServer(c) \/ ServerDies(c)
           \/ RelayClosed(c)
    PROVE  MachineInv'
<1>1. /\ op[c] \in OpRow /\ OpOK(c) /\ op \in [Calls -> OpRow]
      /\ "ok" \in Results
  BY DEF MachineInv, DaemonTypes, OpsOK, Results
<1>2. CASE BudgetExpires(c)
  <2> DEFINE a == IF op[c].at = "running" THEN "stopping" ELSE op[c].at
             y == [op[c] EXCEPT !.expired = TRUE, !.at = a]
  <2>1. a \in {"checking", "starting", "stopping"} /\ op[c].open
        /\ (op[c].at = "running" => a = "stopping")
        /\ (op[c].at # "running" => a = op[c].at)
    BY <1>2 DEF BudgetExpires
  <2>2. op' = [op EXCEPT ![c] = y]
    BY <1>1, <1>2 DEF BudgetExpires
  <2> HIDE DEF a
  <2>3. y \in OpRow /\ y.at = a /\ y.open = op[c].open /\ y.proc = op[c].proc
    BY <1>1, <2>1 DEF OpRow
  <2> HIDE DEF y
  <2>4. UNCHANGED <<hubVars, link, up, down, dmn>> /\ op[c].at # "none"
    BY <1>2 DEF BudgetExpires
  <2>5. /\ y.proc => y.at \in {"starting", "running", "relaying", "stopping"}
        /\ c \notin Channels => y.at \notin {"starting", "relaying"}
    BY <1>1, <2>1, <2>3 DEF OpOK
  <2> QED BY <1>1, <2>1, <2>2, <2>3, <2>4, <2>5, OperationMoves
<1>3. CASE Start(c)
  <2> DEFINE y == [op[c] EXCEPT !.at = "running", !.effect = TRUE, !.proc = TRUE]
  <2>1. op' = [op EXCEPT ![c] = y] /\ op[c].at = "checking" /\ op[c].open
        /\ UNCHANGED <<hubVars, link, up, down, dmn>>
    BY <1>1, <1>3 DEF Start
  <2>2. y \in OpRow /\ y.at = "running" /\ y.open = op[c].open
    BY <1>1 DEF OpRow
  <2> HIDE DEF y
  <2> QED BY <1>1, <2>1, <2>2, OperationMoves
<1>4. CASE StartServer(c)
  <2> DEFINE y == [op[c] EXCEPT !.at = "starting", !.effect = TRUE, !.proc = TRUE]
  <2>1. op' = [op EXCEPT ![c] = y] /\ op[c].at = "checking" /\ c \in Channels
        /\ UNCHANGED <<hubVars, link, up, down, dmn>>
    BY <1>1, <1>4 DEF StartServer
  <2>2. y \in OpRow /\ y.at = "starting" /\ y.open = op[c].open
    BY <1>1 DEF OpRow
  <2> HIDE DEF y
  <2> QED BY <1>1, <2>1, <2>2, OperationMoves
<1>5. CASE ServerDies(c)
  <2> DEFINE y == [op[c] EXCEPT !.at = "stopping", !.proc = FALSE]
  <2>1. op' = [op EXCEPT ![c] = y] /\ op[c].at = "relaying"
        /\ UNCHANGED <<hubVars, link, up, down, dmn>>
    BY <1>1, <1>5 DEF ServerDies
  <2>2. y \in OpRow /\ y.at = "stopping" /\ y.open = op[c].open /\ ~y.proc
    BY <1>1 DEF OpRow
  <2> HIDE DEF y
  <2> QED BY <1>1, <2>1, <2>2, OperationMoves
<1>6. CASE RelayClosed(c)
  <2> DEFINE y == [op[c] EXCEPT !.at = "over", !.open = FALSE, !.proc = FALSE]
  <2>1. op' = [op EXCEPT ![c] = y] /\ op[c].at = "stopping"
        /\ UNCHANGED <<hubVars, link, up, down, dmn>>
    BY <1>1, <1>6 DEF RelayClosed
  <2>2. y \in OpRow /\ y.at = "over" /\ ~y.open /\ ~y.proc
    BY <1>1 DEF OpRow
  <2> HIDE DEF y
  <2> QED BY <1>1, <2>1, <2>2, OperationMoves
<1> QED BY <1>2, <1>3, <1>4, <1>5, <1>6

(* The steps of an operation that answer, and all but one that close.      *)
LEMMA AnswerSafe ==
    ASSUME MachineInv, NEW c \in Calls,
           Refused(c) \/ Complete(c) \/ Published(c) \/ StartFails(c)
    PROVE  MachineInv'
<1>1. /\ op[c] \in OpRow /\ OpOK(c) /\ op \in [Calls -> OpRow]
  BY DEF MachineInv, DaemonTypes, OpsOK
<1>2. UNCHANGED <<hubVars, link, up, dmn>>
  BY DEF Refused, Complete, Published, StartFails
<1>3. CASE Refused(c) \/ Complete(c) \/ StartFails(c)
  <2> DEFINE y == [op[c] EXCEPT !.at = "over", !.open = FALSE, !.proc = FALSE]
             z == [op[c] EXCEPT !.at = "over", !.open = FALSE]
  <2>1. PICK res \in Results \ {"full"} : Answer(c, res)
    <3>1. {"budget", "refused", "ok", "internal"} \subseteq Results \ {"full"}
      BY DEF Results
    <3> QED BY <1>3, <3>1 DEF Refused, Complete, StartFails
  <2>2. op[c].at # "none" /\ (op' = [op EXCEPT ![c] = y]
            \/ (op' = [op EXCEPT ![c] = z] /\ op[c].at = "checking"))
    BY <1>1, <1>3 DEF Refused, Complete, StartFails
  <2>3. y \in OpRow /\ y.at = "over" /\ ~y.open /\ ~y.proc
    BY <1>1 DEF OpRow
  <2>4. z \in OpRow /\ z.at = "over" /\ ~z.open /\ z.proc = op[c].proc
    BY <1>1 DEF OpRow
  <2> HIDE DEF y, z
  <2>5. op[c].at = "checking" => ~op[c].proc
    BY <1>1 DEF OpOK
  <2>6. \/ down' = down
        \/ /\ op[c].open
           /\ down' = [down EXCEPT ![call[c].sess] = Append(@, Reply(c, res))]
    BY <2>1 DEF Answer
  <2>7. PICK x \in OpRow : op' = [op EXCEPT ![c] = x] /\ x.at = "over" /\ ~x.open
                           /\ ~x.proc
    BY <2>2, <2>3, <2>4, <2>5
  <2> QED BY <1>1, <1>2, <2>1, <2>2, <2>6, <2>7, OperationMoves
<1>4. CASE Published(c)
  <2> DEFINE q == [op[c] EXCEPT !.at = "relaying"]
             keeps == op[c].open /\ ~op[c].expired
             y == IF keeps THEN q ELSE Aborted(q)
             res == IF op[c].expired THEN "budget" ELSE "ok"
  <2>1. op' = [op EXCEPT ![c] = y] /\ op[c].at = "starting" /\ Answer(c, res)
    BY <1>4 DEF Published
  <2>2. q \in OpRow /\ q.at = "relaying" /\ q.open = op[c].open
        /\ q.proc = op[c].proc
    BY <1>1 DEF OpRow
  <2>3. c \in Channels
    BY <1>1, <2>1 DEF OpOK
  <2> HIDE DEF q
  <2>4. Aborted(q) \in OpRow /\ ~Aborted(q).open /\ Aborted(q).at = "stopping"
    BY <2>2, AbortedRow
  <2>5. y \in OpRow /\ y.at \in {"relaying", "stopping"} /\ (y.open => op[c].open)
        /\ (res = "ok" \/ ~y.open) /\ res \in Results /\ res # "full"
    BY <2>2, <2>4 DEF Results
  <2>6. \/ down' = down
        \/ /\ op[c].open
           /\ down' = [down EXCEPT ![call[c].sess] = Append(@, Reply(c, res))]
    BY <2>1 DEF Answer
  <2> HIDE DEF y, res
  <2>7. PICK r \in Results : r = res
    BY <2>5
  <2> QED BY <1>1, <1>2, <2>1, <2>3, <2>5, <2>6, <2>7, OperationMoves
<1> QED BY <1>3, <1>4

-----------------------------------------------------------------------------
(* The daemon's session.                                                   *)

(* A session ends, and everything still at work in it is waited for.       *)
LEMMA EndSessionSafe ==
    ASSUME MachineInv, NEW s \in Sessions, EndSession(s)
    PROVE  MachineInv'
<1>1. /\ dmn[s].phase = "serving" /\ UNCHANGED <<hubVars, link, up, down>>
      /\ dmn' = [dmn EXCEPT ![s].phase = "ended", ![s].waits = Tracked(s)]
      /\ op' = [c \in Calls |-> IF call[c].sess = s THEN Aborted(op[c]) ELSE op[c]]
  BY DEF EndSession
<1>2. /\ HubTypes' /\ ConnectorOK' /\ CallsOK' /\ UNCHANGED <<sess, call>>
  BY <1>1, HubUntouched DEF hubVars
<1>3. Tracked(s) \subseteq Calls
  BY DEF Tracked
<1>4. /\ dmn' \in [Sessions -> DmnRow] /\ dmn'[s].phase = "ended"
      /\ dmn'[s].waits = Tracked(s)
      /\ \A t \in Sessions : dmn'[t].helloed = dmn[t].helloed
      /\ \A t \in Sessions : t # s => dmn'[t] = dmn[t]
  BY <1>1, <1>3 DEF MachineInv, DaemonTypes, DmnRow
<1>5. ASSUME NEW c \in Calls
      PROVE  /\ op[c] \in OpRow /\ op'[c] \in OpRow
             /\ op'[c].open => op[c].open
             /\ op'[c].proc = op[c].proc /\ op'[c].effect = op[c].effect
             /\ call[c].sess = s => ~op'[c].open
             /\ call[c].sess # s => op'[c] = op[c]
             /\ op'[c].at = IF call[c].sess = s /\ op[c].at \in {"running", "relaying"}
                            THEN "stopping" ELSE op[c].at
  <2>1. op[c] \in OpRow
    BY DEF MachineInv, DaemonTypes
  <2> QED BY <1>1, <2>1, AbortedRow
<1>6. DaemonTypes' /\ LinkTypes'
  BY <1>1, <1>4, <1>5 DEF MachineInv, DaemonTypes, LinkTypes
<1>7. OpsOK'
  <2> SUFFICES ASSUME NEW c \in Calls PROVE OpOK(c)'
    BY DEF OpsOK
  <2>1. OpOK(c) /\ (call[c].sess # 0 => call[c].sess \in Sessions)
    BY DEF MachineInv, OpsOK, HubTypes, CallRow, Sessions
  <2>2. CASE call[c].sess = s
    <3>1. op[c].proc /\ c \notin Channels => c \in Tracked(s)
      BY <2>1, <2>2 DEF OpOK, Tracked
    <3> QED BY <1>2, <1>4, <1>5, <2>1, <2>2, <3>1 DEF OpOK
  <2>3. CASE call[c].sess # s
    BY <1>2, <1>4, <1>5, <2>1, <2>3 DEF OpOK
  <2> QED BY <2>2, <2>3
<1>8. FramesOK'
  <2>1. ASSUME NEW t \in Sessions, NEW f \in Range(up'[t])
        PROVE  f \in Range(up[t]) /\ (f.k = "req" => op'[f.call].at = "none")
    <3>1. f \in Range(up[t]) /\ f \in UpFrame
      BY <1>1, <2>1 DEF MachineInv, LinkTypes, Range
    <3>2. Vouched(t, f)
      BY <3>1 DEF MachineInv, FramesOK
    <3>3. f.k = "req" => f.call \in Calls
      BY <3>1 DEF UpFrame
    <3> QED BY <1>5, <3>1, <3>2, <3>3 DEF Vouched
  <2> QED BY <1>1, <1>4, <1>5, <2>1, DaemonFrames
<1>9. QueueOrder' /\ RoomOK'
  <2>1. QueueOrder'
    BY <1>1 DEF MachineInv, QueueOrder
  <2>2. RoomOK'
    BY <1>1, <1>5, RoomElsewhere DEF RoomOK
  <2> QED BY <2>1, <2>2
<1>10. ASSUME NEW t \in Sessions PROVE Handshake(t)'
  <2>1. Handshake(t)
    BY DEF MachineInv
  <2>2. CASE t = s
    BY <1>1, <1>2, <1>4, <2>1, <2>2 DEF Handshake
  <2>3. CASE t # s
    BY <1>1, <1>2, <1>4, <2>1, <2>3 DEF Handshake
  <2> QED BY <2>2, <2>3
<1> QED BY <1>2, <1>6, <1>7, <1>8, <1>9, <1>10 DEF MachineInv

(* The daemon is done when everything it waited for is over.               *)
LEMMA DaemonDoneSafe ==
    ASSUME MachineInv, NEW s \in Sessions, DaemonDone(s)
    PROVE  MachineInv'
<1>1. /\ dmn[s].phase = "ended" /\ UNCHANGED <<hubVars, link, up, down, op>>
      /\ \A c \in dmn[s].waits : op[c].at = "over"
      /\ dmn' = [dmn EXCEPT ![s].phase = "done"]
  BY DEF DaemonDone
<1>2. /\ HubTypes' /\ ConnectorOK' /\ CallsOK' /\ UNCHANGED <<sess, call>>
  BY <1>1, HubUntouched DEF hubVars
<1>3. /\ dmn' \in [Sessions -> DmnRow] /\ dmn'[s].phase = "done"
      /\ \A t \in Sessions : dmn'[t].helloed = dmn[t].helloed
      /\ \A t \in Sessions : t # s => dmn'[t] = dmn[t]
  BY <1>1 DEF MachineInv, DaemonTypes, DmnRow
<1>4. DaemonTypes' /\ LinkTypes'
  BY <1>1, <1>3 DEF MachineInv, DaemonTypes, LinkTypes
<1>5. OpsOK'
  <2> SUFFICES ASSUME NEW c \in Calls PROVE OpOK(c)'
    BY DEF OpsOK
  <2>1. OpOK(c) /\ (call[c].sess # 0 => call[c].sess \in Sessions)
    BY DEF MachineInv, OpsOK, HubTypes, CallRow, Sessions
  <2>2. CASE call[c].sess = s
    <3>1. c \notin Channels => ~op[c].proc
      BY <1>1, <2>1, <2>2 DEF OpOK, Sessions
    <3> QED BY <1>1, <1>2, <1>3, <2>1, <2>2, <3>1 DEF OpOK
  <2>3. CASE call[c].sess # s
    BY <1>1, <1>2, <1>3, <2>1, <2>3 DEF OpOK
  <2> QED BY <2>2, <2>3
<1>6. FramesOK'
  <2>1. \A t \in Sessions : \A f \in Range(up[t]) :
            f.k = "req" => op[f.call].at = "none"
    BY DEF MachineInv, FramesOK, Vouched
  <2> QED BY <1>1, <1>3, <2>1, DaemonFrames
<1>7. QueueOrder' /\ RoomOK'
  <2>1. QueueOrder'
    BY <1>1 DEF MachineInv, QueueOrder
  <2>2. RoomOK'
    BY <1>1, RoomElsewhere DEF RoomOK
  <2> QED BY <2>1, <2>2
<1>8. ASSUME NEW t \in Sessions PROVE Handshake(t)'
  <2>1. Handshake(t)
    BY DEF MachineInv
  <2>2. CASE t = s
    BY <1>1, <1>2, <1>3, <2>1, <2>2 DEF Handshake
  <2>3. CASE t # s
    BY <1>1, <1>2, <1>3, <2>1, <2>3 DEF Handshake
  <2> QED BY <2>2, <2>3
<1> QED BY <1>2, <1>4, <1>5, <1>6, <1>7, <1>8 DEF MachineInv

(* A link goes silent or ends.                                             *)
LEMMA LinkSafe ==
    ASSUME MachineInv, NEW s \in Sessions, LinkSilent(s) \/ LinkCloses(s)
    PROVE  MachineInv'
<1>1. /\ UNCHANGED <<hubVars, up, down, dmn, op>> /\ link[s] = "up"
      /\ link' \in [Sessions -> {"up", "silent", "closed"}]
      /\ \A t \in Sessions : link[t] = "closed" => link'[t] = "closed"
  BY DEF LinkSilent, LinkCloses, MachineInv, LinkTypes
<1>2. /\ HubTypes' /\ ConnectorOK' /\ CallsOK' /\ UNCHANGED <<sess, call>>
  BY <1>1, HubUntouched DEF hubVars
<1>3. DaemonTypes' /\ LinkTypes'
  BY <1>1 DEF MachineInv, DaemonTypes, LinkTypes
<1>4. OpsOK' /\ QueueOrder' /\ FramesOK'
  BY <1>1, <1>2 DEF MachineInv, OpsOK, OpOK, QueueOrder, FramesOK, Vouched, Truthful
<1>5. RoomOK'
  BY <1>1, RoomElsewhere DEF RoomOK
<1>6. ASSUME NEW t \in Sessions PROVE Handshake(t)'
  BY <1>1, <1>2 DEF MachineInv, Handshake
<1> QED BY <1>2, <1>3, <1>4, <1>5, <1>6 DEF MachineInv

-----------------------------------------------------------------------------
(* The daemon reads its queue.                                             *)

(* What the frame read vouches for, and that the rest keeps its order: no  *)
(* request after the cancel of its stream.                                 *)
LEMMA UpTaken ==
    ASSUME MachineInv, NEW s \in Sessions, up[s] # <<>>, NEW f,
           f = Head(up[s]), up' = [up EXCEPT ![s] = Tail(@)]
    PROVE  /\ up' \in [Sessions -> Seq(UpFrame)]
           /\ \A t \in Sessions : t # s => up'[t] = up[t]
           /\ \A t \in Sessions : Range(up'[t]) \subseteq Range(up[t])
           /\ f \in UpFrame /\ f \in Range(up[s]) /\ Vouched(s, f)
           /\ f = up[s][1] /\ Len(up[s]) \in Nat \ {0}
           /\ Len(up'[s]) = Len(up[s]) - 1
           /\ DOMAIN up[s] = 1..Len(up[s]) /\ DOMAIN up'[s] = 1..(Len(up[s]) - 1)
           /\ \A i \in 1..(Len(up[s]) - 1) : up'[s][i] = up[s][i + 1]
           /\ \A i \in 1..Len(up[s]) : up[s][i] \in UpFrame /\ Vouched(s, up[s][i])
           /\ QueueOrder'
           /\ \A i \in 2..Len(up[s]) :
                f.k = "cancel" /\ up[s][i].k = "req" => up[s][i].sid # f.sid
<1>1. up \in [Sessions -> Seq(UpFrame)] /\ up[s] \in Seq(UpFrame)
  BY DEF MachineInv, LinkTypes
<1>2. /\ Tail(up[s]) \in Seq(UpFrame) /\ Len(up[s]) \in Nat \ {0}
      /\ Len(Tail(up[s])) = Len(up[s]) - 1
      /\ DOMAIN up[s] = 1..Len(up[s]) /\ DOMAIN Tail(up[s]) = 1..(Len(up[s]) - 1)
      /\ f = up[s][1] /\ f \in UpFrame /\ f \in Range(up[s])
      /\ \A i \in 1..(Len(up[s]) - 1) : Tail(up[s])[i] = up[s][i + 1]
      /\ Range(Tail(up[s])) \subseteq Range(up[s])
  BY <1>1, TakenHead
<1>3. /\ up' \in [Sessions -> Seq(UpFrame)] /\ up'[s] = Tail(up[s])
      /\ \A t \in Sessions : t # s => up'[t] = up[t]
  BY <1>1, <1>2
<1>4. \A i \in 1..Len(up[s]) : up[s][i] \in UpFrame /\ Vouched(s, up[s][i])
  BY <1>1, <1>2 DEF MachineInv, FramesOK, Range
<1>5. QueueOrder'
  <2> SUFFICES ASSUME NEW t \in Sessions, NEW i \in DOMAIN up'[t],
                      NEW j \in DOMAIN up'[t],
                      up'[t][i].k = "req", up'[t][j].k \in {"req", "cancel"},
                      up'[t][i].sid = up'[t][j].sid
               PROVE  i = j \/ (i < j /\ up'[t][j].k = "cancel")
    BY DEF QueueOrder
  <2>1. CASE t # s
    BY <1>3, <2>1 DEF MachineInv, QueueOrder
  <2>2. CASE t = s
    <3>1. /\ i \in 1..(Len(up[s]) - 1) /\ j \in 1..(Len(up[s]) - 1)
          /\ i + 1 \in DOMAIN up[s] /\ j + 1 \in DOMAIN up[s]
          /\ up'[s][i] = up[s][i + 1] /\ up'[s][j] = up[s][j + 1]
      BY <1>2, <1>3, <2>2
    <3>2. i + 1 = j + 1 \/ (i + 1 < j + 1 /\ up[s][j + 1].k = "cancel")
      BY <2>2, <3>1 DEF MachineInv, QueueOrder
    <3> QED BY <2>2, <3>1, <3>2
  <2> QED BY <2>1, <2>2
<1>6. ASSUME NEW i \in 2..Len(up[s])
      PROVE  f.k = "cancel" /\ up[s][i].k = "req" => up[s][i].sid # f.sid
  <2>1. i \in DOMAIN up[s] /\ 1 \in DOMAIN up[s] /\ i # 1 /\ ~(i < 1)
        /\ f = up[s][1]
    BY <1>2
  <2> QED BY <2>1 DEF MachineInv, QueueOrder
<1>7. Vouched(s, f)
  BY <1>2, <1>4
<1> QED BY <1>2, <1>3, <1>4, <1>5, <1>6, <1>7

(* A request that is read leaves no other of its call behind.              *)
LEMMA RequestOnce ==
    ASSUME MachineInv, NEW s \in Sessions, up[s] # <<>>, NEW f,
           f = Head(up[s]), up' = [up EXCEPT ![s] = Tail(@)],
           NEW g \in Range(up'[s])
    PROVE  f.k = "req" /\ g.k = "req" => g.call # f.call
<1>1. PICK n \in Nat \ {0} : n = Len(up[s])
  BY UpTaken
<1>2. /\ DOMAIN up'[s] = 1..(n - 1)
      /\ \A i \in 1..(n - 1) : up'[s][i] = up[s][i + 1]
  BY <1>1, UpTaken
<1>3. DOMAIN up[s] = 1..n /\ f = up[s][1] /\ Vouched(s, f)
      /\ \A i \in 1..n : Vouched(s, up[s][i])
  BY <1>1, UpTaken
<1>4. PICK i \in 1..(n - 1) : g = up'[s][i]
  BY <1>2 DEF Range
<1>5. PICK j \in 1..n : j = i + 1
  OBVIOUS
<1>6. g = up[s][j] /\ 1 \in 1..n /\ j # 1 /\ Vouched(s, g)
  BY <1>2, <1>3, <1>4, <1>5
<1>7. f.k = "req" /\ g.k = "req" => g.sid # f.sid
  BY <1>3, <1>6 DEF MachineInv, QueueOrder
<1> QED BY <1>3, <1>6, <1>7 DEF Vouched

(* The request of this call.                                               *)
Asked(f, d) == f.k = "req" /\ f.call = d

(* The streams a frame read opens or closes were counted by the queue.     *)
LEMMA RoomTaken ==
    ASSUME MachineInv, NEW s \in Sessions, up[s] # <<>>, NEW f,
           f = Head(up[s]), up' = [up EXCEPT ![s] = Tail(@)],
           UNCHANGED <<hubVars, link>>,
           \A d \in Calls : call[d].sess = s /\ op'[d].open =>
                /\ op[d].open \/ Asked(f, d)
                /\ f.k = "cancel" => call[d].sid # f.sid
    PROVE  RoomAt(s)'
<1>1. UNCHANGED <<sess, call>> /\ RoomAt(s)
  BY DEF hubVars, MachineInv, RoomOK
<1>2. PICK n \in Nat \ {0} : n = Len(up[s])
  BY UpTaken
<1>3. /\ f = up[s][1] /\ Len(up'[s]) = n - 1 /\ DOMAIN up[s] = 1..n
      /\ DOMAIN up'[s] = 1..(n - 1)
      /\ \A i \in 1..(n - 1) : up'[s][i] = up[s][i + 1]
      /\ \A i \in 1..n : Vouched(s, up[s][i])
      /\ \A i \in 2..n :
            f.k = "cancel" /\ up[s][i].k = "req" => up[s][i].sid # f.sid
  BY <1>2, UpTaken
<1>4. ASSUME NEW m \in 0..(n - 1) PROVE Held(s, m)' \subseteq Held(s, m + 1)
  <2> SUFFICES ASSUME NEW d \in Held(s, m)' PROVE d \in Held(s, m + 1)
    OBVIOUS
  <2>1. /\ d \in Calls
        /\ (call[d].sess = s /\ op'[d].open)
           \/ (\E j \in 1..m : up'[s][j].k = "req" /\ up'[s][j].call = d)
        /\ ~\E j \in 1..m : up'[s][j].k = "cancel" /\ up'[s][j].sid = call[d].sid
    BY <1>1 DEF Held, Requested, Cancelled
  <2>2. \A j \in 1..m : j \in 1..(n - 1) /\ j + 1 \in 2..n /\ j + 1 \in 1..(m + 1)
            /\ up'[s][j] = up[s][j + 1]
    BY <1>3
  <2>3. 1 \in 1..(m + 1) /\ \A j \in 1..(m + 1) : j = 1 \/ j - 1 \in 1..m
    OBVIOUS
  <2>4. (call[d].sess = s /\ op[d].open) \/ Requested(s, d, m + 1)
    BY <1>3, <2>1, <2>2, <2>3 DEF Requested, Asked
  <2>5. ~Cancelled(s, d, m + 1)
    <3> SUFFICES ASSUME NEW j \in 1..(m + 1), up[s][j].k = "cancel",
                        up[s][j].sid = call[d].sid
                 PROVE  FALSE
      BY DEF Cancelled
    <3>1. CASE j # 1
      <4>1. j - 1 \in 1..m /\ up'[s][j - 1] = up[s][(j - 1) + 1]
        BY <2>2, <2>3, <3>1
      <4>2. (j - 1) + 1 = j
        OBVIOUS
      <4>3. up'[s][j - 1] = up[s][j]
        BY <4>1, <4>2
      <4>4. PICK l \in 1..m : l = j - 1
        BY <4>1
      <4>5. up'[s][l].k = "cancel" /\ up'[s][l].sid = call[d].sid
        BY <4>3, <4>4
      <4> HIDE <4>4
      <4> QED BY <2>1, <4>5
    <3>2. CASE j = 1
      <4>1. f.k = "cancel" /\ f.sid = call[d].sid
        BY <1>3, <3>2
      <4>2. PICK i \in 1..m : up'[s][i].k = "req" /\ up'[s][i].call = d
        BY <2>1, <4>1
      <4>3. i + 1 \in 2..n /\ i + 1 \in 1..n /\ up'[s][i] = up[s][i + 1]
        <5>1. i + 1 \in 2..n /\ up'[s][i] = up[s][i + 1]
          BY <2>2
        <5>2. i + 1 \in 1..n
          BY <5>1
        <5> QED BY <5>1, <5>2
      <4>4. Vouched(s, up[s][i + 1])
        BY <1>3, <4>3
      <4>5. up[s][i + 1].sid = call[d].sid
        BY <4>2, <4>3, <4>4 DEF Vouched
      <4> QED BY <1>3, <4>1, <4>2, <4>3, <4>5
    <3> QED BY <3>1, <3>2
  <2> QED BY <2>1, <2>4, <2>5 DEF Held
<1>5. ASSUME NEW i \in DOMAIN up'[s], up'[s][i].k = "req"
      PROVE  Cardinality(Held(s, i - 1)') < MaxStreams
  <2>1. i - 1 \in 0..(n - 1) /\ (i - 1) + 1 = (i + 1) - 1 /\ i + 1 \in DOMAIN up[s]
        /\ up'[s][i] = up[s][i + 1]
    BY <1>3
  <2>2. Cardinality(Held(s, (i + 1) - 1)) < MaxStreams
    BY <1>1, <1>5, <2>1 DEF RoomAt
  <2>3. Held(s, i - 1)' \in SUBSET Held(s, (i + 1) - 1)
    BY <1>4, <2>1
  <2>4. Held(s, (i + 1) - 1) \in SUBSET Calls
    BY DEF Held
  <2> QED BY <2>2, <2>3, <2>4, RoomInPart
<1>6. Held(s, n - 1)' \subseteq Held(s, n)
  <2>1. n - 1 \in 0..(n - 1) /\ (n - 1) + 1 = n
    OBVIOUS
  <2> QED BY <1>4, <2>1
<1>7. HubStreams(call, s)' = HubStreams(call, s)
  BY <1>1 DEF HubStreams
<1>8. Held(s, Len(up[s]))' = Held(s, n - 1)'
  BY <1>3 DEF Held, Requested, Cancelled
<1> QED BY <1>1, <1>2, <1>5, <1>6, <1>7, <1>8 DEF RoomAt

(* What reading a frame leaves to be shown, whatever the frame is.         *)
LEMMA FrameRead ==
    ASSUME MachineInv, NEW s \in Sessions, NEW f, f = Head(up[s]),
           up[s] # <<>>, up' = [up EXCEPT ![s] = Tail(@)],
           UNCHANGED <<hubVars, link>>, DaemonTypes',
           down' \in [Sessions -> Seq(DownFrame)],
           \A t \in Sessions : t # s => down'[t] = down[t] /\ dmn'[t] = dmn[t],
           dmn[s].helloed => dmn'[s].helloed,
           \A d \in Calls : call[d].sess # s => op'[d] = op[d],
           \A d \in Calls : call[d].sess = s /\ op'[d].open =>
                /\ op[d].open \/ Asked(f, d)
                /\ f.k = "cancel" => call[d].sid # f.sid,
           \A d \in Calls : op[d].at # "none" => op'[d].at # "none",
           \A d \in Calls : op[d].at = "none" /\ op'[d].at # "none" =>
                Asked(f, d),
           \A g \in Range(down'[s]) : g \in Range(down[s]) \/ Truthful(s, g)',
           \A d \in Calls : call[d].sess = s => OpOK(d)', Handshake(s)'
    PROVE  MachineInv'
<1>1. /\ HubTypes' /\ ConnectorOK' /\ CallsOK'
      /\ UNCHANGED <<cur, opening, armed, sess, ended, call>>
  BY HubUntouched DEF hubVars
<1>2. /\ up' \in [Sessions -> Seq(UpFrame)]
      /\ \A t \in Sessions : t # s => up'[t] = up[t]
      /\ \A t \in Sessions : Range(up'[t]) \subseteq Range(up[t])
      /\ f \in UpFrame /\ Vouched(s, f) /\ QueueOrder'
  BY UpTaken
<1>3. LinkTypes'
  BY <1>2 DEF MachineInv, LinkTypes
<1>4. ASSUME NEW t \in Sessions, NEW g \in Range(up'[t])
      PROVE  g \in Range(up[t]) /\ (g.k = "req" => op'[g.call].at = "none")
  <2>1. g \in Range(up[t]) /\ g \in UpFrame
    BY <1>2, <1>4 DEF MachineInv, LinkTypes, Range
  <2>2. Vouched(t, g)
    BY <2>1 DEF MachineInv, FramesOK
  <2>3. g.k = "req" => g.call \in Calls /\ op[g.call].at = "none"
                       /\ call[g.call].sess = t
    BY <2>1, <2>2 DEF UpFrame, Vouched
  <2>4. ASSUME g.k = "req", f.k = "req", f.call = g.call PROVE FALSE
    <3>1. t = s
      BY <1>2, <2>3, <2>4 DEF Vouched
    <3> QED BY <1>4, <2>4, <3>1, RequestOnce
  <2> QED BY <2>1, <2>3, <2>4 DEF Asked
<1>5. FramesOK'
  <2>1. ASSUME NEW d \in Calls, op[d].at # "none", op'[d].open PROVE op[d].open
    <3>1. CASE call[d].sess = s
      <4>1. f.k = "req" => op[f.call].at = "none"
        BY <1>2 DEF Vouched
      <4> QED BY <2>1, <3>1, <4>1 DEF Asked
    <3>2. CASE call[d].sess # s
      BY <2>1, <3>2
    <3> QED BY <3>1, <3>2
  <2>2. \A t \in Sessions : dmn[t].helloed => dmn'[t].helloed
    OBVIOUS
  <2>3. \A t \in Sessions : \A g \in Range(down'[t]) :
            g \in Range(down[t]) \/ Truthful(t, g)'
    OBVIOUS
  <2> QED BY <1>4, <2>1, <2>2, <2>3, DaemonFrames
<1>6. OpsOK'
  <2> SUFFICES ASSUME NEW d \in Calls PROVE OpOK(d)'
    BY DEF OpsOK
  <2>1. CASE call[d].sess = s
    BY <2>1
  <2>2. CASE call[d].sess # s
    <3>1. OpOK(d) /\ (call[d].sess # 0 => call[d].sess \in Sessions)
      BY DEF MachineInv, OpsOK, HubTypes, CallRow, Sessions
    <3> QED BY <1>1, <2>2, <3>1 DEF OpOK
  <2> QED BY <2>1, <2>2
<1>7. RoomOK'
  <2>1. RoomAt(s)'
    BY RoomTaken
  <2>2. ASSUME NEW t \in Sessions, t # s PROVE RoomAt(t)'
    BY <1>2, <2>2, RoomElsewhere
  <2> QED BY <2>1, <2>2 DEF RoomOK
<1>8. ASSUME NEW t \in Sessions PROVE Handshake(t)'
  <2>1. CASE t = s
    BY <2>1
  <2>2. CASE t # s
    <3>1. Handshake(t)
      BY DEF MachineInv
    <3> QED BY <1>1, <1>2, <2>2, <3>1 DEF Handshake
  <2> QED BY <2>1, <2>2
<1> QED BY <1>1, <1>2, <1>3, <1>5, <1>6, <1>7, <1>8 DEF MachineInv

(* The hello is answered before anything has begun.                        *)
LEMMA DaemonHelloSafe ==
    ASSUME MachineInv, NEW s \in Sessions, DaemonReceive(s),
           DaemonHello(s, Head(up[s]))
    PROVE  MachineInv'
<1>0. PICK f : f = Head(up[s])
  OBVIOUS
<1>1. /\ up[s] # <<>> /\ up' = [up EXCEPT ![s] = Tail(@)] /\ f.k = "hello"
      /\ UNCHANGED <<hubVars, link, op>> /\ dmn[s].phase = "serving"
  BY <1>0 DEF DaemonReceive, DaemonHello
<1>2. PICK r \in {"ok", "bad"} :
        /\ down' = [down EXCEPT ![s] = Append(@, [k |-> "helloed", res |-> r])]
        /\ \/ dmn' = [dmn EXCEPT ![s].helloed = TRUE]
           \/ r = "bad" /\ dmn' = [dmn EXCEPT ![s].phase = "ended"]
  BY DEF DaemonHello
<1>3. f \in Range(up[s]) /\ UNCHANGED <<sess, call>> /\ s # 0
  <2>1. f \in Range(up[s])
    BY <1>0, <1>1, UpTaken
  <2>2. UNCHANGED <<sess, call>> /\ s # 0
    BY <1>1 DEF hubVars, Sessions
  <2> QED BY <2>1, <2>2
<1>4. Handshake(s)
  BY DEF MachineInv
<1>5. /\ up[s] = <<[k |-> "hello"]>> /\ ~dmn[s].helloed
      /\ sess[s].phase \notin {"ready", "new"}
  BY <1>1, <1>3, <1>4 DEF Handshake
<1>6. /\ dmn' \in [Sessions -> DmnRow]
      /\ \A t \in Sessions : t # s => dmn'[t] = dmn[t]
      /\ r = "ok" => dmn'[s].helloed
  BY <1>2 DEF MachineInv, DaemonTypes, DmnRow
<1> DEFINE g == [k |-> "helloed", res |-> r]
<1>7. g \in DownFrame /\ g.k = "helloed"
  BY DEF DownFrame
<1>8. down \in [Sessions -> Seq(DownFrame)] /\ down[s] \in Seq(DownFrame)
  BY DEF MachineInv, LinkTypes
<1>9. up'[s] = <<>> /\ Range(up'[s]) = {}
  <2>1. up'[s] = Tail(up[s])
    BY <1>1 DEF MachineInv, LinkTypes
  <2>2. Tail(up[s]) = <<>>
    BY <1>5
  <2> QED BY <2>1, <2>2 DEF Range
<1>10. Handshake(s)'
  <2>1. CASE sess[s].phase = "hello"
    <3>1. down[s] = <<>>
      BY <1>1, <1>4, <2>1 DEF Handshake
    <3>2. down'[s] = <<g>>
      BY <1>2, <1>8, <3>1
    <3> QED BY <1>3, <1>6, <1>9, <2>1, <3>2 DEF Handshake
  <2>2. CASE sess[s].phase # "hello"
    BY <1>3, <1>5, <1>9, <2>2 DEF Handshake
  <2> QED BY <2>1, <2>2
<1>11. ASSUME NEW d \in Calls, call[d].sess = s PROVE OpOK(d)'
  <2>1. OpOK(d) /\ op'[d] = op[d]
    BY <1>1 DEF MachineInv, OpsOK
  <2>2. op[d].at = "none" /\ ~op[d].open /\ ~op[d].proc /\ ~op[d].effect
    <3>1. op[d].at = "none"
      BY <1>5, <1>11, <2>1 DEF OpOK
    <3>2. op[d] \in OpRow
      BY DEF MachineInv, DaemonTypes
    <3> QED BY <2>1, <3>1, <3>2 DEF OpOK
  <2> QED BY <1>3, <2>1, <2>2 DEF OpOK
<1> HIDE DEF g
<1>12. /\ Append(down[s], g) \in Seq(DownFrame)
       /\ Range(Append(down[s], g)) = Range(down[s]) \cup {g}
  BY <1>7, <1>8, Appended
<1>13. down' = [down EXCEPT ![s] = Append(down[s], g)]
  BY <1>2, <1>8 DEF g
<1>14. /\ down' \in [Sessions -> Seq(DownFrame)]
       /\ \A t \in Sessions : t # s => down'[t] = down[t]
       /\ Range(down'[s]) = Range(down[s]) \cup {g}
  BY <1>8, <1>12, <1>13
<1>15. Truthful(s, g)'
  BY <1>7 DEF Truthful
<1>16. DaemonTypes'
  BY <1>1, <1>6 DEF MachineInv, DaemonTypes
<1>17. \A x \in Range(down'[s]) : x \in Range(down[s]) \/ Truthful(s, x)'
  BY <1>14, <1>15
<1>18. \A d \in Calls : op'[d] = op[d]
  BY <1>1
<1> QED BY <1>0, <1>1, <1>5, <1>6, <1>10, <1>11, <1>14, <1>16, <1>17, <1>18, FrameRead

(* A request finds room, and its operation begins.                         *)
LEMMA RequestFindsRoom ==
    ASSUME MachineInv, NEW s \in Sessions, up[s] # <<>>, NEW f,
           f = Head(up[s]), f.k = "req"
    PROVE  Cardinality(DaemonStreams(s)) < MaxStreams /\ dmn[s].helloed
<1>1. up[s] \in Seq(UpFrame) /\ RoomAt(s)
  BY DEF MachineInv, LinkTypes, RoomOK
<1>2. f = up[s][1] /\ f \in Range(up[s]) /\ 1 \in DOMAIN up[s]
  BY <1>1, TakenHead
<1>3. Vouched(s, f)
  BY <1>2 DEF MachineInv, FramesOK
<1>4. Cardinality(Held(s, 1 - 1)) < MaxStreams
  BY <1>1, <1>2 DEF RoomAt
<1>5. Held(s, 1 - 1) = DaemonStreams(s)
  <2>1. \A j \in 1..(1 - 1) : FALSE
    OBVIOUS
  <2> QED BY <2>1 DEF Held, Requested, Cancelled, DaemonStreams
<1> QED BY <1>3, <1>4, <1>5 DEF Vouched

LEMMA DaemonRequestSafe ==
    ASSUME MachineInv, NEW s \in Sessions, DaemonReceive(s),
           DaemonRequest(s, Head(up[s]))
    PROVE  MachineInv'
<1>0. PICK f : f = Head(up[s])
  OBVIOUS
<1>1. /\ up[s] # <<>> /\ up' = [up EXCEPT ![s] = Tail(@)] /\ f.k = "req"
      /\ UNCHANGED <<hubVars, link, dmn>> /\ dmn[s].phase = "serving"
  BY <1>0 DEF DaemonReceive, DaemonRequest
<1>2. Cardinality(DaemonStreams(s)) < MaxStreams /\ dmn[s].helloed
  BY <1>0, <1>1, RequestFindsRoom
<1>3. ~(Cardinality(DaemonStreams(s)) >= MaxStreams)
  <2>1. DaemonStreams(s) \subseteq Calls
    BY DEF DaemonStreams
  <2>2. Cardinality(DaemonStreams(s)) \in Nat
    BY <2>1, MachineAssumption, FS_Subset, FS_CardinalityType
  <2> QED BY <1>2, <2>2, MachineAssumption
<1>4. f \in UpFrame /\ Vouched(s, f)
  BY <1>0, <1>1, UpTaken
<1>5. PICK c \in Calls : c = f.call
  BY <1>1, <1>4 DEF UpFrame
<1>6. /\ call[c].sess = s /\ call[c].sent /\ op[c].at = "none"
  BY <1>1, <1>4, <1>5 DEF Vouched
<1>7. /\ op' = [op EXCEPT ![c].at = "checking", ![c].open = TRUE]
      /\ down' = down
  BY <1>0, <1>2, <1>3, <1>5 DEF DaemonRequest
<1>8. /\ op \in [Calls -> OpRow] /\ op' \in [Calls -> OpRow]
      /\ op'[c].at = "checking" /\ op'[c].open /\ op'[c].proc = op[c].proc
      /\ \A d \in Calls : d # c => op'[d] = op[d]
  BY <1>7 DEF MachineInv, DaemonTypes, OpRow
<1>9. DaemonTypes' /\ down' \in [Sessions -> Seq(DownFrame)]
  BY <1>1, <1>7, <1>8 DEF MachineInv, DaemonTypes, LinkTypes
<1>10. UNCHANGED <<sess, call>> /\ s # 0
  BY <1>1 DEF hubVars, Sessions
<1>11. ASSUME NEW d \in Calls, call[d].sess = s PROVE OpOK(d)'
  <2>1. OpOK(d) /\ op[d] \in OpRow
    BY <1>8 DEF MachineInv, OpsOK
  <2>2. CASE d = c
    <3>1. ~op[c].proc
      BY <1>6, <2>1, <2>2 DEF OpOK
    <3> QED BY <1>1, <1>2, <1>6, <1>8, <1>10, <2>2, <3>1 DEF OpOK
  <2>3. CASE d # c
    BY <1>1, <1>8, <1>10, <2>1, <2>3 DEF OpOK
  <2> QED BY <2>2, <2>3
<1>12. Handshake(s)'
  <2>1. Handshake(s) /\ f \in Range(up[s]) /\ Range(up'[s]) \subseteq Range(up[s])
    BY <1>0, <1>1, UpTaken DEF MachineInv
  <2>2. sess[s].phase \notin {"new", "hello"}
    <3>1. sess[s].phase # "new"
      BY <1>2, <2>1 DEF Handshake
    <3>2. CallOK(c)
      BY DEF MachineInv, CallsOK
    <3> QED BY <1>6, <1>10, <3>1, <3>2 DEF CallOK
  <2>3. ASSUME NEW g \in Range(up'[s]) PROVE g.k # "hello"
    BY <1>2, <2>1 DEF Handshake
  <2> QED BY <1>1, <1>7, <1>10, <2>1, <2>2, <2>3 DEF Handshake
<1>13. \A d \in Calls : call[d].sess = s /\ op'[d].open =>
            /\ op[d].open \/ Asked(f, d)
            /\ f.k = "cancel" => call[d].sid # f.sid
  BY <1>1, <1>5, <1>8 DEF Asked
<1>14. /\ \A d \in Calls : call[d].sess # s => op'[d] = op[d]
       /\ \A d \in Calls : op[d].at # "none" => op'[d].at # "none"
       /\ \A d \in Calls : op[d].at = "none" /\ op'[d].at # "none" =>
                Asked(f, d)
  BY <1>1, <1>5, <1>6, <1>8 DEF Asked
<1>15. /\ \A t \in Sessions : t # s => down'[t] = down[t] /\ dmn'[t] = dmn[t]
       /\ dmn[s].helloed => dmn'[s].helloed
       /\ \A g \in Range(down'[s]) : g \in Range(down[s]) \/ Truthful(s, g)'
  BY <1>1, <1>7
<1>16. /\ up[s] # <<>> /\ up' = [up EXCEPT ![s] = Tail(@)]
       /\ UNCHANGED <<hubVars, link>>
  BY <1>1
<1> QED BY <1>0, <1>9, <1>11, <1>12, <1>13, <1>14, <1>15, <1>16, FrameRead

(* A cancel closes the stream of its number, if it is open.                *)
LEMMA DaemonCancelSafe ==
    ASSUME MachineInv, NEW s \in Sessions, DaemonReceive(s),
           DaemonCancel(s, Head(up[s]))
    PROVE  MachineInv'
<1>0. PICK f : f = Head(up[s])
  OBVIOUS
<1>1. /\ up[s] # <<>> /\ up' = [up EXCEPT ![s] = Tail(@)] /\ f.k = "cancel"
      /\ UNCHANGED <<hubVars, link, dmn, down>> /\ dmn[s].phase = "serving"
  BY <1>0 DEF DaemonReceive, DaemonCancel
<1>2. op' = [c \in Calls |-> IF c \in DaemonStreams(s) /\ call[c].sid = f.sid
                             THEN Aborted(op[c]) ELSE op[c]]
  BY <1>0 DEF DaemonCancel
<1>3. ASSUME NEW c \in Calls
      PROVE  /\ op[c] \in OpRow /\ op'[c] \in OpRow
             /\ op'[c].open => op[c].open
             /\ op'[c].proc = op[c].proc /\ op'[c].effect = op[c].effect
             /\ call[c].sess = s /\ op'[c].open => call[c].sid # f.sid
             /\ call[c].sess # s => op'[c] = op[c]
             /\ op'[c].at \in {op[c].at, "stopping"}
             /\ op'[c].at # op[c].at => op[c].at \in {"running", "relaying"}
  <2>1. op[c] \in OpRow
    BY DEF MachineInv, DaemonTypes
  <2>2. CASE c \in DaemonStreams(s) /\ call[c].sid = f.sid
    <3>1. op'[c] = Aborted(op[c]) /\ call[c].sess = s
      BY <1>2, <2>2 DEF DaemonStreams
    <3> QED BY <2>1, <3>1, AbortedRow
  <2>3. CASE ~(c \in DaemonStreams(s) /\ call[c].sid = f.sid)
    <3>1. op'[c] = op[c]
      BY <1>2, <2>3
    <3> QED BY <2>1, <2>3, <3>1 DEF DaemonStreams
  <2> QED BY <2>2, <2>3
<1>4. DaemonTypes' /\ down' \in [Sessions -> Seq(DownFrame)]
  BY <1>1, <1>2, <1>3 DEF MachineInv, DaemonTypes, LinkTypes
<1>5. UNCHANGED <<sess, call>> /\ s # 0
  BY <1>1 DEF hubVars, Sessions
<1>6. ASSUME NEW d \in Calls, call[d].sess = s PROVE OpOK(d)'
  <2>1. OpOK(d)
    BY DEF MachineInv, OpsOK
  <2> QED BY <1>1, <1>3, <1>5, <2>1 DEF OpOK
<1>7. Handshake(s)'
  <2>1. Handshake(s) /\ f \in Range(up[s]) /\ Range(up'[s]) \subseteq Range(up[s])
    BY <1>0, <1>1, UpTaken DEF MachineInv
  <2>4. up[s] # <<[k |-> "hello"]>>
    <3> SUFFICES ASSUME NEW h, h = [k |-> "hello"], up[s] = <<h>> PROVE FALSE
      OBVIOUS
    <3>1. Head(up[s]) = h
      OBVIOUS
    <3>2. h.k = "hello"
      OBVIOUS
    <3> QED BY <1>0, <1>1, <3>1, <3>2
  <2>2. sess[s].phase \notin {"new", "hello"}
    <3>1. sess[s].phase # "new"
      BY <1>1, <2>1 DEF Handshake
    <3>2. sess[s].phase # "hello"
      BY <1>1, <2>1, <2>4 DEF Handshake
    <3> QED BY <3>1, <3>2
  <2>3. ASSUME NEW g \in Range(up'[s]) PROVE g.k # "hello"
    BY <2>1, <2>4 DEF Handshake
  <2> QED BY <1>1, <1>5, <2>1, <2>2, <2>3 DEF Handshake
<1>8. \A d \in Calls : call[d].sess = s /\ op'[d].open =>
            /\ op[d].open \/ Asked(f, d)
            /\ f.k = "cancel" => call[d].sid # f.sid
  BY <1>3
<1>9. /\ \A d \in Calls : call[d].sess # s => op'[d] = op[d]
      /\ \A d \in Calls : op[d].at # "none" => op'[d].at # "none"
      /\ \A d \in Calls : op[d].at = "none" /\ op'[d].at # "none" =>
                Asked(f, d)
  BY <1>3
<1> QED BY <1>0, <1>1, <1>4, <1>6, <1>7, <1>8, <1>9, FrameRead

-----------------------------------------------------------------------------
(* The specification.                                                      *)

LEMMA MachineInit == Init => MachineInv
<1> SUFFICES ASSUME Init PROVE MachineInv
  OBVIOUS
<1>1. HubTypes
  BY MachineAssumption DEF Init, HubTypes, SessRow, CallRow, Results
<1>2. DaemonTypes
  BY DEF Init, DaemonTypes, DmnRow, OpRow
<1>3. LinkTypes
  BY DEF Init, LinkTypes
<1>4. ConnectorOK
  BY DEF Init, ConnectorOK, LiveSessionIsCurrent, Sessions
<1>5. CallsOK
  BY DEF Init, CallsOK, CallOK, SidsDiffer
<1>6. \A s \in Sessions : Range(up[s]) = {} /\ Range(down[s]) = {}
                          /\ DOMAIN up[s] = {} /\ up[s] = <<>> /\ down[s] = <<>>
  BY DEF Init, Range
<1>7. \A s \in Sessions : Handshake(s)
  BY <1>6 DEF Init, Handshake
<1>8. FramesOK /\ QueueOrder
  BY <1>6 DEF FramesOK, QueueOrder
<1>9. OpsOK
  BY DEF Init, OpsOK, OpOK
<1>10. RoomOK
  <2>1. \A s \in Sessions : sess[s].phase = "new"
    BY DEF Init
  <2> QED BY <1>6, <2>1 DEF RoomOK, RoomAt
<1> QED BY <1>1, <1>2, <1>3, <1>4, <1>5, <1>7, <1>8, <1>9, <1>10 DEF MachineInv

LEMMA MachineStutters ==
    ASSUME MachineInv, UNCHANGED vars PROVE MachineInv'
<1>1. /\ UNCHANGED hubVars
      /\ UNCHANGED <<cur, opening, armed, sess, ended, call>>
      /\ UNCHANGED <<link, up, down, dmn, op>>
  BY DEF vars, hubVars
<1>2. HubTypes' /\ ConnectorOK' /\ CallsOK'
  BY <1>1, HubUntouched
<1>3. DaemonTypes' /\ LinkTypes' /\ QueueOrder' /\ OpsOK'
  BY <1>1 DEF MachineInv, DaemonTypes, LinkTypes, QueueOrder, OpsOK, OpOK
<1>4. FramesOK'
  BY <1>1 DEF MachineInv, FramesOK, Vouched, Truthful
<1>5. RoomOK'
  BY <1>1, RoomElsewhere DEF RoomOK
<1>6. \A s \in Sessions : Handshake(s)'
  BY <1>1 DEF MachineInv, Handshake
<1> QED BY <1>2, <1>3, <1>4, <1>5, <1>6 DEF MachineInv

(* Every step keeps the invariant.                                         *)
LEMMA MachineStep == MachineInv /\ [Next]_vars => MachineInv'
<1> SUFFICES ASSUME MachineInv, [Next]_vars PROVE MachineInv'
  OBVIOUS
<1>1. CASE UNCHANGED vars
  BY <1>1, MachineStutters
<1>2. CASE HubStep
  <2>1. ASSUME NEW c \in Calls,
               \/ JoinSession(c) \/ StartSession(c)
               \/ Dispatch(c) \/ DispatchThrows(c) \/ DispatchRefused(c)
               \/ DispatchOversize(c) \/ Abort(c) \/ CloseChannel(c)
        PROVE  MachineInv'
    BY <2>1, JoinSessionSafe, StartSessionSafe, DispatchSafe, DispatchThrowsSafe,
       DispatchRefusedSafe, DispatchOversizeSafe, AbortSafe, CloseChannelSafe
  <2>2. ASSUME NEW s \in Sessions, HubReceive(s) PROVE MachineInv'
    <3>1. HubAnswer(s, Head(down[s])) \/ HubHello(s, Head(down[s]))
      BY <2>2 DEF HubReceive
    <3> QED BY <2>2, <3>1, HubAnswerSafe, HubHelloSafe
  <2>3. ASSUME NEW s \in Sessions,
               \/ HubLinkEnded(s) \/ HubHeartbeatLost(s)
               \/ OnEnded(s) \/ IdleOut(s)
        PROVE  MachineInv'
    BY <2>3, HubEndsSafe, OnEndedSafe, IdleOutSafe
  <2> QED BY <1>2, <2>1, <2>2, <2>3 DEF HubStep
<1>3. CASE DaemonStep
  <2>1. ASSUME NEW s \in Sessions, DaemonReceive(s) PROVE MachineInv'
    <3>1. \/ DaemonHello(s, Head(up[s])) \/ DaemonRequest(s, Head(up[s]))
          \/ DaemonCancel(s, Head(up[s]))
      BY <2>1 DEF DaemonReceive
    <3> QED BY <2>1, <3>1, DaemonHelloSafe, DaemonRequestSafe, DaemonCancelSafe
  <2>2. ASSUME NEW s \in Sessions,
               DaemonInputEnded(s) \/ DaemonHeartbeatLost(s) \/ DaemonDone(s)
        PROVE  MachineInv'
    BY <2>2, EndSessionSafe, DaemonDoneSafe DEF DaemonInputEnded, DaemonHeartbeatLost
  <2>3. ASSUME NEW c \in Calls,
               \/ BudgetExpires(c) \/ Start(c) \/ Refused(c) \/ Complete(c)
               \/ StartServer(c) \/ Published(c) \/ StartFails(c)
               \/ ServerDies(c) \/ RelayClosed(c)
        PROVE  MachineInv'
    BY <2>3, OperationSafe, AnswerSafe
  <2> QED BY <1>3, <2>1, <2>2, <2>3 DEF DaemonStep
<1>4. CASE NetworkStep
  BY <1>4, LinkSafe DEF NetworkStep
<1>5. CASE Quiet
  BY <1>5, MachineStutters DEF Quiet
<1> QED BY <1>1, <1>2, <1>3, <1>4, <1>5 DEF Next

-----------------------------------------------------------------------------
(* What a call may be told: never that the daemon's table was full, and    *)
(* `internal` of a command only if one failed that way.                    *)
Reported(c, res) ==
    res # "full" /\ (res = "internal" => c \in Channels \/ "internal" \in Faults)

ResultsOK ==
    /\ \A c \in Calls : Reported(c, call[c].result)
    /\ \A s \in Sessions : \A f \in Range(down[s]) :
            f.k = "answer" => Reported(f.call, f.res)

HubWords == {"lost", "aborted", "closed"}

(* The end of a session loses calls and says nothing else.                 *)
LEMMA RejectedResult ==
    ASSUME NEW s, NEW calls, calls \in [Calls -> CallRow], NEW c \in Calls
    PROVE  Rejected(calls, s)[c].result \in {calls[c].result, "lost"}
<1>1. calls[c] \in CallRow
  OBVIOUS
<1>2. [calls[c] EXCEPT !.at = "done", !.result = "lost"].result = "lost"
  BY <1>1 DEF CallRow
<1> QED BY <1>2 DEF Rejected

(* What the hub says of a call by itself.                                  *)
LEMMA HubResults ==
    ASSUME MachineInv, NEW c \in Calls,
           \/ JoinSession(c) \/ StartSession(c)
           \/ Dispatch(c) \/ DispatchThrows(c) \/ DispatchRefused(c)
           \/ DispatchOversize(c) \/ Abort(c) \/ CloseChannel(c)
    PROVE  /\ down' = down
           /\ \A d \in Calls : call'[d].result \in {call[d].result} \cup HubWords
<1>1. /\ call \in [Calls -> CallRow]
      /\ {"lost", "aborted", "closed"} \subseteq Results
  BY DEF MachineInv, HubTypes, Results
<1>2. ASSUME NEW res \in HubWords
      PROVE  /\ Closed(c, res) \in [Calls -> CallRow]
             /\ \A d \in Calls : Closed(c, res)[d].result \in {call[d].result, res}
  <2> DEFINE x == [call[c] EXCEPT !.at = "done", !.result = res]
  <2>1. res \in Results
    BY <1>1 DEF HubWords
  <2>2. Closed(c, res) = [call EXCEPT ![c] = x] /\ x \in CallRow
    BY <2>1, ClosedRow
  <2>3. x.result = res
    BY <1>1 DEF CallRow
  <2> HIDE DEF x
  <2> QED BY <1>1, <2>2, <2>3
<1> DEFINE y == [Sent(c) EXCEPT ![c].sent = FALSE]
<1>3. /\ \A d \in Calls : Sent(c)[d].result = call[d].result
  BY <1>1 DEF Sent, CallRow
<1>4. ASSUME NEW s, NEW calls, calls \in [Calls -> CallRow], Finish(s, calls),
             \A d \in Calls : calls[d].result \in {call[d].result} \cup HubWords
      PROVE  \A d \in Calls : call'[d].result \in {call[d].result} \cup HubWords
  BY <1>4, RejectedResult DEF Finish, HubWords
<1>5. CASE JoinSession(c) \/ StartSession(c)
  <2>1. down' = down
    BY <1>5 DEF JoinSession, StartSession
  <2>2. PICK t : call' = [call EXCEPT ![c].at = "waiting", ![c].sess = t]
    BY <1>5 DEF JoinSession, StartSession
  <2> QED BY <1>1, <2>1, <2>2 DEF CallRow
<1>6. CASE Dispatch(c)
  BY <1>3, <1>6 DEF Dispatch
<1>7. CASE DispatchThrows(c)
  <2>1. /\ Finish(call[c].sess, y) /\ down' = down
        /\ call[c].at = "waiting"
    BY <1>7 DEF DispatchThrows, End
  <2>2. PICK x \in CallRow : Sent(c) = [call EXCEPT ![c] = x]
    BY <1>7, SentRow DEF DispatchThrows
  <2>3. PICK z : z = [x EXCEPT !.sent = FALSE]
    OBVIOUS
  <2>4. z \in CallRow /\ z.result = x.result /\ y = [call EXCEPT ![c] = z]
    BY <1>1, <2>2, <2>3 DEF CallRow
  <2>5. y \in [Calls -> CallRow] /\ \A d \in Calls : y[d].result = call[d].result
    BY <1>1, <1>3, <2>2, <2>4
  <2> HIDE DEF y
  <2> QED BY <1>4, <2>1, <2>5
<1>8. CASE DispatchRefused(c)
  <2>1. call' = Closed(c, "lost") /\ down' = down
    BY <1>8 DEF DispatchRefused, Settle
  <2> QED BY <1>2, <2>1 DEF HubWords
<1>9. CASE DispatchOversize(c)
  <2>1. call' = [Sent(c) EXCEPT ![c].at = "done", ![c].result = "lost"]
        /\ down' = down
    BY <1>9 DEF DispatchOversize
  <2>2. \A d \in Calls : call'[d].result \in {call[d].result, "lost"}
    BY <1>1, <2>1 DEF Sent, CallRow
  <2> QED BY <2>1, <2>2 DEF HubWords
<1>10. ASSUME NEW res \in HubWords, GiveUp(c, res)
       PROVE  /\ down' = down
              /\ \A d \in Calls : call'[d].result \in {call[d].result} \cup HubWords
  <2>1. down' = down
    BY <1>10 DEF GiveUp
  <2>2. CASE call' = Closed(c, res)
    BY <1>2, <2>1, <2>2
  <2>3. CASE Finish(call[c].sess, Closed(c, res))
    BY <1>2, <1>4, <2>1, <2>3
  <2> QED BY <1>10, <2>2, <2>3 DEF GiveUp, Settle
<1>11. CASE Abort(c)
  <2>1. CASE GiveUp(c, "aborted")
    BY <1>10, <2>1 DEF HubWords
  <2>2. CASE call' = Closed(c, "aborted") /\ down' = down
    BY <1>2, <2>2 DEF HubWords
  <2> QED BY <1>11, <2>1, <2>2 DEF Abort, Settle
<1>12. CASE CloseChannel(c)
  BY <1>10, <1>12 DEF CloseChannel, HubWords
<1> QED BY <1>5, <1>6, <1>7, <1>8, <1>9, <1>11, <1>12

(* And of the calls of a session that ends.                                *)
LEMMA SessionResults ==
    ASSUME MachineInv, NEW s \in Sessions,
           \/ HubLinkEnded(s) \/ HubHeartbeatLost(s) \/ OnEnded(s) \/ IdleOut(s)
    PROVE  /\ down' = down
           /\ \A d \in Calls : call'[d].result \in {call[d].result, "lost"}
<1>1. call \in [Calls -> CallRow]
  BY DEF MachineInv, HubTypes
<1>2. down' = down /\ (call' = call \/ Finish(s, call))
  BY DEF HubLinkEnded, HubHeartbeatLost, OnEnded, IdleOut, End
<1> QED BY <1>1, <1>2, RejectedResult DEF Finish

(* An answer says what the daemon wrote for the call that gets it.         *)
LEMMA AnswerResults ==
    ASSUME MachineInv, MachineInv', NEW s \in Sessions, HubReceive(s)
    PROVE  /\ \A t \in Sessions : Range(down'[t]) \subseteq Range(down[t])
           /\ \A d \in Calls :
                \/ call'[d].result \in {call[d].result, "lost"}
                \/ \E f \in Range(down[s]) :
                    f.k = "answer" /\ f.call = d /\ call'[d].result = f.res
<1>0. PICK f : f = Head(down[s])
  OBVIOUS
<1>1. /\ call \in [Calls -> CallRow] /\ down[s] # <<>>
      /\ down' = [down EXCEPT ![s] = Tail(@)]
      /\ HubAnswer(s, f) \/ HubHello(s, f)
  BY <1>0 DEF MachineInv, HubTypes, HubReceive
<1>2. /\ Range(down'[s]) \subseteq Range(down[s])
      /\ \A t \in Sessions : t # s => down'[t] = down[t]
      /\ f \in Range(down[s])
  BY <1>0, <1>1, DownTaken
<1>3. CASE HubHello(s, f)
  <2>1. call' = call \/ Finish(s, call)
    BY <1>3 DEF HubHello, End
  <2>2. \A d \in Calls : call'[d].result \in {call[d].result, "lost"}
    BY <1>1, <2>1, RejectedResult DEF Finish
  <2> QED BY <1>2, <2>2
<1>4. CASE HubAnswer(s, f) /\ Receiver(s, f) = {}
  BY <1>2, <1>4 DEF HubAnswer
<1>5. CASE HubAnswer(s, f) /\ Receiver(s, f) # {}
  <2>1. PICK c \in Receiver(s, f) :
          LET from == [call EXCEPT ![c].from = {f.call}] IN
          \/ /\ call' = [from EXCEPT ![c].at = "open", ![c].result = "ok"]
             /\ f.res = "ok"
          \/ call' = [from EXCEPT ![c].at = "done", ![c].result = f.res]
    BY <1>5 DEF HubAnswer
  <2>2. c \in Calls /\ f.k = "answer"
    BY <1>5 DEF Receiver, HubStreams, HubAnswer
  <2>3. /\ call'[c].result = f.res /\ call'[c].from = {f.call}
        /\ \A d \in Calls : d # c => call'[d] = call[d]
    BY <1>1, <2>1, <2>2 DEF CallRow
  <2>4. f.call = c
    BY <2>2, <2>3 DEF MachineInv, CallsOK, CallOK
  <2> QED BY <1>2, <2>2, <2>3, <2>4
<1> QED BY <1>1, <1>3, <1>4, <1>5

(* What the daemon writes.                                                 *)
LEMMA DaemonWords ==
    ASSUME MachineInv, NEW c \in Calls,
           Refused(c) \/ Complete(c) \/ Published(c) \/ StartFails(c),
           NEW t \in Sessions, NEW f \in Range(down'[t])
    PROVE  f \in Range(down[t]) \/ (f.k = "answer" /\ Reported(f.call, f.res))
<1>1. OpOK(c) /\ down \in [Sessions -> Seq(DownFrame)] /\ call[c] \in CallRow
  BY DEF MachineInv, OpsOK, LinkTypes, HubTypes
<1>2. PICK res \in Results : Answer(c, res) /\ Reported(c, res)
  <2>1. {"budget", "refused", "ok", "internal"} \subseteq Results
    BY DEF Results
  <2>2. CASE Refused(c)
    BY <2>1, <2>2 DEF Refused, Reported
  <2>3. CASE Complete(c)
    BY <2>1, <2>3 DEF Complete, Reported
  <2>4. CASE Published(c)
    BY <2>1, <2>4 DEF Published, Reported
  <2>5. CASE StartFails(c)
    <3>1. c \in Channels
      BY <1>1, <2>5 DEF StartFails, OpOK
    <3> QED BY <2>1, <2>5, <3>1 DEF StartFails, Reported
  <2> QED BY <2>2, <2>3, <2>4, <2>5
<1>3. CASE ~op[c].open
  BY <1>2, <1>3 DEF Answer
<1>4. CASE op[c].open
  <2> DEFINE g == Reply(c, res)
  <2>1. g \in DownFrame /\ g.k = "answer" /\ g.call = c /\ g.res = res
    BY <1>1 DEF Reply, DownFrame, CallRow
  <2>2. PICK s : s = call[c].sess
    OBVIOUS
  <2>3. s \in Sessions
    BY <1>1, <1>4, <2>2 DEF OpOK, CallRow, Sessions
  <2>4. down' = [down EXCEPT ![s] = Append(@, g)]
    BY <1>2, <1>4, <2>2 DEF Answer
  <2> HIDE DEF g
  <2>5. Range(Append(down[s], g)) = Range(down[s]) \cup {g}
    BY <1>1, <2>1, <2>3, Appended
  <2>6. down'[s] = Append(down[s], g) /\ (t # s => down'[t] = down[t])
    BY <1>1, <2>3, <2>4
  <2>7. f \in Range(down[t]) \/ f = g
    BY <2>5, <2>6
  <2> QED BY <1>2, <2>1, <2>7
<1> QED BY <1>3, <1>4

LEMMA ResultsStep == MachineInv /\ MachineInv' /\ ResultsOK /\ [Next]_vars => ResultsOK'
<1> SUFFICES ASSUME MachineInv, MachineInv', ResultsOK, [Next]_vars
             PROVE  ResultsOK'
  OBVIOUS
<1> DEFINE Told(d) ==
        \/ call'[d].result \in {call[d].result} \cup HubWords
        \/ \E s \in Sessions : \E f \in Range(down[s]) :
                f.k = "answer" /\ f.call = d /\ call'[d].result = f.res
           Wrote(t, f) == f \in Range(down[t])
                          \/ (f.k = "answer" => Reported(f.call, f.res))
<1>1. ASSUME \A d \in Calls : Told(d),
             \A t \in Sessions : \A f \in Range(down'[t]) : Wrote(t, f)
      PROVE  ResultsOK'
  <2>1. \A d \in Calls : \A res \in HubWords : Reported(d, res)
    BY DEF HubWords, Reported
  <2>2. ASSUME NEW d \in Calls PROVE Reported(d, call'[d].result)
    BY <1>1, <2>1 DEF ResultsOK
  <2>3. ASSUME NEW t \in Sessions, NEW f \in Range(down'[t]), f.k = "answer"
        PROVE  Reported(f.call, f.res)
    BY <1>1, <2>3 DEF ResultsOK
  <2> QED BY <2>2, <2>3 DEF ResultsOK, Reported
<1>2. ASSUME UNCHANGED call,
             \A t \in Sessions : \A f \in Range(down'[t]) : Wrote(t, f)
      PROVE  ResultsOK'
  <2>1. \A d \in Calls : Told(d)
    BY <1>2
  <2> QED BY <1>1, <1>2, <2>1
<1>3. CASE UNCHANGED <<call, down>>
  BY <1>2, <1>3
<1>4. CASE HubStep
  <2>1. CASE \E c \in Calls :
               \/ JoinSession(c) \/ StartSession(c)
               \/ Dispatch(c) \/ DispatchThrows(c) \/ DispatchRefused(c)
               \/ DispatchOversize(c) \/ Abort(c) \/ CloseChannel(c)
    <3>1. /\ down' = down
          /\ \A d \in Calls : call'[d].result \in {call[d].result} \cup HubWords
      BY <2>1, HubResults
    <3> QED BY <1>1, <3>1
  <2>2. CASE \E s \in Sessions :
               \/ HubLinkEnded(s) \/ HubHeartbeatLost(s) \/ OnEnded(s)
               \/ IdleOut(s)
    <3>1. /\ down' = down
          /\ \A d \in Calls : call'[d].result \in {call[d].result, "lost"}
      BY <2>2, SessionResults
    <3> QED BY <1>1, <3>1 DEF HubWords
  <2>3. ASSUME NEW s \in Sessions, HubReceive(s) PROVE ResultsOK'
    <3>1. /\ \A t \in Sessions : Range(down'[t]) \subseteq Range(down[t])
          /\ \A d \in Calls :
                \/ call'[d].result \in {call[d].result, "lost"}
                \/ \E f \in Range(down[s]) :
                    f.k = "answer" /\ f.call = d /\ call'[d].result = f.res
      BY <2>3, AnswerResults
    <3>2. \A d \in Calls : Told(d)
      BY <3>1 DEF HubWords
    <3> QED BY <1>1, <3>1, <3>2
  <2> QED BY <1>4, <2>1, <2>2, <2>3 DEF HubStep
<1>5. CASE DaemonStep
  <2>1. ASSUME NEW s \in Sessions, DaemonReceive(s) PROVE ResultsOK'
    <3>1. UNCHANGED call /\ up[s] # <<>>
      BY <2>1 DEF DaemonReceive, hubVars
    <3>2. down \in [Sessions -> Seq(DownFrame)]
      BY DEF MachineInv, LinkTypes
    <3>3. CASE DaemonHello(s, Head(up[s]))
      <4>1. PICK g \in DownFrame :
              g.k = "helloed" /\ down' = [down EXCEPT ![s] = Append(@, g)]
        <5>1. PICK r \in {"ok", "bad"} :
                down' = [down EXCEPT ![s] = Append(@, [k |-> "helloed", res |-> r])]
          BY <3>3 DEF DaemonHello
        <5>2. [k |-> "helloed", res |-> r] \in DownFrame
          BY DEF DownFrame
        <5> QED BY <5>1, <5>2
      <4>2. Range(Append(down[s], g)) = Range(down[s]) \cup {g}
        BY <3>2, Appended
      <4>3. /\ down'[s] = Append(down[s], g)
            /\ \A t \in Sessions : t # s => down'[t] = down[t]
        BY <3>2, <4>1
      <4>4. \A t \in Sessions : \A f \in Range(down'[t]) : Wrote(t, f)
        BY <4>1, <4>2, <4>3
      <4> QED BY <1>2, <3>1, <4>4
    <3>4. CASE DaemonRequest(s, Head(up[s]))
      <4>1. PICK f : f = Head(up[s])
        OBVIOUS
      <4>2. Cardinality(DaemonStreams(s)) < MaxStreams /\ dmn[s].helloed
        BY <3>1, <3>4, <4>1, RequestFindsRoom DEF DaemonRequest
      <4>3. DaemonStreams(s) \subseteq Calls
        BY DEF DaemonStreams
      <4>4. Cardinality(DaemonStreams(s)) \in Nat
        BY <4>3, MachineAssumption, FS_Subset, FS_CardinalityType
      <4>5. ~(Cardinality(DaemonStreams(s)) >= MaxStreams)
        BY <4>2, <4>4, MachineAssumption
      <4>6. down' = down
        BY <3>4, <4>2, <4>5 DEF DaemonRequest
      <4> QED BY <1>3, <3>1, <4>6
    <3>5. CASE DaemonCancel(s, Head(up[s]))
      BY <1>3, <3>1, <3>5 DEF DaemonCancel
    <3> QED BY <2>1, <3>3, <3>4, <3>5 DEF DaemonReceive
  <2>2. CASE \E s \in Sessions :
               DaemonInputEnded(s) \/ DaemonHeartbeatLost(s) \/ DaemonDone(s)
    BY <1>3, <2>2 DEF DaemonInputEnded, DaemonHeartbeatLost, DaemonDone,
                      EndSession, hubVars
  <2>3. CASE \E c \in Calls : \/ BudgetExpires(c) \/ Start(c) \/ StartServer(c)
                              \/ ServerDies(c) \/ RelayClosed(c)
    BY <1>3, <2>3 DEF BudgetExpires, Start, StartServer, ServerDies, RelayClosed,
                      hubVars
  <2>4. ASSUME NEW c \in Calls,
               Refused(c) \/ Complete(c) \/ Published(c) \/ StartFails(c)
        PROVE  ResultsOK'
    <3>1. UNCHANGED call
      BY <2>4 DEF Refused, Complete, Published, StartFails, hubVars
    <3>2. \A t \in Sessions : \A f \in Range(down'[t]) : Wrote(t, f)
      BY <2>4, DaemonWords
    <3> QED BY <1>2, <3>1, <3>2
  <2> QED BY <1>5, <2>1, <2>2, <2>3, <2>4 DEF DaemonStep
<1>6. CASE NetworkStep
  BY <1>3, <1>6 DEF NetworkStep, LinkSilent, LinkCloses, hubVars
<1>7. CASE Quiet \/ UNCHANGED vars
  BY <1>3, <1>7 DEF Quiet, vars
<1> QED BY <1>4, <1>5, <1>6, <1>7 DEF Next

-----------------------------------------------------------------------------
(* The inductive invariant holds of every behaviour, whatever goes wrong   *)
(* between the connector and the daemon.                                   *)
THEOREM MachineInvariant == Spec => [](MachineInv /\ ResultsOK)
<1>1. Init => MachineInv /\ ResultsOK
  <2> SUFFICES ASSUME Init PROVE ResultsOK
    BY MachineInit
  <2>1. \A s \in Sessions : Range(down[s]) = {}
    BY DEF Init, Range
  <2> QED BY <2>1 DEF Init, ResultsOK, Reported
<1>2. (MachineInv /\ ResultsOK) /\ [Next]_vars => (MachineInv /\ ResultsOK)'
  BY MachineStep, ResultsStep
<1> QED BY <1>1, <1>2, PTL DEF Spec

(* Every variable keeps its type, and at most one handshake runs.          *)
THEOREM MachineTypes == Spec => []TypeOK
<1>1. MachineInv => TypeOK
  BY DEF MachineInv, HubTypes, DaemonTypes, LinkTypes, ConnectorOK, TypeOK,
         SessRow, CallRow, DmnRow, OpRow
<1> QED BY <1>1, MachineInvariant, PTL

(* No call is ever settled by the answer to another: stream numbers are    *)
(* handed out once per session, so a late answer finds no open stream.     *)
THEOREM AnswersNeverCross == Spec => []AnswersTheirOwnCall
<1>1. MachineInv => AnswersTheirOwnCall
  BY DEF MachineInv, CallsOK, CallOK, AnswersTheirOwnCall
<1> QED BY <1>1, MachineInvariant, PTL

(* A call reported as never sent has not run and no request of it is left  *)
(* on any link.                                                            *)
THEOREM UnsentCallsNeverRun == Spec => []UnsentNeverRuns
<1>1. MachineInv => UnsentNeverRuns
  <2> SUFFICES ASSUME MachineInv, NEW c \in Calls, ~call[c].sent
               PROVE  /\ op[c].at = "none"
                      /\ \A s \in Sessions : \A f \in Range(up[s]) :
                            f.k = "req" => f.call # c
    BY DEF UnsentNeverRuns
  <2>1. op[c].at = "none"
    BY DEF MachineInv, OpsOK, OpOK
  <2>2. ASSUME NEW s \in Sessions, NEW f \in Range(up[s]), f.k = "req"
        PROVE  f.call # c
    BY <2>2 DEF MachineInv, FramesOK, Vouched
  <2> QED BY <2>1, <2>2
<1> QED BY <1>1, MachineInvariant, PTL

(* The daemon's stream table never refuses what the hub's admitted, for    *)
(* any limit and any number of calls and sessions.                         *)
THEOREM DaemonAlwaysHasRoom == Spec => []DaemonHasRoom
<1>1. ResultsOK => DaemonHasRoom
  BY DEF ResultsOK, Reported, DaemonHasRoom
<1> QED BY <1>1, MachineInvariant, PTL

(* When the daemon is done, every command of the session is gone.          *)
THEOREM NoCommandOutlives == Spec => []CommandsGoneWhenDone
<1>1. MachineInv => CommandsGoneWhenDone
  BY DEF MachineInv, OpsOK, OpOK, CommandsGoneWhenDone
<1> QED BY <1>1, MachineInvariant, PTL

(* The one session that is not over is the connector's entry.              *)
THEOREM OneLiveSession == Spec => []LiveSessionIsCurrent
<1>1. MachineInv => LiveSessionIsCurrent
  BY DEF MachineInv, ConnectorOK
<1> QED BY <1>1, MachineInvariant, PTL

(* A ready session that carries nothing has its idle timer pending.        *)
THEOREM IdleAlwaysArmed == Spec => []IdleSessionIsArmed
<1>1. MachineInv => IdleSessionIsArmed
  BY DEF MachineInv, ConnectorOK, IdleSessionIsArmed
<1> QED BY <1>1, MachineInvariant, PTL

(* If no command fails as `internal` after it had its effect, a call that  *)
(* is reported as machine_unavailable did nothing.                         *)
THEOREM UnavailableIsHonest ==
    ASSUME "internal" \notin Faults
    PROVE  Spec => []UnavailableMeansNotExecuted
<1>1. MachineInv /\ ResultsOK => UnavailableMeansNotExecuted
  <2> SUFFICES ASSUME MachineInv, ResultsOK, NEW c \in Calls \ Channels,
                      ToolResult(c) = "machine_unavailable"
               PROVE  ~op[c].effect
    BY DEF UnavailableMeansNotExecuted
  <2>1. call[c].result \in Results /\ OpOK(c)
    BY DEF MachineInv, HubTypes, CallRow, OpsOK
  <2>2. call[c].result \notin {"internal", "full"}
    BY DEF ResultsOK, Reported
  <2>3. call[c].result = "lost" /\ ~call[c].sent
    BY <2>1, <2>2 DEF ToolResult, Results
  <2> QED BY <2>1, <2>3 DEF OpOK
<1> QED BY <1>1, MachineInvariant, PTL
=============================================================================
