----------------------------- MODULE DurableRun -----------------------------
(***************************************************************************)
(* What the durable-runs capability promises to a reader of one Chat's     *)
(* Runs, whatever happens to workers, queues and requests: a Run is in     *)
(* flight from its acceptance to exactly one terminal state, the terminal  *)
(* event is published with that state and nothing follows it, and the Chat *)
(* has at most one Run in flight.                                          *)
(***************************************************************************)
EXTENDS Sequences

CONSTANTS Runs, Terminal

VARIABLES
    phase,       \* "absent", "inflight" or the terminal state of each Run
    published    \* the terminal events each Run's log shows, in order

Init ==
    /\ phase = [r \in Runs |-> "absent"]
    /\ published = [r \in Runs |-> <<>>]

Keep(r) == phase'[r] = phase[r] /\ published'[r] = published[r]

Accept(r) ==
    /\ phase[r] = "absent" /\ phase'[r] = "inflight"
    /\ published'[r] = published[r]

Settle(r) ==
    /\ phase[r] = "inflight" /\ phase'[r] \in Terminal
    /\ published[r] = <<>> /\ published'[r] = <<phase'[r]>>

(* One transaction may settle a stuck Run and accept the next one.         *)
Next ==
    /\ \A r \in Runs : Keep(r) \/ Accept(r) \/ Settle(r)
    /\ \A q, r \in Runs : phase'[q] = "inflight" /\ phase'[r] = "inflight" => q = r

Spec == Init /\ [][Next]_<<phase, published>>
=============================================================================
