------------------------------- MODULE Bridge -------------------------------
(***************************************************************************)
(* What a set of NTT managers promises, without chains, messages, queues,  *)
(* limits or decimals: a transfer takes some value from the holders and    *)
(* either gives it back to its sender or brings it to its recipient, once, *)
(* and whole.                                                              *)
(***************************************************************************)
EXTENDS Integers

CONSTANT Transfer   \* the transfers there may be

VARIABLES
    phase,      \* transfer -> how far it is
    inFlight,   \* transfer -> the value it holds
    holdings    \* the value outside of transfers

vars == <<phase, inFlight, holdings>>

Init ==
    /\ phase = [x \in Transfer |-> "none"]
    /\ inFlight = [x \in Transfer |-> 0]
    /\ holdings \in Nat

\* The transfer moves on and keeps its value.
advance(x, from, to) ==
    /\ phase[x] = from
    /\ phase' = [phase EXCEPT ![x] = to]
    /\ UNCHANGED <<inFlight, holdings>>

\* The transfer ends and its value is held again.
finish(x, from, to) ==
    /\ phase[x] = from
    /\ phase' = [phase EXCEPT ![x] = to]
    /\ inFlight' = [inFlight EXCEPT ![x] = 0]
    /\ holdings' = holdings + inFlight[x]

\* Some value is taken; the transfer is sent at once or queued.
start(x) ==
    /\ phase[x] = "none"
    /\ \E p \in {"queued", "sent"} : phase' = [phase EXCEPT ![x] = p]
    /\ holdings' \in 0 .. holdings
    /\ inFlight' = [inFlight EXCEPT ![x] = holdings - holdings']

release(x) == advance(x, "queued", "sent")

refund(x) == finish(x, "queued", "refunded")

\* The destination accepts the transfer but holds the payment back.
arrive(x) == advance(x, "sent", "due")

pay(x) == finish(x, "sent", "paid") \/ finish(x, "due", "paid")

Next ==
    \E x \in Transfer : start(x) \/ release(x) \/ refund(x) \/ arrive(x) \/ pay(x)

Spec == Init /\ [][Next]_vars

=============================================================================
