--------------------------- MODULE OrderedChannel ---------------------------
(***************************************************************************)
(* What two chains promise each other in either direction: messages are    *)
(* received exactly once, in the order they were sent, one or several at   *)
(* a time, and nothing is received that was not sent.                      *)
(***************************************************************************)
EXTENDS Naturals, Sequences

VARIABLES
    sent,     \* everything ever sent
    received  \* everything ever received

ChannelInit == sent = <<>> /\ received = <<>>

\* One more message, of whatever kind.
Send ==
    /\ Len(sent') = Len(sent) + 1
    /\ SubSeq(sent', 1, Len(sent)) = sent
    /\ UNCHANGED received

Receive ==
    /\ \E n \in Len(received)..Len(sent) : received' = SubSeq(sent, 1, n)
    /\ UNCHANGED sent

ChannelSpec == ChannelInit /\ [][Send \/ Receive]_<<sent, received>>

\* Whatever was received is a beginning of what was sent.
InOrder == Len(received) <= Len(sent) /\ received = SubSeq(sent, 1, Len(received))
=============================================================================
