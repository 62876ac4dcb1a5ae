------------------------------ MODULE PacketPipe ------------------------------
(***************************************************************************)
(* What a connection with a framer at its end promises (pkg/packet): the   *)
(* packets that were sent come out whole, once and in order, and all of    *)
(* them in the end.                                                        *)
(***************************************************************************)
EXTENDS Naturals, Sequences

CONSTANT Most   \* bound: how many are sent

VARIABLES sent, received

Init == sent = <<>> /\ received = <<>>

Send == /\ Len(sent') = Len(sent) + 1
        /\ SubSeq(sent', 1, Len(sent)) = sent
        /\ UNCHANGED received

Receive == /\ Len(received) < Len(sent)
           /\ received' = Append(received, sent[Len(received) + 1])
           /\ UNCHANGED sent

AllArrive == \A n \in 1 .. Most : Len(sent) >= n ~> Len(received) >= n

InOrder == Init /\ [][Send \/ Receive]_<<sent, received>>
Spec == InOrder /\ AllArrive
=============================================================================
