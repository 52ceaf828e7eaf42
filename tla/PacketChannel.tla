--------------------------- MODULE PacketChannel ----------------------------
(***************************************************************************)
(* One direction of a connection as its users see it: whole packets, in    *)
(* the order in which their last frames were written, each at most once.   *)
(***************************************************************************)
EXTENDS Naturals, Sequences

CONSTANT Packets

VARIABLES
    sent,      \* the packets written completely
    received   \* the packets that the other end put together

Init == sent = <<>> /\ received = <<>>

Send ==
    /\ \E p \in Packets : sent' = Append(sent, p)
    /\ UNCHANGED received

Receive ==
    /\ Len(received) < Len(sent)
    /\ received' = Append(received, sent[Len(received) + 1])
    /\ UNCHANGED sent

Next == Send \/ Receive

Spec == Init /\ [][Next]_<<sent, received>>
=============================================================================
