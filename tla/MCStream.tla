------------------------------ MODULE MCStream ------------------------------
(***************************************************************************)
(* Instances of Stream for TLC, and the properties that add up the bytes   *)
(* of a sequence of packets.                                               *)
(***************************************************************************)
EXTENDS Stream, SequencesExt

Bytes(packets) == FoldSeq(LAMBDA p, sum : p.size + sum, 0, packets)
Items(packets) == FoldSeq(LAMBDA p, sum : Len(p.items) + sum, 0, packets)
Counts(messages) == FoldSeq(LAMBDA m, sum : m.count + sum, 0, messages)

\* Bytes and items of the stream that the two processes and the wire hold: in
\* the buffer, in the hands of the writer, on the wire, in the queue and in the
\* hands of the consumer.
HeldBytes == buffer.bytes + packet.size + Bytes(down) + Bytes(queue) + hand.size
HeldItems == Len(buffer.frames) + Len(packet.items) + Items(down) + Items(queue) + hand.count

\* A slow consumer slows the sender instead of filling memory: whatever the
\* application does, the stream holds at most MAX_STREAM_BACKLOG items, and at
\* most MAX_STREAM_WINDOW bytes unless a single larger item travels alone.
BoundedMemory ==
    /\ HeldItems <= MAX_STREAM_BACKLOG
    /\ HeldBytes <= MAX_STREAM_WINDOW \/ HeldItems = 1

\* No permission is lost or made up while the consumer reads: what the sender
\* counts as in flight is exactly what the stream holds, what the consumer owes
\* and what is on its way back.
PermissionConserved ==
    (hasCredit /\ link /\ registered /\ ~over) =>
        /\ credit.bytes = HeldBytes + owed.bytes + Bytes(up)
        /\ credit.items = HeldItems + owed.items + Counts(up)

\* The budget of a stream works for both ends, where no item brings sources and
\* none costs more than half the window: a sender is accused of ignoring it
\* (handle_stream_item) only for an item at the limit itself, memory stays
\* bounded while the application is slow, no permission is lost between
\* StreamCredit and the consumer, and a small item always finds room.  Without
\* those conditions the code breaks its own words: NeverAccused, RoomCanAppear
\* and PermissionIsOwed.
StreamBudget == AccusedAtTheLimit /\ BoundedMemory /\ PermissionConserved /\ SmallItemsFindRoom
=============================================================================
