------------------------------- MODULE Frames -------------------------------
(***************************************************************************)
(* One direction of a connection of rmote/protocol.py at the level of      *)
(* frames: several tasks send packets that are split into frames, under a  *)
(* write lock and one deflate dictionary; the other end reads the frames,  *)
(* inflates them inline or in groups in a worker thread, and joins them.   *)
(*                                                                         *)
(* The body of a frame is its position in its packet.  The dictionary is   *)
(* the number of bodies that went through it: a body can be inflated only  *)
(* at the position where it was deflated.  A worker thread decodes a group *)
(* frame by frame while the senders go on; the read lock keeps the reader  *)
(* out.  A reader is cancelled between frames, not between a header and    *)
(* its body.                                                               *)
(***************************************************************************)
EXTENDS Integers, Sequences, FiniteSets, SequencesExt

CONSTANTS
    Packets,                \* the packets that are sent, each by a task of its own
    FrameCount,             \* number of frames of each packet
    MAX_PARTIAL_PACKETS,
    MAX_REASSEMBLY_FRAMES,  \* MAX_REASSEMBLY_BYTES, in frames
    DECODE_THRESHOLD,       \* decode_threshold, in frames, or -1
    DECODE_FRAMES,
    MaxSenders,             \* bound: tasks that send at the same time
    SendersMayCancel,       \* whether tasks that send are cancelled
    MaxCancels              \* bound: how often receive is cancelled and called again

ASSUME FramesConstants ==
    /\ IsFiniteSet(Packets) /\ "none" \notin Packets /\ FrameCount \in [Packets -> Nat \ {0}]
    /\ MAX_PARTIAL_PACKETS \in Nat \ {0} /\ MAX_REASSEMBLY_FRAMES \in Nat
    /\ DECODE_THRESHOLD \in Nat \cup {-1} /\ DECODE_FRAMES \in Nat \ {0}
    /\ MaxSenders \in Nat /\ SendersMayCancel \in BOOLEAN /\ MaxCancels \in Nat

VARIABLES
    spc,        \* where the task of each packet is
    written,    \* frames of each packet that were written
    waiters,    \* the tasks in the queue of write_lock
    holder,     \* the task that holds write_lock, or "none"
    passed,     \* frames of others written while the packet waited for its turn
    closing,    \* the writer is closing
    deflated,   \* bodies that went through the deflate dictionary
    finished,   \* packets written completely, in the order of their last frames
    wire,       \* frames on the wire
    rpc,        \* where receive is: "read", "worker", "dropping" when it was cancelled and
                \* waits for its worker, "ending" with a last group, or "stopped"
    group,      \* frames read and not decoded
    decoder,    \* inflate dictionary, fragment buffers, and the packets and the error found
    dropped,    \* packets that were put together for a receive that was cancelled
    cancels     \* how often receive was cancelled with a worker or with frames

senderVars == <<spc, written, waiters, holder, passed, closing, deflated, finished>>
vars == <<senderVars, wire, rpc, group, decoder, dropped, cancels>>

Frame(p, part, last, packed) == [id |-> p, part |-> part, last |-> last, packed |-> packed]

Init ==
    /\ spc = [p \in Packets |-> "idle"] /\ written = [p \in Packets |-> 0]
    /\ waiters = <<>> /\ holder = "none" /\ passed = [p \in Packets |-> 0]
    /\ closing = FALSE /\ deflated = 0 /\ finished = <<>> /\ wire = <<>>
    /\ rpc = "read" /\ group = <<>>
    /\ decoder = [inflated |-> 0, buffers |-> [p \in Packets |-> <<>>], packets |-> <<>>, error |-> "none"]
    /\ dropped = {} /\ cancels = 0

-----------------------------------------------------------------------------
(* send_payload and send_frame                                              *)

\* A task enters send_payload and asks for the write lock.
Send(p) ==
    /\ spc[p] = "idle" /\ Cardinality({q \in Packets : spc[q] \in {"queued", "drain"}}) < MaxSenders
    /\ spc' = [spc EXCEPT ![p] = "queued"] /\ waiters' = Append(waiters, p)
    /\ UNCHANGED <<written, holder, passed, closing, deflated, finished, wire, rpc, group, decoder, dropped, cancels>>

\* The dictionary after a body; a dense body or one that may not be compressed
\* travels raw and leaves it untouched.
DeflatedAfter(packed) == IF packed THEN deflated + 1 ELSE deflated

IsLast(p) == written[p] + 1 = FrameCount[p]

\* send_frame, with the lock, up to its drain.  A body goes through the
\* dictionary or travels raw.
WriteFrame(p) ==
    /\ holder = "none" /\ waiters # <<>> /\ Head(waiters) = p /\ ~closing
    /\ \E packed \in BOOLEAN :
        /\ deflated' = DeflatedAfter(packed)
        /\ wire' = Append(wire, Frame(p, written[p] + 1, IsLast(p), IF packed THEN deflated + 1 ELSE 0))
    /\ written' = [written EXCEPT ![p] = @ + 1]
    /\ finished' = (IF IsLast(p) THEN Append(finished, p) ELSE finished)
    /\ holder' = p /\ waiters' = Tail(waiters) /\ spc' = [spc EXCEPT ![p] = "drain"]
    /\ passed' = [q \in Packets |-> IF q = p THEN 0 ELSE IF spc[q] = "queued" THEN passed[q] + 1 ELSE passed[q]]
    /\ UNCHANGED <<closing, rpc, group, decoder, dropped, cancels>>

\* send_frame on a writer that is closing.
RefuseFrame(p) ==
    /\ holder = "none" /\ waiters # <<>> /\ Head(waiters) = p /\ closing
    /\ waiters' = Tail(waiters) /\ spc' = [spc EXCEPT ![p] = "failed"]
    /\ UNCHANGED <<written, holder, passed, closing, deflated, finished, wire, rpc, group, decoder, dropped, cancels>>

\* drain returns: release the lock, and ask for it again for the next frame.
Drained(p) ==
    /\ holder = p
    /\ holder' = "none"
    /\ IF written[p] = FrameCount[p]
       THEN spc' = [spc EXCEPT ![p] = "done"] /\ UNCHANGED waiters
       ELSE spc' = [spc EXCEPT ![p] = "queued"] /\ waiters' = Append(waiters, p)
    /\ UNCHANGED <<written, passed, closing, deflated, finished, wire, rpc, group, decoder, dropped, cancels>>

\* The task is cancelled while it waits for the lock.
CancelQueued(p) ==
    /\ SendersMayCancel /\ spc[p] = "queued"
    /\ spc' = [spc EXCEPT ![p] = "cancelled"]
    /\ \E i \in 1..Len(waiters) : waiters[i] = p /\ waiters' = RemoveAt(waiters, i)
    /\ UNCHANGED <<written, holder, passed, closing, deflated, finished, wire, rpc, group, decoder, dropped, cancels>>

\* The task is cancelled in drain: the frame may be half written, so the
\* writer is closed.  What was written before still arrives.
CancelDrain(p) ==
    /\ SendersMayCancel /\ holder = p
    /\ spc' = [spc EXCEPT ![p] = "cancelled"] /\ holder' = "none" /\ closing' = TRUE
    /\ UNCHANGED <<written, waiters, passed, deflated, finished, wire, rpc, group, decoder, dropped, cancels>>

-----------------------------------------------------------------------------
(* receive, decode_frames and FragmentBuffer                                *)

Stored(d) == {p \in Packets : d.buffers[p] # <<>>}
StoredFrames(d) == FoldLeft(LAMBDA sum, p : sum + Len(d.buffers[p]), 0, SetToSeq(Stored(d)))

\* FragmentBuffer.store
Store(d, f) ==
    IF f.id \notin Stored(d) /\ Cardinality(Stored(d)) >= MAX_PARTIAL_PACKETS
    THEN [d EXCEPT !.error = "partials"]
    ELSE IF StoredFrames(d) + 1 > MAX_REASSEMBLY_FRAMES
    THEN [d EXCEPT !.error = "overflow"]
    ELSE [d EXCEPT !.buffers[f.id] = Append(@, f.part)]

\* FragmentBuffer.take
Take(d, f) ==
    [d EXCEPT !.packets = Append(@, [id |-> f.id, parts |-> Append(d.buffers[f.id], f.part)]),
              !.buffers[f.id] = <<>>]

\* FrameDecompressor.decode: a body that was deflated elsewhere cannot be read.
Inflate(d, f) ==
    IF f.packed = 0 THEN d
    ELSE IF f.packed = d.inflated + 1 THEN [d EXCEPT !.inflated = @ + 1]
    ELSE [d EXCEPT !.error = "desync"]

DecodeFrame(d, f) ==
    LET e == Inflate(d, f) IN
    IF e.error # "none" THEN e ELSE IF f.last THEN Take(e, f) ELSE Store(e, f)

\* An error of a frame ends the receive loop.
AfterDecode(next) == IF decoder'.error = "none" THEN next ELSE "stopped"

\* Frames of a packet whose stored part is above the threshold, and all that
\* follow until the group is handed over, are decoded in a worker thread.
Grouped(f) ==
    DECODE_THRESHOLD # -1 /\ (group # <<>> \/ Len(decoder.buffers[f.id]) > DECODE_THRESHOLD)

\* A payload above the threshold is unpickled by a worker thread.
Large(f) == DECODE_THRESHOLD # -1 /\ f.part > DECODE_THRESHOLD

\* receive is cancelled while a worker thread is at work for it, so that the
\* packet p that this completes is dropped.
CancelledWith(p) ==
    cancels < MaxCancels /\ cancels' = cancels + 1 /\ dropped' = dropped \cup {p}

\* A frame that is decoded inline.
ReadInline ==
    /\ rpc = "read" /\ wire # <<>> /\ ~Grouped(Head(wire))
    /\ wire' = Tail(wire)
    /\ decoder' = DecodeFrame(decoder, Head(wire))
    /\ rpc' = AfterDecode("read")
    /\ \/ UNCHANGED <<dropped, cancels>>
       \/ Head(wire).last /\ Large(Head(wire)) /\ CancelledWith(Head(wire).id)
    /\ UNCHANGED <<senderVars, group>>

\* Mutant: only a full group goes to the worker.
ReadGroupedFull ==
    /\ rpc = "read" /\ wire # <<>> /\ Grouped(Head(wire))
    /\ wire' = Tail(wire)
    /\ group' = Append(group, Head(wire))
    /\ rpc' = IF Len(group') >= DECODE_FRAMES THEN "worker" ELSE "read"
    /\ UNCHANGED <<senderVars, decoder, dropped, cancels>>

\* A frame that joins the group; a final frame or a full group goes to the worker.
ReadGrouped ==
    /\ rpc = "read" /\ wire # <<>> /\ Grouped(Head(wire))
    /\ wire' = Tail(wire)
    /\ group' = Append(group, Head(wire))
    /\ rpc' = IF Head(wire).last \/ Len(group') >= DECODE_FRAMES THEN "worker" ELSE "read"
    /\ UNCHANGED <<senderVars, decoder, dropped, cancels>>

\* decode_frames in the worker: the next frame of the group.  It returns with a
\* packet, and receive reads on when the worker is done.  Nobody takes the
\* packet when receive was cancelled, or decodes its last frames.
WorkerStep ==
    /\ rpc \in {"worker", "dropping", "ending"}
    /\ decoder' = DecodeFrame(decoder, Head(group))
    /\ group' = (IF Head(group).last THEN <<>> ELSE Tail(group))
    /\ rpc' = AfterDecode(IF group' # <<>> THEN rpc ELSE IF rpc = "ending" THEN "stopped" ELSE "read")
    /\ dropped' = (IF Head(group).last /\ rpc # "worker" THEN dropped \cup {Head(group).id} ELSE dropped)
    /\ UNCHANGED <<senderVars, wire, cancels>>

\* Mutant: what was read and not decoded is thrown away.
CancelReceiveForgets ==
    /\ cancels < MaxCancels /\ rpc = "read" /\ group # <<>>
    /\ group' = <<>> /\ cancels' = cancels + 1
    /\ UNCHANGED <<senderVars, wire, rpc, decoder, dropped>>

\* receive is cancelled, and later called again.  While it reads, the frames
\* that gathered go to a worker first; while a worker runs, it waits for the
\* worker, also when it is cancelled again.
CancelReceive ==
    /\ cancels < MaxCancels /\ cancels' = cancels + 1
    /\ rpc = "worker" \/ (rpc = "read" /\ group # <<>>)
    /\ rpc' = "dropping"
    /\ UNCHANGED <<senderVars, wire, group, decoder, dropped>>

\* End of file; the frames that gathered are decoded first.
EndOfFile ==
    /\ rpc = "read" /\ wire = <<>> /\ closing /\ holder = "none"
    /\ rpc' = IF group = <<>> THEN "stopped" ELSE "ending"
    /\ UNCHANGED <<senderVars, wire, group, decoder, dropped, cancels>>

-----------------------------------------------------------------------------
SendStep == \E p \in Packets : WriteFrame(p) \/ RefuseFrame(p) \/ Drained(p)
ReadStep == ReadInline \/ ReadGrouped \/ WorkerStep \/ EndOfFile

Next ==
    \/ \E p \in Packets :
        Send(p) \/ WriteFrame(p) \/ RefuseFrame(p) \/ Drained(p) \/ CancelQueued(p) \/ CancelDrain(p)
    \/ ReadInline \/ ReadGrouped \/ WorkerStep \/ CancelReceive \/ EndOfFile

Spec == Init /\ [][Next]_vars

\* The event loops run what is ready, the transport drains and the worker
\* threads return.  Nobody has to send or to cancel.
FairSpec == Spec /\ WF_vars(SendStep \/ ReadStep)

-----------------------------------------------------------------------------
(* Properties                                                               *)

FrameType == [id : Packets, part : Nat, last : BOOLEAN, packed : Nat]
DecoderType ==
    [inflated : Nat, buffers : [Packets -> Seq(Nat)],
     packets : Seq([id : Packets, parts : Seq(Nat)]),
     error : {"none", "desync", "partials", "overflow"}]

\* Every variable holds a value of the kind the code keeps there, and the
\* queue of the lock holds each task that waits for it once, and no other.
TypeOK ==
    /\ spc \in [Packets -> {"idle", "queued", "drain", "done", "failed", "cancelled"}]
    /\ written \in [Packets -> Nat] /\ passed \in [Packets -> Nat]
    /\ waiters \in Seq(Packets) /\ IsInjective(waiters)
    /\ ToSet(waiters) = {p \in Packets : spc[p] = "queued"}
    /\ holder \in Packets \cup {"none"}
    /\ closing \in BOOLEAN /\ deflated \in Nat /\ finished \in Seq(Packets)
    /\ wire \in Seq(FrameType) /\ group \in Seq(FrameType)
    /\ rpc \in {"read", "worker", "dropping", "ending", "stopped"} /\ decoder \in DecoderType
    /\ dropped \subseteq Packets /\ cancels \in Nat

\* The two dictionaries of a direction move in step: no body is ever inflated
\* at another position than the one it was deflated at, although frames of
\* several packets interleave, bodies travel raw or compressed, groups are
\* decoded in a worker thread and the reader is cancelled ("The read lock
\* preserves dictionary order and waits for an active decoder before
\* propagating cancellation", docs/api/protocol.md).
InStep == decoder.error # "desync"

\* A packet is put together from its own frames, all of them, in order.
Whole ==
    \A i \in 1..Len(decoder.packets) :
        decoder.packets[i].parts = [k \in 1..FrameCount[decoder.packets[i].id] |-> k]

\* A large transfer cannot hold the channel: a task that waits for its turn
\* sees at most one frame of each other task pass ("The write lock is released
\* between fragments, so packets with a different packet_id interleave").
FairTurns == \A p \in Packets : passed[p] <= Cardinality(Packets) - 1

\* The limits of the receive side are for a faulty peer only: two ends that run
\* this code, with no more senders than buffers, never meet them ("They stop a
\* faulty peer from exhausting memory").
LimitsAreForFaults == decoder.error \notin {"partials", "overflow"}

\* The direction implements PacketChannel.
Channel == INSTANCE PacketChannel WITH
    sent <- finished,
    received <- [i \in 1..Len(decoder.packets) |-> decoder.packets[i].id]

\* Packets are decoded whole, each once, in the order in which their last
\* frames were written; this is what Stream and the other modules take the
\* wire to be.
KeepsChannel == Channel!Spec

\* A receive that is cancelled loses at most the packet that was being decoded
\* for it; what it had read of other packets is kept for the next one ("must
\* not discard bodies already read", finally clause of receive).
LosesOne == Cardinality(dropped) <= cancels

\* Every packet whose task was not cancelled is handed over by receive, unless
\* that call of receive was cancelled while it decoded the packet
\* (decode_in_thread), or a cancelled task closed the writer.
AllArrive ==
    \A p \in Packets :
        spc[p] = "queued" ~>
            \/ p \notin dropped /\ \E i \in 1..Len(decoder.packets) : decoder.packets[i].id = p
            \/ p \in dropped
            \/ spc[p] = "cancelled" \/ closing

\* One direction of a connection keeps its codec, its packets and its turns
\* while packets interleave and tasks are cancelled, and a cancelled receive
\* costs one packet at most (send_payload, receive, decode_in_thread).
FramesSafe == TypeOK /\ InStep /\ Whole /\ FairTurns /\ LosesOne
=============================================================================
