---------------------------- MODULE FramesProofs ----------------------------
(***************************************************************************)
(* Theorems about Frames, for any packets of any lengths, any number of    *)
(* senders, every decode threshold, group and limit of the reassembly.     *)
(*                                                                         *)
(* The frames in flight are those of the group and then those on the wire. *)
(* Each moves a cursor: the position in the dictionary, the frames of each *)
(* packet and the number of complete packets.  The trail of the cursors    *)
(* leads from where the decoder is to where the senders are, and every     *)
(* step of the reader or of a sender shortens or extends it by a frame.    *)
(***************************************************************************)
EXTENDS Frames, SequenceTheorems, FiniteSetTheorems, TLAPS

USE FramesConstants DEF senderVars

-----------------------------------------------------------------------------
(* The invariant                                                            *)

\* A task that waits or has yet to begin has frames left, and the task that
\* holds the lock is in drain.
Senders ==
    /\ \A p \in Packets : written[p] <= FrameCount[p]
    /\ \A p \in Packets : spc[p] \in {"idle", "queued"} => written[p] < FrameCount[p]
    /\ holder # "none" => spc[holder] = "drain"

\* Those in front of a task in the queue, and those that passed it since it
\* asked for the lock, are different tasks.
Turns ==
    /\ \A i \in 1..Len(waiters) : passed[waiters[i]] + i <= Cardinality(Packets)
    /\ \A p \in Packets : passed[p] + 1 <= Cardinality(Packets)
    /\ \A p \in Packets : spc[p] \in {"idle", "drain"} => passed[p] = 0

\* Only the last frame of a group can complete a packet, and a group that is
\* still read, or was when the file ended, has none that does.
Groups ==
    /\ group # <<>> => DECODE_THRESHOLD # -1
    /\ rpc \in {"worker", "dropping", "ending"} => group # <<>>
    /\ rpc \in {"read", "ending"} => \A k \in 1..Len(group) : ~group[k].last
    /\ \A k \in 1..Len(group) : group[k].last => k = Len(group)
    /\ rpc # "stopped" => decoder.error = "none"

\* Every packet that was dropped, and the one that a cancelled receive is about
\* to drop, has a cancellation of its own.
Lost ==
    /\ IsFiniteSet(dropped) /\ dropped \subseteq Packets /\ cancels \in Nat
    /\ Cardinality(dropped) <= cancels
    /\ rpc = "dropping" => Cardinality(dropped) + 1 <= cancels

Flight == group \o wire

\* A cursor is a place in the stream of frames.
Cursor == [dict : Nat, parts : [Packets -> Nat], out : Nat]

\* The frame f leads from cursor c to cursor d, where s are the packets that
\* were written completely.
Moves(c, f, d, s) ==
    /\ f.packed = 0 => d.dict = c.dict
    /\ f.packed # 0 => f.packed = c.dict + 1 /\ d.dict = c.dict + 1
    /\ f.part = c.parts[f.id] + 1 /\ d.parts = [c.parts EXCEPT ![f.id] = c.parts[f.id] + 1]
    /\ f.part <= FrameCount[f.id] /\ (f.last <=> f.part = FrameCount[f.id])
    /\ f.last => d.out = c.out + 1 /\ d.out <= Len(s) /\ s[d.out] = f.id
    /\ ~f.last => d.out = c.out

\* The frames of w lead from a to b.
Trail(w, a, b, s) ==
    \E t \in [0..Len(w) -> Cursor] :
        /\ t[0] = a /\ t[Len(w)] = b
        /\ \A k \in 1..Len(w) : Moves(t[k-1], w[k], t[k], s)

\* Of a packet the decoder holds the first n frames, or it has finished it.
Consumed(buffer, n, count) ==
    \/ Len(buffer) = n /\ \A i \in 1..n : buffer[i] = i
    \/ buffer = <<>> /\ n = count

\* The cursor of the decoder, and that of the senders.
Reached(c, d) ==
    /\ c \in Cursor /\ c.dict = d.inflated /\ c.out = Len(d.packets)
    /\ \A p \in Packets : Consumed(d.buffers[p], c.parts[p], FrameCount[p])
Sent == [dict |-> deflated, parts |-> written, out |-> Len(finished)]

Linked == rpc # "stopped" => \E c \in Cursor : Reached(c, decoder) /\ Trail(Flight, c, Sent, finished)

\* The tasks of Q wait in w, each once.
Queue(w, Q) == w \in Seq(Packets) /\ IsInjective(w) /\ ToSet(w) = Q

\* TypeOK, what of it is the senders' and what is the reader's.
SenderTypes ==
    /\ spc \in [Packets -> {"idle", "queued", "drain", "done", "failed", "cancelled"}]
    /\ written \in [Packets -> Nat] /\ passed \in [Packets -> Nat]
    /\ Queue(waiters, {p \in Packets : spc[p] = "queued"})
    /\ holder \in Packets \cup {"none"}
    /\ closing \in BOOLEAN /\ deflated \in Nat /\ finished \in Seq(Packets)
ReaderTypes ==
    /\ wire \in Seq(FrameType) /\ group \in Seq(FrameType)
    /\ rpc \in {"read", "worker", "dropping", "ending", "stopped"} /\ decoder \in DecoderType

SenderInv == SenderTypes /\ Senders /\ Turns
ReaderInv == ReaderTypes /\ InStep /\ Whole /\ Groups /\ Linked
FramesInv == SenderInv /\ ReaderInv /\ Lost

-----------------------------------------------------------------------------
(* Trails                                                                   *)

\* No frame: the trail ends where it starts.
LEMMA TrailEmpty == ASSUME NEW a \in Cursor, NEW s PROVE Trail(<<>>, a, a, s)
<1> DEFINE t == [k \in 0..0 |-> a]
<1>1. t \in [0..0 -> Cursor] /\ t[0] = a  OBVIOUS
<1>2. Len(<<>>) = 0 /\ 1..0 = {}  OBVIOUS
<1> QED  BY <1>1, <1>2 DEF Trail

\* One more packet is complete: what was, still is.
LEMMA TrailMore ==
    ASSUME NEW w \in Seq(FrameType), NEW a, NEW b, NEW s \in Seq(Packets), NEW p \in Packets, Trail(w, a, b, s)
    PROVE  Trail(w, a, b, Append(s, p))
<1>1. PICK t \in [0..Len(w) -> Cursor] :
        t[0] = a /\ t[Len(w)] = b /\ \A k \in 1..Len(w) : Moves(t[k-1], w[k], t[k], s)
  BY DEF Trail
<1>2. ASSUME NEW k \in 1..Len(w) PROVE Moves(t[k-1], w[k], t[k], Append(s, p))
  <2>1. Moves(t[k-1], w[k], t[k], s)  BY <1>1
  <2>2. k \in 0..Len(w) /\ k - 1 \in 0..Len(w)  OBVIOUS
  <2>3. t[k] \in Cursor /\ t[k-1] \in Cursor  BY <2>2
  <2>4. t[k].out \in Nat /\ t[k-1].out \in Nat  BY <2>3 DEF Cursor
  <2> DEFINE n == t[k].out
  <2>5. Len(s) \in Nat /\ Len(Append(s, p)) = Len(s) + 1 /\ \A i \in 1..Len(s) : Append(s, p)[i] = s[i]  OBVIOUS
  <2>6. w[k].last => n <= Len(Append(s, p)) /\ Append(s, p)[n] = w[k].id
    <3> SUFFICES ASSUME w[k].last PROVE n <= Len(Append(s, p)) /\ Append(s, p)[n] = w[k].id  OBVIOUS
    <3>1. n = t[k-1].out + 1 /\ n <= Len(s) /\ s[n] = w[k].id  BY <2>1 DEF Moves
    <3>2. n \in 1..Len(s)  BY <2>4, <2>5, <3>1
    <3> QED  BY <2>5, <3>1, <3>2
  <2> QED  BY <2>1, <2>6 DEF Moves
<1> QED  BY <1>1, <1>2 DEF Trail

\* One more frame.
LEMMA TrailAppend ==
    ASSUME NEW w \in Seq(FrameType), NEW f \in FrameType, NEW a, NEW b, NEW c \in Cursor, NEW s,
           Trail(w, a, b, s), Moves(b, f, c, s)
    PROVE  Trail(Append(w, f), a, c, s)
<1>1. PICK t \in [0..Len(w) -> Cursor] :
        t[0] = a /\ t[Len(w)] = b /\ \A k \in 1..Len(w) : Moves(t[k-1], w[k], t[k], s)
  BY DEF Trail
<1> DEFINE n == Len(w)
           v == [k \in 0..(n+1) |-> IF k \in 0..n THEN t[k] ELSE c]
           u == Append(w, f)
<1>2. n \in Nat /\ Len(u) = n + 1 /\ u[n+1] = f /\ \A k \in 1..n : u[k] = w[k]  OBVIOUS
<1> HIDE DEF n, u
<1>3. t \in [0..n -> Cursor] /\ t[n] = b /\ \A k \in 1..n : Moves(t[k-1], w[k], t[k], s)  BY <1>1 DEF n
<1>4. \A k \in 0..n : v[k] = t[k]  BY <1>2
<1>5. v[n+1] = c  BY <1>2
<1>6. v \in [0..(n+1) -> Cursor]  BY <1>2, <1>3
<1>7. ASSUME NEW k \in 1..(n+1) PROVE Moves(v[k-1], u[k], v[k], s)
  <2>1. CASE k \in 1..n
    <3>1. k \in 0..n /\ k - 1 \in 0..n  BY <1>2, <2>1
    <3> HIDE DEF v
    <3> QED  BY <1>2, <1>3, <1>4, <2>1, <3>1
  <2>2. CASE k = n + 1
    <3>1. n \in 0..n /\ k - 1 = n  BY <1>2, <2>2
    <3>2. v[k-1] = b /\ v[k] = c /\ u[k] = f  BY <1>2, <1>3, <1>4, <1>5, <2>2, <3>1
    <3> QED  BY <3>2
  <2> QED  BY <1>2, <2>1, <2>2
<1>8. v[0] = a  BY <1>1, <1>2, <1>4
<1> HIDE DEF v
<1>9. Trail(u, a, c, s)  BY <1>2, <1>5, <1>6, <1>7, <1>8 DEF Trail
<1> QED  BY <1>9 DEF u

\* The first frame leaves: it leads from the start to where the rest starts.
LEMMA TrailTail ==
    ASSUME NEW w \in Seq(FrameType), w # <<>>, NEW a, NEW b, NEW s, Trail(w, a, b, s)
    PROVE  \E c \in Cursor : Moves(a, Head(w), c, s) /\ Trail(Tail(w), c, b, s)
<1>1. PICK t \in [0..Len(w) -> Cursor] :
        t[0] = a /\ t[Len(w)] = b /\ \A k \in 1..Len(w) : Moves(t[k-1], w[k], t[k], s)
  BY DEF Trail
<1> DEFINE n == Len(w)
           u == Tail(w)
           v == [k \in 0..(n-1) |-> t[k+1]]
<1>2. n \in Nat /\ n > 0 /\ Head(w) = w[1] /\ Len(u) = n - 1 /\ \A k \in 1..(n-1) : u[k] = w[k+1]  OBVIOUS
<1> HIDE DEF n, u
<1>3. t \in [0..n -> Cursor] /\ t[n] = b /\ \A k \in 1..n : Moves(t[k-1], w[k], t[k], s)  BY <1>1 DEF n
<1>4. v \in [0..(n-1) -> Cursor] /\ v[0] = t[1] /\ v[n-1] = t[n]  BY <1>2, <1>3
<1>5. ASSUME NEW k \in 1..(n-1) PROVE Moves(v[k-1], u[k], v[k], s)
  <2>1. k + 1 \in 1..n /\ (k + 1) - 1 = k /\ v[k] = t[k+1] /\ v[k-1] = t[k]  BY <1>2
  <2>2. Moves(t[(k+1)-1], w[k+1], t[k+1], s)  BY <1>3, <2>1
  <2> QED  BY <1>2, <2>1, <2>2
<1>6. t[1] \in Cursor /\ Moves(a, Head(w), t[1], s)
  <2>1. 1 \in 1..n /\ 1 - 1 = 0 /\ 1 \in 0..n  BY <1>2
  <2>2. Moves(t[1-1], w[1], t[1], s)  BY <1>3, <2>1
  <2> QED  BY <1>1, <1>2, <1>3, <2>1, <2>2
<1> HIDE DEF v
<1>7. Trail(u, t[1], b, s)  BY <1>2, <1>3, <1>4, <1>5 DEF Trail
<1> QED  BY <1>6, <1>7 DEF u

-----------------------------------------------------------------------------
(* The decoder                                                              *)

PacketType == [id : Packets, parts : Seq(Nat)]
WholePackets(packets) ==
    \A i \in 1..Len(packets) : packets[i].parts = [k \in 1..FrameCount[packets[i].id] |-> k]

\* A frame on the trail is inflated where it was deflated.
LEMMA InflateStep ==
    ASSUME NEW d \in DecoderType, d.error = "none", NEW c \in Cursor, NEW n \in Cursor, NEW f \in FrameType, NEW s,
           c.dict = d.inflated, Moves(c, f, n, s)
    PROVE  Inflate(d, f) = [d EXCEPT !.inflated = n.dict]
<1>1. d.inflated \in Nat /\ n.dict \in Nat /\ f.packed \in Nat  BY DEF DecoderType, Cursor, FrameType
<1>2. CASE f.packed = 0
  <2>1. n.dict = d.inflated /\ Inflate(d, f) = d  BY <1>2 DEF Moves, Inflate
  <2> QED  BY <2>1 DEF DecoderType
<1>3. CASE f.packed # 0
  <2>1. f.packed = d.inflated + 1 /\ n.dict = d.inflated + 1  BY <1>3 DEF Moves
  <2> QED  BY <1>3, <2>1 DEF Inflate
<1> QED  BY <1>2, <1>3

\* store adds a frame to the buffer of its packet, or refuses it.
LEMMA StoreStep ==
    ASSUME NEW d \in DecoderType, NEW f \in FrameType
    PROVE  /\ Store(d, f) \in DecoderType
           /\ Store(d, f).error # "desync" \/ d.error = "desync"
           /\ Store(d, f).packets = d.packets
           /\ Store(d, f).error = "none" =>
                Store(d, f) = [d EXCEPT !.buffers = [d.buffers EXCEPT ![f.id] = Append(d.buffers[f.id], f.part)]]
<1> DEFINE b == [d.buffers EXCEPT ![f.id] = Append(d.buffers[f.id], f.part)]
<1>1. f.id \in Packets /\ f.part \in Nat /\ d.buffers \in [Packets -> Seq(Nat)]  BY DEF DecoderType, FrameType
<1>2. b \in [Packets -> Seq(Nat)]  BY <1>1
<1>3. \/ Store(d, f) = [d EXCEPT !.error = "partials"]
      \/ Store(d, f) = [d EXCEPT !.error = "overflow"]
      \/ Store(d, f) = [d EXCEPT !.buffers = b]
  BY DEF Store
<1> HIDE DEF b
<1>4. CASE Store(d, f) = [d EXCEPT !.error = "partials"]  BY <1>4 DEF DecoderType
<1>5. CASE Store(d, f) = [d EXCEPT !.error = "overflow"]  BY <1>5 DEF DecoderType
<1>6. CASE Store(d, f) = [d EXCEPT !.buffers = b]  BY <1>2, <1>6 DEF DecoderType, b
<1> QED  BY <1>3, <1>4, <1>5, <1>6

\* take completes a packet and frees its buffer.
LEMMA TakeStep ==
    ASSUME NEW d \in DecoderType, NEW f \in FrameType
    PROVE  LET packet == [id |-> f.id, parts |-> Append(d.buffers[f.id], f.part)]
               buffers == [d.buffers EXCEPT ![f.id] = <<>>]
           IN  /\ Take(d, f) = [d EXCEPT !.packets = Append(d.packets, packet), !.buffers = buffers]
               /\ packet \in PacketType /\ buffers \in [Packets -> Seq(Nat)]
               /\ Take(d, f) \in DecoderType
<1> DEFINE packet == [id |-> f.id, parts |-> Append(d.buffers[f.id], f.part)]
           buffers == [d.buffers EXCEPT ![f.id] = <<>>]
<1>1. f.id \in Packets /\ f.part \in Nat /\ d.buffers \in [Packets -> Seq(Nat)] /\ d.packets \in Seq(PacketType)
  BY DEF DecoderType, FrameType, PacketType
<1>2. packet \in PacketType  BY <1>1 DEF PacketType
<1>3. buffers \in [Packets -> Seq(Nat)]
  <2>1. <<>> \in Seq(Nat)  OBVIOUS
  <2> QED  BY <1>1, <2>1
<1>4. Take(d, f) = [d EXCEPT !.packets = Append(d.packets, packet), !.buffers = buffers]  BY DEF Take
<1> HIDE DEF packet, buffers
<1>5. Append(d.packets, packet) \in Seq(PacketType)  BY <1>1, <1>2
<1>6. Take(d, f) \in DecoderType  BY <1>3, <1>4, <1>5 DEF DecoderType, PacketType
<1> QED  BY <1>2, <1>3, <1>4, <1>6 DEF packet, buffers

\* The first frame in flight is decoded: the decoder follows the trail, unless
\* a limit stops it, and a packet that this completes is whole and the next one
\* that was sent.
LEMMA DecodeStep ==
    ASSUME NEW d \in DecoderType, d.error = "none", NEW f \in FrameType, NEW c \in Cursor, NEW n \in Cursor,
           NEW s \in Seq(Packets), Reached(c, d), Moves(c, f, n, s), WholePackets(d.packets)
    PROVE  LET e == DecodeFrame(d, f)
           IN  /\ e \in DecoderType /\ e.error # "desync" /\ WholePackets(e.packets)
               /\ e.error = "none" => Reached(n, e)
               /\ \/ e.packets = d.packets
                  \/ /\ Len(d.packets) < Len(s)
                     /\ \E packet \in PacketType :
                            e.packets = Append(d.packets, packet) /\ packet.id = s[Len(d.packets) + 1]
<1> DEFINE i == [d EXCEPT !.inflated = n.dict]
           e == DecodeFrame(d, f)
           p == f.id
           b == d.buffers[p]
           m == c.parts[p]
<1>1. Inflate(d, f) = i  BY InflateStep DEF Reached
<1>2. i \in DecoderType /\ i.error = "none" /\ i.packets = d.packets /\ i.buffers = d.buffers /\ i.inflated = n.dict
  BY DEF DecoderType, Cursor
<1>3. e = IF f.last THEN Take(i, f) ELSE Store(i, f)  BY <1>1, <1>2 DEF DecodeFrame
<1>4. /\ p \in Packets /\ f.part \in Nat /\ b \in Seq(Nat) /\ m \in Nat /\ FrameCount[p] \in Nat
      /\ d.packets \in Seq(PacketType) /\ d.buffers \in [Packets -> Seq(Nat)]
  BY DEF DecoderType, FrameType, Cursor, PacketType
<1>5. f.part = m + 1 /\ f.part <= FrameCount[p] /\ (f.last <=> f.part = FrameCount[p])  BY DEF Moves
<1>6. Len(b) = m /\ \A k \in 1..m : b[k] = k
  <2>1. Consumed(b, m, FrameCount[p])  BY <1>4 DEF Reached
  <2>2. m # FrameCount[p]  BY <1>4, <1>5
  <2> QED  BY <2>1, <2>2 DEF Consumed
<1>7. n.parts[p] = m + 1 /\ \A q \in Packets \ {p} : n.parts[q] = c.parts[q]
  <2>1. n.parts = [c.parts EXCEPT ![p] = m + 1] /\ c.parts \in [Packets -> Nat]  BY DEF Moves, Cursor
  <2> QED  BY <1>4, <2>1
<1>8. \A q \in Packets \ {p} : Consumed(d.buffers[q], n.parts[q], FrameCount[q])  BY <1>7 DEF Reached
<1> DEFINE g == Append(b, f.part)
<1>9. g \in Seq(Nat) /\ Len(g) = m + 1 /\ \A k \in 1..(m+1) : g[k] = k  BY <1>4, <1>5, <1>6
<1> HIDE DEF i, e, b, m, g
<1>10. CASE f.last
  <2> DEFINE packet == [id |-> f.id, parts |-> g]
             buffers == [d.buffers EXCEPT ![p] = <<>>]
  <2>1. e = [i EXCEPT !.packets = Append(d.packets, packet), !.buffers = buffers] /\ e \in DecoderType /\ packet \in PacketType
    <3>1. Append(i.buffers[f.id], f.part) = g /\ [i.buffers EXCEPT ![f.id] = <<>>] = buffers /\ e = Take(i, f)
      BY <1>2, <1>3, <1>10 DEF g, b
    <3>2. /\ Take(i, f) = [i EXCEPT !.packets = Append(i.packets, [id |-> f.id, parts |-> Append(i.buffers[f.id], f.part)]),
                                    !.buffers = [i.buffers EXCEPT ![f.id] = <<>>]]
          /\ [id |-> f.id, parts |-> Append(i.buffers[f.id], f.part)] \in PacketType
          /\ Take(i, f) \in DecoderType
      BY <1>2, TakeStep
    <3> QED  BY <1>2, <3>1, <3>2
  <2>2. packet.parts = [k \in 1..FrameCount[p] |-> k] /\ packet.id = p
    <3>1. m + 1 = FrameCount[p] /\ DOMAIN g = 1..(m+1)  BY <1>5, <1>9, <1>10
    <3>2. g = [k \in 1..(m+1) |-> g[k]]  BY <1>9, <3>1
    <3>3. g = [k \in 1..(m+1) |-> k]  BY <1>9, <3>2
    <3> QED  BY <3>1, <3>3
  <2> DEFINE l == Len(d.packets)
  <2>3. n.out = l + 1 /\ n.out <= Len(s) /\ s[n.out] = p /\ l \in Nat /\ Len(s) \in Nat
    BY <1>4, <1>10 DEF Moves, Reached
  <2> HIDE DEF packet
  <2>4. e.packets = Append(d.packets, packet) /\ e.buffers = buffers /\ e.inflated = n.dict /\ e.error = "none"
    BY <1>2, <2>1 DEF DecoderType
  <2>5. Len(e.packets) = l + 1 /\ e.packets[l+1] = packet /\ \A k \in 1..l : e.packets[k] = d.packets[k]
    BY <1>4, <2>1, <2>4
  <2> HIDE DEF l
  <2>6. WholePackets(e.packets)
    <3> SUFFICES ASSUME NEW k \in 1..(l+1)
                 PROVE  e.packets[k].parts = [j \in 1..FrameCount[e.packets[k].id] |-> j]
      BY <2>5 DEF WholePackets
    <3>1. CASE k \in 1..l
      <4>1. d.packets[k].parts = [j \in 1..FrameCount[d.packets[k].id] |-> j]  BY <3>1 DEF WholePackets, l
      <4> QED  BY <2>5, <3>1, <4>1
    <3>2. CASE k = l + 1  BY <2>2, <2>5, <3>2
    <3> QED  BY <2>3, <3>1, <3>2
  <2>7. Reached(n, e)
    <3>1. \A q \in Packets \ {p} : e.buffers[q] = d.buffers[q]  BY <1>4, <2>4
    <3>2. e.buffers[p] = <<>> /\ n.parts[p] = FrameCount[p]  BY <1>4, <1>5, <1>7, <1>10, <2>4
    <3>3. Consumed(e.buffers[p], n.parts[p], FrameCount[p])  BY <3>2 DEF Consumed
    <3>4. \A q \in Packets : Consumed(e.buffers[q], n.parts[q], FrameCount[q])  BY <1>8, <3>1, <3>3
    <3> QED  BY <2>3, <2>4, <2>5, <3>4 DEF Reached
  <2>8. l < Len(s) /\ s[l+1] = packet.id  BY <2>2, <2>3
  <2> QED  BY <2>1, <2>4, <2>6, <2>7, <2>8 DEF e, l
<1>11. CASE ~f.last
  <2> DEFINE buffers == [d.buffers EXCEPT ![p] = g]
  <2>1. e \in DecoderType /\ e.error # "desync" /\ e.packets = d.packets
    BY <1>2, <1>3, <1>11, StoreStep
  <2>2. e.error = "none" => e = [i EXCEPT !.buffers = buffers]
    <3>1. e = Store(i, f)  BY <1>3, <1>11
    <3>2. Store(i, f).error = "none" =>
            Store(i, f) = [i EXCEPT !.buffers = [i.buffers EXCEPT ![f.id] = Append(i.buffers[f.id], f.part)]]
      BY <1>2, StoreStep
    <3> QED  BY <1>2, <3>1, <3>2 DEF g, b
  <2>3. ASSUME e.error = "none" PROVE Reached(n, e)
    <3>1. e.buffers = buffers /\ e.inflated = n.dict  BY <1>2, <2>2, <2>3 DEF DecoderType
    <3>2. \A q \in Packets \ {p} : e.buffers[q] = d.buffers[q]  BY <1>4, <3>1
    <3>3. e.buffers[p] = g  BY <1>4, <3>1
    <3>4. Consumed(e.buffers[p], n.parts[p], FrameCount[p])  BY <1>7, <1>9, <3>3 DEF Consumed
    <3>5. \A q \in Packets : Consumed(e.buffers[q], n.parts[q], FrameCount[q])  BY <1>8, <3>2, <3>4
    <3>6. n.out = Len(e.packets)  BY <1>11, <2>1 DEF Moves, Reached
    <3> QED  BY <3>1, <3>5, <3>6 DEF Reached
  <2>4. WholePackets(e.packets)  BY <2>1
  <2> QED  BY <2>1, <2>3, <2>4 DEF e
<1> QED  BY <1>10, <1>11

-----------------------------------------------------------------------------
(* The queue of the lock                                                    *)

\* A queue, by its positions.
LEMMA QueueMembers ==
    ASSUME NEW w \in Seq(Packets), NEW Q
    PROVE  Queue(w, Q) <=> /\ \A i, j \in 1..Len(w) : w[i] = w[j] => i = j
                           /\ \A i \in 1..Len(w) : w[i] \in Q
                           /\ \A p \in Q : \E i \in 1..Len(w) : w[i] = p
<1>1. DOMAIN w = 1..Len(w)  OBVIOUS
<1>2. IsInjective(w) <=> \A i, j \in 1..Len(w) : w[i] = w[j] => i = j  BY <1>1 DEF IsInjective
<1>3. ToSet(w) = {w[i] : i \in 1..Len(w)}  BY <1>1 DEF ToSet
<1>4. {w[i] : i \in 1..Len(w)} = Q <=> /\ \A i \in 1..Len(w) : w[i] \in Q
                                      /\ \A p \in Q : \E i \in 1..Len(w) : w[i] = p
  OBVIOUS
<1> QED  BY <1>2, <1>3, <1>4 DEF Queue

\* A task joins the queue.
LEMMA QueueAppend ==
    ASSUME NEW w, NEW Q, NEW p \in Packets, Queue(w, Q), p \notin Q PROVE Queue(Append(w, p), Q \cup {p})
<1>1. w \in Seq(Packets)  BY DEF Queue
<1> DEFINE n == Len(w)
           u == Append(w, p)
<1>2. n \in Nat /\ u \in Seq(Packets) /\ Len(u) = n + 1 /\ u[n+1] = p /\ \A k \in 1..n : u[k] = w[k]  BY <1>1
<1>3. /\ \A i, j \in 1..n : w[i] = w[j] => i = j
      /\ \A i \in 1..n : w[i] \in Q
      /\ \A q \in Q : \E i \in 1..n : w[i] = q
  BY <1>1, QueueMembers
<1> HIDE DEF n, u
<1>4. \A i \in 1..(n+1) : i \in 1..n \/ i = n + 1  BY <1>2
<1>5. \A i, j \in 1..(n+1) : u[i] = u[j] => i = j  BY <1>2, <1>3, <1>4
<1>6. \A i \in 1..(n+1) : u[i] \in Q \cup {p}  BY <1>2, <1>3, <1>4
<1>7. \A q \in Q \cup {p} : \E i \in 1..(n+1) : u[i] = q
  <2> SUFFICES ASSUME NEW q \in Q \cup {p} PROVE \E i \in 1..(n+1) : u[i] = q  OBVIOUS
  <2>1. CASE q = p
    <3>1. n + 1 \in 1..(n+1)  BY <1>2
    <3> QED  BY <1>2, <2>1, <3>1
  <2>2. CASE q \in Q
    <3>1. PICK i \in 1..n : w[i] = q  BY <1>3, <2>2
    <3>2. i \in 1..(n+1) /\ u[i] = q  BY <1>2, <3>1
    <3> QED  BY <3>2
  <2> QED  BY <2>1, <2>2
<1>8. Queue(u, Q \cup {p})  BY <1>2, <1>5, <1>6, <1>7, QueueMembers
<1> QED  BY <1>8 DEF u

\* A task leaves the queue: those behind it move up.
LEMMA QueueRemove ==
    ASSUME NEW w, NEW Q, Queue(w, Q), NEW i \in 1..Len(w)
    PROVE  LET u == RemoveAt(w, i)
           IN  /\ Queue(u, Q \ {w[i]}) /\ Len(u) = Len(w) - 1
               /\ \A k \in 1..Len(u) : u[k] = IF k < i THEN w[k] ELSE w[k+1]
<1>1. w \in Seq(Packets)  BY DEF Queue
<1> DEFINE n == Len(w)
           u == RemoveAt(w, i)
<1>2. n \in Nat /\ i \in 1..n  BY <1>1
<1>3. u \in Seq(Packets) /\ Len(u) = n - 1 /\ \A k \in 1..(n-1) : u[k] = IF k < i THEN w[k] ELSE w[k+1]
  <2> DEFINE a == SubSeq(w, 1, i-1)
             b == SubSeq(w, i+1, n)
  <2>1. a \in Seq(Packets) /\ Len(a) = i - 1 /\ \A k \in 1..(i-1) : a[k] = w[k]
    <3>1. 1..(i-1) \subseteq 1..n  BY <1>2
    <3> QED  BY <1>1, <1>2, <3>1, SubSeqProperties
  <2>2. b \in Seq(Packets) /\ Len(b) = n - i /\ \A k \in 1..(n-i) : b[k] = w[i+k]
    <3>1. (i+1)..n \subseteq 1..n /\ \A k \in 1..(n-i) : (i + 1) + k - 1 = i + k  BY <1>2
    <3> QED  BY <1>1, <1>2, <3>1, SubSeqProperties
  <2>3. u = a \o b  BY DEF RemoveAt
  <2> HIDE DEF a, b, n, u
  <2>4. u \in Seq(Packets) /\ Len(u) = n - 1
    <3>1. u \in Seq(Packets) /\ Len(u) = Len(a) + Len(b)  BY ONLY <2>1, <2>2, <2>3, ConcatProperties
    <3>2. (i - 1) + (n - i) = n - 1  BY <1>2
    <3> QED  BY <2>1, <2>2, <3>1, <3>2
  <2>5. ASSUME NEW k \in 1..(n-1) PROVE u[k] = IF k < i THEN w[k] ELSE w[k+1]
    <3>1. CASE k < i
      <4>1. k \in 1..(i-1) /\ k <= Len(a)  BY <1>2, <2>1, <3>1
      <4>2. u[k] = a[k]  BY <1>2, <2>1, <2>2, <2>3, <4>1
      <4> QED  BY <2>1, <3>1, <4>1, <4>2
    <3>2. CASE ~(k < i)
      <4>1. k - (i - 1) \in 1..(n-i) /\ i + (k - (i - 1)) = k + 1  BY <1>2, <3>2
      <4>2. u[k] = b[k - (i - 1)]  BY <1>2, <2>1, <2>2, <2>3, <3>2
      <4> QED  BY <2>2, <3>2, <4>1, <4>2
    <3> QED  BY <3>1, <3>2
  <2> QED  BY <2>4, <2>5
<1>4. /\ \A j, k \in 1..n : w[j] = w[k] => j = k
      /\ \A k \in 1..n : w[k] \in Q
      /\ \A q \in Q : \E k \in 1..n : w[k] = q
  BY <1>1, QueueMembers
<1> HIDE DEF n, u
<1> DEFINE at == [k \in 1..(n-1) |-> IF k < i THEN k ELSE k + 1]
<1>5. \A k \in 1..(n-1) : at[k] \in 1..n /\ at[k] # i /\ u[k] = w[at[k]]  BY <1>2, <1>3
<1>6. \A j, k \in 1..(n-1) : at[j] = at[k] => j = k  BY <1>2
<1>7. \A k \in 1..n : k # i => \E j \in 1..(n-1) : at[j] = k
  <2> SUFFICES ASSUME NEW k \in 1..n, k # i PROVE \E j \in 1..(n-1) : at[j] = k  OBVIOUS
  <2>1. CASE k < i
    <3>1. k \in 1..(n-1) /\ at[k] = k  BY <1>2, <2>1
    <3> QED  BY <3>1
  <2>2. CASE k > i
    <3>1. k - 1 \in 1..(n-1) /\ at[k-1] = k  BY <1>2, <2>2
    <3> QED  BY <3>1
  <2> QED  BY <1>2, <2>1, <2>2
<1> HIDE DEF at
<1>8. \A j, k \in 1..(n-1) : u[j] = u[k] => j = k
  <2> SUFFICES ASSUME NEW j \in 1..(n-1), NEW k \in 1..(n-1), u[j] = u[k] PROVE j = k  OBVIOUS
  <2>1. at[j] \in 1..n /\ at[k] \in 1..n /\ w[at[j]] = w[at[k]]  BY <1>5
  <2>2. at[j] = at[k]  BY ONLY <1>4, <2>1
  <2> QED  BY <1>6, <2>2
<1>9. \A k \in 1..(n-1) : u[k] \in Q \ {w[i]}  BY <1>2, <1>4, <1>5
<1>10. \A q \in Q \ {w[i]} : \E k \in 1..(n-1) : u[k] = q
  <2> SUFFICES ASSUME NEW q \in Q \ {w[i]} PROVE \E k \in 1..(n-1) : u[k] = q  OBVIOUS
  <2>1. PICK k \in 1..n : w[k] = q  BY <1>4
  <2>2. PICK j \in 1..(n-1) : at[j] = k  BY <1>7, <2>1
  <2> QED  BY <1>5, <2>1, <2>2
<1>11. Queue(u, Q \ {w[i]})  BY <1>3, <1>8, <1>9, <1>10, QueueMembers
<1> QED  BY <1>3, <1>11 DEF n, u

\* The head leaves the queue.
LEMMA QueueTail ==
    ASSUME NEW w, NEW Q, Queue(w, Q), w # <<>>
    PROVE  Queue(Tail(w), Q \ {Head(w)}) /\ Head(w) \in Q
<1>1. w \in Seq(Packets)  BY DEF Queue
<1> DEFINE n == Len(w)
           u == Tail(w)
<1>2. /\ n \in Nat /\ n > 0 /\ Head(w) = w[1] /\ u \in Seq(Packets) /\ Len(u) = n - 1
      /\ \A k \in 1..(n-1) : u[k] = w[k+1]
  BY <1>1
<1>3. /\ \A j, k \in 1..n : w[j] = w[k] => j = k
      /\ \A k \in 1..n : w[k] \in Q
      /\ \A q \in Q : \E k \in 1..n : w[k] = q
  BY <1>1, QueueMembers
<1> HIDE DEF n, u
<1>4. 1 \in 1..n /\ \A k \in 1..(n-1) : k + 1 \in 1..n /\ k + 1 # 1  BY <1>2
<1>5. \A j, k \in 1..(n-1) : u[j] = u[k] => j = k
  <2> SUFFICES ASSUME NEW j \in 1..(n-1), NEW k \in 1..(n-1), u[j] = u[k] PROVE j = k  OBVIOUS
  <2>1. j + 1 = k + 1  BY <1>2, <1>3, <1>4
  <2> QED  BY <2>1
<1>6. \A k \in 1..(n-1) : u[k] \in Q \ {w[1]}
  <2> SUFFICES ASSUME NEW k \in 1..(n-1) PROVE u[k] \in Q \ {w[1]}  OBVIOUS
  <2>1. u[k] = w[k+1] /\ k + 1 \in 1..n /\ k + 1 # 1  BY <1>2, <1>4
  <2>2. w[k+1] # w[1]  BY <1>3, <1>4, <2>1
  <2> QED  BY <1>3, <2>1, <2>2
<1>7. \A q \in Q \ {w[1]} : \E k \in 1..(n-1) : u[k] = q
  <2> SUFFICES ASSUME NEW q \in Q \ {w[1]} PROVE \E k \in 1..(n-1) : u[k] = q  OBVIOUS
  <2>1. PICK k \in 1..n : w[k] = q  BY <1>3
  <2>2. k # 1  BY <2>1
  <2>3. k - 1 \in 1..(n-1) /\ (k - 1) + 1 = k  BY <1>2, <2>2
  <2> QED  BY <1>2, <2>1, <2>3
<1>8. Queue(u, Q \ {w[1]})
  <2> DEFINE R == Q \ {w[1]}
  <2>1. u \in Seq(Packets) /\ Len(u) = n - 1  BY <1>2
  <2>2. /\ \A j, k \in 1..Len(u) : u[j] = u[k] => j = k
        /\ \A k \in 1..Len(u) : u[k] \in R
        /\ \A q \in R : \E k \in 1..Len(u) : u[k] = q
    BY <1>5, <1>6, <1>7, <2>1
  <2> HIDE DEF R
  <2>3. Queue(u, R)  BY ONLY <2>1, <2>2, QueueMembers
  <2> QED  BY <2>3 DEF R
<1> QED  BY <1>2, <1>3, <1>4, <1>8 DEF u

\* There are no more tasks in a queue than there are tasks.
LEMMA QueueShort ==
    ASSUME NEW w, NEW Q, Queue(w, Q) PROVE Len(w) <= Cardinality(Packets)
<1>1. w \in Seq(Packets) /\ Len(w) \in Nat  BY DEF Queue
<1>2. Cardinality(Packets) \in Nat  BY FS_CardinalityType
<1>3. IsFiniteSet(1..Len(w)) /\ Cardinality(1..Len(w)) = Len(w)
  <2>1. \A n \in Nat : IsFiniteSet(1..n) /\ Cardinality(1..n) = n
    <3> SUFFICES ASSUME NEW n \in Nat PROVE IsFiniteSet(1..n) /\ Cardinality(1..n) = n  OBVIOUS
    <3>1. /\ IsFiniteSet(1..n) /\ Cardinality(1..n) = IF 1 > n THEN 0 ELSE n - 1 + 1  BY FS_Interval
    <3> QED  BY <3>1
  <2> QED  BY <1>1, <2>1
<1>4. w \in [1..Len(w) -> Packets]  BY <1>1
<1> SUFFICES ASSUME Cardinality(Packets) < Cardinality(1..Len(w)) PROVE FALSE  BY <1>1, <1>2, <1>3
<1>5. PICK i, j \in 1..Len(w) : i # j /\ w[i] = w[j]  BY <1>3, <1>4, FS_PigeonHole
<1> QED  BY <1>1, <1>5, QueueMembers

-----------------------------------------------------------------------------
(* The frames in flight                                                     *)

\* A frame joins at the end; the first of the wire joins the group; the first
\* frame leaves.
LEMMA FlightSteps ==
    ASSUME NEW g \in Seq(FrameType), NEW w \in Seq(FrameType)
    PROVE  /\ g \o w \in Seq(FrameType)
           /\ \A f \in FrameType : g \o Append(w, f) = Append(g \o w, f)
           /\ w # <<>> => Append(g, Head(w)) \o Tail(w) = g \o w
           /\ g # <<>> => Head(g \o w) = Head(g) /\ Tail(g \o w) = Tail(g) \o w /\ g \o w # <<>>
           /\ <<>> \o w = w
<1>1. \A f \in FrameType : g \o Append(w, f) = Append(g \o w, f)
  <2> SUFFICES ASSUME NEW f \in FrameType PROVE g \o Append(w, f) = Append(g \o w, f)  OBVIOUS
  <2> QED  OBVIOUS
<1>2. ASSUME w # <<>> PROVE Append(g, Head(w)) \o Tail(w) = g \o w
  <2>1. Head(w) \in FrameType /\ Tail(w) \in Seq(FrameType) /\ w = <<Head(w)>> \o Tail(w)  BY <1>2
  <2> QED  BY <1>2, <2>1
<1>3. ASSUME g # <<>> PROVE Head(g \o w) = Head(g) /\ Tail(g \o w) = Tail(g) \o w /\ g \o w # <<>>
  BY <1>3
<1>4. <<>> \o w = w  OBVIOUS
<1>5. g \o w \in Seq(FrameType)  OBVIOUS
<1> QED  BY <1>1, <1>2, <1>3, <1>4, <1>5

-----------------------------------------------------------------------------
(* The senders                                                              *)

\* The beginning.
LEMMA FramesInit == Init => FramesInv
<1> SUFFICES ASSUME Init PROVE FramesInv  OBVIOUS
<1>1. SenderTypes
  <2>1. <<>> \in Seq(Packets) /\ Len(<<>>) = 0 /\ 1..0 = {}  OBVIOUS
  <2>2. {p \in Packets : spc[p] = "queued"} = {}  BY DEF Init
  <2>3. Queue(<<>>, {})  BY <2>1, QueueMembers
  <2> QED  BY <2>1, <2>2, <2>3 DEF Init, SenderTypes
<1>2. Senders  BY DEF Init, Senders
<1>3. Turns
  <2>1. \A p \in Packets : 1 <= Cardinality(Packets)
    <3>1. Cardinality(Packets) \in Nat /\ (Cardinality(Packets) = 0 <=> Packets = {})
      BY FS_CardinalityType, FS_EmptySet
    <3> QED  BY <3>1
  <2>2. Len(waiters) = 0 /\ 1..0 = {}  BY DEF Init
  <2> QED  BY <2>1, <2>2 DEF Init, Turns
<1>4. group = <<>> /\ wire = <<>> /\ rpc = "read" /\ Len(group) = 0  BY DEF Init
<1>5. ReaderTypes
  <2>1. decoder.buffers \in [Packets -> Seq(Nat)]  BY DEF Init
  <2>2. decoder \in DecoderType  BY <2>1 DEF Init, DecoderType
  <2> QED  BY <1>4, <2>2 DEF ReaderTypes
<1>6. InStep /\ Whole /\ Groups
  <2>1. decoder.error = "none" /\ Len(decoder.packets) = 0  BY DEF Init
  <2> QED  BY <1>4, <2>1 DEF InStep, Whole, Groups
<1>7. Linked
  <2> DEFINE c == [dict |-> 0, parts |-> [p \in Packets |-> 0], out |-> 0]
  <2>1. c \in Cursor  BY DEF Cursor
  <2>2. Sent = c  BY DEF Init, Sent
  <2>3. Reached(c, decoder)
    <3>1. \A p \in Packets : decoder.buffers[p] = <<>> /\ c.parts[p] = 0  BY DEF Init
    <3>2. \A p \in Packets : Consumed(decoder.buffers[p], c.parts[p], FrameCount[p])  BY <3>1 DEF Consumed
    <3>3. decoder.inflated = 0 /\ Len(decoder.packets) = 0  BY DEF Init
    <3> QED  BY <2>1, <3>2, <3>3 DEF Reached
  <2>4. Flight = <<>>  BY <1>4 DEF Flight
  <2> QED  BY <2>1, <2>2, <2>3, <2>4, TrailEmpty DEF Linked
<1>8. Lost  BY <1>4, FS_EmptySet DEF Init, Lost
<1> QED  BY <1>1, <1>2, <1>3, <1>5, <1>6, <1>7, <1>8 DEF FramesInv, SenderInv, ReaderInv

\* The number of packets bounds the turns.
LEMMA SomePackets == Cardinality(Packets) \in Nat
  BY FS_CardinalityType

\* The queue of the senders, entry by entry.
LEMMA Waiters ==
    ASSUME SenderTypes
    PROVE  /\ waiters \in Seq(Packets) /\ Len(waiters) \in Nat
           /\ \A i \in 1..Len(waiters) : waiters[i] \in Packets /\ spc[waiters[i]] = "queued"
           /\ \A p \in Packets : spc[p] = "queued" => \E i \in 1..Len(waiters) : waiters[i] = p
           /\ \A i, j \in 1..Len(waiters) : waiters[i] = waiters[j] => i = j
<1>1. waiters \in Seq(Packets)  BY DEF SenderTypes, Queue
<1>2. Len(waiters) \in Nat  BY <1>1
<1> DEFINE Q == {p \in Packets : spc[p] = "queued"}
<1>3. Queue(waiters, Q)  BY DEF SenderTypes
<1> HIDE DEF Q
<1>4. /\ \A i, j \in 1..Len(waiters) : waiters[i] = waiters[j] => i = j
      /\ \A i \in 1..Len(waiters) : waiters[i] \in Q
      /\ \A p \in Q : \E i \in 1..Len(waiters) : waiters[i] = p
  BY <1>1, <1>3, QueueMembers
<1> QED  BY <1>1, <1>2, <1>4 DEF Q

\* A task asks for the lock, for its first frame or for the next one.
LEMMA JoinKeeps ==
    ASSUME SenderInv, NEW p \in Packets, spc[p] \in {"idle", "drain"}, written[p] < FrameCount[p],
           spc' = [spc EXCEPT ![p] = "queued"], waiters' = Append(waiters, p),
           (spc[p] = "idle" /\ holder' = holder) \/ holder' = "none",
           UNCHANGED <<written, passed, closing, deflated, finished>>
    PROVE  SenderInv'
<1> USE DEF SenderInv
<1> DEFINE Q == {q \in Packets : spc[q] = "queued"}
<1>1. p \notin Q /\ {q \in Packets : spc'[q] = "queued"} = Q \cup {p}  BY DEF SenderTypes
<1>2. Queue(waiters', Q \cup {p})  BY <1>1, QueueAppend DEF SenderTypes
<1>3. SenderTypes'  BY <1>1, <1>2 DEF SenderTypes
<1>4. Senders'
  <2>1. holder' # "none" => holder' # p /\ holder' \in Packets  BY DEF Senders, SenderTypes
  <2> QED  BY <2>1 DEF Senders, SenderTypes
<1>5. Turns'
  <2> DEFINE n == Len(waiters)
             m == Cardinality(Packets)
  <2>1. n \in Nat /\ m \in Nat /\ Len(waiters') = n + 1 /\ waiters'[n+1] = p /\ \A i \in 1..n : waiters'[i] = waiters[i]
    BY Waiters, SomePackets
  <2>2. n + 1 <= m
    <3>1. Len(waiters') <= m  BY ONLY <1>2, QueueShort
    <3> QED  BY ONLY <2>1, <3>1
  <2>3. \A i \in 1..n : passed[waiters[i]] + i <= m  BY DEF Turns
  <2>4. passed[p] = 0  BY DEF Turns
  <2> HIDE DEF n, m
  <2>5. \A i \in 1..(n+1) : passed'[waiters'[i]] + i <= m
    <3> SUFFICES ASSUME NEW i \in 1..(n+1) PROVE passed'[waiters'[i]] + i <= m  OBVIOUS
    <3>1. CASE i \in 1..n  BY <2>1, <2>3, <3>1
    <3>2. CASE i = n + 1  BY <2>1, <2>2, <2>4, <3>2
    <3> QED  BY <2>1, <3>1, <3>2
  <2>6. \A q \in Packets : passed'[q] + 1 <= m  BY DEF Turns, m
  <2>7. \A q \in Packets : spc'[q] \in {"idle", "drain"} => passed'[q] = 0
    <3>1. \A q \in Packets : spc'[q] \in {"idle", "drain"} => spc[q] \in {"idle", "drain"}  BY DEF SenderTypes
    <3> QED  BY <3>1 DEF Turns
  <2> QED  BY <2>1, <2>5, <2>6, <2>7 DEF Turns, m
<1> QED  BY <1>3, <1>4, <1>5

\* A task leaves the queue without the lock, and those behind it move up.
LEMMA QuitKeeps ==
    ASSUME SenderInv, NEW p \in Packets, spc[p] = "queued", NEW to \in {"failed", "cancelled"},
           spc' = [spc EXCEPT ![p] = to], Queue(waiters', {q \in Packets : spc[q] = "queued"} \ {p}),
           \A k \in 1..Len(waiters') : \E j \in 1..Len(waiters) : k <= j /\ waiters'[k] = waiters[j],
           UNCHANGED <<written, holder, passed, closing, deflated, finished>>
    PROVE  SenderInv'
<1> USE DEF SenderInv
<1>1. {q \in Packets : spc'[q] = "queued"} = {q \in Packets : spc[q] = "queued"} \ {p}  BY DEF SenderTypes
<1>2. SenderTypes'  BY <1>1 DEF SenderTypes
<1>3. Senders'  BY DEF Senders, SenderTypes
<1>4. Turns'
  <2> DEFINE m == Cardinality(Packets)
  <2>1. m \in Nat /\ Len(waiters) \in Nat /\ Len(waiters') \in Nat  BY <1>2, SomePackets, Waiters DEF Queue
  <2>2. ASSUME NEW k \in 1..Len(waiters') PROVE passed'[waiters'[k]] + k <= m
    <3>1. PICK j \in 1..Len(waiters) : k <= j /\ waiters'[k] = waiters[j]  OBVIOUS
    <3>2. passed[waiters[j]] + j <= m /\ passed[waiters[j]] \in Nat  BY Waiters DEF Turns, SenderTypes
    <3> HIDE DEF m
    <3> QED  BY <2>1, <3>1, <3>2
  <2>3. \A q \in Packets : spc'[q] \in {"idle", "drain"} => spc[q] \in {"idle", "drain"}  BY DEF SenderTypes
  <2> QED  BY <2>2, <2>3 DEF Turns
<1> QED  BY <1>2, <1>3, <1>4

\* A task gives the lock back for good.
LEMMA DoneKeeps ==
    ASSUME SenderInv, NEW p \in Packets, holder = p, holder' = "none", closing' \in BOOLEAN,
           NEW to \in {"done", "cancelled"}, spc' = [spc EXCEPT ![p] = to],
           UNCHANGED <<written, waiters, passed, deflated, finished>>
    PROVE  SenderInv'
<1> USE DEF SenderInv
<1>1. spc[p] = "drain"  BY DEF Senders
<1>2. {q \in Packets : spc'[q] = "queued"} = {q \in Packets : spc[q] = "queued"}  BY <1>1 DEF SenderTypes
<1>3. SenderTypes'  BY <1>2 DEF SenderTypes
<1>4. Senders'  BY DEF Senders, SenderTypes
<1>5. Turns'
  <2>1. \A q \in Packets : spc'[q] \in {"idle", "drain"} => spc[q] \in {"idle", "drain"}  BY DEF SenderTypes
  <2> QED  BY <2>1 DEF Turns
<1> QED  BY <1>3, <1>4, <1>5

\* send_frame: the head of the queue writes, and passes those that still wait.
LEMMA WriteSender == ASSUME SenderInv, NEW p \in Packets, WriteFrame(p) PROVE SenderInv'
<1> USE DEF SenderInv
<1>1. /\ waiters # <<>> /\ Head(waiters) = p /\ waiters' = Tail(waiters) /\ holder' = p /\ UNCHANGED closing
      /\ written' = [written EXCEPT ![p] = written[p] + 1] /\ spc' = [spc EXCEPT ![p] = "drain"]
      /\ passed' = [q \in Packets |-> IF q = p THEN 0 ELSE IF spc[q] = "queued" THEN passed[q] + 1 ELSE passed[q]]
  BY DEF WriteFrame
<1> DEFINE Q == {q \in Packets : spc[q] = "queued"}
<1>2. Queue(waiters', Q \ {p}) /\ p \in Q  BY <1>1, QueueTail DEF SenderTypes
<1>3. {q \in Packets : spc'[q] = "queued"} = Q \ {p}  BY <1>1 DEF SenderTypes
<1>4. SenderTypes'
  <2>1. deflated' \in Nat
    <3>1. deflated' = deflated \/ deflated' = deflated + 1  BY DEF WriteFrame, DeflatedAfter
    <3> QED  BY <3>1 DEF SenderTypes
  <2>2. finished' \in Seq(Packets)
    <3>1. finished \in Seq(Packets)  BY DEF SenderTypes
    <3>2. Append(finished, p) \in Seq(Packets)  BY ONLY <3>1, p \in Packets, AppendProperties
    <3>3. finished' = finished \/ finished' = Append(finished, p)  BY DEF WriteFrame
    <3> QED  BY <3>1, <3>2, <3>3
  <2>3. written' \in [Packets -> Nat] /\ passed' \in [Packets -> Nat]  BY <1>1 DEF SenderTypes
  <2> QED  BY <1>1, <1>2, <1>3, <2>1, <2>2, <2>3 DEF SenderTypes
<1>5. Senders'
  <2>1. written[p] < FrameCount[p] /\ written[p] \in Nat /\ FrameCount[p] \in Nat  BY <1>2 DEF Senders, SenderTypes
  <2>2. written[p] + 1 <= FrameCount[p]  BY <2>1
  <2>3. \A q \in Packets \ {p} : written'[q] = written[q] /\ spc'[q] = spc[q]  BY <1>1 DEF SenderTypes
  <2>4. written'[p] = written[p] + 1 /\ spc'[p] = "drain"  BY <1>1 DEF SenderTypes
  <2> QED  BY <1>1, <2>2, <2>3, <2>4 DEF Senders
<1>6. Turns'
  <2> DEFINE n == Len(waiters)
             m == Cardinality(Packets)
  <2>1. m \in Nat /\ n \in Nat /\ n > 0 /\ Len(waiters') = n - 1 /\ p = waiters[1]
        /\ \A k \in 1..(n-1) : waiters'[k] = waiters[k+1]
    <3>1. waiters \in Seq(Packets)  BY Waiters
    <3> QED  BY <1>1, <3>1, SomePackets
  <2>2. \A i \in 1..n : passed[waiters[i]] + i <= m /\ waiters[i] \in Packets /\ spc[waiters[i]] = "queued"
    BY Waiters DEF Turns
  <2>3. \A i, j \in 1..n : waiters[i] = waiters[j] => i = j  BY Waiters
  <2> HIDE DEF n, m
  <2>4. ASSUME NEW k \in 1..(n-1) PROVE passed'[waiters'[k]] + k <= m
    <3>1. k + 1 \in 1..n /\ 1 \in 1..n /\ k + 1 # 1  BY <2>1
    <3>2. waiters[k+1] # p /\ waiters[k+1] \in Packets /\ spc[waiters[k+1]] = "queued"
      BY <2>1, <2>2, <2>3, <3>1
    <3>3. passed'[waiters[k+1]] = passed[waiters[k+1]] + 1  BY <1>1, <3>2
    <3>4. passed[waiters[k+1]] \in Nat /\ passed[waiters[k+1]] + (k + 1) <= m  BY <2>2, <3>1, <3>2 DEF SenderTypes
    <3> QED  BY <2>1, <3>3, <3>4
  <2>5. ASSUME NEW q \in Packets PROVE passed'[q] + 1 <= m
    <3>1. passed[q] \in Nat /\ passed[q] + 1 <= m  BY DEF SenderTypes, Turns, m
    <3>2. CASE q = p  BY <1>1, <2>1, <3>1, <3>2
    <3>3. CASE q # p /\ spc[q] = "queued"
      <4>1. PICK i \in 1..n : waiters[i] = q  BY <3>3, Waiters DEF n
      <4>2. i # 1  BY <2>1, <3>3, <4>1
      <4>3. i >= 2 /\ i \in Nat  BY <2>1, <4>2
      <4>4. passed[q] + i <= m  BY <2>2, <4>1
      <4>5. passed'[q] = passed[q] + 1  BY <1>1, <3>3
      <4> QED  BY <2>1, <3>1, <4>3, <4>4, <4>5
    <3>4. CASE q # p /\ spc[q] # "queued"  BY <1>1, <3>1, <3>4
    <3> QED  BY <3>2, <3>3, <3>4
  <2>6. ASSUME NEW q \in Packets, spc'[q] \in {"idle", "drain"} PROVE passed'[q] = 0
    <3>1. CASE q = p  BY <1>1, <3>1
    <3>2. CASE q # p
      <4>1. spc[q] \in {"idle", "drain"}  BY <1>1, <2>6, <3>2 DEF SenderTypes
      <4>2. passed[q] = 0  BY <4>1 DEF Turns
      <4> QED  BY <1>1, <3>2, <4>1, <4>2
    <3> QED  BY <3>1, <3>2
  <2> QED  BY <2>1, <2>4, <2>5, <2>6 DEF Turns, m
<1> QED  BY <1>4, <1>5, <1>6

\* The task at the head is refused; a task anywhere in the queue is cancelled.
LEMMA QueuedSender ==
    ASSUME SenderInv, NEW p \in Packets, RefuseFrame(p) \/ CancelQueued(p) PROVE SenderInv'
<1> DEFINE Q == {q \in Packets : spc[q] = "queued"}
<1>1. Queue(waiters, Q) /\ waiters \in Seq(Packets) /\ Len(waiters) \in Nat
  BY Waiters DEF SenderInv, SenderTypes
<1>2. CASE RefuseFrame(p)
  <2>1. waiters # <<>> /\ Head(waiters) = p /\ waiters' = Tail(waiters) /\ spc' = [spc EXCEPT ![p] = "failed"]
        /\ UNCHANGED <<written, holder, passed, closing, deflated, finished>>
    BY <1>2 DEF RefuseFrame
  <2>2. Queue(waiters', Q \ {p}) /\ p \in Q  BY <1>1, <2>1, QueueTail
  <2>3. ASSUME NEW k \in 1..Len(waiters') PROVE \E j \in 1..Len(waiters) : k <= j /\ waiters'[k] = waiters[j]
    <3>1. Len(waiters') = Len(waiters) - 1 /\ waiters'[k] = waiters[k+1]  BY <1>1, <2>1
    <3>2. k + 1 \in 1..Len(waiters) /\ k <= k + 1  BY <1>1, <3>1
    <3> QED  BY <3>1, <3>2
  <2> QED  BY <2>1, <2>2, <2>3, QuitKeeps
<1>3. CASE CancelQueued(p)
  <2>1. spc[p] = "queued" /\ spc' = [spc EXCEPT ![p] = "cancelled"]
        /\ UNCHANGED <<written, holder, passed, closing, deflated, finished>>
    BY <1>3 DEF CancelQueued
  <2>2. PICK i \in 1..Len(waiters) : waiters[i] = p /\ waiters' = RemoveAt(waiters, i)  BY <1>3 DEF CancelQueued
  <2>3. /\ Queue(waiters', Q \ {p}) /\ Len(waiters') = Len(waiters) - 1
        /\ \A k \in 1..Len(waiters') : waiters'[k] = IF k < i THEN waiters[k] ELSE waiters[k+1]
    <3>1. LET u == RemoveAt(waiters, i)
          IN  /\ Queue(u, Q \ {waiters[i]}) /\ Len(u) = Len(waiters) - 1
              /\ \A k \in 1..Len(u) : u[k] = IF k < i THEN waiters[k] ELSE waiters[k+1]
      BY <1>1, QueueRemove
    <3> QED  BY <2>2, <3>1
  <2>4. ASSUME NEW k \in 1..Len(waiters') PROVE \E j \in 1..Len(waiters) : k <= j /\ waiters'[k] = waiters[j]
    <3>1. k \in 1..Len(waiters) /\ k + 1 \in 1..Len(waiters) /\ k <= k /\ k <= k + 1  BY <1>1, <2>3
    <3> QED  BY <2>3, <3>1
  <2> QED  BY <2>1, <2>3, <2>4, QuitKeeps
<1> QED  BY <1>2, <1>3

\* drain returns: the task asks for the lock again, or is done.
LEMMA DrainedSender == ASSUME SenderInv, NEW p \in Packets, Drained(p) PROVE SenderInv'
<1>1. holder = p /\ holder' = "none" /\ UNCHANGED <<written, passed, closing, deflated, finished>>
  BY DEF Drained
<1>2. spc[p] = "drain" /\ written[p] <= FrameCount[p] /\ written[p] \in Nat /\ FrameCount[p] \in Nat
      /\ closing \in BOOLEAN
  BY <1>1 DEF SenderInv, Senders, SenderTypes
<1>3. CASE written[p] = FrameCount[p]
  <2>1. spc' = [spc EXCEPT ![p] = "done"] /\ UNCHANGED waiters  BY <1>3 DEF Drained
  <2> QED  BY <1>1, <1>2, <2>1, DoneKeeps
<1>4. CASE written[p] # FrameCount[p]
  <2>1. spc' = [spc EXCEPT ![p] = "queued"] /\ waiters' = Append(waiters, p)  BY <1>4 DEF Drained
  <2>2. written[p] < FrameCount[p]  BY <1>2, <1>4
  <2> QED  BY <1>1, <1>2, <2>1, <2>2, JoinKeeps
<1> QED  BY <1>3, <1>4

\* The senders, whatever they do.
LEMMA SenderNext ==
    ASSUME SenderInv, NEW p \in Packets,
           Send(p) \/ WriteFrame(p) \/ RefuseFrame(p) \/ Drained(p) \/ CancelQueued(p) \/ CancelDrain(p)
    PROVE  SenderInv'
<1>1. CASE Send(p)
  <2>1. spc[p] = "idle" /\ spc' = [spc EXCEPT ![p] = "queued"] /\ waiters' = Append(waiters, p)
        /\ UNCHANGED <<written, holder, passed, closing, deflated, finished>>
    BY <1>1 DEF Send
  <2>2. written[p] < FrameCount[p]  BY <2>1 DEF SenderInv, Senders
  <2> QED  BY <2>1, <2>2, JoinKeeps
<1>2. CASE CancelDrain(p)
  <2>1. holder = p /\ holder' = "none" /\ closing' = TRUE /\ spc' = [spc EXCEPT ![p] = "cancelled"]
        /\ UNCHANGED <<written, waiters, passed, deflated, finished>>
    BY <1>2 DEF CancelDrain
  <2> QED  BY <2>1, DoneKeeps
<1> QED  BY <1>1, <1>2, WriteSender, QueuedSender, DrainedSender

-----------------------------------------------------------------------------
(* The reader                                                               *)

\* The packets that were put together, as PacketChannel sees them.
Ids(packets) == [i \in 1..Len(packets) |-> packets[i].id]
ChannelStep == [Channel!Next]_<<finished, Ids(decoder.packets)>>

\* One more packet is one more id.
LEMMA IdsSteps ==
    ASSUME NEW packets \in Seq(PacketType), NEW packet \in PacketType
    PROVE  /\ Ids(packets) \in Seq(Packets) /\ Len(Ids(packets)) = Len(packets)
           /\ Ids(Append(packets, packet)) = Append(Ids(packets), packet.id)
<1> DEFINE n == Len(packets)
           u == Append(packets, packet)
<1>1. n \in Nat /\ Len(u) = n + 1 /\ u[n+1] = packet /\ \A k \in 1..n : u[k] = packets[k] /\ packets[k] \in PacketType
  OBVIOUS
<1>2. packet.id \in Packets /\ \A k \in 1..n : packets[k].id \in Packets  BY <1>1 DEF PacketType
<1> HIDE DEF n, u
<1>3. Ids(packets) = [i \in 1..n |-> packets[i].id] /\ Ids(u) = [i \in 1..(n+1) |-> u[i].id]  BY <1>1 DEF Ids, n
<1>4. Ids(packets) \in Seq(Packets) /\ Len(Ids(packets)) = n  BY <1>1, <1>2, <1>3
<1>5. Ids(u) = Append(Ids(packets), packet.id)
  <2> DEFINE v == Append(Ids(packets), packet.id)
  <2>1. v \in Seq(Packets) /\ Len(v) = n + 1 /\ v[n+1] = packet.id /\ \A k \in 1..n : v[k] = Ids(packets)[k]
    BY <1>2, <1>4
  <2>2. Ids(u) \in Seq(Packets) /\ Len(Ids(u)) = n + 1
    <3>1. \A k \in 1..(n+1) : u[k].id \in Packets
      <4> SUFFICES ASSUME NEW k \in 1..(n+1) PROVE u[k].id \in Packets  OBVIOUS
      <4>1. k \in 1..n \/ k = n + 1  BY <1>1
      <4> QED  BY <1>1, <1>2, <4>1
    <3> QED  BY <1>1, <1>3, <3>1
  <2> HIDE DEF v
  <2>3. ASSUME NEW k \in 1..(n+1) PROVE Ids(u)[k] = v[k]
    <3>1. CASE k \in 1..n
      <4>1. Ids(packets)[k] = packets[k].id /\ Ids(u)[k] = u[k].id  BY ONLY <1>1, <1>3, <3>1
      <4> QED  BY <1>1, <2>1, <3>1, <4>1
    <3>2. CASE k = n + 1  BY <1>1, <1>3, <2>1, <3>2
    <3> QED  BY <1>1, <3>1, <3>2
  <2>4. Ids(u) = v  BY <1>1, <2>1, <2>2, <2>3, SeqEqual
  <2> QED  BY <2>4 DEF v
<1> QED  BY <1>4, <1>5 DEF n, u

\* Nothing moves between the senders and the decoder.
LEMMA ReaderKept ==
    ASSUME ReaderInv, UNCHANGED <<written, deflated, finished, wire, rpc, group, decoder>>
    PROVE  ReaderInv' /\ ChannelStep
<1>1. ReaderTypes' /\ InStep' /\ Whole' /\ Groups'  BY DEF ReaderInv, ReaderTypes, InStep, Whole, Groups
<1>2. Flight' = Flight /\ Sent' = Sent  BY DEF Flight, Sent
<1>3. Linked'  BY <1>2 DEF ReaderInv, Linked
<1> QED  BY <1>1, <1>3 DEF ReaderInv, ChannelStep, Ids

\* A frame that is written extends the trail to the new place of the senders.
LEMMA WriteReader ==
    ASSUME SenderInv, SenderInv', ReaderInv, NEW p \in Packets, WriteFrame(p) PROVE ReaderInv' /\ ChannelStep
<1>1. PICK packed \in BOOLEAN :
        /\ deflated' = DeflatedAfter(packed)
        /\ wire' = Append(wire, Frame(p, written[p] + 1, IsLast(p), IF packed THEN deflated + 1 ELSE 0))
  BY DEF WriteFrame
<1> DEFINE f == Frame(p, written[p] + 1, IsLast(p), IF packed THEN deflated + 1 ELSE 0)
<1>2. /\ written' = [written EXCEPT ![p] = written[p] + 1] /\ UNCHANGED <<rpc, group, decoder>>
      /\ finished' = (IF IsLast(p) THEN Append(finished, p) ELSE finished)
  BY DEF WriteFrame
<1>3. written \in [Packets -> Nat] /\ deflated \in Nat /\ finished \in Seq(Packets) /\ FrameCount[p] \in Nat
  BY DEF SenderInv, SenderTypes
<1>4. /\ f \in FrameType /\ f.id = p /\ f.part = written[p] + 1 /\ (f.last <=> IsLast(p))
      /\ f.packed = IF packed THEN deflated + 1 ELSE 0
  <2>1. written[p] + 1 \in Nat /\ (IF packed THEN deflated + 1 ELSE 0) \in Nat  BY <1>3
  <2>2. IsLast(p) \in BOOLEAN  BY DEF IsLast
  <2> QED  BY <2>1, <2>2 DEF Frame, FrameType
<1>5. IsLast(p) <=> written[p] + 1 = FrameCount[p]  BY DEF IsLast
<1>6. wire' = Append(wire, f) /\ wire \in Seq(FrameType) /\ group \in Seq(FrameType)
  BY <1>1 DEF ReaderInv, ReaderTypes
<1> HIDE DEF f
<1>7. ReaderTypes' /\ InStep' /\ Whole' /\ Groups'
  <2>1. wire' \in Seq(FrameType)  BY <1>4, <1>6
  <2> QED  BY <1>2, <2>1 DEF ReaderInv, ReaderTypes, InStep, Whole, Groups
<1>8. Flight' = Append(Flight, f) /\ Flight \in Seq(FrameType)
  BY <1>2, <1>4, <1>6, FlightSteps DEF Flight
<1>9. Sent \in Cursor /\ Sent' \in Cursor
  <2>1. deflated' \in Nat /\ written' \in [Packets -> Nat] /\ finished' \in Seq(Packets)  BY DEF SenderInv, SenderTypes
  <2>2. Len(finished) \in Nat /\ Len(finished') \in Nat  BY <1>3, <2>1
  <2> QED  BY <1>3, <2>1, <2>2 DEF Sent, Cursor
<1>10. Moves(Sent, f, Sent', finished')
  <2>1. written[p] + 1 <= FrameCount[p]
    <3>1. written'[p] <= FrameCount[p] /\ written'[p] = written[p] + 1  BY <1>2, <1>3 DEF SenderInv, Senders
    <3> QED  BY <3>1
  <2>2. /\ Sent.dict = deflated /\ Sent.parts = written /\ Sent.out = Len(finished)
        /\ Sent'.dict = deflated' /\ Sent'.parts = written' /\ Sent'.out = Len(finished')
    BY DEF Sent
  <2>3. deflated' = (IF packed THEN deflated + 1 ELSE deflated)  BY <1>1 DEF DeflatedAfter
  <2>4. f.packed = 0 => Sent'.dict = Sent.dict  BY <1>3, <1>4, <2>2, <2>3
  <2>5. f.packed # 0 => f.packed = Sent.dict + 1 /\ Sent'.dict = Sent.dict + 1  BY <1>3, <1>4, <2>2, <2>3
  <2>6. f.part = Sent.parts[f.id] + 1 /\ Sent'.parts = [Sent.parts EXCEPT ![f.id] = Sent.parts[f.id] + 1]
    BY <1>2, <1>4, <2>2
  <2>7. f.part <= FrameCount[f.id] /\ (f.last <=> f.part = FrameCount[f.id])  BY <1>4, <1>5, <2>1
  <2>8. ASSUME f.last PROVE Sent'.out = Sent.out + 1 /\ Sent'.out <= Len(finished') /\ finished'[Sent'.out] = f.id
    <3>1. finished' = Append(finished, p)  BY <1>2, <1>4, <2>8
    <3>2. Len(finished') = Len(finished) + 1 /\ finished'[Len(finished) + 1] = p /\ Len(finished) \in Nat
      BY <1>3, <3>1
    <3> QED  BY <1>4, <2>2, <3>2
  <2>9. ~f.last => Sent'.out = Sent.out  BY <1>2, <1>4, <2>2
  <2> QED  BY <2>4, <2>5, <2>6, <2>7, <2>8, <2>9 DEF Moves
<1>11. Linked'
  <2> SUFFICES ASSUME rpc' # "stopped"
               PROVE  \E c \in Cursor : Reached(c, decoder') /\ Trail(Flight', c, Sent', finished')
    BY DEF Linked
  <2>1. PICK c \in Cursor : Reached(c, decoder) /\ Trail(Flight, c, Sent, finished)
    BY <1>2 DEF ReaderInv, Linked
  <2>2. Trail(Flight, c, Sent, finished')
    <3>1. CASE finished' = finished  BY <2>1, <3>1
    <3>2. CASE finished' = Append(finished, p)  BY <1>3, <1>8, <2>1, <3>2, TrailMore
    <3> QED  BY <1>2, <3>1, <3>2
  <2>3. Trail(Append(Flight, f), c, Sent', finished')  BY <1>4, <1>8, <1>9, <1>10, <2>2, TrailAppend
  <2> QED  BY <1>2, <1>8, <2>1, <2>3
<1>12. ChannelStep
  <2>1. UNCHANGED Ids(decoder.packets)  BY <1>2 DEF Ids
  <2>2. CASE finished' = Append(finished, p)
    <3>1. Channel!Send  BY <1>2, <2>2 DEF Channel!Send
    <3> QED  BY <3>1 DEF ChannelStep, Channel!Next
  <2> QED  BY <1>2, <2>1, <2>2 DEF ChannelStep
<1> QED  BY <1>7, <1>11, <1>12 DEF ReaderInv

\* A frame that joins the group is still in flight, in its place.
LEMMA GroupReader ==
    ASSUME ReaderInv, ReadGrouped PROVE ReaderInv' /\ ChannelStep
<1>1. /\ rpc = "read" /\ wire # <<>> /\ wire' = Tail(wire) /\ group' = Append(group, Head(wire))
      /\ rpc' = (IF Head(wire).last \/ Len(group') >= DECODE_FRAMES THEN "worker" ELSE "read")
      /\ UNCHANGED <<written, deflated, finished, decoder>> /\ DECODE_THRESHOLD # -1
  BY DEF ReadGrouped, Grouped
<1>2. wire \in Seq(FrameType) /\ group \in Seq(FrameType)  BY DEF ReaderInv, ReaderTypes
<1> DEFINE n == Len(group)
           f == Head(wire)
<1>3. f \in FrameType /\ wire' \in Seq(FrameType)  BY <1>1, <1>2
<1>4. /\ group' \in Seq(FrameType) /\ n \in Nat /\ Len(group') = n + 1 /\ group'[n+1] = f
      /\ \A k \in 1..n : group'[k] = group[k]
  BY <1>1, <1>2, <1>3
<1> HIDE DEF n
<1>5. ReaderTypes' /\ InStep' /\ Whole'
  BY <1>1, <1>3, <1>4 DEF ReaderInv, ReaderTypes, InStep, Whole
<1>6. Groups'
  <2>1. group' # <<>>
    <3>1. Len(<<>>) = 0  OBVIOUS
    <3> QED  BY <1>4, <3>1
  <2>2. \A k \in 1..n : ~group'[k].last  BY <1>1, <1>4 DEF ReaderInv, Groups, n
  <2>3. \A k \in 1..(n+1) : k \in 1..n \/ k = n + 1  BY <1>4
  <2>4. rpc' \in {"read", "ending"} => \A k \in 1..(n+1) : ~group'[k].last  BY <1>1, <1>4, <2>2, <2>3
  <2>5. \A k \in 1..(n+1) : group'[k].last => k = n + 1  BY <2>2, <2>3
  <2>6. decoder'.error = "none"  BY <1>1 DEF ReaderInv, Groups
  <2> QED  BY <1>1, <1>4, <2>1, <2>4, <2>5, <2>6 DEF Groups
<1>7. Flight' = Flight /\ Sent' = Sent  BY <1>1, <1>2, FlightSteps DEF Flight, Sent
<1>8. Linked'  BY <1>1, <1>7 DEF ReaderInv, Linked
<1> QED  BY <1>1, <1>5, <1>6, <1>8 DEF ReaderInv, ChannelStep, Ids

\* The first frame in flight goes through the decoder.
LEMMA DecodeReader ==
    ASSUME ReaderInv, finished \in Seq(Packets), rpc # "stopped", Flight # <<>>,
           decoder' = DecodeFrame(decoder, Head(Flight)), Flight' = Tail(Flight),
           UNCHANGED <<written, deflated, finished>>, decoder'.error # "none" => rpc' = "stopped"
    PROVE  decoder' \in DecoderType /\ InStep' /\ Whole' /\ Linked' /\ ChannelStep
<1> DEFINE f == Head(Flight)
<1>1. Flight \in Seq(FrameType) /\ decoder \in DecoderType /\ decoder.error = "none" /\ WholePackets(decoder.packets)
  BY FlightSteps DEF ReaderInv, ReaderTypes, Flight, Groups, Whole, WholePackets
<1>2. f \in FrameType  BY <1>1
<1>3. PICK c \in Cursor : Reached(c, decoder) /\ Trail(Flight, c, Sent, finished)  BY DEF ReaderInv, Linked
<1>4. PICK n \in Cursor : Moves(c, f, n, finished) /\ Trail(Tail(Flight), n, Sent, finished)
  BY <1>1, <1>3, TrailTail
<1> HIDE DEF f
<1>5. /\ decoder' \in DecoderType /\ decoder'.error # "desync" /\ WholePackets(decoder'.packets)
      /\ decoder'.error = "none" => Reached(n, decoder')
      /\ \/ decoder'.packets = decoder.packets
         \/ /\ Len(decoder.packets) < Len(finished)
            /\ \E packet \in PacketType :
                   /\ decoder'.packets = Append(decoder.packets, packet)
                   /\ packet.id = finished[Len(decoder.packets) + 1]
  <2> DEFINE e == DecodeFrame(decoder, f)
  <2>1. decoder' = e  BY DEF f
  <2>2. /\ e \in DecoderType /\ e.error # "desync" /\ WholePackets(e.packets)
        /\ e.error = "none" => Reached(n, e)
        /\ \/ e.packets = decoder.packets
           \/ /\ Len(decoder.packets) < Len(finished)
              /\ \E packet \in PacketType :
                     e.packets = Append(decoder.packets, packet) /\ packet.id = finished[Len(decoder.packets) + 1]
    <3> HIDE DEF f
    <3>1. /\ decoder \in DecoderType /\ decoder.error = "none" /\ f \in FrameType /\ finished \in Seq(Packets)
          /\ Reached(c, decoder) /\ Moves(c, f, n, finished) /\ WholePackets(decoder.packets)
      BY <1>1, <1>2, <1>3, <1>4
    <3> QED  BY ONLY <3>1, c \in Cursor, n \in Cursor, DecodeStep, ZenonT(60)
  <2> HIDE DEF e
  <2> QED  BY <2>1, <2>2
<1>6. InStep' /\ Whole'  BY <1>5 DEF InStep, Whole, WholePackets
<1>7. Linked'
  <2>1. Sent' = Sent  BY DEF Sent
  <2> QED  BY <1>4, <1>5, <2>1 DEF Linked
<1>8. ChannelStep
  <2>1. decoder.packets \in Seq(PacketType)  BY <1>1 DEF DecoderType, PacketType
  <2>2. CASE decoder'.packets = decoder.packets  BY <2>2 DEF ChannelStep
  <2>3. CASE decoder'.packets # decoder.packets
    <3>1. PICK packet \in PacketType :
            decoder'.packets = Append(decoder.packets, packet) /\ packet.id = finished[Len(decoder.packets) + 1]
      BY <1>5, <2>3
    <3>2. Len(decoder.packets) < Len(finished)  BY <1>5, <2>3
    <3>3. Ids(decoder'.packets) = Append(Ids(decoder.packets), packet.id) /\ Len(Ids(decoder.packets)) = Len(decoder.packets)
      BY <2>1, <3>1, IdsSteps
    <3>4. Channel!Receive  BY <3>1, <3>2, <3>3 DEF Channel!Receive, Ids
    <3> QED  BY <3>4 DEF ChannelStep, Channel!Next
  <2> QED  BY <2>2, <2>3
<1> QED  BY <1>5, <1>6, <1>7, <1>8

\* A frame is decoded inline: there is no group.
LEMMA InlineReader ==
    ASSUME ReaderInv, finished \in Seq(Packets), ReadInline PROVE ReaderInv' /\ ChannelStep
<1>1. /\ rpc = "read" /\ wire # <<>> /\ wire' = Tail(wire) /\ decoder' = DecodeFrame(decoder, Head(wire))
      /\ rpc' = AfterDecode("read") /\ UNCHANGED <<written, deflated, finished, group>>
  BY DEF ReadInline
<1>2. wire \in Seq(FrameType) /\ wire' \in Seq(FrameType) /\ group \in Seq(FrameType)
  BY <1>1 DEF ReaderInv, ReaderTypes
<1>3. group = <<>>
  <2>1. DECODE_THRESHOLD = -1 \/ group = <<>>  BY DEF ReadInline, Grouped
  <2> QED  BY <2>1 DEF ReaderInv, Groups
<1>4. Flight = wire /\ Flight' = Tail(Flight) /\ Flight # <<>>
  BY <1>1, <1>2, <1>3, FlightSteps DEF Flight
<1>5. (decoder'.error # "none" => rpc' = "stopped") /\ (rpc' # "stopped" => decoder'.error = "none" /\ rpc' = "read")
      /\ rpc' \in {"read", "stopped"}
  BY <1>1 DEF AfterDecode
<1>6. decoder' \in DecoderType /\ InStep' /\ Whole' /\ Linked' /\ ChannelStep
  BY <1>1, <1>4, <1>5, DecodeReader
<1>7. ReaderTypes'  BY <1>1, <1>2, <1>5, <1>6 DEF ReaderTypes
<1>8. Groups'
  <2>1. group' = <<>> /\ Len(group') = 0  BY <1>1, <1>3
  <2> QED  BY <1>5, <2>1 DEF Groups
<1> QED  BY <1>6, <1>7, <1>8 DEF ReaderInv

\* The worker decodes a frame.  It may return with the first packet: only the
\* last frame of its group completes one.
LEMMA WorkerReader ==
    ASSUME ReaderInv, finished \in Seq(Packets), WorkerStep PROVE ReaderInv' /\ ChannelStep
<1>1. /\ rpc \in {"worker", "dropping", "ending"} /\ decoder' = DecodeFrame(decoder, Head(group))
      /\ group' = (IF Head(group).last THEN <<>> ELSE Tail(group))
      /\ UNCHANGED <<written, deflated, finished, wire>>
      /\ rpc' = AfterDecode(IF group' # <<>> THEN rpc ELSE IF rpc = "ending" THEN "stopped" ELSE "read")
  BY DEF WorkerStep
<1>2. wire \in Seq(FrameType) /\ group \in Seq(FrameType) /\ group # <<>>
  BY <1>1 DEF ReaderInv, ReaderTypes, Groups
<1> DEFINE n == Len(group)
<1>3. /\ n \in Nat /\ n > 0 /\ Head(group) = group[1] /\ Tail(group) \in Seq(FrameType) /\ Len(Tail(group)) = n - 1
      /\ \A k \in 1..(n-1) : Tail(group)[k] = group[k+1]
  BY <1>2
<1>4. \A k \in 1..n : group[k].last => k = n  BY DEF ReaderInv, Groups
<1> HIDE DEF n
<1>5. group' = Tail(group)
  <2>1. CASE Head(group).last
    <3>1. 1 \in 1..n /\ group[1].last  BY <1>3, <2>1
    <3>2. n = 1  BY <1>4, <3>1
    <3>3. Len(Tail(group)) = 0  BY <1>3, <3>2
    <3>4. Tail(group) = <<>>  BY <1>3, <3>3, EmptySeq
    <3> QED  BY <1>1, <2>1, <3>4
  <2>2. CASE ~Head(group).last  BY <1>1, <2>2
  <2> QED  BY <2>1, <2>2
<1>6. Head(Flight) = Head(group) /\ Flight' = Tail(Flight) /\ Flight # <<>>
  <2>1. Head(group \o wire) = Head(group) /\ Tail(group \o wire) = Tail(group) \o wire /\ group \o wire # <<>>
    BY ONLY <1>2, FlightSteps
  <2>2. group' \o wire' = Tail(group) \o wire  BY ONLY <1>1, <1>5
  <2> QED  BY ONLY <2>1, <2>2 DEF Flight
<1>7. (decoder'.error # "none" => rpc' = "stopped") /\ (rpc' # "stopped" => decoder'.error = "none")
      /\ rpc' \in {"read", "worker", "dropping", "ending", "stopped"} /\ (rpc' = "ending" => rpc = "ending")
      /\ (rpc' \in {"worker", "dropping", "ending"} => group' # <<>>) /\ (rpc' = "read" => group' = <<>>)
  BY <1>1 DEF AfterDecode
<1>8. decoder' \in DecoderType /\ InStep' /\ Whole' /\ Linked' /\ ChannelStep
  BY <1>1, <1>6, <1>7, DecodeReader
<1>9. ReaderTypes'  BY <1>1, <1>2, <1>3, <1>5, <1>7, <1>8 DEF ReaderTypes
<1>10. Groups'
  <2>1. group' # <<>> => DECODE_THRESHOLD # -1  BY <1>2 DEF ReaderInv, Groups
  <2>2. rpc' \in {"read", "ending"} => \A k \in 1..Len(group') : ~group'[k].last
    <3>1. rpc' = "read" => Len(group') = 0  BY <1>7
    <3>2. ASSUME rpc' = "ending", NEW k \in 1..Len(group') PROVE ~group'[k].last
      <4>1. k \in 1..(n-1) /\ k + 1 \in 1..n /\ group'[k] = group[k+1]  BY <1>3, <1>5, <3>2
      <4>2. \A j \in 1..n : ~group[j].last  BY <1>7, <3>2 DEF ReaderInv, Groups, n
      <4> QED  BY <4>1, <4>2
    <3> QED  BY <3>1, <3>2
  <2>3. \A k \in 1..Len(group') : group'[k].last => k = Len(group')
    <3> SUFFICES ASSUME NEW k \in 1..(n-1), group[k+1].last PROVE k = n - 1  BY <1>3, <1>5
    <3>1. k + 1 \in 1..n  BY <1>3
    <3>2. k + 1 = n  BY <1>4, <3>1
    <3> QED  BY <1>3, <3>2
  <2> QED  BY <1>7, <2>1, <2>2, <2>3 DEF Groups
<1> QED  BY <1>8, <1>9, <1>10 DEF ReaderInv

\* receive is cancelled, or sees the end of the file: the group goes to a worker.
LEMMA StopReader ==
    ASSUME ReaderInv, CancelReceive \/ EndOfFile PROVE ReaderInv' /\ ChannelStep
<1>1. /\ rpc' \in {"dropping", "ending", "stopped"} /\ (rpc' \in {"ending", "stopped"} => rpc = "read")
      /\ rpc' \in {"dropping", "ending"} => group # <<>>
      /\ rpc # "stopped" /\ UNCHANGED <<written, deflated, finished, wire, group, decoder>>
  BY DEF CancelReceive, EndOfFile, ReaderInv, Groups
<1>2. ReaderTypes' /\ InStep' /\ Whole' /\ Groups'  BY <1>1 DEF ReaderInv, ReaderTypes, InStep, Whole, Groups
<1>3. Flight' = Flight /\ Sent' = Sent  BY <1>1 DEF Flight, Sent
<1>4. Linked'  BY <1>1, <1>3 DEF ReaderInv, Linked
<1> QED  BY <1>1, <1>2, <1>4 DEF ReaderInv, ChannelStep, Ids

\* A packet is dropped once for a cancellation.
LEMMA LostKeeps ==
    ASSUME FramesInv, ReadInline \/ ReadGrouped \/ WorkerStep \/ CancelReceive \/ EndOfFile PROVE Lost'
<1>1. IsFiniteSet(dropped) /\ dropped \subseteq Packets /\ cancels \in Nat /\ Cardinality(dropped) <= cancels
  BY DEF FramesInv, Lost
<1>2. Cardinality(dropped) \in Nat  BY <1>1, FS_CardinalityType
<1>3. ASSUME NEW p \in Packets
      PROVE  /\ IsFiniteSet(dropped \cup {p}) /\ dropped \cup {p} \subseteq Packets
             /\ Cardinality(dropped \cup {p}) \in Nat /\ Cardinality(dropped \cup {p}) <= Cardinality(dropped) + 1
  <2>1. /\ IsFiniteSet(dropped \cup {p})
        /\ Cardinality(dropped \cup {p}) = IF p \in dropped THEN Cardinality(dropped) ELSE Cardinality(dropped) + 1
    BY ONLY <1>1, FS_AddElement
  <2>2. dropped \cup {p} \subseteq Packets  BY <1>1
  <2> QED  BY ONLY <1>2, <2>1, <2>2
<1>4. wire \in Seq(FrameType) /\ group \in Seq(FrameType)  BY DEF FramesInv, ReaderInv, ReaderTypes
<1>5. CASE ReadInline
  <2>1. rpc' # "dropping" /\ wire # <<>>  BY <1>5 DEF ReadInline, AfterDecode
  <2>2. Head(wire).id \in Packets
    <3>1. Head(wire) \in FrameType  BY <1>4, <2>1
    <3> QED  BY <3>1 DEF FrameType
  <2>3. UNCHANGED <<dropped, cancels>> \/ (cancels' = cancels + 1 /\ dropped' = dropped \cup {Head(wire).id})
    BY <1>5 DEF ReadInline, CancelledWith
  <2>4. /\ IsFiniteSet(dropped \cup {Head(wire).id}) /\ dropped \cup {Head(wire).id} \subseteq Packets
        /\ Cardinality(dropped \cup {Head(wire).id}) \in Nat
        /\ Cardinality(dropped \cup {Head(wire).id}) <= Cardinality(dropped) + 1
    BY <1>3, <2>2
  <2>5. CASE UNCHANGED <<dropped, cancels>>  BY <1>1, <2>1, <2>5 DEF Lost
  <2>6. CASE cancels' = cancels + 1 /\ dropped' = dropped \cup {Head(wire).id}
    <3>1. Cardinality(dropped') <= cancels' /\ cancels' \in Nat  BY <1>1, <1>2, <2>4, <2>6
    <3> QED  BY <2>1, <2>4, <2>6, <3>1 DEF Lost
  <2> QED  BY <2>3, <2>5, <2>6
<1>6. CASE WorkerStep
  <2>1. group # <<>> /\ rpc \in {"worker", "dropping", "ending"} /\ cancels' = cancels
    BY <1>6 DEF WorkerStep, FramesInv, ReaderInv, Groups
  <2>2. Head(group) = group[1] /\ Head(group) \in FrameType /\ 1 \in 1..Len(group)  BY <1>4, <2>1
  <2>3. Head(group).id \in Packets  BY <2>2 DEF FrameType
  <2>4. dropped' = (IF Head(group).last /\ rpc # "worker" THEN dropped \cup {Head(group).id} ELSE dropped)
    BY <1>6 DEF WorkerStep
  <2>5. rpc = "ending" => ~Head(group).last  BY <2>2 DEF FramesInv, ReaderInv, Groups
  <2>6. rpc' = "dropping" => rpc = "dropping" /\ ~Head(group).last
    <3>1. group' = (IF Head(group).last THEN <<>> ELSE Tail(group)) /\
          rpc' = AfterDecode(IF group' # <<>> THEN rpc ELSE IF rpc = "ending" THEN "stopped" ELSE "read")
      BY <1>6 DEF WorkerStep
    <3> QED  BY <3>1 DEF AfterDecode
  <2>7. rpc = "dropping" => Cardinality(dropped) + 1 <= cancels  BY DEF FramesInv, Lost
  <2>8. CASE dropped' = dropped  BY <1>1, <1>2, <2>1, <2>6, <2>7, <2>8 DEF Lost
  <2>9. CASE Head(group).last /\ rpc # "worker"
    <3>1. rpc = "dropping" /\ rpc' # "dropping" /\ dropped' = dropped \cup {Head(group).id}
      BY <2>1, <2>4, <2>5, <2>6, <2>9
    <3>2. /\ IsFiniteSet(dropped') /\ dropped' \subseteq Packets
          /\ Cardinality(dropped') \in Nat /\ Cardinality(dropped') <= Cardinality(dropped) + 1
      BY <1>3, <2>3, <3>1
    <3>3. Cardinality(dropped') <= cancels'  BY <1>1, <1>2, <2>1, <2>7, <3>1, <3>2
    <3> QED  BY <1>1, <2>1, <3>1, <3>2, <3>3 DEF Lost
  <2> QED  BY <2>4, <2>8, <2>9
<1>7. CASE ReadGrouped \/ EndOfFile
  <2>1. rpc' # "dropping" /\ UNCHANGED <<dropped, cancels>>  BY <1>7 DEF ReadGrouped, EndOfFile
  <2> QED  BY <1>1, <2>1 DEF Lost
<1>8. CASE CancelReceive
  <2>1. cancels' = cancels + 1 /\ dropped' = dropped  BY <1>8 DEF CancelReceive
  <2> QED  BY <1>1, <1>2, <2>1 DEF Lost
<1> QED  BY <1>5, <1>6, <1>7, <1>8

-----------------------------------------------------------------------------
(* Theorems                                                                 *)

\* The invariant is inductive, and every step is one of PacketChannel or a
\* stutter.
LEMMA FramesNext == FramesInv /\ [Next]_vars => FramesInv' /\ ChannelStep
<1> SUFFICES ASSUME FramesInv, [Next]_vars PROVE FramesInv' /\ ChannelStep  OBVIOUS
<1> USE DEF FramesInv
<1>1. finished \in Seq(Packets)  BY DEF SenderInv, SenderTypes
<1>6. ASSUME UNCHANGED <<rpc, dropped, cancels>> PROVE Lost'  BY <1>6 DEF Lost
<1>2. ASSUME UNCHANGED senderVars PROVE SenderInv'
  BY <1>2 DEF SenderInv, SenderTypes, Senders, Turns
<1>3. ASSUME NEW p \in Packets,
             Send(p) \/ WriteFrame(p) \/ RefuseFrame(p) \/ Drained(p) \/ CancelQueued(p) \/ CancelDrain(p)
      PROVE  FramesInv' /\ ChannelStep
  <2>1. SenderInv'  BY <1>3, SenderNext
  <2>4. Lost'
    <3>1. UNCHANGED <<rpc, dropped, cancels>>
      BY <1>3 DEF Send, WriteFrame, RefuseFrame, Drained, CancelQueued, CancelDrain
    <3> QED  BY <1>6, <3>1
  <2>2. CASE WriteFrame(p)  BY <2>1, <2>2, <2>4, WriteReader
  <2>3. CASE Send(p) \/ RefuseFrame(p) \/ Drained(p) \/ CancelQueued(p) \/ CancelDrain(p)
    <3>1. UNCHANGED <<written, deflated, finished, wire, rpc, group, decoder>>
      BY <2>3 DEF Send, RefuseFrame, Drained, CancelQueued, CancelDrain
    <3> QED  BY <2>1, <2>4, <3>1, ReaderKept
  <2> QED  BY <1>3, <2>2, <2>3
<1>4. CASE ReadInline \/ ReadGrouped \/ WorkerStep \/ CancelReceive \/ EndOfFile
  <2>1. UNCHANGED senderVars  BY <1>4 DEF ReadInline, ReadGrouped, WorkerStep, CancelReceive, EndOfFile
  <2>2. SenderInv'  BY <1>2, <2>1
  <2>3. Lost'  BY <1>4, LostKeeps
  <2> QED  BY <1>1, <1>4, <2>2, <2>3, InlineReader, GroupReader, WorkerReader, StopReader
<1>5. CASE UNCHANGED vars
  <2>1. UNCHANGED senderVars /\ UNCHANGED <<written, deflated, finished, wire, rpc, group, decoder>>
        /\ UNCHANGED <<dropped, cancels>>
    BY <1>5 DEF vars
  <2> QED  BY <1>2, <1>6, <2>1, ReaderKept
<1> QED  BY <1>3, <1>4, <1>5 DEF Next

\* One direction of a connection keeps its codec, its packets and its turns: no
\* body is inflated elsewhere than it was deflated, a packet is put together
\* from all its frames in order, a task that waits for its turn sees at most one
\* frame of each other task pass, and a cancelled receive drops at most the
\* packet that was being decoded for it (send_frame, receive, decode_in_thread).
THEOREM FramesAreSafe == Spec => []FramesSafe
<1>1. FramesInv => FramesSafe
  <2> SUFFICES ASSUME FramesInv PROVE FramesSafe  OBVIOUS
  <2>1. TypeOK  BY DEF FramesInv, SenderInv, ReaderInv, SenderTypes, ReaderTypes, Queue, Lost, TypeOK
  <2>2. FairTurns
    <3> SUFFICES ASSUME NEW p \in Packets PROVE passed[p] <= Cardinality(Packets) - 1  BY DEF FairTurns
    <3>1. passed[p] \in Nat /\ passed[p] + 1 <= Cardinality(Packets)
      BY DEF FramesInv, SenderInv, SenderTypes, Turns
    <3> QED  BY <3>1, SomePackets
  <2> QED  BY <2>1, <2>2 DEF FramesInv, ReaderInv, Lost, LosesOne, FramesSafe
<1> QED  BY <1>1, FramesInit, FramesNext, PTL DEF Spec

\* A direction implements PacketChannel: packets are put together in the order
\* in which their last frames were written, each once, whoever interleaves and
\* whoever is cancelled.  This is the wire of the other modules.
THEOREM FramesKeepChannel == Spec => KeepsChannel
<1>1. Init => Channel!Init
  <2> SUFFICES ASSUME Init PROVE Channel!Init  OBVIOUS
  <2>1. finished = <<>> /\ Len(decoder.packets) = 0  BY DEF Init
  <2>2. [i \in 1..0 |-> decoder.packets[i].id] = <<>>  OBVIOUS
  <2> QED  BY <2>1, <2>2 DEF Channel!Init
<1>2. ChannelStep => [Channel!Next]_<<finished, [i \in 1..Len(decoder.packets) |-> decoder.packets[i].id]>>
  BY DEF ChannelStep, Ids
<1> QED  BY <1>1, <1>2, FramesInit, FramesNext, PTL DEF Spec, KeepsChannel, Channel!Spec
=============================================================================
