------------------------------- MODULE Stream -------------------------------
(***************************************************************************)
(* One streaming call of rmote/protocol.py, from the generator of the      *)
(* remote method to the "async for" of its consumer.                       *)
(*                                                                         *)
(*   producer side: _execute / send_stream (the producer task), its        *)
(*     StreamCredit, its StreamBuffer and the writer task StreamBuffer.run *)
(*   wires: down carries responses, up carries the request, permission     *)
(*     that was given back, and the notice that the consumer left          *)
(*   consumer side: the receive loop (_loop, handle_stream_item,           *)
(*     _handle_rpc_response, _handle_exception) and Protocol.stream        *)
(*                                                                         *)
(* Steps end where the code awaits; code between two awaits is one action. *)
(* Packets are whole: their fragments are the subject of Frames.           *)
(***************************************************************************)
EXTENDS Integers, Sequences

CONSTANTS
    ItemSizes,           \* serialized lengths an item of the generator can have
    EnvelopeSize,        \* bytes the source envelope adds; 0: no item brings sources
    MAX_STREAM_WINDOW,
    MAX_STREAM_BACKLOG,
    MAX_STREAM_ITEM,
    ITEM_HEADER,         \* bytes of the length in front of an item
    MaxItems,            \* bound: items the generator yields
    LinkMayBreak         \* whether the connection can drop

ASSUME StreamConstants ==
    /\ ItemSizes \subseteq Nat /\ EnvelopeSize \in Nat
    /\ MAX_STREAM_WINDOW \in Nat \ {0} /\ MAX_STREAM_BACKLOG \in Nat \ {0}
    /\ MAX_STREAM_ITEM \in Nat /\ ITEM_HEADER \in Nat \ {0}
    /\ MaxItems \in Nat /\ LinkMayBreak \in BOOLEAN

VARIABLES
    ppc,         \* where the producer task is
    made,        \* items paid for and pushed so far; item n is the n-th of them
    waiting,     \* the item that waits for permission: its length, and whether it brings sources
    outcome,     \* how send_stream left its loop
    credit,      \* the StreamCredit
    hasCredit,   \* stream_credits and stream_senders hold this packet_id
    buffer,      \* the StreamBuffer
    wpc,         \* where the writer task is
    packet,      \* the packet in the hands of the writer task
    known,       \* known_modules holds the sources of the items
    closedP,     \* _closed of the producer side
    down, up,    \* packets on the wire
    link,        \* the connection is up
    cpc,         \* where the consumer is
    queue,       \* the asyncio.Queue of the call
    registered,  \* streams holds this packet_id
    buffered,    \* stream_buffered[packet_id]
    over,        \* packet_id is in streams_over_budget
    ending,      \* the task that handles the final response has not run yet
    hand,        \* the batch that the consumer iterates over
    owed,        \* owed_bytes and owed_items
    delivered,   \* the items the application received
    closedC      \* _closed of the consumer side

senderVars   == <<ppc, made, waiting, outcome, credit, hasCredit, closedP>>
writerVars   == <<buffer, wpc, packet, known>>
consumerVars == <<cpc, queue, registered, buffered, over, ending, hand, owed, delivered, closedC>>
vars == <<senderVars, writerVars, down, up, link, consumerVars>>

-----------------------------------------------------------------------------
(* Packets and queue entries.  A down packet and a queue entry have the     *)
(* same shape: the kind, the items it carries and the size that             *)
(* decode_packet reports.                                                   *)

Batch(items, size, coded) == [kind |-> "batch", items |-> items, size |-> size, coded |-> coded]
Notice(kind) == [kind |-> kind, items |-> <<>>, size |-> 0, coded |-> FALSE]
UpMessage(kind, size, count) == [kind |-> kind, size |-> size, count |-> count]

DownKinds == {"batch", "ended", "raised", "lost", "refused"}
UpKinds == {"request", "credit", "leave"}

Credit(bytes, items, released, ready) ==
    [bytes |-> bytes, items |-> items, released |-> released, ready |-> ready]
Buffer(frames, bytes, sources, ready, done) ==
    [frames |-> frames, bytes |-> bytes, sources |-> sources, ready |-> ready, done |-> done]

NoItem == [length |-> 0, coded |-> FALSE]
NoPacket == Notice("ended")
NoHand == [items |-> <<>>, count |-> 0, size |-> 0]

\* States in which stream() has returned, raised or been closed.
ConsumerFinal == {"ended", "raised", "lost", "refused", "left"}
ConsumerOpen == {"get", "yield", "return"}

\* A write to a transport whose peer is gone is lost.
Write(wire, message) == IF link THEN Append(wire, message) ELSE wire

Init ==
    /\ ppc = "absent" /\ made = 0 /\ waiting = NoItem /\ outcome = "none"
    /\ credit = Credit(0, 0, FALSE, TRUE)
    /\ hasCredit = FALSE /\ closedP = FALSE
    /\ buffer = Buffer(<<>>, 0, FALSE, FALSE, FALSE)
    /\ wpc = "absent" /\ packet = NoPacket /\ known = (EnvelopeSize = 0)
    /\ down = <<>> /\ up = <<UpMessage("request", 0, 0)>> /\ link = TRUE
    /\ cpc = "get" /\ queue = <<>> /\ registered = TRUE /\ buffered = 0 /\ over = FALSE
    /\ ending = FALSE /\ hand = NoHand /\ owed = [bytes |-> 0, items |-> 0]
    /\ delivered = <<>> /\ closedC = FALSE

-----------------------------------------------------------------------------
(* StreamCredit                                                             *)

Fits(size) ==
    /\ credit.items < MAX_STREAM_BACKLOG
    /\ credit.bytes = 0 \/ credit.bytes + size <= MAX_STREAM_WINDOW

Spent(size) ==
    Credit(credit.bytes + size, credit.items + 1, credit.released, credit.ready)

Released == Credit(credit.bytes, credit.items, TRUE, TRUE)

\* give_back, with the release that handle_stream_credit adds when it raises.
GiveBack(size, items) ==
    IF size > credit.bytes \/ items > credit.items
    THEN Released
    ELSE Credit(credit.bytes - size, credit.items - items, credit.released, TRUE)

-----------------------------------------------------------------------------
(* StreamBuffer                                                             *)

\* Mutant: the new item goes in front of those that gathered.
PushedFront(length, coded) ==
    Buffer(<<made + 1>> \o buffer.frames, buffer.bytes + length + ITEM_HEADER,
           buffer.sources \/ coded, TRUE, buffer.done)

\* push: bytes is the length batch() gives the frames when they are joined.
Pushed(length, coded) ==
    Buffer(Append(buffer.frames, made + 1), buffer.bytes + length + ITEM_HEADER,
           buffer.sources \/ coded, TRUE, buffer.done)

Finished == Buffer(buffer.frames, buffer.bytes, buffer.sources, TRUE, TRUE)

\* run, up to its write: take everything that gathered.
WriterTake ==
    /\ wpc = "wait" /\ buffer.ready
    /\ buffer' = Buffer(<<>>, 0, FALSE, FALSE, buffer.done)
    /\ IF buffer.frames # <<>>
       THEN /\ wpc' = "write"
            /\ packet' = Batch(buffer.frames,
                               buffer.bytes + (IF buffer.sources THEN EnvelopeSize ELSE 0),
                               buffer.sources)
       ELSE /\ wpc' = IF buffer.done THEN "done" ELSE "wait"
            /\ UNCHANGED packet
    /\ UNCHANGED <<senderVars, known, down, up, link, consumerVars>>

\* Mutant: the writer stops when the producer finished, with frames left.
WriterNextEager == IF buffer.done THEN "done" ELSE "wait"

\* run, after its write.
WriterNext == IF buffer.done /\ buffer.frames = <<>> THEN "done" ELSE "wait"

\* write: the packet reaches the transport.
WriterPut ==
    /\ wpc = "write"
    /\ down' = Write(down, packet)
    /\ known' = (known \/ packet.coded)
    /\ packet' = NoPacket
    /\ wpc' = WriterNext
    /\ UNCHANGED <<senderVars, buffer, up, link, consumerVars>>

\* write: send_frame raises on a transport that noticed the loss.
WriterFail ==
    /\ wpc = "write" /\ ~link
    /\ wpc' = "failed" /\ packet' = NoPacket
    /\ UNCHANGED <<senderVars, buffer, known, down, up, link, consumerVars>>

-----------------------------------------------------------------------------
(* send_stream, inside the task of _execute                                 *)

\* The task starts: send_stream registers the permission and its writer.
StartSender ==
    /\ ppc = "scheduled"
    /\ ppc' = "produce" /\ hasCredit' = TRUE
    /\ wpc' = "wait"
    /\ UNCHANGED <<made, waiting, outcome, credit, closedP, buffer, packet, known,
                   down, up, link, consumerVars>>

\* The task starts and refuses the request: no tool, no method.
RefuseRequest ==
    /\ ppc = "scheduled"
    /\ ppc' = "respond" /\ outcome' = "raise"
    /\ UNCHANGED <<made, waiting, credit, hasCredit, closedP, writerVars, down, up, link, consumerVars>>

\* The finally clause of send_stream up to "await writer".
LeaveLoop(why) ==
    /\ ppc' = "flush" /\ outcome' = why /\ waiting' = NoItem
    /\ hasCredit' = FALSE /\ buffer' = Finished

\* Mutant: the length in front of the item is not paid for.
PriceOfPayload(length) == length

Price(length) == length + ITEM_HEADER

\* The loop of spend and what follows it: stop, push, or wait for the event.
Settle(length, coded) ==
    \/ /\ credit.released
       /\ LeaveLoop("stop") /\ UNCHANGED <<made, credit>>
    \/ /\ ~credit.released /\ Fits(Price(length))
       /\ ppc' = "produce" /\ waiting' = NoItem /\ made' = made + 1
       /\ credit' = Spent(Price(length)) /\ buffer' = Pushed(length, coded)
       /\ UNCHANGED <<outcome, hasCredit>>
    \/ /\ ~credit.released /\ ~Fits(Price(length))
       /\ ppc' = "waiting" /\ waiting' = [length |-> length, coded |-> coded]
       /\ credit' = [credit EXCEPT !.ready = FALSE]
       /\ UNCHANGED <<made, outcome, hasCredit, buffer>>

\* The generator yields an item: encode, the item limit, and spend.
Produce ==
    /\ ppc = "produce" /\ made < MaxItems
    /\ \E length \in ItemSizes, coded \in {FALSE, ~known} :
        IF length > MAX_STREAM_ITEM
        THEN LeaveLoop("raise") /\ UNCHANGED <<made, credit>>
        ELSE Settle(length, coded)
    /\ UNCHANGED <<closedP, wpc, packet, known, down, up, link, consumerVars>>

\* ready.wait() returns and spend looks again.
Wake ==
    /\ ppc = "waiting" /\ credit.ready
    /\ Settle(waiting.length, waiting.coded)
    /\ UNCHANGED <<closedP, wpc, packet, known, down, up, link, consumerVars>>

\* The generator returns, or raises.
Exhaust ==
    /\ ppc = "produce"
    /\ \E why \in {"end", "raise"} : LeaveLoop(why)
    /\ UNCHANGED <<made, credit, closedP, wpc, packet, known, down, up, link, consumerVars>>

\* The cancellation arrives where the task waits.  Inside the generator the
\* method may also return or raise instead of passing the cancellation on;
\* inside spend only the cleanup of the generator may raise.
CancelDelivered ==
    /\ ppc = "cancelled"
    /\ \E why \in {"cancel", "raise"} \cup (IF waiting = NoItem THEN {"end"} ELSE {}) : LeaveLoop(why)
    /\ UNCHANGED <<made, credit, closedP, wpc, packet, known, down, up, link, consumerVars>>

\* "await writer" returns or raises.  A cancelled task owes no response.
FlushDone ==
    /\ ppc = "flush"
    /\ \/ /\ wpc = "done"
          /\ ppc' = IF outcome = "cancel" THEN "done" ELSE "respond"
          /\ UNCHANGED outcome
       \/ wpc = "failed" /\ ppc' = "respond" /\ outcome' = "raise"
    /\ UNCHANGED <<made, waiting, credit, hasCredit, closedP, writerVars, down, up, link, consumerVars>>

FinishPendingP ==
    /\ closedP' = TRUE
    /\ credit' = (IF hasCredit THEN Released ELSE credit)
    /\ hasCredit' = FALSE

\* Mutant: a failure of the method is answered like its end.
ResponseAlwaysEnds == "ended"

ResponseKind == IF outcome = "raise" THEN "raised" ELSE "ended"

\* _send_response: the response that ends the stream.
Respond ==
    /\ ppc = "respond" /\ ppc' = "done"
    /\ down' = Write(down, Notice(ResponseKind))
    /\ UNCHANGED <<made, waiting, outcome, credit, hasCredit, closedP, writerVars, up, link, consumerVars>>

\* _send_response on a transport that noticed the loss.
RespondFail ==
    /\ ppc = "respond" /\ ~link
    /\ ppc' = "done" /\ FinishPendingP
    /\ UNCHANGED <<made, waiting, outcome, writerVars, down, up, link, consumerVars>>

-----------------------------------------------------------------------------
(* The receive loop of the producer side                                    *)

\* handle_stream_credit(None): cancel the task where it waits.
CancelProducer ==
    ppc' = IF ppc \in {"produce", "waiting"} THEN "cancelled" ELSE ppc

\* handle_stream_credit; the permission of a sender that is gone is ignored.
HandleStreamCredit(message) ==
    IF ~hasCredit THEN UNCHANGED <<ppc, credit>>
    ELSE IF message.kind = "leave"
    THEN credit' = Released /\ CancelProducer
    ELSE credit' = GiveBack(message.size, message.count) /\ UNCHANGED ppc

ReceiveUp ==
    /\ ~closedP /\ up # <<>>
    /\ up' = Tail(up)
    /\ IF Head(up).kind = "request"
       THEN ppc' = "scheduled" /\ UNCHANGED credit
       ELSE HandleStreamCredit(Head(up))
    /\ UNCHANGED <<made, waiting, outcome, hasCredit, closedP, writerVars, down, link, consumerVars>>

\* End of file: _finish_pending of the producer side.
LoseP ==
    /\ ~closedP /\ ~link /\ up = <<>>
    /\ FinishPendingP
    /\ UNCHANGED <<ppc, made, waiting, outcome, writerVars, down, up, link, consumerVars>>

\* __aexit__ of the producer side cancels every task.
CancelTasks ==
    /\ closedP /\ (ppc # "done" \/ wpc \notin {"done", "failed"})
    /\ ppc' = "done" /\ wpc' = "done" /\ hasCredit' = FALSE /\ packet' = NoPacket
    /\ UNCHANGED <<made, waiting, outcome, credit, closedP, buffer, known, down, up, link, consumerVars>>

-----------------------------------------------------------------------------
(* The receive loop of the consumer side                                    *)

QueueFull == Len(queue) >= MAX_STREAM_BACKLOG + 1

\* The test of handle_stream_item for a peer that ignores its permission.
OverBudget(item) ==
    \/ Len(queue) >= MAX_STREAM_BACKLOG
    \/ item.size > MAX_STREAM_ITEM
    \/ ~(buffered + item.size <= MAX_STREAM_WINDOW \/ queue = <<>>)

HandleStreamItem(item) ==
    IF ~registered \/ over THEN UNCHANGED <<queue, buffered, over>>
    ELSE IF OverBudget(item)
    THEN over' = TRUE /\ queue' = Append(queue, Notice("refused")) /\ UNCHANGED buffered
    ELSE queue' = Append(queue, item) /\ buffered' = buffered + item.size /\ UNCHANGED over

\* An entry that ends the stream; a full queue already holds a failure.
PutFinal(entry) ==
    queue' = IF registered /\ ~QueueFull THEN Append(queue, entry) ELSE queue

\* Items and failures are handled inline, the final response by a task.
ReceiveDown ==
    /\ ~closedC /\ down # <<>>
    /\ down' = Tail(down)
    /\ \/ /\ Head(down).kind = "batch"
          /\ HandleStreamItem(Head(down)) /\ UNCHANGED ending
       \/ /\ Head(down).kind = "ended"
          /\ ending' = TRUE /\ UNCHANGED <<queue, buffered, over>>
       \/ /\ Head(down).kind = "raised"
          /\ PutFinal(Head(down)) /\ UNCHANGED <<buffered, over, ending>>
    /\ UNCHANGED <<senderVars, writerVars, up, link, cpc, registered, hand, owed, delivered, closedC>>

\* The task of _execute that runs _handle_rpc_response.
HandleEnd ==
    /\ ending /\ ending' = FALSE
    /\ PutFinal(Notice("ended"))
    /\ UNCHANGED <<senderVars, writerVars, down, up, link, cpc, registered, buffered, over,
                   hand, owed, delivered, closedC>>

\* Mutant: a close does not report to the streaming consumers.
LoseCSilently ==
    /\ ~closedC /\ ~link /\ down = <<>>
    /\ closedC' = TRUE /\ registered' = FALSE /\ buffered' = 0 /\ over' = FALSE
    /\ UNCHANGED <<senderVars, writerVars, down, up, link, cpc, queue, ending, hand, owed, delivered>>

\* End of file: _finish_pending of the consumer side.
LoseC ==
    /\ ~closedC /\ ~link /\ down = <<>>
    /\ closedC' = TRUE
    /\ PutFinal(Notice("lost"))
    /\ registered' = FALSE /\ buffered' = 0 /\ over' = FALSE
    /\ UNCHANGED <<senderVars, writerVars, down, up, link, cpc, ending, hand, owed, delivered>>

-----------------------------------------------------------------------------
(* Protocol.stream                                                          *)

\* The finally clause of stream(), up to the notice for the sender.
Unregister(where) ==
    /\ cpc' = where
    /\ registered' = FALSE /\ over' = FALSE /\ buffered' = 0

\* Mutant: a close that cleared stream_buffered is forgotten.
BufferedWithout(size) == buffered - size

BufferedAfter(size) == IF buffered >= size THEN buffered - size ELSE 0

\* queue.get() returns.
Get ==
    /\ cpc = "get" /\ queue # <<>>
    /\ queue' = Tail(queue)
    /\ LET entry == Head(queue) IN
       IF entry.kind = "batch"
       THEN /\ cpc' = "yield"
            /\ hand' = [items |-> entry.items, count |-> Len(entry.items), size |-> entry.size]
            /\ buffered' = BufferedAfter(entry.size)
            /\ UNCHANGED <<registered, over>>
       ELSE Unregister(entry.kind) /\ UNCHANGED hand
    /\ UNCHANGED <<senderVars, writerVars, down, up, link, ending, owed, delivered, closedC>>

\* The application asks for an item and the batch has one.
YieldItem ==
    /\ cpc = "yield" /\ hand.items # <<>>
    /\ delivered' = Append(delivered, Head(hand.items))
    /\ hand' = [hand EXCEPT !.items = Tail(@)]
    /\ UNCHANGED <<senderVars, writerVars, down, up, link, cpc, queue, registered, buffered,
                   over, ending, owed, closedC>>

PermissionDue(bytes, items) ==
    bytes * 2 >= MAX_STREAM_WINDOW \/ items * 2 >= MAX_STREAM_BACKLOG

\* The application asks for an item and the batch is used up.
BatchDone ==
    /\ cpc = "yield" /\ hand.items = <<>>
    /\ LET bytes == owed.bytes + hand.size
           items == owed.items + hand.count
       IN  /\ owed' = [bytes |-> bytes, items |-> items]
           /\ cpc' = IF PermissionDue(bytes, items) THEN "return" ELSE "get"
    /\ hand' = NoHand
    /\ UNCHANGED <<senderVars, writerVars, down, up, link, queue, registered, buffered, over,
                   ending, delivered, closedC>>

OwedReset == [bytes |-> 0, items |-> 0]

ReturnPermission ==
    /\ cpc = "return"
    /\ up' = Write(up, UpMessage("credit", owed.bytes, owed.items))
    /\ owed' = OwedReset
    /\ cpc' = "get"
    /\ UNCHANGED <<senderVars, writerVars, down, link, queue, registered, buffered, over, ending,
                   hand, delivered, closedC>>

\* send raises on a transport that noticed the loss.
ReturnFail ==
    /\ cpc = "return" /\ ~link
    /\ Unregister("lost")
    /\ UNCHANGED <<senderVars, writerVars, down, up, link, queue, ending, hand, owed, delivered, closedC>>

\* The application closes the iterator, or the task that reads it is cancelled.
Leave ==
    /\ cpc \in ConsumerOpen
    /\ Unregister(IF closedC THEN "left" ELSE "leaving")
    /\ UNCHANGED <<senderVars, writerVars, down, up, link, queue, ending, hand, owed, delivered, closedC>>

\* The notice for the sender; a failure to send it is only logged.
SendLeave ==
    /\ cpc = "leaving" /\ cpc' = "left"
    /\ up' = Write(up, UpMessage("leave", 0, 0))
    /\ UNCHANGED <<senderVars, writerVars, down, link, queue, registered, buffered, over, ending,
                   hand, owed, delivered, closedC>>

-----------------------------------------------------------------------------
\* The connection drops.  Of what is on the wire, a prefix still arrives.
BreakLink ==
    /\ LinkMayBreak /\ link /\ link' = FALSE
    /\ \E n \in 0..Len(down) : down' = SubSeq(down, 1, n)
    /\ \E n \in 0..Len(up) : up' = SubSeq(up, 1, n)
    /\ UNCHANGED <<senderVars, writerVars, consumerVars>>

SenderStep == StartSender \/ RefuseRequest \/ Wake \/ CancelDelivered \/ FlushDone \/ Respond \/ RespondFail
WriterStep == WriterTake \/ WriterPut \/ WriterFail
ReadStep == Get \/ YieldItem \/ BatchDone \/ ReturnPermission \/ ReturnFail \/ SendLeave

Next ==
    \/ StartSender \/ RefuseRequest \/ Produce \/ Wake \/ Exhaust \/ CancelDelivered \/ FlushDone
    \/ Respond \/ RespondFail
    \/ WriterTake \/ WriterPut \/ WriterFail
    \/ ReceiveUp \/ LoseP \/ CancelTasks
    \/ ReceiveDown \/ HandleEnd \/ LoseC
    \/ Get \/ YieldItem \/ BatchDone \/ ReturnPermission \/ ReturnFail \/ Leave \/ SendLeave
    \/ BreakLink

\* Every task that can run is run by its event loop, and the application keeps
\* asking for items until it leaves.  The generator owes nothing: it may wait
\* for ever, so Produce and Exhaust are not fair; neither are Leave and BreakLink.
Fairness ==
    /\ WF_vars(SenderStep) /\ WF_vars(WriterStep) /\ WF_vars(ReadStep)
    /\ WF_vars(ReceiveUp \/ LoseP) /\ WF_vars(CancelTasks)
    /\ WF_vars(ReceiveDown \/ LoseC) /\ WF_vars(HandleEnd)

Spec == Init /\ [][Next]_vars
FairSpec == Spec /\ Fairness

-----------------------------------------------------------------------------
(* Properties                                                               *)

DownPacket == [kind : DownKinds, items : Seq(Nat), size : Nat, coded : BOOLEAN]
UpPacket == [kind : UpKinds, size : Nat, count : Nat]
ProducerStates == {"absent", "scheduled", "produce", "waiting", "cancelled", "flush", "respond", "done"}
Outcomes == {"none", "end", "raise", "stop", "cancel"}
WriterStates == {"absent", "wait", "write", "done", "failed"}
ConsumerStates == ConsumerOpen \cup ConsumerFinal \cup {"leaving"}
ItemType == [length : Nat, coded : BOOLEAN]
CreditType == [bytes : Nat, items : Nat, released : BOOLEAN, ready : BOOLEAN]
BufferType == [frames : Seq(Nat), bytes : Nat, sources : BOOLEAN, ready : BOOLEAN, done : BOOLEAN]
HandType == [items : Seq(Nat), count : Nat, size : Nat]
OwedType == [bytes : Nat, items : Nat]

\* Every variable holds a value of the kind the code keeps there.
TypeOK ==
    /\ ppc \in ProducerStates /\ made \in Nat /\ waiting \in ItemType /\ outcome \in Outcomes
    /\ credit \in CreditType /\ hasCredit \in BOOLEAN /\ closedP \in BOOLEAN
    /\ buffer \in BufferType /\ wpc \in WriterStates /\ packet \in DownPacket /\ known \in BOOLEAN
    /\ down \in Seq(DownPacket) /\ up \in Seq(UpPacket) /\ link \in BOOLEAN
    /\ cpc \in ConsumerStates /\ queue \in Seq(DownPacket) /\ registered \in BOOLEAN
    /\ buffered \in Nat /\ over \in BOOLEAN /\ ending \in BOOLEAN /\ hand \in HandType
    /\ owed \in OwedType /\ delivered \in Seq(Nat) /\ closedC \in BOOLEAN

\* The application receives the items in the order the generator made them,
\* none twice and none skipped, whatever the batching, the closing of the
\* stream and the loss of the connection ("Items in the order the remote side
\* produced them", docstring of Protocol.stream).
InOrder ==
    /\ Len(delivered) <= made
    /\ \A i \in 1..Len(delivered) : delivered[i] = i

\* The permission that a consumer gives back is never above what its sender
\* has in flight, so give_back never raises between two ends that run this
\* code ("Both mean a broken peer").
PermissionIsOwed ==
    (hasCredit /\ up # <<>> /\ Head(up).kind = "credit") =>
        Head(up).size <= credit.bytes /\ Head(up).count <= credit.items

\* A packet of one item whose length is within MAX_STREAM_ITEM, which is what
\* send_stream tests, while its size with the header is above it, which is what
\* handle_stream_item tests.
AtTheLimit(item) ==
    /\ Len(item.items) = 1
    /\ item.size > MAX_STREAM_ITEM /\ item.size <= MAX_STREAM_ITEM + ITEM_HEADER

\* The receive side accuses a sender that runs this code of ignoring its
\* permission in one case only, an item whose length is at the limit and whose
\* header takes it above: no packet is refused for the number or the bytes of
\* those before it ("the limits here only catch a peer that ignores the
\* budget").
AccusedAtTheLimit ==
    (registered /\ ~over /\ down # <<>> /\ Head(down).kind = "batch" /\ OverBudget(Head(down))) =>
        AtTheLimit(Head(down))

\* What the comment quoted above says without that exception.
NeverAccused == ~over

\* A producer that waits for permission while its consumer waits for items is
\* about to get it: something is still under way between them.  This is the
\* claim of StreamCredit.fits, "It therefore never waits for room that cannot
\* appear".
RoomCanAppear ==
    (ppc = "waiting" /\ ~credit.ready /\ cpc = "get" /\ link) =>
        \/ buffer.frames # <<>> \/ wpc = "write"
        \/ down # <<>> \/ queue # <<>> \/ up # <<>>

\* The part of that claim that holds: an item that costs at most half the
\* budget finds room, whatever else is in flight.
SmallItemsFindRoom == 2 * Price(waiting.length) <= MAX_STREAM_WINDOW + 1 => RoomCanAppear

\* The stream implements OrderedStream, the promise made to the application.
Promise == INSTANCE OrderedStream WITH
    got <- Len(delivered),
    method <- CASE outcome = "none" -> "running" [] outcome = "end" -> "returned"
                [] outcome = "raise" -> "raised" [] OTHER -> "stopped",
    call <- IF cpc \in ConsumerOpen THEN "open"
            ELSE CASE cpc \in {"ended", "raised"} -> cpc
                   [] cpc \in {"lost", "refused"} -> "failed"
                   [] OTHER -> "left"

\* Every step of the stream is a step of the promise: deliveries are in order
\* and stop when the call is over, an end or an error of the method comes after
\* its last item, and the way a call ended never changes.
KeepsPromise == Promise!Spec

\* Every item the generator gave reaches the application, unless the
\* application leaves, the connection drops or an item is refused: no batch is
\* stuck in the buffer, on the wire or in the queue.  An item that still waits
\* for permission is not given (RoomCanAppear is about those).
ItemsArrive ==
    \A n \in 1..MaxItems :
        made >= n ~> (Len(delivered) >= n \/ cpc \in {"lost", "left", "refused"})

\* A sender whose permission was released always ends: it is cancelled where it
\* waits, or it sees the release at its next item.
ReleasedEnds == credit.released ~> ppc = "done"

\* A consumer that leaves stops its sender ("Closing the iterator tells the
\* sender to stop.  The task that produces the items is cancelled", docstring of
\* Protocol.stream).  It does not when its notice comes before the task of the
\* request has registered.
LeavingStops == cpc = "left" ~> (ppc = "done" \/ ~link)

\* A consumer never waits on a stream whose sender has ended or whose
\* connection is gone.
ConsumerEnds == (ppc = "done" \/ ~link) ~> cpc \in ConsumerFinal

\* Nobody is left waiting at either end, however the stream ends: release and
\* cancel reach the producer (send_stream), the end, an error or the loss of
\* the connection reach the consumer (_finish_pending).
EveryoneEnds == ReleasedEnds /\ ConsumerEnds
=============================================================================
