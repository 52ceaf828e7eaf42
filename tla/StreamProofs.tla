---------------------------- MODULE StreamProofs ----------------------------
(***************************************************************************)
(* Theorems about Stream, for every window, backlog, item limit and number *)
(* of items.                                                               *)
(***************************************************************************)
EXTENDS Stream, SequenceTheorems, TLAPS

USE DEF senderVars, writerVars, consumerVars, Credit, Buffer

-----------------------------------------------------------------------------
(* Type correctness                                                         *)

\* stream() starts with one registered call and one request on the wire: all
\* variables have their types.
LEMMA InitType == Init => TypeOK
<1> SUFFICES ASSUME Init PROVE TypeOK  OBVIOUS
<1> USE DEF Init
<1>1. ppc \in ProducerStates /\ outcome \in Outcomes /\ wpc \in WriterStates
  BY DEF ProducerStates, Outcomes, WriterStates
<1>2. waiting \in ItemType  BY DEF ItemType, NoItem
<1>3. credit \in CreditType  BY DEF CreditType
<1>4. buffer \in BufferType  BY DEF BufferType
<1>5. packet \in DownPacket  BY DEF DownPacket, NoPacket, Notice, DownKinds
<1>6. known \in BOOLEAN  BY DEF Init
<1>7. up \in Seq(UpPacket)  BY DEF UpPacket, UpMessage, UpKinds
<1>8. hand \in HandType /\ owed \in OwedType  BY DEF HandType, OwedType, NoHand
<1>9. cpc \in ConsumerStates  BY DEF ConsumerStates, ConsumerOpen
<1>10. down \in Seq(DownPacket) /\ queue \in Seq(DownPacket) /\ delivered \in Seq(Nat)  OBVIOUS
<1>11. made \in Nat /\ buffered \in Nat  OBVIOUS
<1>12. /\ hasCredit \in BOOLEAN /\ closedP \in BOOLEAN /\ link \in BOOLEAN /\ registered \in BOOLEAN
       /\ over \in BOOLEAN /\ ending \in BOOLEAN /\ closedC \in BOOLEAN
  OBVIOUS
<1> HIDE DEF Init
<1> QED  BY <1>10, <1>11, <1>12, <1>1, <1>2, <1>3, <1>4, <1>5, <1>6, <1>7, <1>8, <1>9 DEF TypeOK

\* A response without items is a packet.
LEMMA NoticeType == ASSUME NEW kind \in DownKinds PROVE Notice(kind) \in DownPacket
  BY DEF Notice, DownPacket

\* The entry that ends a stream leaves the queue a sequence of entries.
LEMMA PutFinalType ==
    ASSUME TypeOK, NEW entry \in DownPacket, PutFinal(entry) PROVE queue' \in Seq(DownPacket)
<1>1. Append(queue, entry) \in Seq(DownPacket) /\ queue \in Seq(DownPacket)  BY DEF TypeOK
<1> QED  BY <1>1 DEF PutFinal

\* The variables that the loop of send_stream changes.
Settled ==
    /\ ppc \in ProducerStates /\ made \in Nat /\ waiting \in ItemType /\ outcome \in Outcomes
    /\ credit \in CreditType /\ hasCredit \in BOOLEAN /\ buffer \in BufferType

\* The finally clause of send_stream leaves its variables well typed.
LEMMA LeaveLoopType ==
    ASSUME TypeOK, NEW why \in Outcomes, LeaveLoop(why), UNCHANGED <<made, credit>>
    PROVE  Settled'
<1> USE DEF TypeOK, LeaveLoop
<1>1. ppc' \in ProducerStates /\ outcome' \in Outcomes  BY DEF ProducerStates
<1>2. waiting' \in ItemType  BY DEF NoItem, ItemType
<1>3. buffer' \in BufferType  BY DEF Finished, BufferType
<1> QED  BY <1>1, <1>2, <1>3 DEF Settled

\* spend, and the push or the wait that follows it, leave the variables of
\* send_stream well typed.
LEMMA SettleType ==
    ASSUME TypeOK, NEW length \in Nat, NEW coded \in BOOLEAN, Settle(length, coded)
    PROVE  Settled'
<1> USE DEF TypeOK
<1>1. CASE credit.released /\ LeaveLoop("stop") /\ UNCHANGED <<made, credit>>
  BY <1>1, LeaveLoopType DEF Outcomes
<1>2. CASE /\ ppc' = "produce" /\ waiting' = NoItem /\ made' = made + 1
           /\ credit' = Spent(Price(length)) /\ buffer' = Pushed(length, coded)
           /\ UNCHANGED <<outcome, hasCredit>>
  <2>1. ITEM_HEADER \in Nat  BY StreamConstants
  <2>2. ppc' \in ProducerStates  BY <1>2 DEF ProducerStates
  <2>3. waiting' \in ItemType  BY <1>2 DEF NoItem, ItemType
  <2>4. credit' \in CreditType  BY <1>2, <2>1 DEF Spent, Price, CreditType
  <2>5. buffer' \in BufferType
    <3>1. Append(buffer.frames, made + 1) \in Seq(Nat)  BY DEF BufferType
    <3>2. buffer.bytes + length + ITEM_HEADER \in Nat  BY <2>1 DEF BufferType
    <3>3. (buffer.sources \/ coded) \in BOOLEAN /\ buffer.done \in BOOLEAN  BY DEF BufferType
    <3> QED  BY <1>2, <3>1, <3>2, <3>3 DEF Pushed, BufferType
  <2> QED  BY <1>2, <2>2, <2>3, <2>4, <2>5 DEF Settled
<1>3. CASE /\ ppc' = "waiting" /\ waiting' = [length |-> length, coded |-> coded]
           /\ credit' = [credit EXCEPT !.ready = FALSE]
           /\ UNCHANGED <<made, outcome, hasCredit, buffer>>
  <2>1. ppc' \in ProducerStates  BY <1>3 DEF ProducerStates
  <2>2. waiting' \in ItemType  BY <1>3 DEF ItemType
  <2>3. credit' \in CreditType  BY <1>3 DEF CreditType
  <2> QED  BY <1>3, <2>1, <2>2, <2>3 DEF Settled
<1> QED  BY <1>1, <1>2, <1>3 DEF Settle

\* No await-free step of either side leaves a variable outside its type; the
\* hard ones are the counters that are subtracted from (give_back, the
\* stream_buffered of the consumer).
LEMMA NextType == TypeOK /\ [Next]_vars => TypeOK'
<1> SUFFICES ASSUME TypeOK, [Next]_vars PROVE TypeOK'  OBVIOUS
<1> USE DEF TypeOK
<1>1. CASE UNCHANGED vars  BY <1>1 DEF vars
<1>2. CASE StartSender
  <2>1. ppc' \in ProducerStates  BY <1>2 DEF StartSender, ProducerStates
  <2>2. hasCredit' \in BOOLEAN  BY <1>2 DEF StartSender
  <2>3. wpc' \in WriterStates  BY <1>2 DEF StartSender, WriterStates
  <2>4. UNCHANGED <<made, waiting, outcome, credit, closedP, buffer, packet, known, down, up,
                    link, cpc, queue, registered, buffered, over, ending, hand, owed, delivered,
                    closedC>>
    BY <1>2 DEF StartSender
  <2> QED  BY <2>1, <2>2, <2>3, <2>4 DEF TypeOK
<1>3. CASE RefuseRequest
  <2>1. ppc' \in ProducerStates  BY <1>3 DEF RefuseRequest, ProducerStates
  <2>2. outcome' \in Outcomes  BY <1>3 DEF RefuseRequest, Outcomes
  <2>3. UNCHANGED <<made, waiting, credit, hasCredit, closedP, buffer, wpc, packet, known, down,
                    up, link, cpc, queue, registered, buffered, over, ending, hand, owed,
                    delivered, closedC>>
    BY <1>3 DEF RefuseRequest
  <2> QED  BY <2>1, <2>2, <2>3 DEF TypeOK
<1>4. CASE Produce
  <2>1. PICK length \in ItemSizes, coded \in {FALSE, ~known} :
          IF length > MAX_STREAM_ITEM
          THEN LeaveLoop("raise") /\ UNCHANGED <<made, credit>>
          ELSE Settle(length, coded)
    BY <1>4 DEF Produce
  <2>2. length \in Nat /\ coded \in BOOLEAN  BY StreamConstants
  <2>3. Settled'
    <3>1. CASE Settle(length, coded)  BY <2>2, <3>1, SettleType
    <3>2. CASE LeaveLoop("raise") /\ UNCHANGED <<made, credit>>  BY <3>2, LeaveLoopType DEF Outcomes
    <3> QED  BY <2>1, <3>1, <3>2
  <2>4. UNCHANGED <<closedP, wpc, packet, known, down, up, link, cpc, queue, registered, buffered, over, ending, hand, owed, delivered, closedC>>
    BY <1>4 DEF Produce
  <2> QED  BY <2>3, <2>4 DEF TypeOK, Settled
<1>5. CASE Wake
  <2>1. Settle(waiting.length, waiting.coded)  BY <1>5 DEF Wake
  <2>2. waiting.length \in Nat /\ waiting.coded \in BOOLEAN  BY DEF ItemType
  <2>3. Settled'  BY <2>1, <2>2, SettleType
  <2>4. UNCHANGED <<closedP, wpc, packet, known, down, up, link, cpc, queue, registered, buffered, over, ending, hand, owed, delivered, closedC>>
    BY <1>5 DEF Wake
  <2> QED  BY <2>3, <2>4 DEF TypeOK, Settled
<1>6. CASE Exhaust
  <2>1. ppc' \in ProducerStates  BY <1>6 DEF Exhaust, LeaveLoop, ProducerStates
  <2>2. outcome' \in Outcomes  BY <1>6 DEF Exhaust, LeaveLoop, Outcomes
  <2>3. waiting' \in ItemType  BY <1>6 DEF Exhaust, LeaveLoop, NoItem, ItemType
  <2>4. hasCredit' \in BOOLEAN  BY <1>6 DEF Exhaust, LeaveLoop
  <2>5. buffer' \in BufferType  BY <1>6 DEF Exhaust, LeaveLoop, Finished, BufferType
  <2>6. UNCHANGED <<made, credit, closedP, wpc, packet, known, down, up, link, cpc, queue,
                    registered, buffered, over, ending, hand, owed, delivered, closedC>>
    BY <1>6 DEF Exhaust, LeaveLoop
  <2> QED  BY <2>1, <2>2, <2>3, <2>4, <2>5, <2>6 DEF TypeOK
<1>7. CASE CancelDelivered
  <2>1. ppc' \in ProducerStates  BY <1>7 DEF CancelDelivered, LeaveLoop, ProducerStates
  <2>2. outcome' \in Outcomes  BY <1>7 DEF CancelDelivered, LeaveLoop, Outcomes
  <2>3. waiting' \in ItemType  BY <1>7 DEF CancelDelivered, LeaveLoop, NoItem, ItemType
  <2>4. hasCredit' \in BOOLEAN  BY <1>7 DEF CancelDelivered, LeaveLoop
  <2>5. buffer' \in BufferType  BY <1>7 DEF CancelDelivered, LeaveLoop, Finished, BufferType
  <2>6. UNCHANGED <<made, credit, closedP, wpc, packet, known, down, up, link, cpc, queue,
                    registered, buffered, over, ending, hand, owed, delivered, closedC>>
    BY <1>7 DEF CancelDelivered, LeaveLoop
  <2> QED  BY <2>1, <2>2, <2>3, <2>4, <2>5, <2>6 DEF TypeOK
<1>8. CASE FlushDone
  <2>1. ppc' \in ProducerStates  BY <1>8 DEF FlushDone, ProducerStates
  <2>2. outcome' \in Outcomes  BY <1>8 DEF FlushDone, Outcomes
  <2>3. UNCHANGED <<made, waiting, credit, hasCredit, closedP, buffer, wpc, packet, known, down,
                    up, link, cpc, queue, registered, buffered, over, ending, hand, owed,
                    delivered, closedC>>
    BY <1>8 DEF FlushDone
  <2> QED  BY <2>1, <2>2, <2>3 DEF TypeOK
<1>9. CASE Respond
  <2>1. ppc' \in ProducerStates  BY <1>9 DEF Respond, ProducerStates
  <2>2. down' \in Seq(DownPacket)
    <3>1. Notice(ResponseKind) \in DownPacket  BY NoticeType DEF ResponseKind, DownKinds
    <3> QED  BY <1>9, <3>1 DEF Respond, Write
  <2>3. UNCHANGED <<made, waiting, outcome, credit, hasCredit, closedP, buffer, wpc, packet,
                    known, up, link, cpc, queue, registered, buffered, over, ending, hand, owed,
                    delivered, closedC>>
    BY <1>9 DEF Respond
  <2> QED  BY <2>1, <2>2, <2>3 DEF TypeOK
<1>10. CASE RespondFail
  <2>1. ppc' \in ProducerStates  BY <1>10 DEF RespondFail, FinishPendingP, ProducerStates
  <2>2. closedP' \in BOOLEAN  BY <1>10 DEF RespondFail, FinishPendingP
  <2>3. credit' \in CreditType  BY <1>10 DEF RespondFail, FinishPendingP, Released, CreditType
  <2>4. hasCredit' \in BOOLEAN  BY <1>10 DEF RespondFail, FinishPendingP
  <2>5. UNCHANGED <<made, waiting, outcome, buffer, wpc, packet, known, down, up, link, cpc,
                    queue, registered, buffered, over, ending, hand, owed, delivered, closedC>>
    BY <1>10 DEF RespondFail, FinishPendingP
  <2> QED  BY <2>1, <2>2, <2>3, <2>4, <2>5 DEF TypeOK
<1>11. CASE WriterTake
  <2>1. buffer' \in BufferType  BY <1>11 DEF WriterTake, BufferType
  <2>2. wpc' \in WriterStates  BY <1>11 DEF WriterTake, WriterStates
  <2>3. packet' \in DownPacket
    BY <1>11, StreamConstants, SMTT(30) DEF WriterTake, Batch, DownPacket, DownKinds, BufferType
  <2>4. UNCHANGED <<ppc, made, waiting, outcome, credit, hasCredit, closedP, known, down, up,
                    link, cpc, queue, registered, buffered, over, ending, hand, owed, delivered,
                    closedC>>
    BY <1>11 DEF WriterTake
  <2> QED  BY <2>1, <2>2, <2>3, <2>4 DEF TypeOK
<1>12. CASE WriterPut
  <2>1. down' \in Seq(DownPacket)  BY <1>12 DEF WriterPut, Write
  <2>2. known' \in BOOLEAN  BY <1>12 DEF WriterPut, DownPacket
  <2>3. packet' \in DownPacket  BY <1>12 DEF WriterPut, NoPacket, Notice, DownPacket, DownKinds
  <2>4. wpc' \in WriterStates  BY <1>12 DEF WriterPut, WriterNext, WriterStates
  <2>5. UNCHANGED <<ppc, made, waiting, outcome, credit, hasCredit, closedP, buffer, up, link,
                    cpc, queue, registered, buffered, over, ending, hand, owed, delivered,
                    closedC>>
    BY <1>12 DEF WriterPut
  <2> QED  BY <2>1, <2>2, <2>3, <2>4, <2>5 DEF TypeOK
<1>13. CASE WriterFail
  <2>1. wpc' \in WriterStates  BY <1>13 DEF WriterFail, WriterStates
  <2>2. packet' \in DownPacket  BY <1>13 DEF WriterFail, NoPacket, Notice, DownPacket, DownKinds
  <2>3. UNCHANGED <<ppc, made, waiting, outcome, credit, hasCredit, closedP, buffer, known, down,
                    up, link, cpc, queue, registered, buffered, over, ending, hand, owed,
                    delivered, closedC>>
    BY <1>13 DEF WriterFail
  <2> QED  BY <2>1, <2>2, <2>3 DEF TypeOK
<1>14. CASE ReceiveUp
  <2>1. up' \in Seq(UpPacket)  BY <1>14 DEF ReceiveUp, HandleStreamCredit
  <2>2. ppc' \in ProducerStates
    BY <1>14 DEF ReceiveUp, HandleStreamCredit, CancelProducer, ProducerStates
  <2>3. credit' \in CreditType
    <3>1. Head(up) \in UpPacket  BY <1>14 DEF ReceiveUp
    <3>2. Head(up).size \in Nat /\ Head(up).count \in Nat  BY <3>1 DEF UpPacket
    <3>3. Released \in CreditType  BY DEF Released, CreditType
    <3>4. ASSUME NEW size \in Nat, NEW items \in Nat PROVE GiveBack(size, items) \in CreditType
      <4>1. CASE size > credit.bytes \/ items > credit.items  BY <4>1, <3>3 DEF GiveBack
      <4>2. CASE ~(size > credit.bytes \/ items > credit.items)
        BY <4>2 DEF GiveBack, CreditType
      <4> QED  BY <4>1, <4>2
    <3>5. credit' \in {credit, Released, GiveBack(Head(up).size, Head(up).count)}
      BY <1>14 DEF ReceiveUp, HandleStreamCredit
    <3> QED  BY <3>2, <3>3, <3>4, <3>5
  <2>4. UNCHANGED <<made, waiting, outcome, hasCredit, closedP, buffer, wpc, packet, known, down,
                    link, cpc, queue, registered, buffered, over, ending, hand, owed, delivered,
                    closedC>>
    BY <1>14 DEF ReceiveUp, HandleStreamCredit
  <2> QED  BY <2>1, <2>2, <2>3, <2>4 DEF TypeOK
<1>15. CASE LoseP
  <2>1. closedP' \in BOOLEAN  BY <1>15 DEF LoseP, FinishPendingP
  <2>2. credit' \in CreditType  BY <1>15 DEF LoseP, FinishPendingP, Released, CreditType
  <2>3. hasCredit' \in BOOLEAN  BY <1>15 DEF LoseP, FinishPendingP
  <2>4. UNCHANGED <<ppc, made, waiting, outcome, buffer, wpc, packet, known, down, up, link, cpc,
                    queue, registered, buffered, over, ending, hand, owed, delivered, closedC>>
    BY <1>15 DEF LoseP, FinishPendingP
  <2> QED  BY <2>1, <2>2, <2>3, <2>4 DEF TypeOK
<1>16. CASE CancelTasks
  <2>1. ppc' \in ProducerStates  BY <1>16 DEF CancelTasks, ProducerStates
  <2>2. wpc' \in WriterStates  BY <1>16 DEF CancelTasks, WriterStates
  <2>3. hasCredit' \in BOOLEAN  BY <1>16 DEF CancelTasks
  <2>4. packet' \in DownPacket  BY <1>16 DEF CancelTasks, NoPacket, Notice, DownPacket, DownKinds
  <2>5. UNCHANGED <<made, waiting, outcome, credit, closedP, buffer, known, down, up, link, cpc,
                    queue, registered, buffered, over, ending, hand, owed, delivered, closedC>>
    BY <1>16 DEF CancelTasks
  <2> QED  BY <2>1, <2>2, <2>3, <2>4, <2>5 DEF TypeOK
<1>17. CASE ReceiveDown
  <2>1. down' \in Seq(DownPacket)  BY <1>17 DEF ReceiveDown
  <2>a. Head(down) \in DownPacket /\ Head(down).size \in Nat
    <3>1. Head(down) \in DownPacket  BY <1>17 DEF ReceiveDown
    <3> QED  BY <3>1 DEF DownPacket
  <2>2. queue' \in Seq(DownPacket)
    <3>1. CASE HandleStreamItem(Head(down))
      <4>1. queue' \in {queue, Append(queue, Notice("refused")), Append(queue, Head(down))}
        BY <3>1 DEF HandleStreamItem
      <4>2. Notice("refused") \in DownPacket  BY NoticeType DEF DownKinds
      <4>3. Append(queue, Notice("refused")) \in Seq(DownPacket)  BY <4>2
      <4>4. Append(queue, Head(down)) \in Seq(DownPacket)  BY <2>a
      <4>5. queue \in Seq(DownPacket)  OBVIOUS
      <4> QED  BY <4>1, <4>3, <4>4, <4>5
    <3>2. CASE UNCHANGED queue  BY <3>2
    <3>3. CASE PutFinal(Head(down))  BY <3>3, <2>a, PutFinalType
    <3> QED  BY <1>17, <3>1, <3>2, <3>3 DEF ReceiveDown
  <2>3. buffered' \in Nat
    <3>1. buffered' \in {buffered, buffered + Head(down).size}  BY <1>17 DEF ReceiveDown, HandleStreamItem
    <3> QED  BY <2>a, <3>1
  <2>4. over' \in BOOLEAN  BY <1>17 DEF ReceiveDown, HandleStreamItem
  <2>5. ending' \in BOOLEAN  BY <1>17 DEF ReceiveDown
  <2>6. UNCHANGED <<ppc, made, waiting, outcome, credit, hasCredit, closedP, buffer, wpc, packet,
                    known, up, link, cpc, registered, hand, owed, delivered, closedC>>
    BY <1>17 DEF ReceiveDown
  <2> QED  BY <2>1, <2>2, <2>3, <2>4, <2>5, <2>6 DEF TypeOK
<1>18. CASE HandleEnd
  <2>1. ending' \in BOOLEAN  BY <1>18 DEF HandleEnd
  <2>2. queue' \in Seq(DownPacket)
    <3>1. Notice("ended") \in DownPacket  BY NoticeType DEF DownKinds
    <3> QED  BY <1>18, <3>1, PutFinalType DEF HandleEnd
  <2>3. UNCHANGED <<ppc, made, waiting, outcome, credit, hasCredit, closedP, buffer, wpc, packet,
                    known, down, up, link, cpc, registered, buffered, over, hand, owed, delivered,
                    closedC>>
    BY <1>18 DEF HandleEnd
  <2> QED  BY <2>1, <2>2, <2>3 DEF TypeOK
<1>19. CASE LoseC
  <2>1. closedC' \in BOOLEAN  BY <1>19 DEF LoseC
  <2>2. queue' \in Seq(DownPacket)
    <3>1. Notice("lost") \in DownPacket  BY NoticeType DEF DownKinds
    <3> QED  BY <1>19, <3>1, PutFinalType DEF LoseC
  <2>3. registered' \in BOOLEAN  BY <1>19 DEF LoseC
  <2>4. buffered' \in Nat  BY <1>19 DEF LoseC
  <2>5. over' \in BOOLEAN  BY <1>19 DEF LoseC
  <2>6. UNCHANGED <<ppc, made, waiting, outcome, credit, hasCredit, closedP, buffer, wpc, packet,
                    known, down, up, link, cpc, ending, hand, owed, delivered>>
    BY <1>19 DEF LoseC
  <2> QED  BY <2>1, <2>2, <2>3, <2>4, <2>5, <2>6 DEF TypeOK
<1>20. CASE Get
  <2>1. queue' \in Seq(DownPacket)  BY <1>20 DEF Get, Unregister
  <2>a. Head(queue) \in DownPacket  BY <1>20 DEF Get
  <2>b. Head(queue).kind \in DownKinds /\ Head(queue).items \in Seq(Nat) /\ Head(queue).size \in Nat
    BY <2>a DEF DownPacket
  <2>2. cpc' \in ConsumerStates
    <3>1. cpc' = "yield" \/ (cpc' = Head(queue).kind /\ Head(queue).kind # "batch")
      BY <1>20 DEF Get, Unregister
    <3> QED  BY <2>b, <3>1 DEF DownKinds, ConsumerStates, ConsumerOpen, ConsumerFinal
  <2>3. hand' \in HandType
    <3>1. [items |-> Head(queue).items, count |-> Len(Head(queue).items), size |-> Head(queue).size] \in HandType
      BY <2>b DEF HandType
    <3> QED  BY <1>20, <3>1 DEF Get
  <2>4. buffered' \in Nat
    <3>1. BufferedAfter(Head(queue).size) \in Nat  BY <2>b DEF BufferedAfter
    <3> QED  BY <1>20, <3>1 DEF Get, Unregister
  <2>5. registered' \in BOOLEAN  BY <1>20 DEF Get, Unregister
  <2>6. over' \in BOOLEAN  BY <1>20 DEF Get, Unregister
  <2>7. UNCHANGED <<ppc, made, waiting, outcome, credit, hasCredit, closedP, buffer, wpc, packet,
                    known, down, up, link, ending, owed, delivered, closedC>>
    BY <1>20 DEF Get, Unregister
  <2> QED  BY <2>1, <2>2, <2>3, <2>4, <2>5, <2>6, <2>7 DEF TypeOK
<1>21. CASE YieldItem
  <2>1. delivered' \in Seq(Nat)  BY <1>21 DEF YieldItem, HandType
  <2>2. hand' \in HandType
    <3>1. hand.items \in Seq(Nat) /\ hand.items # <<>>  BY <1>21 DEF YieldItem, HandType
    <3>2. Tail(hand.items) \in Seq(Nat)  BY <3>1
    <3> QED  BY <1>21, <3>2 DEF YieldItem, HandType
  <2>3. UNCHANGED <<ppc, made, waiting, outcome, credit, hasCredit, closedP, buffer, wpc, packet,
                    known, down, up, link, cpc, queue, registered, buffered, over, ending, owed,
                    closedC>>
    BY <1>21 DEF YieldItem
  <2> QED  BY <2>1, <2>2, <2>3 DEF TypeOK
<1>22. CASE BatchDone
  <2>1. owed' \in OwedType  BY <1>22 DEF BatchDone, HandType, OwedType
  <2>2. cpc' \in ConsumerStates  BY <1>22 DEF BatchDone, ConsumerStates, ConsumerOpen
  <2>3. hand' \in HandType  BY <1>22 DEF BatchDone, NoHand, HandType
  <2>4. UNCHANGED <<ppc, made, waiting, outcome, credit, hasCredit, closedP, buffer, wpc, packet,
                    known, down, up, link, queue, registered, buffered, over, ending, delivered,
                    closedC>>
    BY <1>22 DEF BatchDone
  <2> QED  BY <2>1, <2>2, <2>3, <2>4 DEF TypeOK
<1>23. CASE ReturnPermission
  <2>1. up' \in Seq(UpPacket)
    <3>1. UpMessage("credit", owed.bytes, owed.items) \in UpPacket  BY DEF UpMessage, UpPacket, UpKinds, OwedType
    <3> QED  BY <1>23, <3>1 DEF ReturnPermission, Write
  <2>2. owed' \in OwedType  BY <1>23 DEF ReturnPermission, OwedReset, OwedType
  <2>3. cpc' \in ConsumerStates  BY <1>23 DEF ReturnPermission, ConsumerStates, ConsumerOpen
  <2>4. UNCHANGED <<ppc, made, waiting, outcome, credit, hasCredit, closedP, buffer, wpc, packet,
                    known, down, link, queue, registered, buffered, over, ending, hand, delivered,
                    closedC>>
    BY <1>23 DEF ReturnPermission
  <2> QED  BY <2>1, <2>2, <2>3, <2>4 DEF TypeOK
<1>24. CASE ReturnFail
  <2>1. cpc' \in ConsumerStates  BY <1>24 DEF ReturnFail, Unregister, ConsumerStates, ConsumerFinal
  <2>2. registered' \in BOOLEAN  BY <1>24 DEF ReturnFail, Unregister
  <2>3. over' \in BOOLEAN  BY <1>24 DEF ReturnFail, Unregister
  <2>4. buffered' \in Nat  BY <1>24 DEF ReturnFail, Unregister
  <2>5. UNCHANGED <<ppc, made, waiting, outcome, credit, hasCredit, closedP, buffer, wpc, packet,
                    known, down, up, link, queue, ending, hand, owed, delivered, closedC>>
    BY <1>24 DEF ReturnFail, Unregister
  <2> QED  BY <2>1, <2>2, <2>3, <2>4, <2>5 DEF TypeOK
<1>25. CASE Leave
  <2>1. cpc' \in ConsumerStates  BY <1>25 DEF Leave, Unregister, ConsumerStates, ConsumerFinal
  <2>2. registered' \in BOOLEAN  BY <1>25 DEF Leave, Unregister
  <2>3. over' \in BOOLEAN  BY <1>25 DEF Leave, Unregister
  <2>4. buffered' \in Nat  BY <1>25 DEF Leave, Unregister
  <2>5. UNCHANGED <<ppc, made, waiting, outcome, credit, hasCredit, closedP, buffer, wpc, packet,
                    known, down, up, link, queue, ending, hand, owed, delivered, closedC>>
    BY <1>25 DEF Leave, Unregister
  <2> QED  BY <2>1, <2>2, <2>3, <2>4, <2>5 DEF TypeOK
<1>26. CASE SendLeave
  <2>1. cpc' \in ConsumerStates  BY <1>26 DEF SendLeave, ConsumerStates, ConsumerFinal
  <2>2. up' \in Seq(UpPacket)
    <3>1. UpMessage("leave", 0, 0) \in UpPacket  BY DEF UpMessage, UpPacket, UpKinds
    <3> QED  BY <1>26, <3>1 DEF SendLeave, Write
  <2>3. UNCHANGED <<ppc, made, waiting, outcome, credit, hasCredit, closedP, buffer, wpc, packet,
                    known, down, link, queue, registered, buffered, over, ending, hand, owed,
                    delivered, closedC>>
    BY <1>26 DEF SendLeave
  <2> QED  BY <2>1, <2>2, <2>3 DEF TypeOK
<1>27. CASE BreakLink
  <2>1. link' \in BOOLEAN  BY <1>27 DEF BreakLink
  <2>2. down' \in Seq(DownPacket)  BY <1>27 DEF BreakLink
  <2>3. up' \in Seq(UpPacket)  BY <1>27 DEF BreakLink
  <2>4. UNCHANGED <<ppc, made, waiting, outcome, credit, hasCredit, closedP, buffer, wpc, packet,
                    known, cpc, queue, registered, buffered, over, ending, hand, owed, delivered,
                    closedC>>
    BY <1>27 DEF BreakLink
  <2> QED  BY <2>1, <2>2, <2>3, <2>4 DEF TypeOK
<1> QED
  BY <1>1, <1>2, <1>3, <1>4, <1>5, <1>6, <1>7, <1>8, <1>9, <1>10, <1>11, <1>12, <1>13, <1>14, <1>15,
     <1>16, <1>17, <1>18, <1>19, <1>20, <1>21, <1>22, <1>23, <1>24, <1>25, <1>26, <1>27 DEF Next

\* Every variable of a stream keeps its type.
THEOREM StreamTypes == Spec => []TypeOK
<1>1. Init => TypeOK  BY InitType
<1>2. TypeOK /\ [Next]_vars => TypeOK'  BY NextType
<1> QED  BY <1>1, <1>2, PTL DEF Spec

-----------------------------------------------------------------------------
(***************************************************************************)
(* The order of the items.                                                 *)
(*                                                                         *)
(* From the hands of the consumer back to the buffer of the sender, every  *)
(* place that holds items holds the numbers that follow those of the place *)
(* before it: batch by batch in the queue, on the wire, in the hands of    *)
(* the writer and in the buffer.  Items that are dropped leave a gap only  *)
(* behind the point where nothing is delivered any more.                   *)
(***************************************************************************)

HIDE DEF Credit

\* items are the numbers after a, up to b.
Run(items, a, b) ==
    Len(items) = b - a /\ \A i \in 1..Len(items) : items[i] = a + i

\* pos[k] is the last number in the first k packets of w.
Positions(w, pos, a, b, m) ==
    /\ pos \in [0..Len(w) -> 0..m] /\ pos[0] = a /\ pos[Len(w)] = b
    /\ \A k \in 1..Len(w) : Run(w[k].items, pos[k-1], pos[k])

\* The packets of w carry the numbers after a, up to b, none of them above m.
Runs(w, a, b, m) == \E pos \in [0..Len(w) -> 0..m] : Positions(w, pos, a, b, m)

\* Only a batch carries items.
Plain(w) == \A k \in 1..Len(w) : w[k].kind = "batch" \/ w[k].items = <<>>

\* What the sender gave up or the wire lost never reaches the queue.
Accepting == registered /\ ~over

\* The items behind those delivered, place by place.
Flow ==
    \E b, c, d \in 0..made :
        /\ Runs(queue, Len(delivered) + Len(hand.items), b, made)
        /\ Accepting => Runs(down, b, c, made)
        /\ Accepting /\ link => Run(packet.items, c, d) /\ Run(buffer.frames, d, made)

\* Where items can be, and that a sender closes only on a connection that is gone.
Places ==
    /\ cpc \in {"get", "return"} => hand.items = <<>>
    /\ cpc = "yield" => Run(hand.items, Len(delivered), Len(delivered) + Len(hand.items))
    /\ wpc # "write" => packet.items = <<>>
    /\ packet.kind = "batch" \/ packet.items = <<>>
    /\ Plain(down) /\ Plain(queue)
    /\ closedP => ~link

\* One request is on the wire or was taken from it, and no writer is there
\* before the task of the request.
Fresh ==
    /\ \A k \in 1..Len(up) : up[k].kind = "request" => k = 1 /\ (closedP \/ ppc = "absent")
    /\ ppc \in {"absent", "scheduled"} => wpc = "absent"

OrderInv == InOrder /\ Places /\ (cpc \in ConsumerOpen => Flow)

-----------------------------------------------------------------------------
(* Runs                                                                     *)

\* No items: the run ends where it starts.
LEMMA RunEmpty ==
    ASSUME NEW a \in Nat, NEW b \in Nat PROVE Run(<<>>, a, b) <=> a = b
  BY DEF Run

\* push adds the next number.
LEMMA RunAppend ==
    ASSUME NEW s \in Seq(Nat), NEW a \in Nat, NEW b \in Nat, Run(s, a, b)
    PROVE  Run(Append(s, b + 1), a, b + 1)
<1>1. Len(s) \in Nat /\ Len(Append(s, b + 1)) = Len(s) + 1 /\ Len(s) = b - a  BY DEF Run
<1>2. \A i \in 1..Len(s) : Append(s, b + 1)[i] = s[i] /\ s[i] = a + i  BY DEF Run
<1>3. Append(s, b + 1)[Len(s) + 1] = b + 1  OBVIOUS
<1>4. ASSUME NEW i \in 1..(Len(s) + 1) PROVE Append(s, b + 1)[i] = a + i
  <2>1. CASE i \in 1..Len(s)  BY <1>2, <2>1
  <2>2. CASE i = Len(s) + 1  BY <1>1, <1>3, <2>2
  <2> QED  BY <1>1, <2>1, <2>2
<1> QED  BY <1>1, <1>4 DEF Run

\* Handing over the first item leaves the rest of the run.
LEMMA RunTail ==
    ASSUME NEW s \in Seq(Nat), s # <<>>, NEW a \in Nat, NEW b \in Nat, Run(s, a, b)
    PROVE  Head(s) = a + 1 /\ Run(Tail(s), a + 1, b) /\ a + 1 <= b
<1>1. Len(s) \in Nat \ {0} /\ Len(Tail(s)) = Len(s) - 1 /\ Len(s) = b - a  BY DEF Run
<1>2. Head(s) = s[1] /\ \A i \in 1..Len(Tail(s)) : Tail(s)[i] = s[i + 1]  OBVIOUS
<1>3. \A i \in 1..Len(s) : s[i] = a + i  BY DEF Run
<1>4. \A i \in 1..Len(Tail(s)) : Tail(s)[i] = (a + 1) + i
  <2> SUFFICES ASSUME NEW i \in 1..Len(Tail(s)) PROVE Tail(s)[i] = (a + 1) + i  OBVIOUS
  <2>1. i + 1 \in 1..Len(s)  BY <1>1
  <2> QED  BY <1>2, <1>3, <2>1
<1> QED  BY <1>1, <1>2, <1>3, <1>4 DEF Run

-----------------------------------------------------------------------------
(* Packets that carry runs                                                  *)

\* The ends of a sequence of packets are numbers up to its bound.
LEMMA RunsEnds ==
    ASSUME NEW w \in Seq(DownPacket), NEW a, NEW b, NEW m \in Nat, Runs(w, a, b, m)
    PROVE  a \in 0..m /\ b \in 0..m /\ (w = <<>> => a = b)
<1>1. PICK pos \in [0..Len(w) -> 0..m] : Positions(w, pos, a, b, m)  BY DEF Runs
<1>2. 0 \in 0..Len(w) /\ Len(w) \in 0..Len(w)  OBVIOUS
<1> QED  BY <1>1, <1>2 DEF Positions

\* An empty wire carries nothing.
LEMMA RunsEmpty == ASSUME NEW m \in Nat, NEW a \in 0..m PROVE Runs(<<>>, a, a, m)
<1> DEFINE pos == [k \in 0..0 |-> a]
<1>1. pos \in [0..Len(<<>>) -> 0..m]  OBVIOUS
<1>2. Positions(<<>>, pos, a, a, m)  BY DEF Positions
<1> QED  BY <1>1, <1>2 DEF Runs

\* A packet that arrives behind the others extends them.
LEMMA RunsAppend ==
    ASSUME NEW w \in Seq(DownPacket), NEW e \in DownPacket, NEW a, NEW b, NEW m \in Nat,
           NEW c \in 0..m, Runs(w, a, b, m), Run(e.items, b, c)
    PROVE  Runs(Append(w, e), a, c, m)
<1>1. PICK pos \in [0..Len(w) -> 0..m] : Positions(w, pos, a, b, m)  BY DEF Runs
<1> DEFINE L == Len(w)
           v == Append(w, e)
           new == [k \in 0..(L+1) |-> IF k <= L THEN pos[k] ELSE c]
<1>2. L \in Nat /\ Len(v) = L + 1 /\ v[L+1] = e /\ \A k \in 1..L : v[k] = w[k]  OBVIOUS
<1>3. new \in [0..(L+1) -> 0..m]
  <2>1. \A k \in 0..(L+1) : k <= L => k \in 0..L  BY <1>2
  <2> QED  BY <2>1
<1>4. pos[0] = a /\ pos[L] = b /\ \A k \in 1..L : Run(w[k].items, pos[k-1], pos[k])
  BY <1>1 DEF Positions
<1>5. new[0] = a /\ new[L+1] = c /\ new[L] = b  BY <1>2, <1>4
<1>6. ASSUME NEW k \in 1..(L+1) PROVE Run(v[k].items, new[k-1], new[k])
  <2>1. CASE k \in 1..L
    <3>1. new[k] = pos[k] /\ new[k-1] = pos[k-1]  BY <1>2, <2>1
    <3> QED  BY <1>2, <1>4, <2>1, <3>1
  <2>2. CASE k = L + 1
    <3>1. new[k-1] = b /\ new[k] = c  BY <1>2, <1>5, <2>2
    <3> QED  BY <1>2, <2>2, <3>1
  <2> QED  BY <1>2, <2>1, <2>2
<1> HIDE DEF new, v
<1>7. Positions(v, new, a, c, m)  BY <1>2, <1>3, <1>5, <1>6 DEF Positions
<1>8. Runs(v, a, c, m)  BY <1>2, <1>3, <1>7 DEF Runs
<1> QED  BY <1>8 DEF v

\* Without its first packet a sequence starts where that packet ended.
LEMMA RunsTail ==
    ASSUME NEW w \in Seq(DownPacket), w # <<>>, NEW a, NEW b, NEW m \in Nat, Runs(w, a, b, m)
    PROVE  \E c \in 0..m : Run(Head(w).items, a, c) /\ Runs(Tail(w), c, b, m)
<1>1. PICK pos \in [0..Len(w) -> 0..m] : Positions(w, pos, a, b, m)  BY DEF Runs
<1> DEFINE L == Len(w)
           v == Tail(w)
           new == [k \in 0..(L-1) |-> pos[k+1]]
<1>2. L \in Nat \ {0} /\ Len(v) = L - 1 /\ Head(w) = w[1]  OBVIOUS
<1>3. \A k \in 1..(L-1) : v[k] = w[k+1]  BY <1>2
<1>4. pos[0] = a /\ pos[L] = b /\ \A k \in 1..L : Run(w[k].items, pos[k-1], pos[k])
  BY <1>1 DEF Positions
<1>5. new \in [0..(L-1) -> 0..m]
  <2>1. \A k \in 0..(L-1) : k + 1 \in 0..L  BY <1>2
  <2> QED  BY <2>1
<1>6. new[0] = pos[1] /\ new[L-1] = b  BY <1>2, <1>4
<1>7. ASSUME NEW k \in 1..(L-1) PROVE Run(v[k].items, new[k-1], new[k])
  <2>1. k + 1 \in 1..L /\ k - 1 \in 0..(L-1) /\ k \in 0..(L-1)  BY <1>2
  <2>2. new[k-1] = pos[k] /\ new[k] = pos[k+1]  BY <2>1
  <2>3. Run(w[k+1].items, pos[(k+1)-1], pos[k+1])  BY <1>4, <2>1
  <2>4. (k+1)-1 = k  BY <2>1
  <2> QED  BY <1>3, <2>2, <2>3, <2>4
<1>8. pos[1] \in 0..m /\ Run(Head(w).items, a, pos[1])
  <2>1. 1 \in 1..L /\ 1 \in 0..L  BY <1>2
  <2>2. Run(w[1].items, pos[1-1], pos[1])  BY <1>4, <2>1
  <2> QED  BY <1>2, <1>4, <2>1, <2>2
<1> HIDE DEF new, v
<1>9. Positions(v, new, pos[1], b, m)  BY <1>2, <1>5, <1>6, <1>7 DEF Positions
<1>10. Runs(v, pos[1], b, m)  BY <1>2, <1>5, <1>9 DEF Runs
<1> QED  BY <1>8, <1>10 DEF v

\* What a connection that drops still delivers is a shorter sequence.
LEMMA RunsPrefix ==
    ASSUME NEW w \in Seq(DownPacket), NEW a, NEW b, NEW m \in Nat, Runs(w, a, b, m),
           NEW n \in 0..Len(w)
    PROVE  \E c \in 0..m : Runs(SubSeq(w, 1, n), a, c, m)
<1>1. PICK pos \in [0..Len(w) -> 0..m] : Positions(w, pos, a, b, m)  BY DEF Runs
<1> DEFINE v == SubSeq(w, 1, n)
           new == [k \in 0..n |-> pos[k]]
<1>2. Len(v) = n /\ n \in Nat /\ \A k \in 1..n : v[k] = w[k]  OBVIOUS
<1>3. \A k \in 0..n : k \in 0..Len(w)  OBVIOUS
<1>4. new \in [0..n -> 0..m]  BY <1>3
<1>5. \A k \in 1..n : k \in 1..Len(w) /\ k - 1 \in 0..n /\ k \in 0..n  OBVIOUS
<1>6. pos[0] = a /\ \A k \in 1..Len(w) : Run(w[k].items, pos[k-1], pos[k])
  BY <1>1 DEF Positions
<1>7. \A k \in 1..n : Run(v[k].items, new[k-1], new[k])  BY <1>2, <1>5, <1>6
<1>8. new[0] = a /\ new[n] \in 0..m  BY <1>2, <1>4, <1>6
<1> HIDE DEF new, v
<1>9. Positions(v, new, a, new[n], m)  BY <1>2, <1>4, <1>7, <1>8 DEF Positions
<1>10. Runs(v, a, new[n], m)  BY <1>2, <1>4, <1>9 DEF Runs
<1> QED  BY <1>8, <1>10 DEF v

\* The bound may grow.
LEMMA RunsMore ==
    ASSUME NEW w \in Seq(DownPacket), NEW a, NEW b, NEW m \in Nat, NEW n \in Nat, m <= n,
           Runs(w, a, b, m)
    PROVE  Runs(w, a, b, n)
<1>1. PICK pos \in [0..Len(w) -> 0..m] : Positions(w, pos, a, b, m)  BY DEF Runs
<1>2. pos \in [0..Len(w) -> 0..n]  OBVIOUS
<1>3. Positions(w, pos, a, b, n)  BY <1>1, <1>2 DEF Positions
<1> QED  BY <1>2, <1>3 DEF Runs

\* Sequences of packets stay plain when a plain packet is added, and when the
\* first or the last packets go.
LEMMA PlainSteps ==
    ASSUME NEW w \in Seq(DownPacket), Plain(w)
    PROVE  /\ \A e \in DownPacket : (e.kind = "batch" \/ e.items = <<>>) => Plain(Append(w, e))
           /\ w # <<>> => Plain(Tail(w)) /\ (Head(w).kind = "batch" \/ Head(w).items = <<>>)
           /\ \A n \in 0..Len(w) : Plain(SubSeq(w, 1, n))
<1>1. ASSUME NEW e \in DownPacket, e.kind = "batch" \/ e.items = <<>>  PROVE Plain(Append(w, e))
  <2>1. Len(Append(w, e)) = Len(w) + 1 /\ Len(w) \in Nat /\ Append(w, e)[Len(w) + 1] = e  OBVIOUS
  <2>2. \A k \in 1..Len(w) : Append(w, e)[k] = w[k]  OBVIOUS
  <2>3. \A k \in 1..(Len(w) + 1) : k \in 1..Len(w) \/ k = Len(w) + 1  BY <2>1
  <2> QED  BY <1>1, <2>1, <2>2, <2>3 DEF Plain
<1>2. ASSUME w # <<>>  PROVE Plain(Tail(w)) /\ (Head(w).kind = "batch" \/ Head(w).items = <<>>)
  <2>1. Len(w) \in Nat \ {0} /\ Head(w) = w[1] /\ Len(Tail(w)) = Len(w) - 1  BY <1>2
  <2>2. \A k \in 1..(Len(w) - 1) : Tail(w)[k] = w[k + 1] /\ k + 1 \in 1..Len(w)  BY <1>2
  <2>3. 1 \in 1..Len(w)  BY <2>1
  <2> QED  BY <2>1, <2>2, <2>3 DEF Plain
<1>3. ASSUME NEW n \in 0..Len(w)  PROVE Plain(SubSeq(w, 1, n))
  <2>1. Len(SubSeq(w, 1, n)) = n /\ \A k \in 1..n : SubSeq(w, 1, n)[k] = w[k] /\ k \in 1..Len(w)
    OBVIOUS
  <2> QED  BY <2>1 DEF Plain
<1> QED  BY <1>1, <1>2, <1>3

\* A packet without items, added or not, leaves the numbers as they are.
LEMMA RunsNotice ==
    ASSUME NEW w \in Seq(DownPacket), NEW e \in DownPacket, e.items = <<>>, NEW m \in Nat,
           NEW a, NEW b, Runs(w, a, b, m)
    PROVE  Runs(Append(w, e), a, b, m)
<1>1. b \in 0..m /\ b \in Nat  BY RunsEnds
<1>2. Run(e.items, b, b)  BY <1>1, RunEmpty
<1> QED  BY <1>1, <1>2, RunsAppend

-----------------------------------------------------------------------------
(* The invariant                                                            *)

\* The facts about types that the order needs.
LEMMA OrderTypes ==
    ASSUME TypeOK
    PROVE  /\ made \in Nat /\ queue \in Seq(DownPacket) /\ down \in Seq(DownPacket)
           /\ packet \in DownPacket /\ packet.items \in Seq(Nat) /\ buffer.frames \in Seq(Nat)
           /\ hand.items \in Seq(Nat) /\ delivered \in Seq(Nat)
           /\ Len(delivered) \in Nat /\ Len(hand.items) \in Nat
  BY DEF TypeOK, DownPacket, BufferType, HandType

\* A stream starts with empty places.
LEMMA OrderInit == Init => OrderInv
<1> SUFFICES ASSUME Init PROVE OrderInv  OBVIOUS
<1>1. /\ made = 0 /\ delivered = <<>> /\ hand.items = <<>> /\ queue = <<>> /\ down = <<>>
      /\ packet.items = <<>> /\ buffer.frames = <<>> /\ cpc = "get" /\ closedP = FALSE
  <2>1. made = 0 /\ delivered = <<>> /\ queue = <<>> /\ down = <<>> /\ cpc = "get" /\ closedP = FALSE
    BY DEF Init
  <2>2. hand.items = <<>>  BY DEF Init, NoHand
  <2>3. packet.items = <<>>  BY DEF Init, NoPacket, Notice
  <2>4. buffer.frames = <<>>  BY DEF Init
  <2> QED  BY <2>1, <2>2, <2>3, <2>4
<1>2. InOrder  BY <1>1 DEF InOrder
<1>3. Places  BY <1>1 DEF Places, Plain
<1>4. Flow
  <2>1. Runs(<<>>, 0, 0, 0)  BY RunsEmpty
  <2>2. Run(<<>>, 0, 0)  BY RunEmpty
  <2>3. Len(delivered) + Len(hand.items) = 0 /\ 0 \in 0..made  BY <1>1
  <2> QED  BY <1>1, <2>1, <2>2, <2>3 DEF Flow
<1> QED  BY <1>2, <1>3, <1>4 DEF OrderInv

\* A step that moves no item, or drops what nobody accepts any more, keeps the
\* flow.
LEMMA FlowKept ==
    ASSUME Flow, made' = made, delivered' = delivered, hand'.items = hand.items,
           queue' = queue, down' = down, Accepting' => Accepting,
           link' => link /\ packet'.items = packet.items /\ buffer'.frames = buffer.frames
    PROVE  Flow'
  BY DEF Flow

\* The variables that Places and InOrder speak about.
LEMMA PlacesKept ==
    ASSUME InOrder, Places, UNCHANGED <<made, delivered, hand, queue, down, packet, cpc>>,
           wpc' # "write" => packet.items = <<>>, closedP' => ~link'
    PROVE  InOrder' /\ Places'
  BY DEF InOrder, Places

\* A step that moves no item keeps the order.
LEMMA OrderKept ==
    ASSUME OrderInv, UNCHANGED <<made, delivered, hand, queue, down, packet, cpc, link>>,
           Accepting' => Accepting, buffer'.frames = buffer.frames,
           wpc' # "write" => packet.items = <<>>, closedP' => ~link'
    PROVE  OrderInv'
<1>1. InOrder' /\ Places'  BY PlacesKept DEF OrderInv
<1>2. ASSUME cpc \in ConsumerOpen PROVE Flow'
  <2>1. Flow  BY <1>2 DEF OrderInv
  <2> QED  BY <2>1, FlowKept
<1> QED  BY <1>1, <1>2 DEF OrderInv

-----------------------------------------------------------------------------
(* The steps that move items                                                *)

\* push: the next number joins the buffer.
LEMMA PushOrder ==
    ASSUME TypeOK, OrderInv, NEW length, NEW coded,
           made' = made + 1, buffer' = Pushed(length, coded),
           UNCHANGED <<delivered, hand, queue, down, packet, cpc, wpc, link, closedP, registered, over>>
    PROVE  OrderInv'
<1> USE OrderTypes
<1>1. Places'  BY DEF OrderInv, Places
<1>2. InOrder'  BY DEF OrderInv, InOrder
<1>3. ASSUME cpc \in ConsumerOpen PROVE Flow'
  <2>1. PICK b, c, d \in 0..made :
            /\ Runs(queue, Len(delivered) + Len(hand.items), b, made)
            /\ Accepting => Runs(down, b, c, made)
            /\ Accepting /\ link => Run(packet.items, c, d) /\ Run(buffer.frames, d, made)
    BY <1>3 DEF OrderInv, Flow
  <2>2. b \in 0..(made + 1) /\ c \in 0..(made + 1) /\ d \in 0..(made + 1) /\ d \in Nat /\ made <= made + 1 /\ made + 1 \in Nat
    OBVIOUS
  <2>3. Runs(queue, Len(delivered) + Len(hand.items), b, made + 1)  BY <2>1, <2>2, RunsMore
  <2>4. Accepting => Runs(down, b, c, made + 1)  BY <2>1, <2>2, RunsMore
  <2>5. buffer'.frames = Append(buffer.frames, made + 1)  BY DEF Pushed
  <2>6. Accepting /\ link => Run(Append(buffer.frames, made + 1), d, made + 1)
    BY <2>1, <2>2, RunAppend
  <2>7. Accepting' = Accepting  BY DEF Accepting
  <2> QED  BY <2>1, <2>2, <2>3, <2>4, <2>5, <2>6, <2>7 DEF Flow
<1> QED  BY <1>1, <1>2, <1>3 DEF OrderInv

\* spend and what follows it: only the push moves an item.
LEMMA SettleOrder ==
    ASSUME TypeOK, OrderInv, NEW length, NEW coded, Settle(length, coded),
           UNCHANGED <<closedP, wpc, packet, known, down, up, link, consumerVars>>
    PROVE  OrderInv'
<1>1. CASE LeaveLoop("stop") /\ UNCHANGED <<made, credit>>
  <2>1. buffer'.frames = buffer.frames  BY <1>1 DEF LeaveLoop, Finished
  <2> QED  BY <1>1, <2>1, OrderKept DEF OrderInv, Places, Accepting
<1>2. CASE made' = made + 1 /\ buffer' = Pushed(length, coded)
  BY <1>2, PushOrder
<1>3. CASE UNCHANGED <<made, outcome, hasCredit, buffer>>
  BY <1>3, OrderKept DEF OrderInv, Places, Accepting
<1> QED  BY <1>1, <1>2, <1>3 DEF Settle

\* run takes what gathered: the buffer becomes the packet in its hands.
LEMMA TakeOrder == ASSUME TypeOK, OrderInv, WriterTake PROVE OrderInv'
<1> USE OrderTypes
<1>1. /\ wpc = "wait" /\ packet.items = <<>> /\ buffer'.frames = <<>>
      /\ UNCHANGED <<made, delivered, hand, queue, down, cpc, link, closedP, registered, over>>
  <2>1. wpc = "wait"  BY DEF WriterTake
  <2>2. packet.items = <<>>  BY <2>1 DEF OrderInv, Places
  <2>3. buffer'.frames = <<>>  BY DEF WriterTake
  <2>4. UNCHANGED <<made, delivered, hand, queue, down, cpc, link, closedP, registered, over>>
    BY DEF WriterTake
  <2> QED  BY <2>1, <2>2, <2>3, <2>4
<1>2. CASE buffer.frames = <<>>
  <2>1. UNCHANGED packet  BY <1>2 DEF WriterTake
  <2> QED  BY <1>1, <1>2, <2>1, OrderKept DEF OrderInv, Places, Accepting
<1>3. CASE buffer.frames # <<>>
  <2>1. wpc' = "write" /\ packet'.items = buffer.frames /\ packet'.kind = "batch"
    BY <1>3 DEF WriterTake, Batch
  <2>2. InOrder' /\ Places'  BY <1>1, <2>1 DEF OrderInv, InOrder, Places
  <2>3. ASSUME cpc \in ConsumerOpen PROVE Flow'
    <3>1. PICK b, c, d \in 0..made :
              /\ Runs(queue, Len(delivered) + Len(hand.items), b, made)
              /\ Accepting => Runs(down, b, c, made)
              /\ Accepting /\ link => Run(packet.items, c, d) /\ Run(buffer.frames, d, made)
      BY <2>3 DEF OrderInv, Flow
    <3>2. Accepting /\ link => c = d  BY <1>1, <3>1, RunEmpty
    <3>3. made \in 0..made /\ Run(<<>>, made, made)  BY RunEmpty
    <3>4. Accepting' = Accepting  BY <1>1 DEF Accepting
    <3>5. Accepting /\ link => Run(packet'.items, c, made)  BY <2>1, <3>1, <3>2
    <3> QED  BY <1>1, <3>1, <3>3, <3>4, <3>5 DEF Flow
  <2> QED  BY <1>1, <2>2, <2>3 DEF OrderInv
<1> QED  BY <1>2, <1>3

\* write: the packet joins the wire.
LEMMA PutOrder == ASSUME TypeOK, OrderInv, WriterPut PROVE OrderInv'
<1> USE OrderTypes
<1>1. UNCHANGED <<made, delivered, hand, queue, buffer, cpc, link, closedP, registered, over>>
  BY DEF WriterPut
<1>2. packet'.items = <<>> /\ down' = Write(down, packet)  BY DEF WriterPut, NoPacket, Notice
<1>3. InOrder' /\ Places'
  <2>1. packet.kind = "batch" \/ packet.items = <<>>  BY DEF OrderInv, Places
  <2>2. Plain(down')
    <3>1. Plain(down)  BY DEF OrderInv, Places
    <3>2. Plain(Append(down, packet))  BY <2>1, <3>1, PlainSteps
    <3> QED  BY <1>2, <3>1, <3>2 DEF Write
  <2> QED  BY <1>1, <1>2, <2>2 DEF OrderInv, InOrder, Places
<1>4. ASSUME cpc \in ConsumerOpen PROVE Flow'
  <2>1. PICK b, c, d \in 0..made :
            /\ Runs(queue, Len(delivered) + Len(hand.items), b, made)
            /\ Accepting => Runs(down, b, c, made)
            /\ Accepting /\ link => Run(packet.items, c, d) /\ Run(buffer.frames, d, made)
    BY <1>4 DEF OrderInv, Flow
  <2>2. Accepting' = Accepting  BY <1>1 DEF Accepting
  <2>3. CASE link
    <3>1. down' = Append(down, packet)  BY <1>2, <2>3 DEF Write
    <3>2. Accepting => Runs(down', b, d, made)  BY <2>1, <2>3, <3>1, RunsAppend
    <3>3. Run(packet'.items, d, d)  BY <1>2, RunEmpty
    <3> QED  BY <1>1, <2>1, <2>2, <3>2, <3>3 DEF Flow
  <2>4. CASE ~link
    <3>1. down' = down  BY <1>2, <2>4 DEF Write
    <3> QED  BY <1>1, <2>1, <2>2, <2>4, <3>1 DEF Flow
  <2> QED  BY <2>3, <2>4
<1> QED  BY <1>1, <1>3, <1>4 DEF OrderInv

\* The final response joins the wire and carries no item.
LEMMA RespondOrder == ASSUME TypeOK, OrderInv, Respond PROVE OrderInv'
<1> USE OrderTypes
<1>1. UNCHANGED <<made, delivered, hand, queue, packet, buffer, cpc, wpc, link, closedP, registered, over>>
  BY DEF Respond
<1> DEFINE e == Notice(ResponseKind)
<1>2. e \in DownPacket /\ e.items = <<>>
  <2>1. ResponseKind \in DownKinds  BY DEF ResponseKind, DownKinds
  <2>2. e.items = <<>>  BY DEF Notice
  <2> QED  BY <2>1, <2>2, NoticeType
<1>3. down' = down \/ down' = Append(down, e)  BY DEF Respond, Write
<1> HIDE DEF e
<1>4. Plain(down')
  <2>1. Plain(down)  BY DEF OrderInv, Places
  <2>2. Plain(Append(down, e))  BY <1>2, <2>1, PlainSteps
  <2> QED  BY <1>3, <2>1, <2>2
<1>5. InOrder' /\ Places'  BY <1>1, <1>4 DEF OrderInv, InOrder, Places
<1>6. ASSUME cpc \in ConsumerOpen PROVE Flow'
  <2>1. PICK b, c, d \in 0..made :
            /\ Runs(queue, Len(delivered) + Len(hand.items), b, made)
            /\ Accepting => Runs(down, b, c, made)
            /\ Accepting /\ link => Run(packet.items, c, d) /\ Run(buffer.frames, d, made)
    BY <1>6 DEF OrderInv, Flow
  <2>2. Accepting' = Accepting  BY <1>1 DEF Accepting
  <2>3. Accepting => Runs(down', b, c, made)  BY <1>2, <1>3, <2>1, RunsNotice
  <2> QED  BY <1>1, <2>1, <2>2, <2>3 DEF Flow
<1> QED  BY <1>1, <1>5, <1>6 DEF OrderInv

\* An entry without items, put into the queue or not, leaves the numbers in it
\* as they are.
LEMMA PutFinalOrder ==
    ASSUME TypeOK, NEW entry \in DownPacket, entry.items = <<>>, Plain(queue), PutFinal(entry)
    PROVE  /\ Plain(queue')
           /\ \A a, b : Runs(queue, a, b, made) => Runs(queue', a, b, made)
<1> USE OrderTypes
<1>1. queue' = queue \/ queue' = Append(queue, entry)  BY DEF PutFinal
<1>2. Plain(Append(queue, entry))  BY PlainSteps
<1>3. \A a, b : Runs(queue, a, b, made) => Runs(Append(queue, entry), a, b, made)  BY RunsNotice
<1> QED  BY <1>1, <1>2, <1>3

\* A step that adds an entry without items to the queue keeps the order.
LEMMA NoticeOrder ==
    ASSUME TypeOK, OrderInv, NEW entry \in DownPacket, entry.items = <<>>, PutFinal(entry),
           UNCHANGED <<made, delivered, hand, down, packet, buffer, cpc, wpc, link, closedP>>,
           Accepting' => Accepting
    PROVE  OrderInv'
<1>1. /\ Plain(queue') /\ \A a, b : Runs(queue, a, b, made) => Runs(queue', a, b, made)
  BY PutFinalOrder DEF OrderInv, Places
<1>2. InOrder' /\ Places'  BY <1>1 DEF OrderInv, InOrder, Places
<1>3. ASSUME cpc \in ConsumerOpen PROVE Flow'
  <2>1. PICK b, c, d \in 0..made :
            /\ Runs(queue, Len(delivered) + Len(hand.items), b, made)
            /\ Accepting => Runs(down, b, c, made)
            /\ Accepting /\ link => Run(packet.items, c, d) /\ Run(buffer.frames, d, made)
    BY <1>3 DEF OrderInv, Flow
  <2>2. Runs(queue', Len(delivered) + Len(hand.items), b, made)  BY <1>1, <2>1
  <2> QED  BY <2>1, <2>2 DEF Flow
<1> QED  BY <1>2, <1>3 DEF OrderInv

\* The receive loop takes a packet from the wire: a batch joins the queue while
\* the call accepts items, and from the first one it refuses on none does.
LEMMA ReceiveOrder == ASSUME TypeOK, OrderInv, ReceiveDown PROVE OrderInv'
<1> USE OrderTypes
<1> DEFINE e == Head(down)
<1>1. /\ down # <<>> /\ down' = Tail(down) /\ e \in DownPacket /\ Tail(down) \in Seq(DownPacket)
      /\ UNCHANGED <<made, delivered, hand, packet, buffer, cpc, wpc, link, closedP, registered>>
  <2>1. down # <<>> /\ down' = Tail(down)  BY DEF ReceiveDown
  <2>2. UNCHANGED <<made, delivered, hand, packet, buffer, cpc, wpc, link, closedP, registered>>
    BY DEF ReceiveDown
  <2>3. e \in DownPacket /\ Tail(down) \in Seq(DownPacket)  BY <2>1
  <2> QED  BY <2>1, <2>2, <2>3
<1>2. Plain(Tail(down)) /\ (e.kind = "batch" \/ e.items = <<>>)
  BY <1>1, PlainSteps DEF OrderInv, Places
<1>3. Plain(queue)  BY DEF OrderInv, Places
<1>4. \/ e.kind = "batch" /\ HandleStreamItem(e)
      \/ e.kind # "batch" /\ queue' = queue /\ over' = over
      \/ e.kind # "batch" /\ PutFinal(e) /\ over' = over
  BY DEF ReceiveDown
<1> HIDE DEF e
\* What happens to the queue, in three cases.
<1>5. \/ queue' = queue /\ (~Accepting \/ e.items = <<>>) /\ over' = over
      \/ queue' = Append(queue, e) /\ over' = over
      \/ queue' = Append(queue, Notice("refused")) /\ over' = TRUE
  <2>1. CASE e.kind = "batch" /\ HandleStreamItem(e)
    BY <2>1 DEF HandleStreamItem, Accepting
  <2>2. CASE e.kind # "batch" /\ queue' = queue /\ over' = over  BY <1>2, <2>2
  <2>3. CASE e.kind # "batch" /\ PutFinal(e) /\ over' = over  BY <1>2, <2>3 DEF PutFinal
  <2> QED  BY <1>4, <2>1, <2>2, <2>3
<1>6. Notice("refused") \in DownPacket /\ Notice("refused").items = <<>>
  <2>1. Notice("refused").items = <<>>  BY DEF Notice
  <2> QED  BY <2>1, NoticeType DEF DownKinds
<1>7. Plain(queue')
  <2>1. Plain(Append(queue, e))  BY <1>1, <1>2, <1>3, PlainSteps
  <2>2. Plain(Append(queue, Notice("refused")))  BY <1>3, <1>6, PlainSteps
  <2> QED  BY <1>3, <1>5, <2>1, <2>2
<1>8. InOrder' /\ Places'  BY <1>1, <1>2, <1>7 DEF OrderInv, InOrder, Places
<1>9. ASSUME cpc \in ConsumerOpen PROVE Flow'
  <2> DEFINE a == Len(delivered) + Len(hand.items)
  <2>1. PICK b, c, d \in 0..made :
            /\ Runs(queue, a, b, made)
            /\ Accepting => Runs(down, b, c, made)
            /\ Accepting /\ link => Run(packet.items, c, d) /\ Run(buffer.frames, d, made)
    BY <1>9 DEF OrderInv, Flow
  <2>2. a' = a  BY <1>1
  <2> HIDE DEF a
  <2>3. CASE ~Accepting
    <3>1. over' = over \/ over' = TRUE  BY <1>5
    <3>2. ~Accepting'  BY <1>1, <2>3, <3>1 DEF Accepting
    <3>3. \E b2 \in 0..made : Runs(queue', a, b2, made)
      <4>1. CASE queue' = queue  BY <2>1, <4>1
      <4>2. CASE queue' = Append(queue, e) /\ over' = over
        \* A final entry, which carries nothing; a batch is not accepted.
        <5>1. e.items = <<>>  BY <1>2, <1>4, <2>3, <4>2 DEF HandleStreamItem, Accepting
        <5> QED  BY <1>1, <2>1, <4>2, <5>1, RunsNotice
      <4>3. CASE queue' = Append(queue, Notice("refused"))
        BY <1>6, <2>1, <4>3, RunsNotice
      <4> QED  BY <1>5, <4>1, <4>2, <4>3
    <3> QED  BY <1>1, <2>1, <2>2, <3>2, <3>3 DEF Flow, a
  <2>4. CASE Accepting
    <3>1. PICK b2 \in 0..made : Run(e.items, b, b2) /\ Runs(Tail(down), b2, c, made)
      BY <1>1, <2>1, <2>4, RunsTail DEF e
    <3>2. CASE queue' = queue /\ e.items = <<>> /\ over' = over
      <4>1. b = b2
        <5>1. b \in Nat /\ b2 \in Nat  OBVIOUS
        <5>2. Run(<<>>, b, b2)  BY <3>1, <3>2
        <5> QED  BY ONLY <5>1, <5>2, RunEmpty
      <4>2. Accepting'  BY <1>1, <2>4, <3>2 DEF Accepting
      <4> QED  BY <1>1, <2>1, <2>2, <2>4, <3>1, <3>2, <4>1, <4>2 DEF Flow, a
    <3>3. CASE queue' = Append(queue, e) /\ over' = over
      <4>1. Runs(queue', a, b2, made)  BY <1>1, <2>1, <3>1, <3>3, RunsAppend
      <4>2. Accepting'  BY <1>1, <2>4, <3>3 DEF Accepting
      <4> QED  BY <1>1, <2>1, <2>2, <2>4, <3>1, <4>1, <4>2 DEF Flow, a
    <3>4. CASE queue' = Append(queue, Notice("refused")) /\ over' = TRUE
      <4>1. Runs(queue', a, b, made)  BY <1>6, <2>1, <3>4, RunsNotice
      <4>2. ~Accepting'  BY <3>4 DEF Accepting
      <4> QED  BY <1>1, <2>1, <2>2, <4>1, <4>2 DEF Flow, a
    <3> QED  BY <1>5, <2>4, <3>2, <3>3, <3>4
  <2> QED  BY <2>3, <2>4
<1> QED  BY <1>1, <1>8, <1>9 DEF OrderInv

\* The consumer takes a batch: its items follow those delivered.
LEMMA GetOrder == ASSUME TypeOK, OrderInv, Get PROVE OrderInv'
<1> USE OrderTypes
<1> DEFINE e == Head(queue)
<1>1. /\ cpc = "get" /\ queue # <<>> /\ queue' = Tail(queue) /\ e \in DownPacket /\ e.items \in Seq(Nat)
      /\ UNCHANGED <<made, delivered, down, packet, buffer, wpc, link, closedP>>
  <2>1. cpc = "get" /\ queue # <<>> /\ queue' = Tail(queue)  BY DEF Get
  <2>2. UNCHANGED <<made, delivered, down, packet, buffer, wpc, link, closedP>>  BY DEF Get
  <2>3. e \in DownPacket  BY <2>1
  <2>4. e.items \in Seq(Nat)  BY <2>3 DEF DownPacket
  <2> QED  BY <2>1, <2>2, <2>3, <2>4
<1>2. hand.items = <<>>  BY <1>1 DEF OrderInv, Places
<1>3. InOrder' /\ Plain(queue') BY <1>1, PlainSteps DEF OrderInv, InOrder, Places
<1>4. CASE e.kind = "batch"
  <2>1. cpc' = "yield" /\ hand'.items = e.items /\ UNCHANGED <<registered, over>>
    BY <1>4 DEF Get
  <2>2. PICK b, c, d \in 0..made :
            /\ Runs(queue, Len(delivered) + Len(hand.items), b, made)
            /\ Accepting => Runs(down, b, c, made)
            /\ Accepting /\ link => Run(packet.items, c, d) /\ Run(buffer.frames, d, made)
    BY <1>1 DEF OrderInv, Flow, ConsumerOpen
  <2>3. Len(delivered) + Len(hand.items) = Len(delivered)  BY <1>2
  <2>4. PICK a \in 0..made : Run(e.items, Len(delivered), a) /\ Runs(Tail(queue), a, b, made)
    BY <1>1, <2>2, <2>3, RunsTail
  <2>5. a = Len(delivered) + Len(e.items)
    <3>1. Len(e.items) = a - Len(delivered)  BY <2>4 DEF Run
    <3> QED  BY <3>1
  <2>6. Accepting' = Accepting  BY <2>1 DEF Accepting
  <2> HIDE DEF e
  <2>7. Places'
    <3>1. Run(hand'.items, Len(delivered'), Len(delivered') + Len(hand'.items))
      BY <1>1, <2>1, <2>4, <2>5
    <3> QED  BY <1>1, <1>3, <2>1, <3>1 DEF OrderInv, Places
  <2>8. Flow'
    <3>1. Runs(queue', Len(delivered') + Len(hand'.items), b, made)  BY <1>1, <2>1, <2>4, <2>5
    <3> QED  BY <1>1, <2>2, <2>6, <3>1 DEF Flow
  <2> QED  BY <1>3, <2>7, <2>8 DEF OrderInv
<1>5. CASE e.kind # "batch"
  <2>1. cpc' = e.kind /\ hand' = hand  BY <1>5 DEF Get, Unregister
  <2>2. e.kind \in DownKinds  BY <1>1 DEF DownPacket
  <2>3. cpc' \notin ConsumerOpen  BY <1>5, <2>1, <2>2 DEF DownKinds, ConsumerOpen
  <2>4. Places'  BY <1>1, <1>3, <2>1, <2>3 DEF OrderInv, Places, ConsumerOpen
  <2> QED  BY <1>3, <2>3, <2>4 DEF OrderInv
<1> QED  BY <1>4, <1>5

\* The application receives the next number.
LEMMA YieldOrder == ASSUME TypeOK, OrderInv, YieldItem PROVE OrderInv'
<1> USE OrderTypes
<1> DEFINE n == Len(delivered)
           h == hand.items
<1>1. /\ cpc = "yield" /\ h # <<>> /\ delivered' = Append(delivered, Head(h))
      /\ UNCHANGED <<made, queue, down, packet, buffer, cpc, wpc, link, closedP, registered, over>>
  BY DEF YieldItem
<1>2. hand'.items = Tail(h)
  <2>1. hand' = [hand EXCEPT !.items = Tail(hand.items)] /\ hand \in HandType
    BY DEF YieldItem, TypeOK
  <2> QED  BY <2>1 DEF HandType
<1>3. Run(h, n, n + Len(h))  BY <1>1 DEF OrderInv, Places
<1>4. Head(h) = n + 1 /\ Run(Tail(h), n + 1, n + Len(h))
  <2>1. n + Len(h) \in Nat  OBVIOUS
  <2> QED  BY <1>1, <1>3, <2>1, RunTail
<1>5. Len(delivered') = n + 1 /\ Len(Tail(h)) = Len(h) - 1 /\ Len(h) >= 1  BY <1>1
<1>a. n \in Nat /\ Len(h) \in Nat  OBVIOUS
<1>6. (n + 1) + Len(Tail(h)) = n + Len(h)
  <2>1. \A x, y \in Nat : (x + 1) + (y - 1) = x + y  OBVIOUS
  <2>2. (n + 1) + (Len(h) - 1) = n + Len(h)  BY ONLY <1>a, <2>1
  <2> QED  BY <1>5, <2>2
<1>7. PICK b, c, d \in 0..made :
          /\ Runs(queue, n + Len(h), b, made)
          /\ Accepting => Runs(down, b, c, made)
          /\ Accepting /\ link => Run(packet.items, c, d) /\ Run(buffer.frames, d, made)
  BY <1>1 DEF OrderInv, Flow, ConsumerOpen
<1>8. n + Len(h) \in 0..made  BY <1>7, RunsEnds
<1>9. InOrder'
  <2>1. n + 1 <= made  BY <1>5, <1>8
  <2>2. \A i \in 1..n : delivered'[i] = delivered[i] /\ delivered[i] = i
    BY <1>1, SMTT(30) DEF OrderInv, InOrder
  <2>3. delivered'[n + 1] = n + 1  BY <1>1, <1>4
  <2>4. \A i \in 1..(n + 1) : i \in 1..n \/ i = n + 1
    <3> HIDE DEF n
    <3> QED  BY ONLY <1>a
  <2>5. \A i \in 1..(n + 1) : delivered'[i] = i  BY <2>2, <2>3, <2>4
  <2> QED  BY <1>1, <1>5, <2>1, <2>5 DEF InOrder
<1>10. Places'
  <2>1. Run(hand'.items, Len(delivered'), Len(delivered') + Len(hand'.items))
    BY <1>2, <1>4, <1>5, <1>6
  <2> QED  BY <1>1, <2>1 DEF OrderInv, Places
<1>11. Flow'
  <2>1. Len(delivered') + Len(hand'.items) = n + Len(h)  BY <1>2, <1>5, <1>6
  <2>2. Accepting' = Accepting  BY <1>1 DEF Accepting
  <2> HIDE DEF n, h
  <2> QED  BY <1>1, <1>7, <2>1, <2>2 DEF Flow
<1> QED  BY <1>9, <1>10, <1>11 DEF OrderInv

\* A batch that is used up leaves nothing in the hands of the consumer.
LEMMA DoneOrder == ASSUME TypeOK, OrderInv, BatchDone PROVE OrderInv'
<1>1. /\ hand.items = <<>> /\ cpc = "yield" /\ cpc' \in {"get", "return"}
      /\ UNCHANGED <<made, delivered, queue, down, packet, buffer, wpc, link, closedP, registered, over>>
  BY DEF BatchDone
<1>2. hand'.items = <<>>  BY DEF BatchDone, NoHand
<1>3. InOrder' /\ Places'  BY <1>1, <1>2 DEF OrderInv, InOrder, Places
<1>4. Flow'
  <2>1. Flow  BY <1>1 DEF OrderInv, ConsumerOpen
  <2> QED  BY <1>1, <1>2, <2>1, FlowKept DEF Accepting
<1> QED  BY <1>3, <1>4 DEF OrderInv

\* Of what is on the wire, a prefix arrives.
LEMMA BreakOrder == ASSUME TypeOK, OrderInv, BreakLink PROVE OrderInv'
<1> USE OrderTypes
<1>1. /\ link' = FALSE
      /\ UNCHANGED <<made, delivered, hand, queue, packet, buffer, cpc, wpc, closedP, registered, over>>
  BY DEF BreakLink
<1>2. PICK k \in 0..Len(down) : down' = SubSeq(down, 1, k)  BY DEF BreakLink
<1>3. Plain(down')  BY <1>2, PlainSteps DEF OrderInv, Places
<1>4. InOrder' /\ Places'  BY <1>1, <1>3 DEF OrderInv, InOrder, Places
<1>5. ASSUME cpc \in ConsumerOpen PROVE Flow'
  <2>1. PICK b, c, d \in 0..made :
            /\ Runs(queue, Len(delivered) + Len(hand.items), b, made)
            /\ Accepting => Runs(down, b, c, made)
    BY <1>5 DEF OrderInv, Flow
  <2>2. Accepting => \E c2 \in 0..made : Runs(down', b, c2, made)  BY <1>2, <2>1, RunsPrefix
  <2>3. PICK c2 \in 0..made : Accepting => Runs(down', b, c2, made)  BY <2>2
  <2>4. Accepting' = Accepting  BY <1>1 DEF Accepting
  <2> QED  BY <1>1, <2>1, <2>3, <2>4 DEF Flow
<1> QED  BY <1>1, <1>4, <1>5 DEF OrderInv

-----------------------------------------------------------------------------
(* One request                                                              *)

\* A request is taken from the wire once: it was the first packet on it, and
\* the task and the writer that it starts were not there before.
LEMMA FreshNext == ASSUME TypeOK, Fresh, [Next]_vars PROVE Fresh'
<1> USE DEF Fresh
<1>t. up \in Seq(UpPacket)  BY DEF TypeOK
<1>1. CASE UNCHANGED <<up, ppc, wpc, closedP>>  BY <1>1
<1>2. CASE StartSender  BY <1>2 DEF StartSender
<1>3. CASE RefuseRequest  BY <1>3 DEF RefuseRequest
<1>4. CASE Produce \/ Wake \/ Exhaust \/ CancelDelivered
  <2>1. ppc \in {"produce", "waiting", "cancelled"} /\ ppc' \in {"produce", "waiting", "flush"}
    BY <1>4 DEF Produce, Wake, Exhaust, CancelDelivered, Settle, LeaveLoop
  <2>2. UNCHANGED <<up, wpc, closedP>>
    BY <1>4 DEF Produce, Wake, Exhaust, CancelDelivered
  <2> QED  BY <2>1, <2>2
<1>5. CASE FlushDone  BY <1>5 DEF FlushDone
<1>6. CASE Respond  BY <1>6 DEF Respond
<1>7. CASE RespondFail  BY <1>7 DEF RespondFail, FinishPendingP
<1>8. CASE WriterTake \/ WriterPut \/ WriterFail
  <2>1. wpc \in {"wait", "write"} /\ UNCHANGED <<up, ppc, closedP>>
    BY <1>8 DEF WriterTake, WriterPut, WriterFail
  <2> QED  BY <2>1
<1>9. CASE ReceiveUp
  <2>1. up # <<>> /\ up' = Tail(up) /\ ~closedP /\ UNCHANGED <<wpc, closedP>>
    BY <1>9 DEF ReceiveUp
  <2>2. Len(up) \in Nat \ {0} /\ Len(up') = Len(up) - 1 /\ Head(up) = up[1]  BY <1>t, <2>1
  <2>3. \A k \in 1..(Len(up) - 1) : up'[k] = up[k + 1] /\ k + 1 \in 1..Len(up) /\ k + 1 # 1
    BY <1>t, <2>1
  <2>4. \A k \in 1..Len(up') : up'[k].kind # "request"  BY <2>2, <2>3
  <2>5. CASE Head(up).kind = "request"
    <3>1. ppc = "absent" /\ wpc = "absent"
      <4>1. 1 \in 1..Len(up)  BY <2>2
      <4> QED  BY <2>1, <2>2, <2>5, <4>1
    <3> QED  BY <2>1, <2>4, <3>1
  <2>6. CASE Head(up).kind # "request"
    <3>1. ppc' = ppc \/ ppc' = "cancelled"
      BY <1>9, <2>6 DEF ReceiveUp, HandleStreamCredit, CancelProducer
    <3> QED  BY <2>1, <2>4, <3>1
  <2> QED  BY <2>5, <2>6
<1>10. CASE LoseP
  <2>1. closedP' = TRUE /\ UNCHANGED <<up, ppc, wpc>>  BY <1>10 DEF LoseP, FinishPendingP
  <2> QED  BY <2>1
<1>11. CASE CancelTasks  BY <1>11 DEF CancelTasks
<1>12. CASE ReturnPermission \/ SendLeave
  <2>1. UNCHANGED <<ppc, wpc, closedP>>  BY <1>12 DEF ReturnPermission, SendLeave
  <2>2. PICK m : m.kind # "request" /\ (up' = up \/ up' = Append(up, m))
    BY <1>12 DEF ReturnPermission, SendLeave, Write, UpMessage
  <2>3. CASE up' = up  BY <2>1, <2>3
  <2>4. CASE up' = Append(up, m)
    <3>1. Len(up') = Len(up) + 1 /\ Len(up) \in Nat /\ up'[Len(up) + 1] = m  BY <1>t, <2>4
    <3>2. \A k \in 1..Len(up) : up'[k] = up[k]  BY <1>t, <2>4
    <3>3. \A k \in 1..(Len(up) + 1) : k \in 1..Len(up) \/ k = Len(up) + 1  BY <3>1
    <3>4. \A k \in 1..Len(up') : up'[k].kind = "request" => k \in 1..Len(up) /\ up'[k] = up[k]
      BY <2>2, <3>1, <3>2, <3>3
    <3> QED  BY <2>1, <3>4
  <2> QED  BY <2>2, <2>3, <2>4
<1>13. CASE BreakLink
  <2>1. PICK n \in 0..Len(up) : up' = SubSeq(up, 1, n)  BY <1>13 DEF BreakLink
  <2>2. Len(up') = n /\ \A k \in 1..n : up'[k] = up[k] /\ k \in 1..Len(up)  BY <1>t, <2>1
  <2>3. UNCHANGED <<ppc, wpc, closedP>>  BY <1>13 DEF BreakLink
  <2> QED  BY <2>2, <2>3
<1>14. CASE ReceiveDown \/ HandleEnd \/ LoseC \/ Get \/ YieldItem \/ BatchDone \/ ReturnFail \/ Leave
  <2>1. UNCHANGED <<up, ppc, wpc, closedP>>
    BY <1>14 DEF ReceiveDown, HandleEnd, LoseC, Get, YieldItem, BatchDone, ReturnFail, Leave
  <2> QED  BY <1>1, <2>1
<1>15. CASE UNCHANGED vars  BY <1>1, <1>15 DEF vars
<1> HIDE DEF Fresh
<1> QED
  BY <1>2, <1>3, <1>4, <1>5, <1>6, <1>7, <1>8, <1>9, <1>10, <1>11, <1>12, <1>13, <1>14, <1>15 DEF Next

-----------------------------------------------------------------------------
(* Every step keeps the order                                               *)

\* One case per action.
LEMMA OrderNext == ASSUME TypeOK, Fresh, OrderInv, [Next]_vars PROVE OrderInv'
<1> USE DEF Accepting
<1>p. /\ wpc # "write" => packet.items = <<>>
      /\ closedP => ~link
  BY DEF OrderInv, Places
<1>1. CASE StartSender
  <2>1. wpc = "absent"  BY <1>1 DEF StartSender, Fresh
  <2> QED  BY <1>1, <1>p, <2>1, OrderKept DEF StartSender
<1>2. CASE RefuseRequest  BY <1>2, <1>p, OrderKept DEF RefuseRequest
<1>3. CASE Produce
  <2>1. UNCHANGED <<closedP, wpc, packet, known, down, up, link, consumerVars>>
    BY <1>3 DEF Produce
  <2>2. PICK length, coded : \/ LeaveLoop("raise") /\ UNCHANGED <<made, credit>>
                             \/ Settle(length, coded)
    BY <1>3 DEF Produce
  <2>3. CASE LeaveLoop("raise") /\ UNCHANGED <<made, credit>>
    <3>1. buffer'.frames = buffer.frames  BY <2>3 DEF LeaveLoop, Finished
    <3> QED  BY <1>p, <2>1, <2>3, <3>1, OrderKept
  <2>4. CASE Settle(length, coded)  BY <2>1, <2>4, SettleOrder
  <2> QED  BY <2>2, <2>3, <2>4
<1>4. CASE Wake
  <2>1. Settle(waiting.length, waiting.coded)  BY <1>4 DEF Wake
  <2>2. UNCHANGED <<closedP, wpc, packet, known, down, up, link, consumerVars>>
    BY <1>4 DEF Wake
  <2> QED  BY <2>1, <2>2, SettleOrder
<1>5. CASE Exhaust \/ CancelDelivered
  <2>1. buffer' = Finished  BY <1>5 DEF Exhaust, CancelDelivered, LeaveLoop
  <2>2. buffer'.frames = buffer.frames  BY <2>1 DEF Finished
  <2>3. UNCHANGED <<made, closedP, wpc, packet, down, link, consumerVars>>
    BY <1>5 DEF Exhaust, CancelDelivered
  <2> QED  BY <1>p, <2>2, <2>3, OrderKept
<1>6. CASE FlushDone  BY <1>6, <1>p, OrderKept DEF FlushDone
<1>7. CASE Respond  BY <1>7, RespondOrder
<1>8. CASE RespondFail  BY <1>8, <1>p, OrderKept DEF RespondFail
<1>9. CASE WriterTake  BY <1>9, TakeOrder
<1>10. CASE WriterPut  BY <1>10, PutOrder
<1>11. CASE WriterFail \/ CancelTasks
  \* What the writer held is lost with the connection.
  <2>1. /\ ~link /\ UNCHANGED <<made, buffer, closedP, down, link, consumerVars>>
        /\ packet' = NoPacket /\ wpc' # "write"
    BY <1>11, <1>p DEF WriterFail, CancelTasks
  <2>2. packet'.items = <<>>  BY <2>1 DEF NoPacket, Notice
  <2>3. InOrder' /\ Places'  BY <2>1, <2>2 DEF OrderInv, InOrder, Places
  <2>4. ASSUME cpc \in ConsumerOpen PROVE Flow'
    <3>1. Flow  BY <2>4 DEF OrderInv
    <3> QED  BY <2>1, <3>1, FlowKept
  <2> QED  BY <2>1, <2>3, <2>4 DEF OrderInv
<1>12. CASE ReceiveUp  BY <1>12, <1>p, OrderKept DEF ReceiveUp
<1>13. CASE LoseP  BY <1>13, <1>p, OrderKept DEF LoseP
<1>14. CASE ReceiveDown  BY <1>14, ReceiveOrder
<1>15. CASE HandleEnd
  <2>1. Notice("ended") \in DownPacket /\ Notice("ended").items = <<>>
    <3>1. Notice("ended").items = <<>>  BY DEF Notice
    <3> QED  BY <3>1, NoticeType DEF DownKinds
  <2> QED  BY <1>15, <2>1, NoticeOrder DEF HandleEnd
<1>16. CASE LoseC
  <2>1. Notice("lost") \in DownPacket /\ Notice("lost").items = <<>>
    <3>1. Notice("lost").items = <<>>  BY DEF Notice
    <3> QED  BY <3>1, NoticeType DEF DownKinds
  <2> QED  BY <1>16, <2>1, NoticeOrder DEF LoseC
<1>17. CASE Get  BY <1>17, GetOrder
<1>18. CASE YieldItem  BY <1>18, YieldOrder
<1>19. CASE BatchDone  BY <1>19, DoneOrder
<1>20. CASE ReturnPermission
  <2>1. /\ cpc = "return" /\ cpc' = "get"
        /\ UNCHANGED <<made, delivered, hand, queue, down, packet, buffer, wpc, link, closedP, registered, over>>
    BY <1>20 DEF ReturnPermission
  <2>2. InOrder' /\ Places'  BY <2>1 DEF OrderInv, InOrder, Places
  <2>3. Flow  BY <2>1 DEF OrderInv, ConsumerOpen
  <2>4. Flow'  BY <2>1, <2>3, FlowKept
  <2> QED  BY <2>2, <2>4 DEF OrderInv
<1>21. CASE ReturnFail \/ Leave \/ SendLeave
  <2>1. /\ cpc' \in {"lost", "left", "leaving"}
        /\ UNCHANGED <<made, delivered, hand, queue, down, packet, wpc, link, closedP>>
    BY <1>21 DEF ReturnFail, Leave, SendLeave, Unregister
  <2>2. InOrder' /\ Places'  BY <2>1 DEF OrderInv, InOrder, Places
  <2> QED  BY <2>1, <2>2 DEF OrderInv, ConsumerOpen
<1>22. CASE BreakLink  BY <1>22, BreakOrder
<1>23. CASE UNCHANGED vars  BY <1>23, <1>p, OrderKept DEF vars
<1> QED
  BY <1>1, <1>2, <1>3, <1>4, <1>5, <1>6, <1>7, <1>8, <1>9, <1>10, <1>11, <1>12, <1>13, <1>14, <1>15,
     <1>16, <1>17, <1>18, <1>19, <1>20, <1>21, <1>22, <1>23 DEF Next

\* The application receives the items of a stream in the order in which the
\* remote generator made them, none twice and none skipped: for every budget,
\* every length of item, every batching by the writer, a consumer that leaves
\* at any point and a connection that drops at any point.
THEOREM StreamInOrder == Spec => []InOrder
<1> DEFINE Inv == TypeOK /\ Fresh /\ OrderInv
<1>1. Init => Inv
  <2>1. Init => Fresh
    <3> SUFFICES ASSUME Init PROVE Fresh  OBVIOUS
    <3>1. Len(up) = 1 /\ ppc = "absent" /\ wpc = "absent"  BY DEF Init
    <3> QED  BY <3>1 DEF Fresh
  <2> QED  BY <2>1, InitType, OrderInit
<1>2. Inv /\ [Next]_vars => Inv'  BY NextType, FreshNext, OrderNext
<1>3. Inv => InOrder  BY DEF OrderInv
<1> QED  BY <1>1, <1>2, <1>3, PTL DEF Spec

-----------------------------------------------------------------------------
(***************************************************************************)
(* Stream implements OrderedStream: what the application is promised holds *)
(* as long as no item brings sources.                                      *)
(*                                                                         *)
(* The promise is broken by an end that comes too early.  An end reaches   *)
(* the application through the wire, a task and the queue, and at each of  *)
(* these places what is in front of it must be all that the method made;   *)
(* and it must be the end of the method, not of a sender that was stopped. *)
(* A sender is stopped by a consumer that left, by the loss of the         *)
(* connection, and by permission that nobody owed it; that the last never  *)
(* happens is what the ledger of bytes and items is for.                   *)
(***************************************************************************)
HIDE DEF Credit

\* The items that the application received or is about to.
At == Len(delivered) + Len(hand.items)

\* The kind of response says how the method ended.
Says(kind) == (kind = "ended" /\ outcome = "end") \/ (kind = "raised" /\ outcome = "raise")

\* How the task of the request, its writer and its buffer stand to each other.
\* On a connection that works the writer is done only when the buffer is empty
\* and no more items come, and only then is there a response.
Phases ==
    /\ ppc \in {"absent", "scheduled", "produce", "waiting", "cancelled"} => outcome = "none"
    /\ ppc \in {"flush", "respond"} => outcome # "none"
    /\ ppc \in {"produce", "waiting"} => wpc # "absent"
    /\ buffer.done => ppc \in {"flush", "respond", "done"}
    /\ wpc = "absent" => buffer.frames = <<>>
    /\ wpc = "write" => packet.kind = "batch"
    /\ link => /\ wpc # "failed"
               /\ wpc = "done" => buffer.done /\ buffer.frames = <<>>
               /\ ppc \in {"respond", "done"} => wpc \in {"done", "absent"}

\* A method is stopped only when its consumer left or the connection is gone.
Unstopped ==
    /\ credit.released \/ ppc = "cancelled" \/ outcome \in {"stop", "cancel"} =>
           ~link \/ cpc \notin ConsumerOpen
    /\ \A k \in 1..Len(up) : up[k].kind = "leave" => cpc \notin ConsumerOpen

\* One response ends the stream.  It is the last packet on the wire, then in the
\* hands of the task that handles it, then in the queue, and says how the method
\* ended.
Ends ==
    /\ \A k \in 1..Len(down) : down[k].kind # "batch" =>
           k = Len(down) /\ ppc = "done" /\ Says(down[k].kind)
    /\ ending => down = <<>> /\ ppc = "done" /\ Says("ended")
    /\ \A k \in 1..Len(queue) : queue[k].kind \in {"ended", "raised"} =>
           down = <<>> /\ ~ending /\ ppc = "done" /\ Says(queue[k].kind)
    /\ over => \E k \in 1..Len(queue) : queue[k].kind # "batch"

\* Wherever that response is, the entries in front of it hold all that the
\* method made and the application has not received.
Complete ==
    /\ Accepting /\ (\E k \in 1..Len(down) : down[k].kind # "batch") =>
           \E b \in 0..made : Runs(queue, At, b, made) /\ Runs(down, b, made, made)
    /\ Accepting /\ ending => Runs(queue, At, made, made)
    /\ \A k \in 1..Len(queue) :
           /\ queue[k].kind \in {"ended", "raised"}
           /\ \A j \in 1..(k-1) : queue[j].kind = "batch"
           => Runs(SubSeq(queue, 1, k-1), At, made, made)

EndInv == Phases /\ Unstopped /\ (cpc \in ConsumerOpen => Ends /\ Complete)

-----------------------------------------------------------------------------
(* Sums                                                                     *)
(*                                                                          *)
(* What a recursive sum computes cannot be proved without induction, so the *)
(* sum of the first n values of f is the last of running totals that exist. *)

\* The first n values of f add up to s.
Total(f, n, s) ==
    \E t \in [0..n -> Nat] :
        /\ t[0] = 0 /\ t[n] = s
        /\ \A k \in 1..n : t[k] = t[k-1] + f[k]
        /\ \A j, k \in 0..n : j <= k => t[j] <= t[k]

Sizes(w) == [k \in 1..Len(w) |-> w[k].size]
Lengths(w) == [k \in 1..Len(w) |-> Len(w[k].items)]
Counts(w) == [k \in 1..Len(w) |-> w[k].count]

\* Nothing adds up to nothing.
LEMMA TotalEmpty == ASSUME NEW f PROVE Total(f, 0, 0)
<1> DEFINE t == [k \in 0..0 |-> 0]
<1>1. t \in [0..0 -> Nat] /\ t[0] = 0  OBVIOUS
<1>2. \A k \in 1..0 : t[k] = t[k-1] + f[k]  OBVIOUS
<1>3. \A j, k \in 0..0 : j <= k => t[j] <= t[k]  OBVIOUS
<1> QED  BY <1>1, <1>2, <1>3 DEF Total

\* One more value is one more term.
LEMMA TotalAppend ==
    ASSUME NEW n \in Nat, NEW f, NEW g, NEW s \in Nat, Total(f, n, s),
           \A k \in 1..n : g[k] = f[k], g[n+1] \in Nat
    PROVE  Total(g, n + 1, s + g[n+1])
<1>1. PICK t \in [0..n -> Nat] :
        /\ t[0] = 0 /\ t[n] = s
        /\ \A k \in 1..n : t[k] = t[k-1] + f[k]
        /\ \A j, k \in 0..n : j <= k => t[j] <= t[k]
  BY DEF Total
<1> DEFINE v == [k \in 0..(n+1) |-> IF k \in 0..n THEN t[k] ELSE s + g[n+1]]
<1>2. \A k \in 0..n : v[k] = t[k] /\ t[k] \in Nat  OBVIOUS
<1>3. v[n+1] = s + g[n+1]  OBVIOUS
<1>4. \A k \in 0..(n+1) : k \in 0..n \/ k = n + 1  OBVIOUS
<1>5. v \in [0..(n+1) -> Nat]  BY <1>2, <1>3, <1>4
<1>6. ASSUME NEW k \in 1..(n+1) PROVE v[k] = v[k-1] + g[k]
  <2>1. CASE k \in 1..n
    <3>1. k \in 0..n /\ k - 1 \in 0..n  BY <2>1
    <3> QED  BY <1>1, <1>2, <2>1, <3>1
  <2>2. CASE k = n + 1
    <3>1. k - 1 = n /\ n \in 0..n  BY <2>2
    <3>2. v[n] = s  BY <1>1, <1>2, <3>1
    <3> QED  BY <1>3, <2>2, <3>1, <3>2
  <2> QED  BY <2>1, <2>2
<1>7. ASSUME NEW j \in 0..(n+1), NEW k \in 0..(n+1), j <= k PROVE v[j] <= v[k]
  <2>1. CASE k \in 0..n
    <3>1. j \in 0..n  BY <1>7, <2>1
    <3> QED  BY <1>1, <1>2, <1>7, <2>1, <3>1
  <2>2. CASE k = n + 1 /\ j \in 0..n
    <3>1. t[j] <= t[n] /\ t[j] \in Nat  BY <1>1, <2>2
    <3>2. v[j] <= s  BY <1>1, <1>2, <2>2, <3>1
    <3>3. v[j] \in Nat  BY <1>2, <2>2
    <3> QED  BY <1>3, <2>2, <3>2, <3>3
  <2>3. CASE k = n + 1 /\ j = n + 1  BY <1>3, <2>3
  <2> QED  BY <1>4, <2>1, <2>2, <2>3
<1>8. v[0] = 0  BY <1>1, <1>2
<1> HIDE DEF v
<1> QED  BY <1>3, <1>5, <1>6, <1>7, <1>8 DEF Total

\* Without the first value the rest is what it was.
LEMMA TotalTail ==
    ASSUME NEW n \in Nat, n > 0, NEW f, NEW g, NEW s \in Nat, Total(f, n, s),
           \A k \in 1..n : f[k] \in Nat, \A k \in 1..(n-1) : g[k] = f[k+1]
    PROVE  f[1] <= s /\ Total(g, n - 1, s - f[1])
<1>1. PICK t \in [0..n -> Nat] :
        /\ t[0] = 0 /\ t[n] = s
        /\ \A k \in 1..n : t[k] = t[k-1] + f[k]
        /\ \A j, k \in 0..n : j <= k => t[j] <= t[k]
  BY DEF Total
<1>2. t[1] = f[1]
  <2>1. 1 \in 1..n /\ 1 - 1 = 0  OBVIOUS
  <2>2. t[1] = t[1-1] + f[1]  BY <1>1, <2>1
  <2> QED  BY <1>1, <2>1, <2>2
<1>3. \A k \in 1..n : t[1] <= t[k] /\ t[k] \in Nat
  <2>1. ASSUME NEW k \in 1..n PROVE t[1] <= t[k] /\ t[k] \in Nat
    <3>1. 1 \in 0..n /\ k \in 0..n /\ 1 <= k  OBVIOUS
    <3> QED  BY <1>1, <3>1
  <2> QED  BY <2>1
<1> DEFINE m == n - 1
           v == [k \in 0..m |-> t[k+1] - f[1]]
<1>4. m \in Nat /\ \A k \in 0..m : k + 1 \in 1..n  OBVIOUS
<1>5. \A k \in 0..m : v[k] = t[k+1] - f[1] /\ v[k] \in Nat
  <2>1. ASSUME NEW k \in 0..m PROVE t[k+1] - f[1] \in Nat
    <3>1. t[1] <= t[k+1] /\ t[k+1] \in Nat  BY <1>3, <1>4
    <3> QED  BY <1>2, <3>1
  <2> QED  BY <2>1
<1>6. v \in [0..m -> Nat]  BY <1>5
<1> HIDE DEF v
<1>7. v[0] = 0  BY <1>2, <1>4, <1>5
<1>8. v[m] = s - f[1]
  <2>1. m \in 0..m /\ m + 1 = n  BY <1>4
  <2> QED  BY <1>1, <1>5, <2>1
<1>9. ASSUME NEW k \in 1..m PROVE v[k] = v[k-1] + g[k]
  <2>1. k \in 0..m /\ k - 1 \in 0..m /\ (k - 1) + 1 = k /\ k + 1 \in 1..n /\ (k + 1) - 1 = k /\ k \in 1..n  BY <1>4
  <2>2. t[k+1] = t[(k+1)-1] + f[k+1]  BY <1>1, <2>1
  <2>3. v[k] = t[k+1] - f[1] /\ v[k-1] = t[k] - f[1] /\ v[k-1] \in Nat  BY <1>5, <2>1
  <2>4. t[k+1] \in Nat /\ t[k] \in Nat  BY <1>3, <2>1
  <2>5. g[k] = f[k+1] /\ f[k+1] \in Nat  BY <2>1
  <2>6. t[k+1] = t[k] + g[k]  BY <2>1, <2>2, <2>5
  <2>7. f[1] \in Nat /\ g[k] \in Nat  BY <2>5
  <2>8. \A a, b, c, d \in Nat : a = b + d => a - c = (b - c) + d  OBVIOUS
  <2>9. t[k+1] - f[1] = (t[k] - f[1]) + g[k]  BY <2>4, <2>6, <2>7, <2>8, SMTT(30)
  <2> QED  BY <2>3, <2>9
<1>10. ASSUME NEW j \in 0..m, NEW k \in 0..m, j <= k PROVE v[j] <= v[k]
  <2>1. j + 1 \in 0..n /\ k + 1 \in 0..n /\ j + 1 <= k + 1  BY <1>4, <1>10
  <2>2. t[j+1] <= t[k+1] /\ t[j+1] \in Nat /\ t[k+1] \in Nat /\ f[1] \in Nat  BY <1>1, <2>1
  <2>3. v[j] = t[j+1] - f[1] /\ v[k] = t[k+1] - f[1]  BY <1>5
  <2>4. t[j+1] - f[1] <= t[k+1] - f[1]  BY <2>2
  <2> QED  BY <2>3, <2>4
<1>11. f[1] <= s
  <2>1. n \in 1..n  OBVIOUS
  <2> QED  BY <1>1, <1>2, <1>3, <2>1
<1> QED  BY <1>6, <1>7, <1>8, <1>9, <1>10, <1>11 DEF Total

\* The first values add up to at most what all add up to.
LEMMA TotalCut ==
    ASSUME NEW n \in Nat, NEW m \in 0..n, NEW f, NEW g, NEW s \in Nat, Total(f, n, s),
           \A k \in 1..m : g[k] = f[k]
    PROVE  \E r \in Nat : r <= s /\ Total(g, m, r)
<1>1. PICK t \in [0..n -> Nat] :
        /\ t[0] = 0 /\ t[n] = s
        /\ \A k \in 1..n : t[k] = t[k-1] + f[k]
        /\ \A j, k \in 0..n : j <= k => t[j] <= t[k]
  BY DEF Total
<1> DEFINE v == [k \in 0..m |-> t[k]]
<1>2. m \in Nat /\ \A k \in 0..m : k \in 0..n /\ v[k] = t[k] /\ t[k] \in Nat  OBVIOUS
<1>3. v \in [0..m -> Nat]  BY <1>2
<1>4. v[0] = 0  BY <1>1, <1>2
<1>5. ASSUME NEW k \in 1..m PROVE v[k] = v[k-1] + g[k]
  <2>1. k \in 1..n /\ k \in 0..m /\ k - 1 \in 0..m  OBVIOUS
  <2> QED  BY <1>1, <1>2, <2>1
<1>6. \A j, k \in 0..m : j <= k => v[j] <= v[k]  BY <1>1, <1>2
<1>7. v[m] \in Nat /\ v[m] <= s
  <2>1. m \in 0..m /\ m \in 0..n /\ n \in 0..n /\ m <= n  BY <1>2
  <2> QED  BY <1>1, <1>2, <2>1
<1> HIDE DEF v
<1>8. Total(g, m, v[m])  BY <1>3, <1>4, <1>5, <1>6 DEF Total
<1> QED  BY <1>7, <1>8

-----------------------------------------------------------------------------
(* The ledger                                                               *)

\* The packets of w carry b bytes in n items.
Carries(w, b, n) == Total(Sizes(w), Len(w), b) /\ Total(Lengths(w), Len(w), n)

\* The messages of w give back b bytes and n items.
Returns(w, b, n) == Total(Sizes(w), Len(w), b) /\ Total(Counts(w), Len(w), n)

\* What the sender's buffer, the writer and the consumer hold, and what the
\* consumer owes.
LocalBytes == buffer.bytes + packet.size + hand.size + owed.bytes
LocalItems == Len(buffer.frames) + Len(packet.items) + hand.count + owed.items

\* The sender has paid for all that is under way, in both directions.
Ledger ==
    \E dB, dN, qB, qN, uB, uN \in Nat :
        /\ Carries(down, dB, dN) /\ Carries(queue, qB, qN) /\ Returns(up, uB, uN)
        /\ LocalBytes + dB + qB + uB <= credit.bytes
        /\ LocalItems + dN + qN + uN <= credit.items

\* A packet more, the first packet less, or the first n packets only.
LEMMA CarriesSteps ==
    ASSUME NEW w \in Seq(DownPacket), NEW b \in Nat, NEW n \in Nat, Carries(w, b, n)
    PROVE  /\ \A e \in DownPacket : Carries(Append(w, e), b + e.size, n + Len(e.items))
           /\ w # <<>> => /\ Head(w).size <= b /\ Len(Head(w).items) <= n
                          /\ Carries(Tail(w), b - Head(w).size, n - Len(Head(w).items))
           /\ \A m \in 0..Len(w) : \E c, l \in Nat : c <= b /\ l <= n /\ Carries(SubSeq(w, 1, m), c, l)
<1>1. \A k \in 1..Len(w) : w[k].size \in Nat /\ Len(w[k].items) \in Nat
  <2>1. \A k \in 1..Len(w) : w[k] \in DownPacket  OBVIOUS
  <2>2. \A p \in DownPacket : p.size \in Nat /\ Len(p.items) \in Nat  BY DEF DownPacket
  <2> QED  BY <2>1, <2>2
<1>2. ASSUME NEW e \in DownPacket PROVE Carries(Append(w, e), b + e.size, n + Len(e.items))
  <2> DEFINE v == Append(w, e)
             L == Len(w)
  <2>1. L \in Nat /\ Len(v) = L + 1 /\ v[L+1] = e /\ \A k \in 1..L : v[k] = w[k]  OBVIOUS
  <2>2. e.size \in Nat /\ Len(e.items) \in Nat  BY DEF DownPacket
  <2> HIDE DEF v
  <2>3. \A k \in 1..L : k \in 1..(L+1)  BY <2>1
  <2>4. (\A k \in 1..L : Sizes(v)[k] = Sizes(w)[k]) /\ Sizes(v)[L+1] = e.size  BY <2>1, <2>3 DEF Sizes
  <2>5. (\A k \in 1..L : Lengths(v)[k] = Lengths(w)[k]) /\ Lengths(v)[L+1] = Len(e.items)
    BY <2>1, <2>3 DEF Lengths
  <2>6. Total(Sizes(v), L + 1, b + e.size)  BY <2>1, <2>2, <2>4, TotalAppend DEF Carries
  <2>7. Total(Lengths(v), L + 1, n + Len(e.items))  BY <2>1, <2>2, <2>5, TotalAppend DEF Carries
  <2>8. Carries(v, b + e.size, n + Len(e.items))  BY <2>1, <2>6, <2>7 DEF Carries
  <2> QED  BY <2>8 DEF v
<1>3. ASSUME w # <<>>
      PROVE  /\ Head(w).size <= b /\ Len(Head(w).items) <= n
             /\ Carries(Tail(w), b - Head(w).size, n - Len(Head(w).items))
  <2> DEFINE v == Tail(w)
             L == Len(w)
  <2>1. L \in Nat /\ L > 0 /\ Len(v) = L - 1 /\ Head(w) = w[1] /\ \A k \in 1..(L-1) : v[k] = w[k+1]
    BY <1>3
  <2> HIDE DEF v
  <2>2. \A k \in 1..(L-1) : k + 1 \in 1..L  BY <2>1
  <2>3. 1 \in 1..L  BY <2>1
  <2>4. /\ \A k \in 1..(L-1) : Sizes(v)[k] = Sizes(w)[k+1]
        /\ Sizes(w)[1] = Head(w).size /\ \A k \in 1..L : Sizes(w)[k] \in Nat
    BY <1>1, <2>1, <2>2, <2>3 DEF Sizes
  <2>5. /\ \A k \in 1..(L-1) : Lengths(v)[k] = Lengths(w)[k+1]
        /\ Lengths(w)[1] = Len(Head(w).items) /\ \A k \in 1..L : Lengths(w)[k] \in Nat
    BY <1>1, <2>1, <2>2, <2>3 DEF Lengths
  <2>6. Head(w).size <= b /\ Total(Sizes(v), L - 1, b - Head(w).size)
    <3>1. Total(Sizes(w), L, b)  BY DEF Carries
    <3>2. Sizes(w)[1] <= b /\ Total(Sizes(v), L - 1, b - Sizes(w)[1])
      BY <2>1, <2>4, <3>1, TotalTail
    <3> QED  BY <2>4, <3>2
  <2>7. Len(Head(w).items) <= n /\ Total(Lengths(v), L - 1, n - Len(Head(w).items))
    <3>1. Total(Lengths(w), L, n)  BY DEF Carries
    <3>2. Lengths(w)[1] <= n /\ Total(Lengths(v), L - 1, n - Lengths(w)[1])
      BY <2>1, <2>5, <3>1, TotalTail
    <3> QED  BY <2>5, <3>2
  <2>8. Carries(v, b - Head(w).size, n - Len(Head(w).items))  BY <2>1, <2>6, <2>7 DEF Carries
  <2> QED  BY <2>6, <2>7, <2>8 DEF v
<1>4. ASSUME NEW m \in 0..Len(w)
      PROVE  \E c, l \in Nat : c <= b /\ l <= n /\ Carries(SubSeq(w, 1, m), c, l)
  <2> DEFINE v == SubSeq(w, 1, m)
             L == Len(w)
  <2>1. L \in Nat /\ m \in 0..L /\ m \in Nat /\ Len(v) = m /\ \A k \in 1..m : v[k] = w[k] /\ k \in 1..L
    OBVIOUS
  <2> HIDE DEF v
  <2>2. \A k \in 1..m : Sizes(v)[k] = Sizes(w)[k] /\ Lengths(v)[k] = Lengths(w)[k]
    BY <2>1 DEF Sizes, Lengths
  <2>3. PICK c \in Nat : c <= b /\ Total(Sizes(v), m, c)  BY <2>1, <2>2, TotalCut DEF Carries
  <2>4. PICK l \in Nat : l <= n /\ Total(Lengths(v), m, l)  BY <2>1, <2>2, TotalCut DEF Carries
  <2>5. Carries(v, c, l)  BY <2>1, <2>3, <2>4 DEF Carries
  <2> QED  BY <2>3, <2>4, <2>5 DEF v
<1> QED  BY <1>2, <1>3, <1>4

\* The same of messages that give permission back.
LEMMA ReturnsSteps ==
    ASSUME NEW w \in Seq(UpPacket), NEW b \in Nat, NEW n \in Nat, Returns(w, b, n)
    PROVE  /\ \A e \in UpPacket : Returns(Append(w, e), b + e.size, n + e.count)
           /\ w # <<>> => /\ Head(w).size <= b /\ Head(w).count <= n
                          /\ Returns(Tail(w), b - Head(w).size, n - Head(w).count)
           /\ \A m \in 0..Len(w) : \E c, l \in Nat : c <= b /\ l <= n /\ Returns(SubSeq(w, 1, m), c, l)
<1>1. \A k \in 1..Len(w) : w[k].size \in Nat /\ w[k].count \in Nat
  <2>1. \A k \in 1..Len(w) : w[k] \in UpPacket  OBVIOUS
  <2>2. \A p \in UpPacket : p.size \in Nat /\ p.count \in Nat  BY DEF UpPacket
  <2> QED  BY <2>1, <2>2
<1>2. ASSUME NEW e \in UpPacket PROVE Returns(Append(w, e), b + e.size, n + e.count)
  <2> DEFINE v == Append(w, e)
             L == Len(w)
  <2>1. L \in Nat /\ Len(v) = L + 1 /\ v[L+1] = e /\ \A k \in 1..L : v[k] = w[k]  OBVIOUS
  <2>2. e.size \in Nat /\ e.count \in Nat  BY DEF UpPacket
  <2> HIDE DEF v
  <2>3. \A k \in 1..L : k \in 1..(L+1)  BY <2>1
  <2>4. (\A k \in 1..L : Sizes(v)[k] = Sizes(w)[k]) /\ Sizes(v)[L+1] = e.size  BY <2>1, <2>3 DEF Sizes
  <2>5. (\A k \in 1..L : Counts(v)[k] = Counts(w)[k]) /\ Counts(v)[L+1] = e.count
    BY <2>1, <2>3 DEF Counts
  <2>6. Total(Sizes(v), L + 1, b + e.size)  BY <2>1, <2>2, <2>4, TotalAppend DEF Returns
  <2>7. Total(Counts(v), L + 1, n + e.count)  BY <2>1, <2>2, <2>5, TotalAppend DEF Returns
  <2>8. Returns(v, b + e.size, n + e.count)  BY <2>1, <2>6, <2>7 DEF Returns
  <2> QED  BY <2>8 DEF v
<1>3. ASSUME w # <<>>
      PROVE  /\ Head(w).size <= b /\ Head(w).count <= n
             /\ Returns(Tail(w), b - Head(w).size, n - Head(w).count)
  <2> DEFINE v == Tail(w)
             L == Len(w)
  <2>1. L \in Nat /\ L > 0 /\ Len(v) = L - 1 /\ Head(w) = w[1] /\ \A k \in 1..(L-1) : v[k] = w[k+1]
    BY <1>3
  <2> HIDE DEF v
  <2>2. \A k \in 1..(L-1) : k + 1 \in 1..L  BY <2>1
  <2>3. 1 \in 1..L  BY <2>1
  <2>4. /\ \A k \in 1..(L-1) : Sizes(v)[k] = Sizes(w)[k+1]
        /\ Sizes(w)[1] = Head(w).size /\ \A k \in 1..L : Sizes(w)[k] \in Nat
    BY <1>1, <2>1, <2>2, <2>3 DEF Sizes
  <2>5. /\ \A k \in 1..(L-1) : Counts(v)[k] = Counts(w)[k+1]
        /\ Counts(w)[1] = Head(w).count /\ \A k \in 1..L : Counts(w)[k] \in Nat
    BY <1>1, <2>1, <2>2, <2>3 DEF Counts
  <2>6. Head(w).size <= b /\ Total(Sizes(v), L - 1, b - Head(w).size)
    <3>1. Total(Sizes(w), L, b)  BY DEF Returns
    <3>2. Sizes(w)[1] <= b /\ Total(Sizes(v), L - 1, b - Sizes(w)[1])
      BY <2>1, <2>4, <3>1, TotalTail
    <3> QED  BY <2>4, <3>2
  <2>7. Head(w).count <= n /\ Total(Counts(v), L - 1, n - Head(w).count)
    <3>1. Total(Counts(w), L, n)  BY DEF Returns
    <3>2. Counts(w)[1] <= n /\ Total(Counts(v), L - 1, n - Counts(w)[1])
      BY <2>1, <2>5, <3>1, TotalTail
    <3> QED  BY <2>5, <3>2
  <2>8. Returns(v, b - Head(w).size, n - Head(w).count)  BY <2>1, <2>6, <2>7 DEF Returns
  <2> QED  BY <2>6, <2>7, <2>8 DEF v
<1>4. ASSUME NEW m \in 0..Len(w)
      PROVE  \E c, l \in Nat : c <= b /\ l <= n /\ Returns(SubSeq(w, 1, m), c, l)
  <2> DEFINE v == SubSeq(w, 1, m)
             L == Len(w)
  <2>1. L \in Nat /\ m \in 0..L /\ m \in Nat /\ Len(v) = m /\ \A k \in 1..m : v[k] = w[k] /\ k \in 1..L
    OBVIOUS
  <2> HIDE DEF v
  <2>2. \A k \in 1..m : Sizes(v)[k] = Sizes(w)[k] /\ Counts(v)[k] = Counts(w)[k]
    BY <2>1 DEF Sizes, Counts
  <2>3. PICK c \in Nat : c <= b /\ Total(Sizes(v), m, c)  BY <2>1, <2>2, TotalCut DEF Returns
  <2>4. PICK l \in Nat : l <= n /\ Total(Counts(v), m, l)  BY <2>1, <2>2, TotalCut DEF Returns
  <2>5. Returns(v, c, l)  BY <2>1, <2>3, <2>4 DEF Returns
  <2> QED  BY <2>3, <2>4, <2>5 DEF v
<1> QED  BY <1>2, <1>3, <1>4

\* Sums of four: they are natural numbers, bound their last term, and may grow
\* in one term by what the bound grows.
LEMMA SumNat == \A a, b, c, d \in Nat : a + b + c + d \in Nat  OBVIOUS
\* A share of a sum is at most the bound of the sum.
LEMMA SumLast == \A a, b, c, d, s, e \in Nat : a + b + c + d <= s /\ e <= d => e <= s  OBVIOUS
\* The first summand and the bound go down by the same amount.
LEMMA SumFirst ==
    \A a, e, b, c, d, s, r \in Nat :
        a + b + c + d <= s /\ e + s <= a + r => e + b + c + d <= r
  OBVIOUS

\* The amounts that the ledger adds are natural numbers.
LEMMA LedgerTypes ==
    ASSUME TypeOK
    PROVE  /\ queue \in Seq(DownPacket) /\ down \in Seq(DownPacket) /\ up \in Seq(UpPacket)
           /\ packet \in DownPacket /\ packet.size \in Nat /\ Len(packet.items) \in Nat
           /\ buffer.bytes \in Nat /\ Len(buffer.frames) \in Nat
           /\ hand.size \in Nat /\ hand.count \in Nat /\ owed.bytes \in Nat /\ owed.items \in Nat
           /\ credit.bytes \in Nat /\ credit.items \in Nat
           /\ LocalBytes \in Nat /\ LocalItems \in Nat
<1>1. queue \in Seq(DownPacket) /\ down \in Seq(DownPacket) /\ up \in Seq(UpPacket) /\ packet \in DownPacket
  BY DEF TypeOK
<1>2. packet.size \in Nat /\ Len(packet.items) \in Nat  BY <1>1 DEF DownPacket
<1>3. buffer.bytes \in Nat /\ Len(buffer.frames) \in Nat  BY DEF TypeOK, BufferType
<1>4. hand.size \in Nat /\ hand.count \in Nat /\ owed.bytes \in Nat /\ owed.items \in Nat
  BY DEF TypeOK, HandType, OwedType
<1>5. credit.bytes \in Nat /\ credit.items \in Nat  BY DEF TypeOK, CreditType
<1>6. LocalBytes \in Nat  BY <1>2, <1>3, <1>4, SumNat DEF LocalBytes
<1>7. LocalItems \in Nat  BY <1>2, <1>3, <1>4, SumNat DEF LocalItems
<1> QED  BY <1>1, <1>2, <1>3, <1>4, <1>5, <1>6, <1>7

\* The ledger gives permission only for what the sender has in flight.
LEMMA LedgerOwed ==
    ASSUME TypeOK, Ledger, up # <<>>
    PROVE  Head(up).size <= credit.bytes /\ Head(up).count <= credit.items
<1> USE LedgerTypes
<1>1. PICK dB, dN, qB, qN, uB, uN \in Nat :
        /\ Carries(down, dB, dN) /\ Carries(queue, qB, qN) /\ Returns(up, uB, uN)
        /\ LocalBytes + dB + qB + uB <= credit.bytes
        /\ LocalItems + dN + qN + uN <= credit.items
  BY DEF Ledger
<1>2. Head(up).size <= uB /\ Head(up).count <= uN  BY <1>1, ReturnsSteps
<1>3. Head(up) \in UpPacket  OBVIOUS
<1>4. Head(up).size \in Nat /\ Head(up).count \in Nat  BY <1>3 DEF UpPacket
<1>5. Head(up).size <= credit.bytes  BY <1>1, <1>2, <1>4, SumLast
<1>6. Head(up).count <= credit.items  BY <1>1, <1>2, <1>4, SumLast
<1> QED  BY <1>5, <1>6

\* A step on one side: what it holds grows at most by what is paid for.
LEMMA LedgerLocal ==
    ASSUME TypeOK, TypeOK', Ledger, UNCHANGED <<down, queue, up>>,
           LocalBytes' + credit.bytes <= LocalBytes + credit'.bytes,
           LocalItems' + credit.items <= LocalItems + credit'.items
    PROVE  Ledger'
<1> USE LedgerTypes
<1>1. PICK dB, dN, qB, qN, uB, uN \in Nat :
        /\ Carries(down, dB, dN) /\ Carries(queue, qB, qN) /\ Returns(up, uB, uN)
        /\ LocalBytes + dB + qB + uB <= credit.bytes
        /\ LocalItems + dN + qN + uN <= credit.items
  BY DEF Ledger
<1>2. LocalBytes' \in Nat /\ LocalItems' \in Nat /\ credit'.bytes \in Nat /\ credit'.items \in Nat
  <2>1. credit'.bytes \in Nat /\ credit'.items \in Nat  BY DEF TypeOK, CreditType
  <2>2. packet'.size \in Nat /\ Len(packet'.items) \in Nat  BY DEF TypeOK, DownPacket
  <2>3. buffer'.bytes \in Nat /\ Len(buffer'.frames) \in Nat  BY DEF TypeOK, BufferType
  <2>4. hand'.size \in Nat /\ hand'.count \in Nat /\ owed'.bytes \in Nat /\ owed'.items \in Nat
    BY DEF TypeOK, HandType, OwedType
  <2>5. LocalBytes' \in Nat  BY <2>2, <2>3, <2>4, SumNat DEF LocalBytes
  <2>6. LocalItems' \in Nat  BY <2>2, <2>3, <2>4, SumNat DEF LocalItems
  <2> QED  BY <2>1, <2>5, <2>6
<1>3. LocalBytes' + dB + qB + uB <= credit'.bytes  BY <1>1, <1>2, SumFirst, ZenonT(60)
<1>4. LocalItems' + dN + qN + uN <= credit'.items  BY <1>1, <1>2, SumFirst, ZenonT(60)
<1> QED  BY <1>1, <1>3, <1>4 DEF Ledger

\* Nothing is under way at first.
LEMMA LedgerInit == Init => Ledger
<1> SUFFICES ASSUME Init PROVE Ledger  OBVIOUS
<1>1. /\ credit.bytes = 0 /\ credit.items = 0 /\ buffer.bytes = 0 /\ buffer.frames = <<>>
      /\ packet.size = 0 /\ packet.items = <<>> /\ hand.size = 0 /\ hand.count = 0
      /\ owed.bytes = 0 /\ owed.items = 0
  <2>1. credit.bytes = 0 /\ credit.items = 0
    <3>1. credit = Credit(0, 0, FALSE, TRUE)  BY DEF Init
    <3> QED  BY <3>1 DEF Credit
  <2>2. buffer.bytes = 0 /\ buffer.frames = <<>>  BY DEF Init
  <2>3. packet.size = 0 /\ packet.items = <<>>  BY DEF Init, NoPacket, Notice
  <2>4. hand.size = 0 /\ hand.count = 0 /\ owed.bytes = 0 /\ owed.items = 0  BY DEF Init, NoHand
  <2> QED  BY <2>1, <2>2, <2>3, <2>4
<1>2. down = <<>> /\ queue = <<>> /\ up = <<UpMessage("request", 0, 0)>>  BY DEF Init
<1>3. LocalBytes = 0 /\ LocalItems = 0  BY <1>1 DEF LocalBytes, LocalItems
<1>4. Carries(<<>>, 0, 0) /\ Returns(<<>>, 0, 0)
  <2>1. Len(<<>>) = 0  OBVIOUS
  <2> QED  BY <2>1, TotalEmpty DEF Carries, Returns
<1>5. Returns(up, 0, 0)
  <2> DEFINE e == UpMessage("request", 0, 0)
  <2>1. e \in UpPacket /\ e.size = 0 /\ e.count = 0  BY DEF UpMessage, UpPacket, UpKinds
  <2>2. up = Append(<<>>, e)  BY <1>2
  <2> HIDE DEF e
  <2>3. <<>> \in Seq(UpPacket)  OBVIOUS
  <2>4. Returns(Append(<<>>, e), 0 + e.size, 0 + e.count)  BY <1>4, <2>1, <2>3, ReturnsSteps
  <2> QED  BY <2>1, <2>2, <2>4
<1>6. LocalBytes + 0 + 0 + 0 <= credit.bytes /\ LocalItems + 0 + 0 + 0 <= credit.items /\ 0 \in Nat  BY <1>1, <1>3
<1>7. Carries(down, 0, 0) /\ Carries(queue, 0, 0)  BY <1>2, <1>4
<1> QED  BY ONLY <1>5, <1>6, <1>7, ZenonT(30) DEF Ledger

\* An entry without items and bytes weighs nothing.
LEMMA CarriesNotice ==
    ASSUME NEW w \in Seq(DownPacket), NEW b \in Nat, NEW n \in Nat, Carries(w, b, n),
           NEW kind \in DownKinds
    PROVE  Carries(Append(w, Notice(kind)), b, n)
<1>1. Notice(kind) \in DownPacket  BY NoticeType
<1>2. Notice(kind).size = 0 /\ Notice(kind).items = <<>>  BY DEF Notice
<1>3. Carries(Append(w, Notice(kind)), b + Notice(kind).size, n + Len(Notice(kind).items))
  BY <1>1, CarriesSteps
<1>4. b + Notice(kind).size = b /\ n + Len(Notice(kind).items) = n  BY <1>2
<1> QED  BY <1>3, <1>4

\* A step that neither moves nor pays for items.
LEMMA LedgerKept ==
    ASSUME TypeOK, TypeOK', Ledger, UNCHANGED <<down, queue, up, buffer, packet, hand, owed>>,
           credit'.bytes = credit.bytes, credit'.items = credit.items
    PROVE  Ledger'
<1>1. LocalBytes' = LocalBytes /\ LocalItems' = LocalItems  BY DEF LocalBytes, LocalItems
<1>2. LocalBytes \in Nat /\ LocalItems \in Nat /\ credit.bytes \in Nat /\ credit.items \in Nat
  BY LedgerTypes
<1> QED  BY <1>1, <1>2, LedgerLocal

\* A release keeps what is counted.
LEMMA ReleasedCounts == Released.bytes = credit.bytes /\ Released.items = credit.items
  BY DEF Released, Credit

\* _finish_pending releases the permission.
LEMMA FinishCounts ==
    ASSUME FinishPendingP PROVE credit'.bytes = credit.bytes /\ credit'.items = credit.items
  BY ReleasedCounts DEF FinishPendingP

\* The end of the loop leaves the frames where they are.
LEMMA LeaveLoopLedger ==
    ASSUME TypeOK, TypeOK', Ledger, NEW why, LeaveLoop(why),
           UNCHANGED <<credit, packet, down, up, consumerVars>>
    PROVE  Ledger'
<1>1. buffer'.bytes = buffer.bytes /\ buffer'.frames = buffer.frames  BY DEF LeaveLoop, Finished
<1>2. LocalBytes' = LocalBytes /\ LocalItems' = LocalItems  BY <1>1 DEF LocalBytes, LocalItems
<1>3. LocalBytes \in Nat /\ LocalItems \in Nat /\ credit.bytes \in Nat /\ credit.items \in Nat
  BY LedgerTypes
<1> QED  BY <1>2, <1>3, LedgerLocal

\* What push adds to the amounts on the side of the sender.
LEMMA PushSums ==
    ASSUME TypeOK, NEW length \in Nat
    PROVE  /\ (buffer.bytes + length + ITEM_HEADER) + packet.size + hand.size + owed.bytes
                = LocalBytes + (length + ITEM_HEADER)
           /\ (Len(buffer.frames) + 1) + Len(packet.items) + hand.count + owed.items = LocalItems + 1
<1>2. packet.size \in Nat /\ buffer.bytes \in Nat /\ hand.size \in Nat /\ owed.bytes \in Nat /\ ITEM_HEADER \in Nat
  BY LedgerTypes, StreamConstants
<1>3. (buffer.bytes + length + ITEM_HEADER) + packet.size + hand.size + owed.bytes
         = LocalBytes + (length + ITEM_HEADER)
  BY <1>2 DEF LocalBytes
<1> DEFINE f == Len(buffer.frames)
           p == Len(packet.items)
<1>4. f \in Nat /\ p \in Nat /\ hand.count \in Nat /\ owed.items \in Nat  BY LedgerTypes
<1>5. LocalItems = f + p + hand.count + owed.items  BY DEF LocalItems
<1> HIDE DEF f, p
<1>6. (f + 1) + p + hand.count + owed.items = LocalItems + 1  BY <1>4, <1>5
<1> QED  BY <1>3, <1>6 DEF f, p

\* spend pays for the item that push adds.
LEMMA SettleLedger ==
    ASSUME TypeOK, TypeOK', Ledger, NEW length \in Nat, NEW coded, Settle(length, coded),
           UNCHANGED <<packet, down, up, consumerVars>>
    PROVE  Ledger'
<1>1. CASE LeaveLoop("stop") /\ UNCHANGED <<made, credit>>  BY <1>1, LeaveLoopLedger
<1>2. CASE credit' = Spent(Price(length)) /\ buffer' = Pushed(length, coded)
  <2>0. /\ packet.size \in Nat /\ Len(packet.items) \in Nat
        /\ buffer.bytes \in Nat /\ Len(buffer.frames) \in Nat
        /\ hand.size \in Nat /\ hand.count \in Nat /\ owed.bytes \in Nat /\ owed.items \in Nat
        /\ credit.bytes \in Nat /\ credit.items \in Nat /\ LocalBytes \in Nat /\ LocalItems \in Nat
    BY LedgerTypes
  <2>1. ITEM_HEADER \in Nat  BY StreamConstants
  <2>2. credit'.bytes = credit.bytes + (length + ITEM_HEADER) /\ credit'.items = credit.items + 1
    BY <1>2 DEF Spent, Price, Credit
  <2>3. buffer'.bytes = buffer.bytes + length + ITEM_HEADER  BY <1>2 DEF Pushed
  <2>4. Len(buffer'.frames) = Len(buffer.frames) + 1
    <3>1. buffer'.frames = Append(buffer.frames, made + 1)  BY <1>2 DEF Pushed
    <3>2. buffer.frames \in Seq(Nat) /\ made \in Nat  BY DEF TypeOK, BufferType
    <3> QED  BY <3>1, <3>2
  <2>7. LocalBytes' = LocalBytes + (length + ITEM_HEADER)
    <3>1. LocalBytes' = (buffer.bytes + length + ITEM_HEADER) + packet.size + hand.size + owed.bytes
      BY <2>3 DEF LocalBytes
    <3> QED  BY <3>1, PushSums
  <2>8. LocalItems' = LocalItems + 1
    <3>1. LocalItems' = (Len(buffer.frames) + 1) + Len(packet.items) + hand.count + owed.items
      BY <2>4 DEF LocalItems
    <3> QED  BY <3>1, PushSums
  <2>9. \A a, b, c \in Nat : (a + c) + b <= a + (b + c)  OBVIOUS
  <2>10. length + ITEM_HEADER \in Nat  BY <2>1
  <2>11. LocalBytes' + credit.bytes <= LocalBytes + credit'.bytes  BY <2>0, <2>2, <2>7, <2>9, <2>10
  <2>12. LocalItems' + credit.items <= LocalItems + credit'.items  BY <2>0, <2>2, <2>8, <2>9
  <2> QED  BY <2>11, <2>12, LedgerLocal
<1>3. CASE credit' = [credit EXCEPT !.ready = FALSE] /\ UNCHANGED <<made, outcome, hasCredit, buffer>>
  <2>1. credit'.bytes = credit.bytes /\ credit'.items = credit.items
    BY <1>3 DEF TypeOK, CreditType
  <2> QED  BY <1>3, <2>1, LedgerKept
<1> QED  BY <1>1, <1>2, <1>3 DEF Settle

\* run moves what gathered into the hands of the writer; without sources a
\* packet is as large as its items.
LEMMA TakeLedger ==
    ASSUME TypeOK, TypeOK', Ledger, WriterTake, EnvelopeSize = 0 PROVE Ledger'
<1> USE LedgerTypes
<1>1. UNCHANGED <<credit, down, up, queue, hand, owed>>  BY DEF WriterTake
<1>2. buffer'.bytes = 0 /\ buffer'.frames = <<>>  BY DEF WriterTake
<1>3. \/ packet' = packet
      \/ packet'.size = buffer.bytes /\ packet'.items = buffer.frames
  <2>1. CASE buffer.frames = <<>>  BY <2>1 DEF WriterTake
  <2>2. CASE buffer.frames # <<>>
    <3>1. packet'.items = buffer.frames  BY <2>2 DEF WriterTake, Batch
    <3>2. packet'.size = buffer.bytes + 0  BY <2>2 DEF WriterTake, Batch
    <3> QED  BY <3>1, <3>2
  <2> QED  BY <2>1, <2>2
<1>4. \A a, b, c, d \in Nat : 0 + a + c + d <= a + b + c + d /\ 0 + b + c + d <= a + b + c + d  OBVIOUS
<1>6. LocalBytes' <= LocalBytes
  <2>1. LocalBytes' = 0 + packet'.size + hand.size + owed.bytes  BY <1>1, <1>2 DEF LocalBytes
  <2>2. packet'.size = packet.size \/ packet'.size = buffer.bytes  BY <1>3
  <2> QED  BY <1>4, <2>1, <2>2 DEF LocalBytes
<1>7. LocalItems' <= LocalItems
  <2>1. LocalItems' = 0 + Len(packet'.items) + hand.count + owed.items
    <3>1. Len(buffer'.frames) = 0  BY <1>2
    <3> QED  BY <1>1, <3>1 DEF LocalItems
  <2>2. Len(packet'.items) = Len(packet.items) \/ Len(packet'.items) = Len(buffer.frames)  BY <1>3
  <2> QED  BY <1>4, <2>1, <2>2 DEF LocalItems
<1>8. LocalBytes' \in Nat /\ LocalItems' \in Nat
  <2>1. packet'.size \in Nat /\ Len(packet'.items) \in Nat  BY DEF TypeOK, DownPacket
  <2>2. Len(buffer'.frames) = 0  BY <1>2
  <2>3. LocalBytes' = 0 + packet'.size + hand.size + owed.bytes  BY <1>1, <1>2 DEF LocalBytes
  <2>4. LocalItems' = 0 + Len(packet'.items) + hand.count + owed.items  BY <1>1, <2>2 DEF LocalItems
  <2>5. 0 \in Nat  OBVIOUS
  <2>6. LocalBytes' \in Nat  BY <2>1, <2>3, <2>5, SumNat
  <2>7. LocalItems' \in Nat  BY <2>1, <2>4, <2>5, SumNat
  <2> QED  BY <2>6, <2>7
<1>9. \A a, b, c \in Nat : a <= b => a + c <= b + c  OBVIOUS
<1>10. LocalBytes' + credit.bytes <= LocalBytes + credit'.bytes  BY <1>1, <1>6, <1>8, <1>9
<1>11. LocalItems' + credit.items <= LocalItems + credit'.items  BY <1>1, <1>7, <1>8, <1>9
<1> QED  BY <1>1, <1>10, <1>11, LedgerLocal

\* write moves the packet from the hands of the writer to the wire, or loses it.
LEMMA PutLedger == ASSUME TypeOK, TypeOK', Ledger, WriterPut PROVE Ledger'
<1>1. PICK dB, dN, qB, qN, uB, uN \in Nat :
        /\ Carries(down, dB, dN) /\ Carries(queue, qB, qN) /\ Returns(up, uB, uN)
        /\ LocalBytes + dB + qB + uB <= credit.bytes
        /\ LocalItems + dN + qN + uN <= credit.items
  BY DEF Ledger
<1> DEFINE x == packet.size
           y == Len(packet.items)
           f == Len(buffer.frames)
<1>2. UNCHANGED <<credit, buffer, queue, up, hand, owed>> /\ down' = Write(down, packet)  BY DEF WriterPut
<1>3. packet'.size = 0 /\ Len(packet'.items) = 0  BY DEF WriterPut, NoPacket, Notice
<1>4. LocalBytes = buffer.bytes + x + hand.size + owed.bytes /\ LocalBytes' = buffer.bytes + 0 + hand.size + owed.bytes
  BY <1>2, <1>3 DEF LocalBytes
<1>5. LocalItems = f + y + hand.count + owed.items /\ LocalItems' = f + 0 + hand.count + owed.items
  BY <1>2, <1>3 DEF LocalItems
<1>6. /\ buffer.bytes \in Nat /\ hand.size \in Nat /\ hand.count \in Nat /\ owed.bytes \in Nat /\ owed.items \in Nat
      /\ x \in Nat /\ y \in Nat /\ f \in Nat /\ credit.bytes \in Nat /\ credit.items \in Nat
      /\ down \in Seq(DownPacket) /\ packet \in DownPacket
  BY LedgerTypes
<1>7. Carries(Append(down, packet), dB + x, dN + y)  BY <1>1, <1>6, CarriesSteps
<1> HIDE DEF x, y, f
<1>8. LocalBytes' + (dB + x) + qB + uB <= credit.bytes /\ LocalBytes' + dB + qB + uB <= credit.bytes
  <2>1. LocalBytes + dB + qB + uB <= credit.bytes  BY <1>1
  <2>2. /\ buffer.bytes \in Nat /\ hand.size \in Nat /\ owed.bytes \in Nat
        /\ x \in Nat /\ credit.bytes \in Nat
    BY <1>6
  <2>3. LocalBytes = LocalBytes' + x /\ LocalBytes' \in Nat  BY <1>4, <2>2
  <2> QED  BY <2>1, <2>2, <2>3
<1>9. LocalItems' + (dN + y) + qN + uN <= credit.items /\ LocalItems' + dN + qN + uN <= credit.items
  <2>1. LocalItems + dN + qN + uN <= credit.items  BY <1>1
  <2>2. f \in Nat /\ hand.count \in Nat /\ owed.items \in Nat /\ y \in Nat /\ credit.items \in Nat
    BY <1>6
  <2>3. LocalItems = LocalItems' + y /\ LocalItems' \in Nat  BY <1>5, <2>2
  <2> QED  BY <2>1, <2>2, <2>3
<1>10. dB + x \in Nat /\ dN + y \in Nat  BY <1>6
<1>11. CASE link
  <2>1. Carries(down', dB + x, dN + y)  BY <1>2, <1>7, <1>11 DEF Write
  <2> QED  BY <1>1, <1>2, <1>8, <1>9, <1>10, <2>1 DEF Ledger
<1>12. CASE ~link
  <2>1. down' = down  BY <1>2, <1>12 DEF Write
  <2>2. /\ Carries(down', dB, dN) /\ Carries(queue', qB, qN) /\ Returns(up', uB, uN)
        /\ LocalBytes' + dB + qB + uB <= credit'.bytes
        /\ LocalItems' + dN + qN + uN <= credit'.items
    BY <1>1, <1>2, <1>8, <1>9, <2>1
  <2> QED  BY <2>2, ZenonT(30) DEF Ledger
<1> QED  BY <1>11, <1>12

\* A packet that the writer drops was paid for.
LEMMA DropLedger ==
    ASSUME TypeOK, TypeOK', Ledger, packet' = NoPacket,
           UNCHANGED <<credit, buffer, down, up, queue, hand, owed>>
    PROVE  Ledger'
<1> DEFINE x == packet.size
           y == Len(packet.items)
           f == Len(buffer.frames)
<1>1. packet'.size = 0 /\ Len(packet'.items) = 0  BY DEF NoPacket, Notice
<1>2. LocalBytes = buffer.bytes + x + hand.size + owed.bytes /\ LocalBytes' = buffer.bytes + 0 + hand.size + owed.bytes
  BY <1>1 DEF LocalBytes
<1>3. LocalItems = f + y + hand.count + owed.items /\ LocalItems' = f + 0 + hand.count + owed.items
  BY <1>1 DEF LocalItems
<1>4. /\ buffer.bytes \in Nat /\ hand.size \in Nat /\ hand.count \in Nat /\ owed.bytes \in Nat /\ owed.items \in Nat
      /\ x \in Nat /\ y \in Nat /\ f \in Nat /\ credit.bytes \in Nat /\ credit.items \in Nat
  BY LedgerTypes
<1> HIDE DEF x, y, f
<1>5. LocalBytes' + credit.bytes <= LocalBytes + credit'.bytes  BY <1>2, <1>4
<1>6. LocalItems' + credit.items <= LocalItems + credit'.items  BY <1>3, <1>4
<1> QED  BY <1>5, <1>6, LedgerLocal

\* A packet or an entry without items costs nothing.
LEMMA NoticeLedger ==
    ASSUME TypeOK, TypeOK', Ledger, UNCHANGED <<credit, buffer, packet, up, hand, owed>>,
           NEW k1 \in DownKinds, NEW k2 \in DownKinds,
           down' = down \/ down' = Append(down, Notice(k1)),
           queue' = queue \/ queue' = Append(queue, Notice(k2))
    PROVE  Ledger'
<1>1. PICK dB, dN, qB, qN, uB, uN \in Nat :
        /\ Carries(down, dB, dN) /\ Carries(queue, qB, qN) /\ Returns(up, uB, uN)
        /\ LocalBytes + dB + qB + uB <= credit.bytes
        /\ LocalItems + dN + qN + uN <= credit.items
  BY DEF Ledger
<1>2. down \in Seq(DownPacket) /\ queue \in Seq(DownPacket)  BY DEF TypeOK
<1>3. Carries(down', dB, dN)  BY <1>1, <1>2, CarriesNotice
<1>4. Carries(queue', qB, qN)  BY <1>1, <1>2, CarriesNotice
<1>5. LocalBytes' = LocalBytes /\ LocalItems' = LocalItems  BY DEF LocalBytes, LocalItems
<1> QED  BY <1>1, <1>3, <1>4, <1>5 DEF Ledger

\* The receive loop moves a batch from the wire to the queue, or drops it.
LEMMA ReceiveLedger == ASSUME TypeOK, TypeOK', Ledger, ReceiveDown PROVE Ledger'
<1>1. PICK dB, dN, qB, qN, uB, uN \in Nat :
        /\ Carries(down, dB, dN) /\ Carries(queue, qB, qN) /\ Returns(up, uB, uN)
        /\ LocalBytes + dB + qB + uB <= credit.bytes
        /\ LocalItems + dN + qN + uN <= credit.items
  BY DEF Ledger
<1> DEFINE e == Head(down)
           x == e.size
           y == Len(e.items)
<1>2. /\ down \in Seq(DownPacket) /\ queue \in Seq(DownPacket) /\ down # <<>> /\ down' = Tail(down)
      /\ UNCHANGED <<credit, buffer, packet, up, hand, owed>>
  BY DEF TypeOK, ReceiveDown
<1>3. e \in DownPacket  BY <1>2
<1>4. x \in Nat /\ y \in Nat  BY <1>3 DEF DownPacket
<1>5. x <= dB /\ y <= dN /\ Carries(down', dB - x, dN - y)  BY <1>1, <1>2, CarriesSteps
<1>6. Carries(Append(queue, e), qB + x, qN + y)  BY <1>1, <1>2, <1>3, CarriesSteps
<1>7. LocalBytes' = LocalBytes /\ LocalItems' = LocalItems  BY <1>2 DEF LocalBytes, LocalItems
<1>8. LocalBytes \in Nat /\ LocalItems \in Nat /\ credit.bytes \in Nat /\ credit.items \in Nat  BY LedgerTypes
<1>9. \/ queue' = queue \/ queue' = Append(queue, e)
      \/ \E k \in DownKinds : queue' = Append(queue, Notice(k))
  <2>1. "refused" \in DownKinds  BY DEF DownKinds
  <2>2. ASSUME HandleStreamItem(e)
        PROVE  queue' = queue \/ queue' = Append(queue, e) \/ queue' = Append(queue, Notice("refused"))
    BY <2>2 DEF HandleStreamItem
  <2>3. ASSUME PutFinal(e) PROVE queue' = queue \/ queue' = Append(queue, e)  BY <2>3 DEF PutFinal
  <2> QED  BY <2>1, <2>2, <2>3 DEF ReceiveDown
<1>10. \E rB, rN \in Nat : rB <= qB + x /\ rN <= qN + y /\ Carries(queue', rB, rN)
  <2>1. qB <= qB + x /\ qN <= qN + y /\ qB + x \in Nat /\ qN + y \in Nat  BY <1>4
  <2>2. CASE queue' = queue  BY <1>1, <2>1, <2>2
  <2>3. CASE queue' = Append(queue, e)
    <3>1. qB + x <= qB + x /\ qN + y <= qN + y  BY <2>1
    <3> QED  BY <1>6, <2>1, <2>3, <3>1
  <2>4. CASE \E k \in DownKinds : queue' = Append(queue, Notice(k))
    <3>1. Carries(queue', qB, qN)  BY <1>1, <1>2, <2>4, CarriesNotice
    <3> QED  BY <2>1, <3>1
  <2> QED  BY <1>9, <2>2, <2>3, <2>4
<1>11. PICK rB, rN \in Nat : rB <= qB + x /\ rN <= qN + y /\ Carries(queue', rB, rN)  BY <1>10
<1> HIDE DEF x, y, e
<1>12. dB - x \in Nat /\ dN - y \in Nat  BY <1>4, <1>5
<1>13. LocalBytes + (dB - x) + rB + uB <= credit.bytes
  <2>1. LocalBytes + dB + qB + uB <= credit.bytes /\ rB <= qB + x  BY <1>1, <1>11
  <2> QED  BY <1>4, <1>8, <2>1
<1>14. LocalItems + (dN - y) + rN + uN <= credit.items
  <2>1. LocalItems + dN + qN + uN <= credit.items /\ rN <= qN + y  BY <1>1, <1>11
  <2> QED  BY <1>4, <1>8, <2>1
<1> QED  BY <1>1, <1>2, <1>5, <1>7, <1>11, <1>12, <1>13, <1>14 DEF Ledger

\* The consumer takes an entry from the queue into its hands.
LEMMA GetLedger == ASSUME TypeOK, TypeOK', Ledger, Get PROVE Ledger'
<1>1. PICK dB, dN, qB, qN, uB, uN \in Nat :
        /\ Carries(down, dB, dN) /\ Carries(queue, qB, qN) /\ Returns(up, uB, uN)
        /\ LocalBytes + dB + qB + uB <= credit.bytes
        /\ LocalItems + dN + qN + uN <= credit.items
  BY DEF Ledger
<1> DEFINE e == Head(queue)
           x == e.size
           y == Len(e.items)
           f == Len(buffer.frames)
           p == Len(packet.items)
<1>2. /\ queue \in Seq(DownPacket) /\ queue # <<>> /\ queue' = Tail(queue)
      /\ UNCHANGED <<credit, buffer, packet, down, up, owed>>
  BY DEF TypeOK, Get
<1>3. e \in DownPacket  BY <1>2
<1>4. x \in Nat /\ y \in Nat  BY <1>3 DEF DownPacket
<1>5. x <= qB /\ y <= qN /\ Carries(queue', qB - x, qN - y)  BY <1>1, <1>2, CarriesSteps
<1>6. hand' = hand \/ (hand'.size = x /\ hand'.count = y)
  <2>1. CASE e.kind = "batch"
    <3>1. hand' = [items |-> e.items, count |-> Len(e.items), size |-> e.size]  BY <2>1 DEF Get
    <3> QED  BY <3>1
  <2>2. CASE e.kind # "batch"  BY <2>2 DEF Get
  <2> QED  BY <2>1, <2>2
<1>7. /\ LocalBytes = buffer.bytes + packet.size + hand.size + owed.bytes
      /\ LocalBytes' = buffer.bytes + packet.size + hand'.size + owed.bytes
  BY <1>2 DEF LocalBytes
<1>8. LocalItems = f + p + hand.count + owed.items /\ LocalItems' = f + p + hand'.count + owed.items
  BY <1>2 DEF LocalItems
<1>9. /\ buffer.bytes \in Nat /\ packet.size \in Nat /\ hand.size \in Nat /\ owed.bytes \in Nat
      /\ f \in Nat /\ p \in Nat /\ hand.count \in Nat /\ owed.items \in Nat
      /\ credit.bytes \in Nat /\ credit.items \in Nat
  BY LedgerTypes
<1> HIDE DEF x, y, e, f, p
<1>10. LocalBytes' <= LocalBytes + x /\ LocalBytes' \in Nat /\ LocalBytes \in Nat
  <2>1. hand'.size = hand.size \/ hand'.size = x  BY <1>6
  <2>2. buffer.bytes \in Nat /\ packet.size \in Nat /\ hand.size \in Nat /\ owed.bytes \in Nat  BY <1>9
  <2> QED  BY <1>4, <1>7, <2>1, <2>2
<1>11. LocalItems' <= LocalItems + y /\ LocalItems' \in Nat /\ LocalItems \in Nat
  <2>1. hand'.count = hand.count \/ hand'.count = y  BY <1>6
  <2>2. f \in Nat /\ p \in Nat /\ hand.count \in Nat /\ owed.items \in Nat  BY <1>9
  <2> QED  BY <1>4, <1>8, <2>1, <2>2
<1>12. qB - x \in Nat /\ qN - y \in Nat  BY <1>4, <1>5
<1>13. LocalBytes' + dB + (qB - x) + uB <= credit.bytes
  <2>1. LocalBytes + dB + qB + uB <= credit.bytes /\ credit.bytes \in Nat  BY <1>1, <1>9
  <2> QED  BY <1>4, <1>10, <2>1
<1>14. LocalItems' + dN + (qN - y) + uN <= credit.items
  <2>1. LocalItems + dN + qN + uN <= credit.items /\ credit.items \in Nat  BY <1>1, <1>9
  <2> QED  BY <1>4, <1>11, <2>1
<1> QED  BY <1>1, <1>2, <1>5, <1>12, <1>13, <1>14 DEF Ledger

\* A batch that is used up is owed to the sender.
LEMMA DoneLedger == ASSUME TypeOK, TypeOK', Ledger, BatchDone PROVE Ledger'
<1> DEFINE f == Len(buffer.frames)
           p == Len(packet.items)
<1>1. UNCHANGED <<credit, buffer, packet, down, up, queue>>  BY DEF BatchDone
<1>2. owed'.bytes = owed.bytes + hand.size /\ owed'.items = owed.items + hand.count  BY DEF BatchDone
<1>3. hand'.size = 0 /\ hand'.count = 0  BY DEF BatchDone, NoHand
<1>4. /\ LocalBytes = buffer.bytes + packet.size + hand.size + owed.bytes
      /\ LocalBytes' = buffer.bytes + packet.size + 0 + (owed.bytes + hand.size)
  BY <1>1, <1>2, <1>3 DEF LocalBytes
<1>5. /\ LocalItems = f + p + hand.count + owed.items
      /\ LocalItems' = f + p + 0 + (owed.items + hand.count)
  BY <1>1, <1>2, <1>3 DEF LocalItems
<1>6. /\ buffer.bytes \in Nat /\ packet.size \in Nat /\ hand.size \in Nat /\ owed.bytes \in Nat
      /\ f \in Nat /\ p \in Nat /\ hand.count \in Nat /\ owed.items \in Nat
      /\ credit.bytes \in Nat /\ credit.items \in Nat
  BY LedgerTypes
<1> HIDE DEF f, p
<1>7. LocalBytes' = LocalBytes /\ LocalBytes \in Nat  BY <1>4, <1>6
<1>8. LocalItems' = LocalItems /\ LocalItems \in Nat  BY <1>5, <1>6
<1>9. /\ LocalBytes' + credit.bytes <= LocalBytes + credit'.bytes
      /\ LocalItems' + credit.items <= LocalItems + credit'.items
  BY <1>1, <1>6, <1>7, <1>8
<1> QED  BY <1>1, <1>9, LedgerLocal

\* What is owed moves to the wire, or is lost with it.
LEMMA ReturnLedger == ASSUME TypeOK, TypeOK', Ledger, ReturnPermission PROVE Ledger'
<1>1. PICK dB, dN, qB, qN, uB, uN \in Nat :
        /\ Carries(down, dB, dN) /\ Carries(queue, qB, qN) /\ Returns(up, uB, uN)
        /\ LocalBytes + dB + qB + uB <= credit.bytes
        /\ LocalItems + dN + qN + uN <= credit.items
  BY DEF Ledger
<1> DEFINE x == owed.bytes
           y == owed.items
           f == Len(buffer.frames)
           p == Len(packet.items)
           e == UpMessage("credit", x, y)
<1>2. UNCHANGED <<credit, buffer, packet, down, queue, hand>> /\ up' = Write(up, e)  BY DEF ReturnPermission
<1>3. owed'.bytes = 0 /\ owed'.items = 0  BY DEF ReturnPermission, OwedReset
<1>4. /\ LocalBytes = buffer.bytes + packet.size + hand.size + x
      /\ LocalBytes' = buffer.bytes + packet.size + hand.size + 0
  BY <1>2, <1>3 DEF LocalBytes
<1>5. LocalItems = f + p + hand.count + y /\ LocalItems' = f + p + hand.count + 0
  BY <1>2, <1>3 DEF LocalItems
<1>6. /\ buffer.bytes \in Nat /\ packet.size \in Nat /\ hand.size \in Nat /\ x \in Nat
      /\ f \in Nat /\ p \in Nat /\ hand.count \in Nat /\ y \in Nat
      /\ credit.bytes \in Nat /\ credit.items \in Nat
  BY LedgerTypes
<1>7. e \in UpPacket /\ e.size = x /\ e.count = y  BY <1>6 DEF UpMessage, UpPacket, UpKinds
<1>8. up \in Seq(UpPacket)  BY LedgerTypes
<1> HIDE DEF x, y, f, p, e
<1>9. Returns(Append(up, e), uB + x, uN + y)
  <2>1. Returns(Append(up, e), uB + e.size, uN + e.count)  BY <1>1, <1>7, <1>8, ReturnsSteps
  <2> QED  BY <1>7, <2>1
<1>10. LocalBytes' + dB + qB + (uB + x) <= credit.bytes /\ LocalBytes' + dB + qB + uB <= credit.bytes
  <2>1. LocalBytes + dB + qB + uB <= credit.bytes  BY <1>1
  <2>2. LocalBytes = LocalBytes' + x /\ LocalBytes' \in Nat  BY <1>4, <1>6
  <2> QED  BY <1>6, <2>1, <2>2
<1>11. LocalItems' + dN + qN + (uN + y) <= credit.items /\ LocalItems' + dN + qN + uN <= credit.items
  <2>1. LocalItems + dN + qN + uN <= credit.items  BY <1>1
  <2>2. LocalItems = LocalItems' + y /\ LocalItems' \in Nat  BY <1>5, <1>6
  <2> QED  BY <1>6, <2>1, <2>2
<1>12. uB + x \in Nat /\ uN + y \in Nat  BY <1>6
<1>13. CASE link
  <2>1. Returns(up', uB + x, uN + y)  BY <1>2, <1>9, <1>13 DEF Write
  <2> QED  BY <1>1, <1>2, <1>10, <1>11, <1>12, <2>1 DEF Ledger
<1>14. CASE ~link
  <2>1. up' = up  BY <1>2, <1>14 DEF Write
  <2>2. Carries(down', dB, dN) /\ Carries(queue', qB, qN) /\ Returns(up', uB, uN)  BY <1>1, <1>2, <2>1
  <2>3. /\ LocalBytes' + dB + qB + uB <= credit'.bytes
        /\ LocalItems' + dN + qN + uN <= credit'.items
    BY <1>2, <1>10, <1>11
  <2> QED  BY <2>2, <2>3 DEF Ledger
<1> QED  BY <1>13, <1>14

\* The notice of a consumer that left gives nothing back.
LEMMA LeaveLedger == ASSUME TypeOK, TypeOK', Ledger, SendLeave PROVE Ledger'
<1>1. PICK dB, dN, qB, qN, uB, uN \in Nat :
        /\ Carries(down, dB, dN) /\ Carries(queue, qB, qN) /\ Returns(up, uB, uN)
        /\ LocalBytes + dB + qB + uB <= credit.bytes
        /\ LocalItems + dN + qN + uN <= credit.items
  BY DEF Ledger
<1> DEFINE e == UpMessage("leave", 0, 0)
<1>2. UNCHANGED <<credit, buffer, packet, down, queue, hand, owed>> /\ up' = Write(up, e)  BY DEF SendLeave
<1>3. LocalBytes' = LocalBytes /\ LocalItems' = LocalItems  BY <1>2 DEF LocalBytes, LocalItems
<1>4. e \in UpPacket /\ e.size = 0 /\ e.count = 0  BY DEF UpMessage, UpPacket, UpKinds
<1>5. up \in Seq(UpPacket)  BY LedgerTypes
<1> HIDE DEF e
<1>6. Returns(Append(up, e), uB, uN)
  <2>1. Returns(Append(up, e), uB + e.size, uN + e.count)  BY <1>1, <1>4, <1>5, ReturnsSteps
  <2>2. uB + e.size = uB /\ uN + e.count = uN  BY <1>4
  <2> QED  BY <2>1, <2>2
<1>7. Returns(up', uB, uN)  BY <1>1, <1>2, <1>6 DEF Write
<1> QED  BY <1>1, <1>2, <1>3, <1>7 DEF Ledger

\* The permission that arrives was owed, so give_back takes it.
LEMMA ReceiveUpLedger == ASSUME TypeOK, TypeOK', Ledger, ReceiveUp PROVE Ledger'
<1>1. PICK dB, dN, qB, qN, uB, uN \in Nat :
        /\ Carries(down, dB, dN) /\ Carries(queue, qB, qN) /\ Returns(up, uB, uN)
        /\ LocalBytes + dB + qB + uB <= credit.bytes
        /\ LocalItems + dN + qN + uN <= credit.items
  BY DEF Ledger
<1> DEFINE e == Head(up)
           x == e.size
           y == e.count
<1>2. UNCHANGED <<buffer, packet, down, queue, hand, owed>> /\ up # <<>> /\ up' = Tail(up)  BY DEF ReceiveUp
<1>3. up \in Seq(UpPacket) /\ e \in UpPacket  BY <1>2, LedgerTypes
<1>4. x \in Nat /\ y \in Nat  BY <1>3 DEF UpPacket
<1>5. x <= uB /\ y <= uN /\ Returns(up', uB - x, uN - y)  BY <1>1, <1>2, <1>3, ReturnsSteps
<1>6. x <= credit.bytes /\ y <= credit.items  BY <1>2, LedgerOwed
<1>7. /\ credit'.bytes = credit.bytes \/ credit'.bytes = credit.bytes - x
      /\ credit'.items = credit.items \/ credit'.items = credit.items - y
  <2>1. CASE credit' = credit  BY <2>1
  <2>2. CASE credit' = Released  BY <2>2, ReleasedCounts
  <2>3. CASE credit' = GiveBack(x, y)
    <3>1. credit.bytes \in Nat /\ credit.items \in Nat  BY LedgerTypes
    <3>2. ~(x > credit.bytes \/ y > credit.items)  BY <1>4, <1>6, <3>1
    <3>3. credit' = Credit(credit.bytes - x, credit.items - y, credit.released, TRUE)
      BY <2>3, <3>2 DEF GiveBack
    <3> QED  BY <3>3 DEF Credit
  <2> QED  BY <2>1, <2>2, <2>3 DEF ReceiveUp, HandleStreamCredit
<1>8. LocalBytes' = LocalBytes /\ LocalItems' = LocalItems  BY <1>2 DEF LocalBytes, LocalItems
<1>9. LocalBytes \in Nat /\ LocalItems \in Nat /\ credit.bytes \in Nat /\ credit.items \in Nat  BY LedgerTypes
<1> HIDE DEF x, y, e
<1>10. uB - x \in Nat /\ uN - y \in Nat  BY <1>4, <1>5
<1>11. LocalBytes + dB + qB + (uB - x) <= credit'.bytes
  <2>1. LocalBytes + dB + qB + uB <= credit.bytes  BY <1>1
  <2>2. credit'.bytes = credit.bytes \/ credit'.bytes = credit.bytes - x  BY <1>7
  <2> QED  BY <1>4, <1>9, <2>1, <2>2
<1>12. LocalItems + dN + qN + (uN - y) <= credit'.items
  <2>1. LocalItems + dN + qN + uN <= credit.items  BY <1>1
  <2>2. credit'.items = credit.items \/ credit'.items = credit.items - y  BY <1>7
  <2> QED  BY <1>4, <1>9, <2>1, <2>2
<1> QED  BY <1>1, <1>2, <1>5, <1>8, <1>10, <1>11, <1>12 DEF Ledger

\* A connection that drops loses packets, and nothing is paid back for them.
LEMMA BreakLedger == ASSUME TypeOK, TypeOK', Ledger, BreakLink PROVE Ledger'
<1>1. PICK dB, dN, qB, qN, uB, uN \in Nat :
        /\ Carries(down, dB, dN) /\ Carries(queue, qB, qN) /\ Returns(up, uB, uN)
        /\ LocalBytes + dB + qB + uB <= credit.bytes
        /\ LocalItems + dN + qN + uN <= credit.items
  BY DEF Ledger
<1>2. UNCHANGED <<credit, buffer, packet, queue, hand, owed>>  BY DEF BreakLink
<1>3. PICK n \in 0..Len(down) : down' = SubSeq(down, 1, n)  BY DEF BreakLink
<1>4. PICK m \in 0..Len(up) : up' = SubSeq(up, 1, m)  BY DEF BreakLink
<1>5. down \in Seq(DownPacket) /\ up \in Seq(UpPacket)  BY LedgerTypes
<1>6. PICK dB2, dN2 \in Nat : dB2 <= dB /\ dN2 <= dN /\ Carries(down', dB2, dN2)
  BY <1>1, <1>3, <1>5, CarriesSteps
<1>7. PICK uB2, uN2 \in Nat : uB2 <= uB /\ uN2 <= uN /\ Returns(up', uB2, uN2)
  BY <1>1, <1>4, <1>5, ReturnsSteps
<1>8. LocalBytes' = LocalBytes /\ LocalItems' = LocalItems  BY <1>2 DEF LocalBytes, LocalItems
<1>9. LocalBytes \in Nat /\ LocalItems \in Nat /\ credit.bytes \in Nat /\ credit.items \in Nat  BY LedgerTypes
<1>10. LocalBytes + dB2 + qB + uB2 <= credit.bytes
  <2>1. LocalBytes + dB + qB + uB <= credit.bytes /\ dB2 <= dB /\ uB2 <= uB  BY <1>1, <1>6, <1>7
  <2> QED  BY <1>9, <2>1
<1>11. LocalItems + dN2 + qN + uN2 <= credit.items
  <2>1. LocalItems + dN + qN + uN <= credit.items /\ dN2 <= dN /\ uN2 <= uN  BY <1>1, <1>6, <1>7
  <2> QED  BY <1>9, <2>1
<1> QED  BY <1>1, <1>2, <1>6, <1>7, <1>8, <1>10, <1>11 DEF Ledger

\* Every step keeps the ledger, as long as no item brings sources.
LEMMA LedgerNext ==
    ASSUME TypeOK, TypeOK', Ledger, [Next]_vars, EnvelopeSize = 0 PROVE Ledger'
<1>1. CASE UNCHANGED vars  BY <1>1, LedgerKept DEF vars
<1>2. CASE StartSender  BY <1>2, LedgerKept DEF StartSender
<1>3. CASE RefuseRequest  BY <1>3, LedgerKept DEF RefuseRequest
<1>4. CASE Produce
  <2>1. PICK length \in ItemSizes, coded \in {FALSE, ~known} :
            IF length > MAX_STREAM_ITEM
            THEN LeaveLoop("raise") /\ UNCHANGED <<made, credit>>
            ELSE Settle(length, coded)
    BY <1>4 DEF Produce
  <2>2. UNCHANGED <<packet, down, up, consumerVars>>  BY <1>4 DEF Produce
  <2>3. length \in Nat  BY StreamConstants
  <2>4. CASE length > MAX_STREAM_ITEM
    <3>1. LeaveLoop("raise") /\ UNCHANGED credit  BY <2>1, <2>4
    <3> QED  BY <2>2, <3>1, LeaveLoopLedger
  <2>5. CASE ~(length > MAX_STREAM_ITEM)
    <3>1. Settle(length, coded)  BY <2>1, <2>5
    <3> QED  BY <2>2, <2>3, <3>1, SettleLedger
  <2> QED  BY <2>4, <2>5
<1>5. CASE Wake
  <2>1. waiting.length \in Nat  BY DEF TypeOK, ItemType
  <2>2. Settle(waiting.length, waiting.coded)  BY <1>5 DEF Wake
  <2>3. UNCHANGED <<packet, down, up, consumerVars>>  BY <1>5 DEF Wake
  <2> QED  BY <2>1, <2>2, <2>3, SettleLedger
<1>6. CASE Exhaust
  <2>1. PICK why \in {"end", "raise"} : LeaveLoop(why)  BY <1>6 DEF Exhaust
  <2>2. UNCHANGED <<credit, packet, down, up, consumerVars>>  BY <1>6 DEF Exhaust
  <2> QED  BY <2>1, <2>2, LeaveLoopLedger
<1>7. CASE CancelDelivered
  <2>1. PICK why : LeaveLoop(why)  BY <1>7 DEF CancelDelivered
  <2>2. UNCHANGED <<credit, packet, down, up, consumerVars>>  BY <1>7 DEF CancelDelivered
  <2> QED  BY <2>1, <2>2, LeaveLoopLedger
<1>8. CASE FlushDone  BY <1>8, LedgerKept DEF FlushDone
<1>9. CASE Respond
  <2>1. ResponseKind \in DownKinds  BY DEF ResponseKind, DownKinds
  <2>2. down' = down \/ down' = Append(down, Notice(ResponseKind))  BY <1>9 DEF Respond, Write
  <2>3. UNCHANGED <<credit, buffer, packet, up, hand, owed, queue>>  BY <1>9 DEF Respond
  <2> QED  BY <2>1, <2>2, <2>3, NoticeLedger
<1>10. CASE RespondFail
  <2>1. UNCHANGED <<down, queue, up, buffer, packet, hand, owed>> /\ FinishPendingP  BY <1>10 DEF RespondFail
  <2> QED  BY <2>1, FinishCounts, LedgerKept
<1>11. CASE WriterTake  BY <1>11, TakeLedger
<1>12. CASE WriterPut  BY <1>12, PutLedger
<1>13. CASE WriterFail \/ CancelTasks
  <2>1. UNCHANGED <<credit, buffer, down, up, queue, hand, owed>> /\ packet' = NoPacket
    BY <1>13 DEF WriterFail, CancelTasks
  <2> QED  BY <2>1, DropLedger
<1>14. CASE ReceiveUp  BY <1>14, ReceiveUpLedger
<1>15. CASE LoseP
  <2>1. UNCHANGED <<down, queue, up, buffer, packet, hand, owed>> /\ FinishPendingP  BY <1>15 DEF LoseP
  <2> QED  BY <2>1, FinishCounts, LedgerKept
<1>16. CASE ReceiveDown  BY <1>16, ReceiveLedger
<1>17. CASE HandleEnd
  <2>1. "ended" \in DownKinds  BY DEF DownKinds
  <2>2. queue' = queue \/ queue' = Append(queue, Notice("ended"))  BY <1>17 DEF HandleEnd, PutFinal
  <2>3. UNCHANGED <<credit, buffer, packet, up, hand, owed, down>>  BY <1>17 DEF HandleEnd
  <2> QED  BY <2>1, <2>2, <2>3, NoticeLedger
<1>18. CASE LoseC
  <2>1. "lost" \in DownKinds  BY DEF DownKinds
  <2>2. queue' = queue \/ queue' = Append(queue, Notice("lost"))  BY <1>18 DEF LoseC, PutFinal
  <2>3. UNCHANGED <<credit, buffer, packet, up, hand, owed, down>>  BY <1>18 DEF LoseC
  <2> QED  BY <2>1, <2>2, <2>3, NoticeLedger
<1>19. CASE Get  BY <1>19, GetLedger
<1>20. CASE YieldItem
  <2>1. UNCHANGED <<credit, buffer, packet, down, up, queue, owed>>  BY <1>20 DEF YieldItem
  <2>2. hand'.size = hand.size /\ hand'.count = hand.count  BY <1>20 DEF YieldItem, TypeOK, HandType
  <2>3. LocalBytes' = LocalBytes /\ LocalItems' = LocalItems  BY <2>1, <2>2 DEF LocalBytes, LocalItems
  <2>4. LocalBytes \in Nat /\ LocalItems \in Nat /\ credit.bytes \in Nat /\ credit.items \in Nat
    BY LedgerTypes
  <2>5. /\ LocalBytes' + credit.bytes <= LocalBytes + credit'.bytes
        /\ LocalItems' + credit.items <= LocalItems + credit'.items
    BY <2>1, <2>3, <2>4
  <2> QED  BY <2>1, <2>5, LedgerLocal
<1>21. CASE BatchDone  BY <1>21, DoneLedger
<1>22. CASE ReturnPermission  BY <1>22, ReturnLedger
<1>23. CASE ReturnFail \/ Leave  BY <1>23, LedgerKept DEF ReturnFail, Leave
<1>24. CASE SendLeave  BY <1>24, LeaveLedger
<1>25. CASE BreakLink  BY <1>25, BreakLedger
<1> QED
  BY <1>1, <1>2, <1>3, <1>4, <1>5, <1>6, <1>7, <1>8, <1>9, <1>10, <1>11, <1>12, <1>13, <1>14, <1>15,
     <1>16, <1>17, <1>18, <1>19, <1>20, <1>21, <1>22, <1>23, <1>24, <1>25 DEF Next

\* Between two ends that run this code, and without sources in the items,
\* give_back never raises: what a consumer gives back is what its sender has in
\* flight (StreamCredit.give_back, "Both mean a broken peer").
THEOREM StreamPermission == ASSUME EnvelopeSize = 0 PROVE Spec => []PermissionIsOwed
<1>1. TypeOK /\ Ledger => PermissionIsOwed  BY LedgerOwed DEF PermissionIsOwed
<1>2. Init => TypeOK /\ Ledger  BY InitType, LedgerInit
<1>3. TypeOK /\ Ledger /\ [Next]_vars => TypeOK' /\ Ledger'  BY NextType, LedgerNext
<1> QED  BY <1>1, <1>2, <1>3, PTL DEF Spec

-----------------------------------------------------------------------------
(* The phases of a sender                                                   *)

\* The beginning.
LEMMA PhasesInit == Init => Phases /\ Unstopped
<1> SUFFICES ASSUME Init PROVE Phases /\ Unstopped  OBVIOUS
<1>1. ppc = "absent" /\ outcome = "none" /\ wpc = "absent" /\ up = <<UpMessage("request", 0, 0)>>  BY DEF Init
<1>2. buffer.done = FALSE /\ buffer.frames = <<>>  BY DEF Init
<1>3. credit.released = FALSE
  <2>1. credit = Credit(0, 0, FALSE, TRUE)  BY DEF Init
  <2> QED  BY <2>1 DEF Credit
<1>4. up[1].kind = "request" /\ Len(up) = 1  BY <1>1 DEF UpMessage
<1> QED  BY <1>1, <1>2, <1>3, <1>4 DEF Phases, Unstopped

\* A step that leaves the sender as it is, or loses the connection.
LEMMA PhasesKept ==
    ASSUME Phases, UNCHANGED <<ppc, outcome, wpc, buffer, packet>>, link' => link
    PROVE  Phases'
  BY DEF Phases

\* The end of the loop.
LEMMA LeaveLoopPhases ==
    ASSUME Phases, ppc \in {"produce", "waiting", "cancelled"}, NEW why, why # "none", LeaveLoop(why),
           UNCHANGED <<wpc, packet, link>>
    PROVE  Phases'
<1>1. ppc' = "flush" /\ outcome' = why  BY DEF LeaveLoop
<1>2. buffer'.done = TRUE /\ buffer'.frames = buffer.frames  BY DEF LeaveLoop, Finished
<1>3. ~buffer.done  BY DEF Phases
<1>4. link => wpc # "done"  BY <1>3 DEF Phases
<1> QED  BY <1>1, <1>2, <1>4 DEF Phases

\* spend and what follows it.
LEMMA SettlePhases ==
    ASSUME Phases, ppc \in {"produce", "waiting"}, NEW length, NEW coded, Settle(length, coded),
           UNCHANGED <<wpc, packet, link>>
    PROVE  Phases'
<1>1. CASE LeaveLoop("stop")  BY <1>1, LeaveLoopPhases
<1>2. CASE ppc' = "produce" /\ buffer' = Pushed(length, coded) /\ UNCHANGED <<outcome, hasCredit>>
  <2>1. buffer'.done = buffer.done  BY <1>2 DEF Pushed
  <2>2. ~buffer.done /\ wpc # "absent" /\ outcome = "none"  BY DEF Phases
  <2>3. link => wpc # "done" /\ wpc # "failed"  BY <2>2 DEF Phases
  <2> QED  BY <1>2, <2>1, <2>2, <2>3 DEF Phases
<1>3. CASE ppc' = "waiting" /\ UNCHANGED <<made, outcome, hasCredit, buffer>>  BY <1>3 DEF Phases
<1> QED  BY <1>1, <1>2, <1>3 DEF Settle

\* Every step keeps the phases.
LEMMA PhasesNext ==
    ASSUME TypeOK, Fresh, Places, Phases, [Next]_vars PROVE Phases'
<1> USE PhasesKept
<1>1. CASE UNCHANGED vars  BY <1>1 DEF vars
<1>2. CASE StartSender  BY <1>2 DEF StartSender, Phases
<1>3. CASE RefuseRequest
  <2>1. wpc = "absent"  BY <1>3 DEF RefuseRequest, Fresh
  <2>2. buffer.frames = <<>> /\ ~buffer.done  BY <1>3, <2>1 DEF RefuseRequest, Phases
  <2> QED  BY <1>3, <2>1, <2>2 DEF RefuseRequest, Phases
<1>4. CASE Produce
  <2>1. PICK length \in ItemSizes, coded \in {FALSE, ~known} :
            IF length > MAX_STREAM_ITEM
            THEN LeaveLoop("raise") /\ UNCHANGED <<made, credit>>
            ELSE Settle(length, coded)
    BY <1>4 DEF Produce
  <2>2. ppc = "produce" /\ UNCHANGED <<wpc, packet, link>>  BY <1>4 DEF Produce
  <2>3. LeaveLoop("raise") \/ Settle(length, coded)  BY <2>1
  <2> QED  BY <2>2, <2>3, LeaveLoopPhases, SettlePhases
<1>5. CASE Wake
  <2>1. ppc = "waiting" /\ UNCHANGED <<wpc, packet, link>> /\ Settle(waiting.length, waiting.coded)
    BY <1>5 DEF Wake
  <2> QED  BY <2>1, SettlePhases
<1>6. CASE Exhaust
  <2>1. PICK why \in {"end", "raise"} : LeaveLoop(why)  BY <1>6 DEF Exhaust
  <2>2. ppc = "produce" /\ UNCHANGED <<wpc, packet, link>>  BY <1>6 DEF Exhaust
  <2> QED  BY <2>1, <2>2, LeaveLoopPhases
<1>7. CASE CancelDelivered
  <2>1. PICK why \in {"cancel", "raise", "end"} : LeaveLoop(why)  BY <1>7 DEF CancelDelivered
  <2>2. ppc = "cancelled" /\ UNCHANGED <<wpc, packet, link>>  BY <1>7 DEF CancelDelivered
  <2> QED  BY <2>1, <2>2, LeaveLoopPhases
<1>8. CASE FlushDone  BY <1>8 DEF FlushDone, Phases
<1>9. CASE Respond  BY <1>9 DEF Respond, Phases
<1>10. CASE RespondFail  BY <1>10 DEF RespondFail, Phases
<1>11. CASE WriterTake
  <2>1. wpc = "wait" /\ UNCHANGED <<ppc, outcome, link>>  BY <1>11 DEF WriterTake
  <2>2. buffer'.frames = <<>> /\ buffer'.done = buffer.done  BY <1>11 DEF WriterTake
  <2>3. \/ wpc' = "write" /\ packet'.kind = "batch"
        \/ wpc' = "wait"
        \/ wpc' = "done" /\ buffer.done
    BY <1>11 DEF WriterTake, Batch
  <2> QED  BY <2>1, <2>2, <2>3 DEF Phases
<1>12. CASE WriterPut
  <2>1. wpc = "write" /\ UNCHANGED <<ppc, outcome, link, buffer>>  BY <1>12 DEF WriterPut
  <2>2. wpc' = "wait" \/ (wpc' = "done" /\ buffer.done /\ buffer.frames = <<>>)
    BY <1>12 DEF WriterPut, WriterNext
  <2> QED  BY <2>1, <2>2 DEF Phases
<1>13. CASE WriterFail  BY <1>13 DEF WriterFail, Phases
<1>14. CASE ReceiveUp
  <2>1. UNCHANGED <<outcome, wpc, buffer, packet, link>> /\ ~closedP /\ up # <<>>  BY <1>14 DEF ReceiveUp
  <2>2. CASE ppc' = "scheduled" /\ Head(up).kind = "request"
    <3>1. up \in Seq(UpPacket)  BY DEF TypeOK
    <3>2. 1 \in 1..Len(up) /\ Head(up) = up[1]  BY <2>1, <3>1
    <3>3. ppc = "absent"  BY <2>1, <2>2, <3>2 DEF Fresh
    <3> QED  BY <2>1, <2>2, <3>3 DEF Phases
  <2>3. CASE ppc' = ppc  BY <2>1, <2>3
  <2>4. CASE ppc' = "cancelled" /\ ppc \in {"produce", "waiting"}  BY <2>1, <2>4 DEF Phases
  <2> QED  BY <1>14, <2>2, <2>3, <2>4 DEF ReceiveUp, HandleStreamCredit, CancelProducer
<1>15. CASE LoseP  BY <1>15 DEF LoseP
<1>16. CASE CancelTasks
  <2>1. ~link  BY <1>16 DEF CancelTasks, Places
  <2> QED  BY <1>16, <2>1 DEF CancelTasks, Phases
<1>17. CASE ReceiveDown  BY <1>17 DEF ReceiveDown
<1>18. CASE HandleEnd  BY <1>18 DEF HandleEnd
<1>19. CASE LoseC  BY <1>19 DEF LoseC
<1>20. CASE Get  BY <1>20 DEF Get
<1>21. CASE YieldItem \/ BatchDone  BY <1>21 DEF YieldItem, BatchDone
<1>22. CASE ReturnPermission \/ ReturnFail  BY <1>22 DEF ReturnPermission, ReturnFail
<1>23. CASE Leave \/ SendLeave  BY <1>23 DEF Leave, SendLeave
<1>24. CASE BreakLink  BY <1>24 DEF BreakLink
<1> QED
  BY <1>1, <1>2, <1>3, <1>4, <1>5, <1>6, <1>7, <1>8, <1>9, <1>10, <1>11, <1>12, <1>13, <1>14, <1>15,
     <1>16, <1>17, <1>18, <1>19, <1>20, <1>21, <1>22, <1>23, <1>24 DEF Next

\* A step that stops nobody: the consumer may leave and the connection may drop.
LEMMA UnstoppedKept ==
    ASSUME Unstopped, UNCHANGED <<up, credit>>, cpc' \in ConsumerOpen => cpc \in ConsumerOpen,
           link' => link, ppc' = "cancelled" => ppc = "cancelled",
           outcome' \in {"stop", "cancel"} =>
               outcome = outcome' \/ credit.released \/ ppc = "cancelled"
    PROVE  Unstopped'
  BY DEF Unstopped

\* spend looks at the release before it pays.
LEMMA SettleUnstopped ==
    ASSUME TypeOK, Unstopped, NEW length, NEW coded, Settle(length, coded), UNCHANGED <<up, link, cpc>>
    PROVE  Unstopped'
<1>1. CASE credit.released /\ LeaveLoop("stop") /\ UNCHANGED <<made, credit>>
  BY <1>1, UnstoppedKept DEF LeaveLoop
<1>2. CASE ppc' = "produce" /\ credit' = Spent(Price(length)) /\ UNCHANGED <<outcome, hasCredit>>
  <2>1. credit'.released = credit.released  BY <1>2 DEF Spent, Credit
  <2> QED  BY <1>2, <2>1 DEF Unstopped
<1>3. CASE ppc' = "waiting" /\ credit' = [credit EXCEPT !.ready = FALSE] /\ UNCHANGED <<made, outcome, hasCredit, buffer>>
  <2>1. credit'.released = credit.released  BY <1>3 DEF TypeOK, CreditType
  <2> QED  BY <1>3, <2>1 DEF Unstopped
<1> QED  BY <1>1, <1>2, <1>3 DEF Settle

\* A release on a connection that is gone.
LEMMA LostUnstopped ==
    ASSUME Unstopped, ~link, UNCHANGED <<up, link, cpc>>
    PROVE  Unstopped'
  BY DEF Unstopped

\* Only a consumer that left sends the notice that cancels the sender, and the
\* permission that arrives was owed.
LEMMA ReceiveUpUnstopped ==
    ASSUME TypeOK, Ledger, Unstopped, ReceiveUp PROVE Unstopped'
<1>1. UNCHANGED <<outcome, link, cpc>> /\ up # <<>> /\ up' = Tail(up)  BY DEF ReceiveUp
<1>2. up \in Seq(UpPacket)  BY DEF TypeOK
<1>3. /\ Len(up') = Len(up) - 1 /\ Len(up) \in Nat /\ 1 \in 1..Len(up) /\ Head(up) = up[1]
      /\ \A k \in 1..(Len(up) - 1) : up'[k] = up[k+1] /\ k + 1 \in 1..Len(up)
  BY <1>1, <1>2
<1>4. \A k \in 1..Len(up') : up'[k].kind = "leave" => cpc' \notin ConsumerOpen
  BY <1>1, <1>3 DEF Unstopped
<1>5. CASE Head(up).kind = "leave"
  <2>1. cpc \notin ConsumerOpen  BY <1>3, <1>5 DEF Unstopped
  <2> QED  BY <1>1, <1>4, <2>1 DEF Unstopped
<1>6. CASE Head(up).kind # "leave"
  <2>1. ppc' # "cancelled" \/ ppc' = ppc  BY <1>6 DEF ReceiveUp, HandleStreamCredit
  <2>2. credit'.released = credit.released
    <3>1. CASE credit' = credit  BY <3>1
    <3>2. CASE credit' = GiveBack(Head(up).size, Head(up).count)
      <4>1. Head(up).size <= credit.bytes /\ Head(up).count <= credit.items  BY <1>1, LedgerOwed
      <4>2. credit.bytes \in Nat /\ credit.items \in Nat  BY LedgerTypes
      <4>3. Head(up) \in UpPacket  BY <1>1, <1>2
      <4>4. Head(up).size \in Nat /\ Head(up).count \in Nat  BY <4>3 DEF UpPacket
      <4>5. ~(Head(up).size > credit.bytes \/ Head(up).count > credit.items)  BY <4>1, <4>2, <4>4
      <4> QED  BY <3>2, <4>5 DEF GiveBack, Credit
    <3> QED  BY <1>6, <3>1, <3>2 DEF ReceiveUp, HandleStreamCredit
  <2> QED  BY <1>1, <1>4, <2>1, <2>2 DEF Unstopped
<1> QED  BY <1>5, <1>6

\* Every step keeps the methods of consumers that read from being stopped.
LEMMA UnstoppedNext ==
    ASSUME TypeOK, Ledger, Unstopped, [Next]_vars PROVE Unstopped'
<1> USE UnstoppedKept
<1>1. CASE UNCHANGED vars  BY <1>1 DEF vars
<1>2. CASE StartSender  BY <1>2 DEF StartSender
<1>3. CASE RefuseRequest  BY <1>3 DEF RefuseRequest
<1>4. CASE Produce
  <2>1. PICK length \in ItemSizes, coded \in {FALSE, ~known} :
            IF length > MAX_STREAM_ITEM
            THEN LeaveLoop("raise") /\ UNCHANGED <<made, credit>>
            ELSE Settle(length, coded)
    BY <1>4 DEF Produce
  <2>2. UNCHANGED <<up, link, cpc>>  BY <1>4 DEF Produce
  <2>3. CASE LeaveLoop("raise") /\ UNCHANGED <<made, credit>>  BY <2>2, <2>3 DEF LeaveLoop
  <2>4. CASE Settle(length, coded)  BY <2>2, <2>4, SettleUnstopped
  <2> QED  BY <2>1, <2>3, <2>4
<1>5. CASE Wake
  <2>1. UNCHANGED <<up, link, cpc>> /\ Settle(waiting.length, waiting.coded)  BY <1>5 DEF Wake
  <2> QED  BY <2>1, SettleUnstopped
<1>6. CASE Exhaust  BY <1>6 DEF Exhaust, LeaveLoop
<1>7. CASE CancelDelivered  BY <1>7 DEF CancelDelivered, LeaveLoop
<1>8. CASE FlushDone  BY <1>8 DEF FlushDone
<1>9. CASE Respond  BY <1>9 DEF Respond
<1>10. CASE RespondFail  BY <1>10, LostUnstopped DEF RespondFail
<1>11. CASE WriterTake  BY <1>11 DEF WriterTake
<1>12. CASE WriterPut \/ WriterFail  BY <1>12 DEF WriterPut, WriterFail
<1>13. CASE ReceiveUp  BY <1>13, ReceiveUpUnstopped
<1>14. CASE LoseP  BY <1>14, LostUnstopped DEF LoseP
<1>15. CASE CancelTasks  BY <1>15 DEF CancelTasks
<1>16. CASE ReceiveDown  BY <1>16 DEF ReceiveDown
<1>17. CASE HandleEnd \/ LoseC  BY <1>17 DEF HandleEnd, LoseC
<1>18. CASE Get
  <2>1. cpc \in ConsumerOpen /\ UNCHANGED <<up, credit, ppc, outcome, link>>  BY <1>18 DEF Get, ConsumerOpen
  <2> QED  BY <2>1
<1>19. CASE YieldItem  BY <1>19 DEF YieldItem
<1>20. CASE BatchDone
  <2>1. cpc \in ConsumerOpen /\ UNCHANGED <<up, credit, ppc, outcome, link>>  BY <1>20 DEF BatchDone, ConsumerOpen
  <2> QED  BY <2>1
<1>21. CASE ReturnPermission
  <2> DEFINE e == UpMessage("credit", owed.bytes, owed.items)
  <2>1. UNCHANGED <<credit, ppc, outcome, link>> /\ cpc \in ConsumerOpen /\ (up' = up \/ up' = Append(up, e))
    BY <1>21 DEF ReturnPermission, Write, ConsumerOpen
  <2>2. e.kind # "leave"  BY DEF UpMessage
  <2> HIDE DEF e
  <2>3. up \in Seq(UpPacket)  BY DEF TypeOK
  <2>4. \A k \in 1..Len(up') : up'[k].kind = "leave" => k \in 1..Len(up) /\ up'[k] = up[k]  BY <2>1, <2>2, <2>3
  <2> QED  BY <2>1, <2>4 DEF Unstopped
<1>22. CASE ReturnFail \/ Leave
  <2>1. UNCHANGED <<up, credit, ppc, outcome, link>> /\ cpc' \notin ConsumerOpen
    BY <1>22 DEF ReturnFail, Leave, Unregister, ConsumerOpen
  <2> QED  BY <2>1
<1>23. CASE SendLeave
  <2>1. UNCHANGED <<credit, ppc, outcome, link>> /\ cpc' \notin ConsumerOpen
    BY <1>23 DEF SendLeave, ConsumerOpen
  <2> QED  BY <2>1 DEF Unstopped
<1>24. CASE BreakLink
  <2>1. UNCHANGED <<cpc, credit, ppc, outcome>> /\ ~link'  BY <1>24 DEF BreakLink
  <2>2. PICK n \in 0..Len(up) : up' = SubSeq(up, 1, n)  BY <1>24 DEF BreakLink
  <2>3. up \in Seq(UpPacket)  BY DEF TypeOK
  <2>4. \A k \in 1..Len(up') : k \in 1..Len(up) /\ up'[k] = up[k]  BY <2>2, <2>3
  <2> QED  BY <2>1, <2>4 DEF Unstopped
<1> QED
  BY <1>1, <1>2, <1>3, <1>4, <1>5, <1>6, <1>7, <1>8, <1>9, <1>10, <1>11, <1>12, <1>13, <1>14, <1>15,
     <1>16, <1>17, <1>18, <1>19, <1>20, <1>21, <1>22, <1>23, <1>24 DEF Next

-----------------------------------------------------------------------------
(* The response that ends the stream                                        *)

\* No packets: the run ends where it starts.
LEMMA RunsNothing ==
    ASSUME NEW a, NEW b, NEW m \in Nat, Runs(<<>>, a, b, m) PROVE a = b
  BY DEF Runs, Positions

\* What is in front of an entry does not change when another joins the queue,
\* and loses its first entry when the queue does.
LEMMA FrontSteps ==
    ASSUME NEW w \in Seq(DownPacket)
    PROVE  /\ \A e \in DownPacket : \A n \in 0..Len(w) : SubSeq(Append(w, e), 1, n) = SubSeq(w, 1, n)
           /\ SubSeq(w, 1, Len(w)) = w
           /\ w # <<>> => \A k \in 1..(Len(w) - 1) :
                /\ SubSeq(w, 1, k) \in Seq(DownPacket) /\ SubSeq(w, 1, k) # <<>>
                /\ Head(SubSeq(w, 1, k)) = Head(w)
                /\ Tail(SubSeq(w, 1, k)) = SubSeq(Tail(w), 1, k - 1)
<1>1. ASSUME NEW e \in DownPacket, NEW n \in 0..Len(w)
      PROVE  SubSeq(Append(w, e), 1, n) = SubSeq(w, 1, n)
  <2> DEFINE s == SubSeq(Append(w, e), 1, n)
             t == SubSeq(w, 1, n)
  <2>1. Append(w, e) \in Seq(DownPacket) /\ Len(Append(w, e)) = Len(w) + 1 /\ n \in Nat /\ Len(w) \in Nat  OBVIOUS
  <2>2. \A i \in 1..n : i \in 1..Len(w) /\ i \in 1..(Len(w) + 1) /\ Append(w, e)[i] = w[i]  BY <2>1
  <2>3. s \in Seq(DownPacket) /\ Len(s) = n /\ \A i \in 1..n : s[i] = Append(w, e)[i]  BY <2>1, <2>2
  <2>4. t \in Seq(DownPacket) /\ Len(t) = n /\ \A i \in 1..n : t[i] = w[i]  BY <2>1, <2>2
  <2> HIDE DEF s, t
  <2>5. \A i \in 1..Len(s) : s[i] = t[i]  BY <2>2, <2>3, <2>4
  <2>6. s = t  BY <2>3, <2>4, <2>5, SeqEqual
  <2> QED  BY <2>6 DEF s, t
<1>2. SubSeq(w, 1, Len(w)) = w
  <2> DEFINE t == SubSeq(w, 1, Len(w))
  <2>1. t \in Seq(DownPacket) /\ Len(t) = Len(w) /\ \A i \in 1..Len(w) : t[i] = w[i]  OBVIOUS
  <2> HIDE DEF t
  <2>2. t = w  BY <2>1, SeqEqual
  <2> QED  BY <2>2 DEF t
<1>3. ASSUME w # <<>>, NEW k \in 1..(Len(w) - 1)
      PROVE  /\ SubSeq(w, 1, k) \in Seq(DownPacket) /\ SubSeq(w, 1, k) # <<>>
             /\ Head(SubSeq(w, 1, k)) = Head(w)
             /\ Tail(SubSeq(w, 1, k)) = SubSeq(Tail(w), 1, k - 1)
  <2> DEFINE s == SubSeq(w, 1, k)
             v == Tail(w)
             t == SubSeq(v, 1, k - 1)
  <2>1. Len(w) \in Nat /\ k \in 1..Len(w) /\ k \in Nat /\ k - 1 \in Nat /\ \A i \in 1..k : i \in 1..Len(w)
    OBVIOUS
  <2>2. s \in Seq(DownPacket) /\ Len(s) = k /\ \A i \in 1..k : s[i] = w[i]  BY <2>1
  <2>3. v \in Seq(DownPacket) /\ Len(v) = Len(w) - 1 /\ \A i \in 1..(Len(w) - 1) : v[i] = w[i+1]  BY <1>3
  <2> HIDE DEF v
  <2>4. k - 1 \in 0..Len(v) /\ \A i \in 1..(k-1) : i \in 1..Len(v) /\ i + 1 \in 1..k  BY <2>1, <2>3
  <2>5. t \in Seq(DownPacket) /\ Len(t) = k - 1 /\ \A i \in 1..(k-1) : t[i] = v[i]  BY <2>3, <2>4
  <2> HIDE DEF s, t
  <2>6. s # <<>> /\ Head(s) = Head(w)
    <3>1. s # <<>>  BY <2>1, <2>2
    <3>2. Head(s) = s[1] /\ Head(w) = w[1] /\ 1 \in 1..k  BY <1>3, <2>1, <2>2
    <3> QED  BY <2>2, <3>1, <3>2
  <2>7. Tail(s) \in Seq(DownPacket) /\ Len(Tail(s)) = k - 1 /\ \A i \in 1..(k-1) : Tail(s)[i] = s[i+1]
    BY <2>2, <2>6
  <2>8. \A i \in 1..(k-1) : Tail(s)[i] = t[i]
    <3>1. ASSUME NEW i \in 1..(k-1) PROVE Tail(s)[i] = t[i]
      <4>1. i + 1 \in 1..k /\ i \in 1..(Len(w) - 1)  BY <2>3, <2>4
      <4>2. Tail(s)[i] = w[i+1]  BY <2>2, <2>7, <4>1
      <4>3. t[i] = w[i+1]  BY <2>3, <2>5, <4>1
      <4> QED  BY <4>2, <4>3
    <3> QED  BY <3>1
  <2>9. Tail(s) = t  BY <2>5, <2>7, <2>8, SeqEqual
  <2> QED  BY <2>2, <2>6, <2>9 DEF s, t, v
<1> QED  BY <1>1, <1>2, <1>3

\* There is no response yet.
LEMMA EndsEarly ==
    ASSUME Ends, ppc # "done", UNCHANGED <<down, queue, ending, over>>
    PROVE  Ends' /\ Complete'
<1>1. /\ \A k \in 1..Len(down) : down[k].kind = "batch"
      /\ ~ending
      /\ \A k \in 1..Len(queue) : queue[k].kind \notin {"ended", "raised"}
  BY DEF Ends
<1>2. Ends'  BY <1>1 DEF Ends
<1>3. Complete'  BY <1>1 DEF Complete
<1> QED  BY <1>2, <1>3

\* Nothing moves between the wire and the hands of the consumer.
LEMMA EndsKept ==
    ASSUME Ends, Complete, UNCHANGED <<down, queue, ending, ppc, outcome, made, over>>, At' = At,
           registered' => registered
    PROVE  Ends' /\ Complete'
<1>1. Ends'  BY DEF Ends, Says
<1>2. Accepting' => Accepting  BY DEF Accepting
<1>3. Complete'  BY <1>2 DEF Complete
<1> QED  BY <1>1, <1>3

\* The beginning.
LEMMA EndInit == Init => EndInv
<1> SUFFICES ASSUME Init PROVE EndInv  OBVIOUS
<1>1. down = <<>> /\ queue = <<>> /\ ~ending /\ ~over  BY DEF Init
<1>2. Ends  BY <1>1 DEF Ends
<1>3. Complete  BY <1>1 DEF Complete
<1> QED  BY <1>2, <1>3, PhasesInit DEF EndInv

\* _send_response: the writer has sent what gathered, so the response follows
\* the last item; and nobody stopped the method.
LEMMA RespondEnds ==
    ASSUME TypeOK, OrderInv, EndInv, cpc \in ConsumerOpen, Respond
    PROVE  Ends' /\ Complete'
<1>1. /\ ppc = "respond" /\ ppc' = "done"
      /\ UNCHANGED <<made, outcome, queue, ending, over, registered, delivered, hand>>
      /\ down' = Write(down, Notice(ResponseKind))
  BY DEF Respond
<1>2. Ends /\ Phases /\ Unstopped /\ Flow /\ Places  BY DEF EndInv, OrderInv
<1>3. CASE ~link
  <2>1. down' = down  BY <1>1, <1>3 DEF Write
  <2> QED  BY <1>1, <1>2, <2>1, EndsEarly
<1>4. CASE link
  <2>0. PICK kind : kind = ResponseKind  OBVIOUS
  <2> DEFINE e == Notice(kind)
  <2>1. down' = Append(down, e)  BY <1>1, <1>4, <2>0 DEF Write
  <2>2. e \in DownPacket /\ e.items = <<>> /\ e.kind = kind
    <3>1. kind \in DownKinds  BY <2>0 DEF ResponseKind, DownKinds
    <3> QED  BY <3>1, NoticeType DEF Notice
  <2>3. kind \in {"ended", "raised"} /\ Says(kind)
    <3>1. outcome \notin {"stop", "cancel"}  BY <1>2, <1>4 DEF Unstopped
    <3>2. outcome # "none"  BY <1>1, <1>2 DEF Phases
    <3>3. outcome \in {"end", "raise"}  BY <3>1, <3>2 DEF TypeOK, Outcomes
    <3> QED  BY <2>0, <3>3 DEF ResponseKind, Says
  <2>4. /\ \A k \in 1..Len(down) : down[k].kind = "batch"
        /\ ~ending
        /\ \A k \in 1..Len(queue) : queue[k].kind \notin {"ended", "raised"}
    BY <1>1, <1>2 DEF Ends
  <2> HIDE DEF e
  <2>5. down \in Seq(DownPacket) /\ queue \in Seq(DownPacket) /\ made \in Nat  BY DEF TypeOK
  <2>6. /\ Len(down') = Len(down) + 1 /\ Len(down) \in Nat /\ down'[Len(down) + 1] = e
        /\ \A k \in 1..Len(down) : down'[k] = down[k]
    BY <2>1, <2>2, <2>5
  <2>7. \A k \in 1..Len(down') : down'[k].kind # "batch" => k = Len(down') /\ down'[k] = e
    <3>1. \A k \in 1..(Len(down) + 1) : k \in 1..Len(down) \/ k = Len(down) + 1  BY <2>6
    <3> QED  BY <2>4, <2>6, <3>1
  <2>8. Ends'
    <3>1. (kind = "ended" /\ outcome' = "end") \/ (kind = "raised" /\ outcome' = "raise")
      BY <1>1, <2>3 DEF Says
    <3>2. \A k \in 1..Len(down') : down'[k].kind # "batch" => k = Len(down') /\ ppc' = "done" /\ Says(down[k].kind)'
      BY <1>1, <2>2, <2>7, <3>1 DEF Says
    <3>3. over' => \E k \in 1..Len(queue') : queue'[k].kind # "batch"  BY <1>1, <1>2 DEF Ends
    <3> QED  BY <1>1, <2>4, <3>2, <3>3 DEF Ends
  <2>9. ASSUME Accepting PROVE \E b \in 0..made : Runs(queue, At, b, made) /\ Runs(down', b, made, made)
    <3>1. PICK b, c, d \in 0..made :
              /\ Runs(queue, Len(delivered) + Len(hand.items), b, made)
              /\ Accepting => Runs(down, b, c, made)
              /\ Accepting /\ link => Run(packet.items, c, d) /\ Run(buffer.frames, d, made)
      BY <1>2 DEF Flow
    <3>2. wpc \in {"done", "absent"}  BY <1>1, <1>2, <1>4 DEF Phases
    <3>3. packet.items = <<>>  BY <1>2, <3>2 DEF Places
    <3>4. buffer.frames = <<>>  BY <1>2, <1>4, <3>2 DEF Phases
    <3>5. c = d /\ d = made  BY <1>4, <2>5, <2>9, <3>1, <3>3, <3>4, RunEmpty
    <3>6. Runs(down, b, made, made)  BY <2>9, <3>1, <3>5
    <3>7. Runs(Append(down, e), b, made, made)  BY <2>2, <2>5, <3>6, RunsNotice
    <3> QED  BY <2>1, <3>1, <3>7 DEF At
  <2>10. Complete'
    <3>1. At' = At /\ Accepting' = Accepting  BY <1>1 DEF At, Accepting
    <3> QED  BY <1>1, <2>4, <2>9, <3>1 DEF Complete
  <2> QED  BY <2>8, <2>10
<1> QED  BY <1>3, <1>4

\* write: while there are items to write there is no response yet.
LEMMA PutEnds ==
    ASSUME TypeOK, EndInv, cpc \in ConsumerOpen, WriterPut PROVE Ends' /\ Complete'
<1>1. /\ wpc = "write" /\ down' = Write(down, packet)
      /\ UNCHANGED <<ppc, outcome, made, queue, ending, over, registered, delivered, hand, link>>
  BY DEF WriterPut
<1>2. Ends /\ Complete /\ Phases  BY DEF EndInv
<1>3. CASE ~link
  <2>1. down' = down  BY <1>1, <1>3 DEF Write
  <2> QED  BY <1>1, <1>2, <2>1, EndsKept DEF At
<1>4. CASE link
  <2>1. down' = Append(down, packet) /\ packet.kind = "batch" /\ ppc # "done"
    BY <1>1, <1>2, <1>4 DEF Write, Phases
  <2>2. /\ \A k \in 1..Len(down) : down[k].kind = "batch"
        /\ ~ending
        /\ \A k \in 1..Len(queue) : queue[k].kind \notin {"ended", "raised"}
    BY <1>2, <2>1 DEF Ends
  <2>3. down \in Seq(DownPacket) /\ packet \in DownPacket  BY DEF TypeOK
  <2>4. \A k \in 1..Len(down') : down'[k].kind = "batch"
    <3>1. /\ Len(down') = Len(down) + 1 /\ Len(down) \in Nat /\ down'[Len(down) + 1] = packet
          /\ \A k \in 1..Len(down) : down'[k] = down[k]
      BY <2>1, <2>3
    <3>2. \A k \in 1..(Len(down) + 1) : k \in 1..Len(down) \/ k = Len(down) + 1  BY <3>1
    <3> QED  BY <2>1, <2>2, <3>1, <3>2
  <2>5. Ends'  BY <1>1, <1>2, <2>2, <2>4 DEF Ends
  <2>6. Complete'  BY <1>1, <2>2, <2>4 DEF Complete
  <2> QED  BY <2>5, <2>6
<1> QED  BY <1>3, <1>4

\* The response reaches the queue, behind all that the method made.
LEMMA PutFinalEnds ==
    ASSUME TypeOK, NEW entry \in DownPacket, entry.kind \in {"ended", "raised"}, PutFinal(entry),
           Says(entry.kind), ppc = "done", down' = <<>>, ~ending',
           \A k \in 1..Len(queue) : queue[k].kind \notin {"ended", "raised"},
           over => \E k \in 1..Len(queue) : queue[k].kind # "batch",
           Accepting => Runs(queue, At, made, made),
           UNCHANGED <<ppc, outcome, made, over, registered, delivered, hand>>
    PROVE  Ends' /\ Complete'
<1>1. queue \in Seq(DownPacket)  BY DEF TypeOK
<1>2. At' = At /\ Accepting' = Accepting  BY DEF At, Accepting
<1>4. CASE queue' = queue
  <2>1. Ends'  BY <1>4 DEF Ends
  <2>2. Complete'  BY <1>4 DEF Complete
  <2> QED  BY <2>1, <2>2
<1>5. CASE queue' = Append(queue, entry) /\ registered
  <2> DEFINE L == Len(queue)
  <2>1. /\ Len(queue') = L + 1 /\ L \in Nat /\ queue'[L+1] = entry
        /\ \A k \in 1..L : queue'[k] = queue[k]
    BY <1>1, <1>5
  <2>2. \A k \in 1..(L+1) : k \in 1..L \/ k = L + 1  BY <2>1
  <2>3. \A k \in 1..(L+1) : queue'[k].kind \in {"ended", "raised"} => k = L + 1 /\ queue'[k] = entry
    BY <2>1, <2>2
  <2>4. Ends'
    <3>1. Says(entry.kind)'  BY DEF Says
    <3>2. over' => \E k \in 1..Len(queue') : queue'[k].kind # "batch"
      <4>1. \A k \in 1..L : k \in 1..(L+1)  BY <2>1
      <4> QED  BY <2>1, <4>1
    <3> QED  BY <2>1, <2>3, <3>1, <3>2 DEF Ends, Says
  <2>5. ASSUME NEW k \in 1..Len(queue'), queue'[k].kind \in {"ended", "raised"},
               \A j \in 1..(k-1) : queue'[j].kind = "batch"
        PROVE  Runs(SubSeq(queue', 1, k-1), At, made, made)
    <3>1. k - 1 = L  BY <2>1, <2>3, <2>5
    <3>2. ~over  BY <2>1, <2>5, <3>1
    <3>3. Runs(queue, At, made, made)  BY <1>5, <3>2 DEF Accepting
    <3>4. L \in 0..L  BY <2>1
    <3>5. SubSeq(queue', 1, L) = SubSeq(queue, 1, L)  BY <1>1, <1>5, <3>4, FrontSteps
    <3>6. SubSeq(queue, 1, L) = queue  BY <1>1, FrontSteps
    <3> QED  BY <3>1, <3>3, <3>5, <3>6
  <2>6. Complete'  BY <1>2, <2>5 DEF Complete
  <2> QED  BY <2>4, <2>6
<1> QED  BY <1>4, <1>5 DEF PutFinal

\* The receive loop: batches pass into the queue, and the response into the
\* hands of its task or into the queue, as the last packet of the wire.
LEMMA ReceiveEnds ==
    ASSUME TypeOK, OrderInv, EndInv, cpc \in ConsumerOpen, ReceiveDown
    PROVE  Ends' /\ Complete'
<1> DEFINE e == Head(down)
           L == Len(down)
<1>1. /\ down # <<>> /\ down' = Tail(down)
      /\ UNCHANGED <<ppc, outcome, made, registered, delivered, hand>>
  BY DEF ReceiveDown
<1>2. Ends /\ Complete /\ Plain(down)  BY DEF EndInv, OrderInv, Places
<1>3. down \in Seq(DownPacket) /\ queue \in Seq(DownPacket) /\ made \in Nat  BY DEF TypeOK
<1>4. /\ e \in DownPacket /\ L \in Nat /\ L > 0 /\ e = down[1] /\ 1 \in 1..L /\ Len(down') = L - 1
      /\ \A k \in 1..(L-1) : down'[k] = down[k+1] /\ k + 1 \in 1..L
  BY <1>1, <1>3
<1>5. ~ending /\ \A k \in 1..Len(queue) : queue[k].kind \notin {"ended", "raised"}
  BY <1>1, <1>2 DEF Ends
<1>6. At' = At  BY <1>1 DEF At
<1> HIDE DEF e
<1>7. CASE e.kind = "batch"
  <2>1. HandleStreamItem(e) /\ UNCHANGED ending  BY <1>7 DEF ReceiveDown, e
  <2>2. \A k \in 1..Len(down') : down'[k].kind # "batch" => k = Len(down') /\ ppc = "done" /\ Says(down'[k].kind)
    BY <1>2, <1>4 DEF Ends
  <2>3. \/ queue' = queue /\ over' = over /\ (~registered \/ over)
        \/ queue' = Append(queue, Notice("refused")) /\ over' = TRUE
        \/ queue' = Append(queue, e) /\ over' = over
    BY <2>1 DEF HandleStreamItem
  <2>4. \A k \in 1..Len(queue') : queue'[k].kind \notin {"ended", "raised"}
    <3>1. CASE queue' = queue  BY <1>5, <3>1
    <3>2. ASSUME NEW f \in DownPacket, f.kind \notin {"ended", "raised"}, queue' = Append(queue, f)
          PROVE  \A k \in 1..Len(queue') : queue'[k].kind \notin {"ended", "raised"}
      <4>1. /\ Len(queue') = Len(queue) + 1 /\ Len(queue) \in Nat /\ queue'[Len(queue) + 1] = f
            /\ \A k \in 1..Len(queue) : queue'[k] = queue[k]
        BY <1>3, <3>2
      <4>2. \A k \in 1..(Len(queue) + 1) : k \in 1..Len(queue) \/ k = Len(queue) + 1  BY <4>1
      <4> QED  BY <1>5, <3>2, <4>1, <4>2
    <3>3. Notice("refused") \in DownPacket /\ Notice("refused").kind = "refused"
      <4>1. "refused" \in DownKinds  BY DEF DownKinds
      <4> QED  BY <4>1, NoticeType DEF Notice
    <3> QED  BY <1>4, <1>7, <2>3, <3>1, <3>2, <3>3
  <2>5. over' => \E k \in 1..Len(queue') : queue'[k].kind # "batch"
    <3>1. CASE queue' = queue /\ over' = over  BY <1>2, <3>1 DEF Ends
    <3>2. CASE queue' = Append(queue, Notice("refused"))
      <4>1. "refused" \in DownKinds  BY DEF DownKinds
      <4>2. Notice("refused") \in DownPacket /\ Notice("refused").kind = "refused"  BY <4>1, NoticeType DEF Notice
      <4>3. Len(queue) + 1 \in 1..Len(queue') /\ queue'[Len(queue) + 1] = Notice("refused")
        BY <1>3, <3>2, <4>2
      <4>4. queue'[Len(queue) + 1].kind # "batch"  BY <4>2, <4>3
      <4> QED  BY <4>3, <4>4
    <3>3. CASE queue' = Append(queue, e) /\ over' = over
      <4>1. \A k \in 1..Len(queue) : k \in 1..Len(queue') /\ queue'[k] = queue[k]  BY <1>3, <1>4, <3>3
      <4> QED  BY <1>2, <3>3, <4>1 DEF Ends
    <3> QED  BY <2>3, <3>1, <3>2, <3>3
  <2>6. Ends'
    <3>1. \A k \in 1..Len(down') : down'[k].kind # "batch" => k = Len(down') /\ ppc' = "done" /\ Says(down[k].kind)'
      BY <1>1, <2>2 DEF Says
    <3> QED  BY <1>5, <2>1, <2>4, <2>5, <3>1 DEF Ends
  <2>7. ASSUME Accepting', NEW k \in 1..Len(down'), down'[k].kind # "batch"
        PROVE  \E b \in 0..made : Runs(queue', At, b, made) /\ Runs(down', b, made, made)
    <3>1. Accepting /\ queue' = Append(queue, e)  BY <1>1, <2>3, <2>7 DEF Accepting
    <3>2. k + 1 \in 1..L /\ down[k+1].kind # "batch"  BY <1>4, <2>7
    <3>3. PICK b \in 0..made : Runs(queue, At, b, made) /\ Runs(down, b, made, made)
      BY <1>2, <3>1, <3>2 DEF Complete
    <3>4. PICK c \in 0..made : Run(e.items, b, c) /\ Runs(down', c, made, made)
      BY <1>1, <1>3, <3>3, RunsTail DEF e
    <3>5. Runs(queue', At, c, made)  BY <1>3, <1>4, <3>1, <3>3, <3>4, RunsAppend
    <3> QED  BY <3>4, <3>5
  <2>8. Complete'  BY <1>1, <1>5, <1>6, <2>1, <2>4, <2>7 DEF Complete
  <2> QED  BY <2>6, <2>8
<1>8. CASE e.kind # "batch"
  <2>1. L = 1 /\ ppc = "done" /\ Says(e.kind)  BY <1>2, <1>4, <1>8 DEF Ends
  <2>2. down' = <<>>
    <3>1. Len(down') = 0 /\ down' \in Seq(DownPacket)  BY <1>1, <1>3, <1>4, <2>1
    <3> QED  BY <3>1
  <2>3. e.items = <<>>  BY <1>2, <1>4, <1>8 DEF Plain
  <2>4. Accepting => Runs(queue, At, made, made)
    <3> SUFFICES ASSUME Accepting PROVE Runs(queue, At, made, made)  OBVIOUS
    <3>1. PICK b \in 0..made : Runs(queue, At, b, made) /\ Runs(down, b, made, made)
      BY <1>2, <1>4, <1>8 DEF Complete
    <3>2. PICK c \in 0..made : Run(e.items, b, c) /\ Runs(down', c, made, made)
      BY <1>1, <1>3, <3>1, RunsTail DEF e
    <3>3. c = made  BY <1>3, <2>2, <3>2, RunsNothing
    <3>4. b = c  BY <1>3, <2>3, <3>2, RunEmpty
    <3> QED  BY <3>1, <3>3, <3>4
  <2>5. CASE e.kind = "ended"
    <3>1. ending' = TRUE /\ UNCHANGED <<queue, over>>  BY <2>5 DEF ReceiveDown, e
    <3>2. Says("ended")'  BY <1>1, <2>1, <2>5 DEF Says
    <3>3. Ends'  BY <1>1, <1>2, <1>5, <2>1, <2>2, <3>1, <3>2 DEF Ends
    <3>4. Accepting' = Accepting  BY <1>1, <3>1 DEF Accepting
    <3>5. Complete'
      <4>1. ~(\E k \in 1..Len(down') : down'[k].kind # "batch")  BY <2>2
      <4>2. Accepting' => Runs(queue', At', made', made')  BY <1>1, <1>6, <2>4, <3>1, <3>4
      <4>3. \A k \in 1..Len(queue') : queue'[k].kind \notin {"ended", "raised"}  BY <1>5, <3>1
      <4> QED  BY <4>1, <4>2, <4>3 DEF Complete
    <3> QED  BY <3>3, <3>5
  <2>6. CASE e.kind = "raised"
    <3>1. PutFinal(e) /\ UNCHANGED <<over, ending>>  BY <2>6 DEF ReceiveDown, e
    <3>2. over => \E k \in 1..Len(queue) : queue[k].kind # "batch"  BY <1>2 DEF Ends
    <3> QED  BY <1>1, <1>4, <1>5, <2>1, <2>2, <2>4, <2>6, <3>1, <3>2, PutFinalEnds
  <2> QED  BY <1>8, <2>5, <2>6 DEF ReceiveDown, e
<1> QED  BY <1>7, <1>8

\* The loss of the connection is reported behind what has arrived.
LEMMA LoseEnds ==
    ASSUME TypeOK, EndInv, cpc \in ConsumerOpen, LoseC PROVE Ends' /\ Complete'
<1> DEFINE f == Notice("lost")
           L == Len(queue)
<1>1. /\ UNCHANGED <<ppc, outcome, made, delivered, hand, ending, down>> /\ down = <<>>
      /\ ~over' /\ ~registered' /\ (queue' = queue \/ queue' = Append(queue, f))
  BY DEF LoseC, PutFinal
<1>2. Ends /\ Complete  BY DEF EndInv
<1>3. queue \in Seq(DownPacket) /\ f \in DownPacket /\ f.kind = "lost"
  <2>1. "lost" \in DownKinds  BY DEF DownKinds
  <2> QED  BY <2>1, NoticeType DEF TypeOK, Notice
<1>4. At' = At /\ ~Accepting'  BY <1>1 DEF At, Accepting
<1> HIDE DEF f
<1>5. ASSUME NEW k \in 1..Len(queue'), queue'[k].kind \in {"ended", "raised"}
      PROVE  /\ k \in 1..L /\ \A j \in 1..k : queue'[j] = queue[j]
             /\ SubSeq(queue', 1, k-1) = SubSeq(queue, 1, k-1)
  <2>1. CASE queue' = queue  BY <1>3, <1>5, <2>1
  <2>2. CASE queue' = Append(queue, f)
    <3>1. /\ Len(queue') = L + 1 /\ L \in Nat /\ queue'[L+1] = f
          /\ \A j \in 1..L : queue'[j] = queue[j]
      BY <1>3, <2>2
    <3>2. k \in 1..L  BY <1>3, <1>5, <3>1
    <3>3. k - 1 \in 0..L /\ \A j \in 1..k : j \in 1..L  BY <3>1, <3>2
    <3>4. SubSeq(queue', 1, k-1) = SubSeq(queue, 1, k-1)  BY <1>3, <2>2, <3>3, FrontSteps
    <3> QED  BY <3>1, <3>2, <3>3, <3>4
  <2> QED  BY <1>1, <2>1, <2>2
<1>6. \A k \in 1..Len(queue') : queue'[k].kind \in {"ended", "raised"} => k \in 1..L /\ queue'[k] = queue[k]
  <2>1. ASSUME NEW k \in 1..Len(queue'), queue'[k].kind \in {"ended", "raised"}
        PROVE  k \in 1..L /\ queue'[k] = queue[k]
    <3>1. k \in 1..L /\ k \in 1..k  BY <1>5, <2>1
    <3> QED  BY <1>5, <2>1, <3>1
  <2> QED  BY <2>1
<1>7. Ends'
  <2>1. ending' => down' = <<>> /\ ppc' = "done" /\ Says("ended")'  BY <1>1, <1>2 DEF Ends, Says
  <2>2. \A k \in 1..Len(queue') : queue'[k].kind \in {"ended", "raised"} =>
            down' = <<>> /\ ~ending' /\ ppc' = "done" /\ Says(queue[k].kind)'
    BY <1>1, <1>2, <1>6 DEF Ends, Says
  <2> QED  BY <1>1, <2>1, <2>2 DEF Ends
<1>8. ASSUME NEW k \in 1..Len(queue'), queue'[k].kind \in {"ended", "raised"},
             \A j \in 1..(k-1) : queue'[j].kind = "batch"
      PROVE  Runs(SubSeq(queue', 1, k-1), At, made, made)
  <2>1. k \in 1..L /\ queue[k].kind \in {"ended", "raised"}  BY <1>6, <1>8
  <2>2. \A j \in 1..(k-1) : j \in 1..k  OBVIOUS
  <2>3. \A j \in 1..(k-1) : queue[j].kind = "batch"  BY <1>5, <1>8, <2>2
  <2>4. Runs(SubSeq(queue, 1, k-1), At, made, made)  BY <1>2, <2>1, <2>3 DEF Complete
  <2> QED  BY <1>5, <1>8, <2>4
<1>9. Complete'  BY <1>1, <1>4, <1>8 DEF Complete
<1> QED  BY <1>7, <1>9

\* The consumer takes a batch: what is in front of the response gets shorter by
\* what it has in hand.
LEMMA GetEnds ==
    ASSUME TypeOK, OrderInv, EndInv, Get, cpc' \in ConsumerOpen PROVE Ends' /\ Complete'
<1> DEFINE e == Head(queue)
           L == Len(queue)
<1>1. /\ cpc = "get" /\ queue # <<>> /\ queue' = Tail(queue)
      /\ UNCHANGED <<ppc, outcome, made, down, ending, delivered>>
  BY DEF Get
<1>2. cpc \in ConsumerOpen  BY <1>1 DEF ConsumerOpen
<1>3. Ends /\ Complete  BY <1>2 DEF EndInv
<1>4. queue \in Seq(DownPacket) /\ made \in Nat /\ delivered \in Seq(Nat)  BY DEF TypeOK
<1>5. /\ e \in DownPacket /\ L \in Nat /\ L > 0 /\ e = queue[1] /\ 1 \in 1..L /\ Len(queue') = L - 1
      /\ queue' \in Seq(DownPacket)
      /\ \A k \in 1..(L-1) : queue'[k] = queue[k+1] /\ k + 1 \in 1..L
  BY <1>1, <1>4
<1>6. e.kind = "batch"
  <2> SUFFICES ASSUME e.kind # "batch" PROVE FALSE  OBVIOUS
  <2>1. cpc' = e.kind /\ e.kind \in DownKinds  BY <1>5 DEF Get, Unregister, DownPacket
  <2> QED  BY <2>1 DEF DownKinds, ConsumerOpen
<1>7. hand'.items = e.items /\ UNCHANGED <<registered, over>>  BY <1>6 DEF Get
<1>8. hand.items = <<>> /\ e.items \in Seq(Nat)  BY <1>1, <1>5 DEF OrderInv, Places, DownPacket
<1>9. At = Len(delivered) /\ At' = Len(delivered) + Len(e.items) /\ At \in Nat /\ Len(e.items) \in Nat
  BY <1>1, <1>4, <1>7, <1>8 DEF At
<1>10. ASSUME NEW w \in Seq(DownPacket), w # <<>>, Head(w) = e, NEW b, Runs(w, At, b, made)
       PROVE  Runs(Tail(w), At', b, made)
  <2>1. PICK c \in 0..made : Run(e.items, At, c) /\ Runs(Tail(w), c, b, made)  BY <1>4, <1>10, RunsTail
  <2>2. c = At'  BY <1>4, <1>9, <2>1 DEF Run
  <2> QED  BY <2>1, <2>2
<1>11. Accepting' = Accepting  BY <1>7 DEF Accepting
<1> HIDE DEF e
<1>12. Ends'
  <2>1. over' => \E k \in 1..Len(queue') : queue'[k].kind # "batch"
    <3> SUFFICES ASSUME over PROVE \E k \in 1..Len(queue') : queue'[k].kind # "batch"  BY <1>7
    <3>1. PICK k \in 1..L : queue[k].kind # "batch"  BY <1>3 DEF Ends
    <3>2. k # 1  BY <1>5, <1>6, <3>1
    <3>3. k - 1 \in 1..(L-1) /\ (k - 1) + 1 = k  BY <1>5, <3>1, <3>2
    <3>4. queue'[k-1] = queue[k]  BY <1>5, <3>3
    <3> QED  BY <1>5, <3>1, <3>3, <3>4
  <2>2. \A k \in 1..Len(queue') : queue'[k].kind \in {"ended", "raised"} =>
            down' = <<>> /\ ~ending' /\ ppc' = "done" /\ Says(queue[k].kind)'
    BY <1>1, <1>3, <1>5 DEF Ends, Says
  <2>3. /\ \A k \in 1..Len(down') : down'[k].kind # "batch" => k = Len(down') /\ ppc' = "done" /\ Says(down[k].kind)'
        /\ ending' => down' = <<>> /\ ppc' = "done" /\ Says("ended")'
    BY <1>1, <1>3 DEF Ends, Says
  <2> QED  BY <2>1, <2>2, <2>3 DEF Ends
<1>13. Complete'
  <2>1. ASSUME Accepting, \E k \in 1..Len(down) : down[k].kind # "batch"
        PROVE  \E b \in 0..made : Runs(queue', At', b, made) /\ Runs(down, b, made, made)
    <3>1. PICK b \in 0..made : Runs(queue, At, b, made) /\ Runs(down, b, made, made)  BY <1>3, <2>1 DEF Complete
    <3>2. Runs(Tail(queue), At', b, made)  BY <1>1, <1>4, <1>10, <3>1 DEF e
    <3> QED  BY <1>1, <3>1, <3>2
  <2>2. ASSUME Accepting, ending PROVE Runs(queue', At', made, made)
    <3>1. Runs(queue, At, made, made)  BY <1>3, <2>2 DEF Complete
    <3>2. Runs(Tail(queue), At', made, made)  BY <1>1, <1>4, <1>10, <3>1 DEF e
    <3> QED  BY <1>1, <3>2
  <2>3. ASSUME NEW k \in 1..Len(queue'), queue'[k].kind \in {"ended", "raised"},
               \A j \in 1..(k-1) : queue'[j].kind = "batch"
        PROVE  Runs(SubSeq(queue', 1, k-1), At', made, made)
    <3>1. k \in 1..(L-1) /\ k \in Nat /\ k + 1 \in 1..L /\ (k + 1) - 1 = k /\ queue[k+1].kind \in {"ended", "raised"}
      BY <1>5, <2>3
    <3>2. ASSUME NEW j \in 1..k PROVE queue[j].kind = "batch"
      <4>1. CASE j = 1  BY <1>5, <1>6, <4>1
      <4>2. CASE j # 1
        <5>1. j - 1 \in 1..(k-1) /\ j - 1 \in 1..(L-1) /\ (j - 1) + 1 = j  BY <1>5, <3>1, <4>2
        <5>2. queue'[j-1] = queue[j]  BY <1>5, <5>1
        <5> QED  BY <2>3, <5>1, <5>2
      <4> QED  BY <4>1, <4>2
    <3>3. Runs(SubSeq(queue, 1, k), At, made, made)
      <4>1. \A j \in 1..((k+1)-1) : queue[j].kind = "batch"  BY <3>1, <3>2
      <4>2. Runs(SubSeq(queue, 1, (k+1)-1), At, made, made)  BY <1>3, <3>1, <4>1 DEF Complete
      <4> QED  BY <3>1, <4>2
    <3>4. /\ SubSeq(queue, 1, k) \in Seq(DownPacket) /\ SubSeq(queue, 1, k) # <<>>
          /\ Head(SubSeq(queue, 1, k)) = e
          /\ Tail(SubSeq(queue, 1, k)) = SubSeq(queue', 1, k - 1)
      BY <1>1, <1>4, <3>1, FrontSteps DEF e
    <3>5. Runs(Tail(SubSeq(queue, 1, k)), At', made, made)  BY <1>10, <3>3, <3>4
    <3> QED  BY <3>4, <3>5
  <2> QED  BY <1>1, <1>11, <2>1, <2>2, <2>3 DEF Complete
<1> QED  BY <1>12, <1>13

\* What a connection that drops still delivers: the response only with all that
\* was in front of it.
LEMMA BreakEnds ==
    ASSUME TypeOK, EndInv, cpc \in ConsumerOpen, BreakLink PROVE Ends' /\ Complete'
<1>1. UNCHANGED <<ppc, outcome, made, queue, ending, over, registered, delivered, hand>>  BY DEF BreakLink
<1>2. PICK n \in 0..Len(down) : down' = SubSeq(down, 1, n)  BY DEF BreakLink
<1>3. Ends /\ Complete  BY DEF EndInv
<1>4. down \in Seq(DownPacket)  BY DEF TypeOK
<1>5. Len(down') = n /\ n \in Nat /\ Len(down) \in Nat /\ \A k \in 1..n : down'[k] = down[k] /\ k \in 1..Len(down)
  BY <1>2, <1>4
<1>6. ASSUME NEW k \in 1..n, down[k].kind # "batch" PROVE k = Len(down) /\ n = Len(down) /\ down' = down
  <2>1. k = Len(down)  BY <1>3, <1>5, <1>6 DEF Ends
  <2>2. n = Len(down)  BY <1>5, <2>1
  <2>3. down' = down  BY <1>2, <1>4, <2>2, FrontSteps
  <2> QED  BY <2>1, <2>2, <2>3
<1>7. CASE \E k \in 1..n : down[k].kind # "batch"
  <2>1. down' = down  BY <1>6, <1>7
  <2> QED  BY <1>1, <1>3, <2>1, EndsKept DEF At
<1>8. CASE \A k \in 1..n : down[k].kind = "batch"
  <2>1. \A k \in 1..Len(down') : down'[k].kind = "batch"  BY <1>5, <1>8
  <2>2. down = <<>> => down' = <<>>
    <3> SUFFICES ASSUME down = <<>> PROVE down' = <<>>  OBVIOUS
    <3>1. n = 0 /\ SubSeq(down, 1, Len(down)) = down  BY <1>4, <1>5, FrontSteps
    <3> QED  BY <1>2, <3>1
  <2>3. Ends'
    <3>1. ending' => down' = <<>> /\ ppc' = "done" /\ Says("ended")'  BY <1>1, <1>3, <2>2 DEF Ends, Says
    <3>2. \A k \in 1..Len(queue') : queue'[k].kind \in {"ended", "raised"} =>
              down' = <<>> /\ ~ending' /\ ppc' = "done" /\ Says(queue[k].kind)'
      BY <1>1, <1>3, <2>2 DEF Ends, Says
    <3>3. over' => \E k \in 1..Len(queue') : queue'[k].kind # "batch"  BY <1>1, <1>3 DEF Ends
    <3> QED  BY <2>1, <3>1, <3>2, <3>3 DEF Ends
  <2>4. Complete'
    <3>1. At' = At /\ Accepting' = Accepting  BY <1>1 DEF At, Accepting
    <3> QED  BY <1>1, <1>3, <2>1, <3>1 DEF Complete
  <2> QED  BY <2>3, <2>4
<1> QED  BY <1>7, <1>8

\* Every step keeps the invariant of the end.
LEMMA EndNext ==
    ASSUME TypeOK, Fresh, OrderInv, Ledger, EndInv, [Next]_vars PROVE EndInv'
<1>1. Phases' /\ Unstopped'  BY PhasesNext, UnstoppedNext DEF EndInv, OrderInv
<1> SUFFICES ASSUME cpc' \in ConsumerOpen PROVE Ends' /\ Complete'  BY <1>1 DEF EndInv
<1> DEFINE Early == /\ cpc \in ConsumerOpen /\ ppc # "done" /\ UNCHANGED <<down, queue, ending, over>>
           Late == /\ cpc \in ConsumerOpen
                   /\ UNCHANGED <<down, queue, ending, ppc, outcome, made, over, registered, delivered, hand>>
<1>2. ASSUME Early PROVE Ends' /\ Complete'  BY <1>2, EndsEarly DEF EndInv
<1>3. ASSUME Late PROVE Ends' /\ Complete'
  <2>1. At' = At  BY <1>3 DEF At
  <2> QED  BY <1>3, <2>1, EndsKept DEF EndInv
<1>4. CASE UNCHANGED vars  BY <1>3, <1>4 DEF vars
<1>5. CASE StartSender \/ RefuseRequest  BY <1>2, <1>5 DEF StartSender, RefuseRequest
<1>6. CASE Produce \/ Wake \/ Exhaust  BY <1>2, <1>6 DEF Produce, Wake, Exhaust
<1>7. CASE CancelDelivered \/ FlushDone \/ RespondFail  BY <1>2, <1>7 DEF CancelDelivered, FlushDone, RespondFail
<1>8. CASE Respond
  <2>1. cpc \in ConsumerOpen  BY <1>8 DEF Respond
  <2> QED  BY <1>8, <2>1, RespondEnds
<1>9. CASE WriterTake \/ WriterFail  BY <1>3, <1>9 DEF WriterTake, WriterFail
<1>10. CASE WriterPut
  <2>1. cpc \in ConsumerOpen  BY <1>10 DEF WriterPut
  <2> QED  BY <1>10, <2>1, PutEnds
<1>11. CASE ReceiveUp
  <2>1. UNCHANGED <<made, outcome, down, consumerVars>> /\ ~closedP /\ up # <<>>  BY <1>11 DEF ReceiveUp
  <2>2. CASE ppc # "done"  BY <1>2, <2>1, <2>2
  <2>3. CASE ppc = "done"
    <3>1. up \in Seq(UpPacket)  BY DEF TypeOK
    <3>2. 1 \in 1..Len(up) /\ Head(up) = up[1]  BY <2>1, <3>1
    <3>3. Head(up).kind # "request"  BY <2>1, <2>3, <3>2 DEF Fresh
    <3>4. ppc' = ppc  BY <1>11, <2>3, <3>3 DEF ReceiveUp, HandleStreamCredit, CancelProducer
    <3> QED  BY <1>3, <2>1, <3>4
  <2> QED  BY <2>2, <2>3
<1>12. CASE LoseP  BY <1>3, <1>12 DEF LoseP
<1>13. CASE CancelTasks
  <2>1. UNCHANGED <<made, outcome, down, consumerVars>> /\ ppc' = "done"  BY <1>13 DEF CancelTasks
  <2> QED  BY <1>2, <1>3, <2>1
<1>14. CASE ReceiveDown
  <2>1. cpc \in ConsumerOpen  BY <1>14 DEF ReceiveDown
  <2> QED  BY <1>14, <2>1, ReceiveEnds
<1>15. CASE HandleEnd
  <2>1. /\ cpc \in ConsumerOpen /\ ending /\ ~ending' /\ PutFinal(Notice("ended"))
        /\ UNCHANGED <<ppc, outcome, made, over, registered, delivered, hand, down>>
    BY <1>15 DEF HandleEnd
  <2>2. Ends /\ Complete  BY <2>1 DEF EndInv
  <2>3. /\ down = <<>> /\ ppc = "done" /\ Says("ended")
        /\ \A k \in 1..Len(queue) : queue[k].kind \notin {"ended", "raised"}
        /\ over => \E k \in 1..Len(queue) : queue[k].kind # "batch"
    BY <2>1, <2>2 DEF Ends
  <2>4. Accepting => Runs(queue, At, made, made)  BY <2>1, <2>2 DEF Complete
  <2>5. Notice("ended") \in DownPacket /\ Notice("ended").kind = "ended"
    <3>1. "ended" \in DownKinds  BY DEF DownKinds
    <3> QED  BY <3>1, NoticeType DEF Notice
  <2>6. Says(Notice("ended").kind) /\ Notice("ended").kind \in {"ended", "raised"} /\ down' = <<>>
    BY <2>1, <2>3, <2>5
  <2> QED  BY <2>1, <2>3, <2>4, <2>5, <2>6, PutFinalEnds
<1>16. CASE LoseC
  <2>1. cpc \in ConsumerOpen  BY <1>16 DEF LoseC
  <2> QED  BY <1>16, <2>1, LoseEnds
<1>17. CASE Get  BY <1>17, GetEnds
<1>18. CASE YieldItem \/ BatchDone
  <2>1. /\ cpc \in ConsumerOpen
        /\ UNCHANGED <<down, queue, ending, ppc, outcome, made, over, registered>>
    BY <1>18 DEF YieldItem, BatchDone, ConsumerOpen
  <2>2. At' = At
    <3>1. hand.items \in Seq(Nat) /\ delivered \in Seq(Nat)  BY DEF TypeOK, HandType
    <3>2. CASE YieldItem
      <4>1. hand.items # <<>> /\ delivered' = Append(delivered, Head(hand.items))  BY <3>2 DEF YieldItem
      <4>2. hand'.items = Tail(hand.items)  BY <3>2 DEF YieldItem, TypeOK, HandType
      <4>3. Len(hand.items) \in Nat /\ Len(delivered) \in Nat /\ Len(hand'.items) = Len(hand.items) - 1
        BY <3>1, <4>1, <4>2
      <4>4. Head(hand.items) \in Nat  BY <3>1, <4>1
      <4>5. Len(delivered') = Len(delivered) + 1  BY <3>1, <4>1, <4>4
      <4> DEFINE d == Len(delivered)  h == Len(hand.items)
      <4>6. d \in Nat /\ h \in Nat /\ At' = (d + 1) + (h - 1) /\ At = d + h  BY <4>3, <4>5 DEF At
      <4> HIDE DEF d, h
      <4> QED  BY <4>6
    <3>3. CASE BatchDone
      <4>1. hand.items = <<>> /\ hand' = NoHand /\ delivered' = delivered  BY <3>3 DEF BatchDone
      <4>2. hand'.items = <<>>  BY <4>1 DEF NoHand
      <4> QED  BY <4>1, <4>2 DEF At
    <3> QED  BY <1>18, <3>2, <3>3
  <2> QED  BY <2>1, <2>2, EndsKept DEF EndInv
<1>19. CASE ReturnPermission  BY <1>3, <1>19 DEF ReturnPermission, ConsumerOpen
<1>20. CASE ReturnFail \/ Leave \/ SendLeave
  <2>1. cpc' \notin ConsumerOpen  BY <1>20 DEF ReturnFail, Leave, SendLeave, Unregister, ConsumerOpen
  <2> QED  BY <2>1
<1>21. CASE BreakLink
  <2>1. cpc \in ConsumerOpen  BY <1>21 DEF BreakLink
  <2> QED  BY <1>21, <2>1, BreakEnds
<1> QED
  BY <1>4, <1>5, <1>6, <1>7, <1>8, <1>9, <1>10, <1>11, <1>12, <1>13, <1>14, <1>15,
     <1>16, <1>17, <1>18, <1>19, <1>20, <1>21 DEF Next

-----------------------------------------------------------------------------
(* The promise                                                              *)

\* The call as OrderedStream sees it.
Call ==
    IF cpc \in ConsumerOpen THEN "open"
    ELSE CASE cpc \in {"ended", "raised"} -> cpc
           [] cpc \in {"lost", "refused"} -> "failed"
           [] OTHER -> "left"

\* A call and its method begin together.
LEMMA PromiseInit == Init => Promise!Init
  BY DEF Init, Promise!Init, ConsumerOpen

\* A step that neither makes nor delivers, on a call and a method that stay as
\* they were.
LEMMA PromiseStutter ==
    ASSUME UNCHANGED <<made, outcome, delivered>>, Call' = Call
    PROVE  UNCHANGED Promise!vars
  BY DEF Promise!vars, Call

\* One more item of a method that runs.
LEMMA PromiseMake ==
    ASSUME made' = made + 1, outcome = "none", UNCHANGED <<outcome, delivered, cpc>>
    PROVE  Promise!Next
  BY DEF Promise!Next, Promise!Make

\* The method ends, or its end becomes an error.
LEMMA PromiseFinish ==
    ASSUME TypeOK, TypeOK', (outcome = "none" /\ outcome' # "none") \/ outcome' = "raise",
           UNCHANGED <<made, delivered, cpc>>
    PROVE  [Promise!Next]_(Promise!vars)
<1>1. CASE outcome = "raise" /\ outcome' = "raise"  BY <1>1, PromiseStutter DEF Call
<1>2. CASE ~(outcome = "raise" /\ outcome' = "raise")
  <2>1. Promise!Finish  BY <1>2 DEF Promise!Finish, TypeOK, Outcomes
  <2> QED  BY <2>1 DEF Promise!Next
<1> QED  BY <1>1, <1>2

\* The consumer gives up: the connection failed it, or it left.
LEMMA PromiseGiveUp ==
    ASSUME cpc \in ConsumerOpen, cpc' \in {"lost", "refused", "left", "leaving"},
           UNCHANGED <<made, outcome, delivered>>
    PROVE  Promise!Next
<1>1. cpc' \notin ConsumerOpen  BY DEF ConsumerOpen
<1>2. Promise!GiveUp  BY <1>1 DEF Promise!GiveUp
<1> QED  BY <1>2 DEF Promise!Next

\* An entry that ends the stream comes out of the queue: it is the response of
\* the method, and the application has received all that was made.
LEMMA PromiseEnd ==
    ASSUME TypeOK, OrderInv, EndInv, Get, Head(queue).kind # "batch"
    PROVE  Promise!Next
<1>1. /\ cpc = "get" /\ cpc' = Head(queue).kind /\ queue # <<>>
      /\ UNCHANGED <<made, outcome, delivered>>
  BY DEF Get, Unregister
<1>2. queue \in Seq(DownPacket) /\ made \in Nat /\ delivered \in Seq(Nat) /\ hand.items \in Seq(Nat)
  BY DEF TypeOK, HandType
<1>3. 1 \in 1..Len(queue) /\ Head(queue) = queue[1] /\ queue[1] \in DownPacket  BY <1>1, <1>2
<1>4. cpc \in ConsumerOpen  BY <1>1 DEF ConsumerOpen
<1>5. CASE Head(queue).kind \in {"lost", "refused"}  BY <1>1, <1>4, <1>5, PromiseGiveUp
<1>6. CASE Head(queue).kind \in {"ended", "raised"}
  <2>1. Says(queue[1].kind)  BY <1>3, <1>4, <1>6 DEF EndInv, Ends
  <2>2. Runs(SubSeq(queue, 1, 0), At, made, made)
    <3>1. \A j \in 1..(1-1) : queue[j].kind = "batch"  OBVIOUS
    <3>2. Runs(SubSeq(queue, 1, 1-1), At, made, made)  BY <1>3, <1>4, <1>6, <3>1 DEF EndInv, Complete
    <3> QED  BY <3>2
  <2>3. SubSeq(queue, 1, 0) = <<>>  BY <1>2
  <2>4. At = made  BY <1>2, <2>2, <2>3, RunsNothing
  <2>5. hand.items = <<>>  BY <1>1 DEF OrderInv, Places
  <2>6. Len(delivered) = made
    <3>1. Len(hand.items) = 0 /\ Len(delivered) \in Nat  BY <1>2, <2>5
    <3> QED  BY <2>4, <3>1 DEF At
  <2>7. cpc' \notin ConsumerOpen /\ cpc' \in {"ended", "raised"}  BY <1>1, <1>6 DEF ConsumerOpen
  <2>8. CASE Head(queue).kind = "ended"
    <3>1. outcome = "end"  BY <1>3, <2>1, <2>8 DEF Says
    <3>2. Promise!End  BY <1>1, <1>4, <2>6, <2>7, <2>8, <3>1 DEF Promise!End
    <3> QED  BY <3>2 DEF Promise!Next
  <2>9. CASE Head(queue).kind = "raised"
    <3>1. outcome = "raise"  BY <1>3, <2>1, <2>9 DEF Says
    <3>2. Promise!Raise  BY <1>1, <1>4, <2>6, <2>7, <2>9, <3>1 DEF Promise!Raise
    <3> QED  BY <3>2 DEF Promise!Next
  <2> QED  BY <1>6, <2>8, <2>9
<1> QED
  <2>1. Head(queue).kind \in DownKinds  BY <1>3 DEF DownPacket
  <2> QED  BY <1>5, <1>6, <2>1 DEF DownKinds

\* The consumer hands out an item: the next of those the method made.
LEMMA PromiseDeliver ==
    ASSUME TypeOK, InOrder', YieldItem
    PROVE  Promise!Next
<1>1. /\ cpc = "yield" /\ hand.items # <<>> /\ delivered' = Append(delivered, Head(hand.items))
      /\ UNCHANGED <<made, outcome, cpc>>
  BY DEF YieldItem
<1>2. hand.items \in Seq(Nat) /\ delivered \in Seq(Nat) /\ made \in Nat  BY DEF TypeOK, HandType
<1>3. Head(hand.items) \in Nat  BY <1>1, <1>2
<1> DEFINE d == Len(delivered)
<1>4. d \in Nat /\ Len(delivered') = d + 1  BY <1>1, <1>2, <1>3
<1>5. d + 1 <= made  BY <1>1, <1>4 DEF InOrder
<1>6. d < made
  <2> HIDE DEF d
  <2> QED  BY <1>2, <1>4, <1>5
<1>7. cpc \in ConsumerOpen  BY <1>1 DEF ConsumerOpen
<1>8. Promise!Deliver  BY <1>1, <1>4, <1>6, <1>7 DEF Promise!Deliver
<1> QED  BY <1>8 DEF Promise!Next

\* push, a wait and a stop are an item, nothing, and the end of the method.
LEMMA PromiseSettle ==
    ASSUME TypeOK, TypeOK', outcome = "none", NEW length, NEW coded, Settle(length, coded),
           UNCHANGED consumerVars
    PROVE  [Promise!Next]_(Promise!vars)
<1>1. CASE LeaveLoop("stop") /\ UNCHANGED made
  <2>1. outcome' # "none" /\ UNCHANGED <<made, delivered, cpc>>  BY <1>1 DEF LeaveLoop
  <2> QED  BY <2>1, PromiseFinish
<1>2. CASE made' = made + 1 /\ UNCHANGED outcome  BY <1>2, PromiseMake
<1>3. CASE UNCHANGED <<made, outcome>>  BY <1>3, PromiseStutter DEF Call
<1> QED  BY <1>1, <1>2, <1>3 DEF Settle

\* Every step of the stream is a step of the promise, or changes nothing in it.
LEMMA PromiseNext ==
    ASSUME TypeOK, TypeOK', OrderInv, InOrder', EndInv, [Next]_vars
    PROVE  [Promise!Next]_(Promise!vars)
<1>1. ppc \in {"absent", "scheduled", "produce", "waiting", "cancelled"} => outcome = "none"
  BY DEF EndInv, Phases
<1>2. ASSUME UNCHANGED <<made, outcome, delivered, cpc>> PROVE UNCHANGED Promise!vars
  BY <1>2, PromiseStutter DEF Call
<1>3. ASSUME outcome = "none", NEW why \in Outcomes \ {"none"}, LeaveLoop(why), UNCHANGED <<made, consumerVars>>
      PROVE  [Promise!Next]_(Promise!vars)
  <2>1. outcome' # "none" /\ UNCHANGED <<made, delivered, cpc>>  BY <1>3 DEF LeaveLoop
  <2> QED  BY <1>3, <2>1, PromiseFinish
<1>4. CASE UNCHANGED vars  BY <1>2, <1>4 DEF vars
<1>5. CASE StartSender  BY <1>2, <1>5 DEF StartSender
<1>6. CASE RefuseRequest
  <2>1. outcome' = "raise" /\ UNCHANGED <<made, delivered, cpc>>  BY <1>6 DEF RefuseRequest
  <2> QED  BY <2>1, PromiseFinish
<1>7. CASE Produce
  <2>1. PICK length \in ItemSizes, coded \in {FALSE, ~known} :
           IF length > MAX_STREAM_ITEM
           THEN LeaveLoop("raise") /\ UNCHANGED <<made, credit>>
           ELSE Settle(length, coded)
    BY <1>7 DEF Produce
  <2>2. outcome = "none" /\ UNCHANGED consumerVars  BY <1>1, <1>7 DEF Produce
  <2>3. "raise" \in Outcomes \ {"none"}  BY DEF Outcomes
  <2>4. CASE LeaveLoop("raise") /\ UNCHANGED <<made, credit>>  BY <1>3, <2>2, <2>3, <2>4
  <2>5. CASE Settle(length, coded)  BY <2>2, <2>5, PromiseSettle
  <2> QED  BY <2>1, <2>4, <2>5
<1>8. CASE Wake
  <2>1. outcome = "none" /\ UNCHANGED consumerVars /\ Settle(waiting.length, waiting.coded)
    BY <1>1, <1>8 DEF Wake
  <2> QED  BY <2>1, PromiseSettle
<1>9. CASE Exhaust
  <2>1. PICK why \in {"end", "raise"} : LeaveLoop(why)  BY <1>9 DEF Exhaust
  <2>2. outcome = "none" /\ UNCHANGED <<made, consumerVars>>  BY <1>1, <1>9 DEF Exhaust
  <2>3. why \in Outcomes \ {"none"}  BY DEF Outcomes
  <2> QED  BY <1>3, <2>1, <2>2, <2>3
<1>10. CASE CancelDelivered
  <2>1. PICK why \in {"cancel", "raise"} \cup (IF waiting = NoItem THEN {"end"} ELSE {}) : LeaveLoop(why)
    BY <1>10 DEF CancelDelivered
  <2>2. outcome = "none" /\ UNCHANGED <<made, consumerVars>>  BY <1>1, <1>10 DEF CancelDelivered
  <2>3. why \in Outcomes \ {"none"}  BY DEF Outcomes
  <2> QED  BY <1>3, <2>1, <2>2, <2>3
<1>11. CASE FlushDone
  <2>1. UNCHANGED <<made, delivered, cpc>> /\ (outcome' = "raise" \/ UNCHANGED outcome)
    BY <1>11 DEF FlushDone
  <2> QED  BY <1>2, <2>1, PromiseFinish
<1>12. CASE Respond \/ RespondFail  BY <1>2, <1>12 DEF Respond, RespondFail
<1>13. CASE WriterTake \/ WriterPut \/ WriterFail
  BY <1>2, <1>13 DEF WriterTake, WriterPut, WriterFail
<1>14. CASE ReceiveUp \/ LoseP \/ CancelTasks
  BY <1>2, <1>14 DEF ReceiveUp, LoseP, CancelTasks
<1>15. CASE ReceiveDown \/ HandleEnd \/ LoseC
  BY <1>2, <1>15 DEF ReceiveDown, HandleEnd, LoseC
<1>16. CASE Get
  <2>1. CASE Head(queue).kind = "batch"
    <3>1. cpc = "get" /\ cpc' = "yield" /\ UNCHANGED <<made, outcome, delivered>>
      BY <1>16, <2>1 DEF Get
    <3> QED  BY <3>1, PromiseStutter DEF Call, ConsumerOpen
  <2> QED  BY <1>16, <2>1, PromiseEnd
<1>17. CASE YieldItem  BY <1>17, PromiseDeliver
<1>18. CASE BatchDone \/ ReturnPermission
  <2>1. /\ cpc \in ConsumerOpen /\ cpc' \in ConsumerOpen
        /\ UNCHANGED <<made, outcome, delivered>>
    BY <1>18 DEF BatchDone, ReturnPermission, ConsumerOpen
  <2> QED  BY <2>1, PromiseStutter DEF Call
<1>19. CASE ReturnFail \/ Leave
  <2>1. /\ cpc \in ConsumerOpen /\ cpc' \in {"lost", "left", "leaving"}
        /\ UNCHANGED <<made, outcome, delivered>>
    BY <1>19 DEF ReturnFail, Leave, Unregister, ConsumerOpen
  <2> QED  BY <2>1, PromiseGiveUp
<1>20. CASE SendLeave
  <2>1. cpc = "leaving" /\ cpc' = "left" /\ UNCHANGED <<made, outcome, delivered>>
    BY <1>20 DEF SendLeave
  <2> QED  BY <2>1, PromiseStutter DEF Call, ConsumerOpen
<1>21. CASE BreakLink  BY <1>2, <1>21 DEF BreakLink
<1> QED
  BY <1>4, <1>5, <1>6, <1>7, <1>8, <1>9, <1>10, <1>11, <1>12, <1>13, <1>14, <1>15,
     <1>16, <1>17, <1>18, <1>19, <1>20, <1>21 DEF Next

\* KeepsPromise: the application of a streaming call receives a prefix of what
\* the method made, in order; an end or an error of the method comes after its
\* last item; and a call that is over stays as it is.
THEOREM StreamKeepsPromise == ASSUME EnvelopeSize = 0 PROVE Spec => KeepsPromise
<1> DEFINE Inv == TypeOK /\ Fresh /\ OrderInv /\ Ledger /\ EndInv
<1>1. Init => Inv
  <2>1. Init => Fresh
    <3> SUFFICES ASSUME Init PROVE Fresh  OBVIOUS
    <3>1. Len(up) = 1 /\ ppc = "absent" /\ wpc = "absent"  BY DEF Init
    <3> QED  BY <3>1 DEF Fresh
  <2> QED  BY <2>1, InitType, OrderInit, LedgerInit, EndInit
<1>2. Inv /\ [Next]_vars => Inv'  BY NextType, FreshNext, OrderNext, LedgerNext, EndNext
<1>3. Inv /\ Inv' /\ [Next]_vars => [Promise!Next]_(Promise!vars)  BY PromiseNext DEF OrderInv
<1> QED  BY <1>1, <1>2, <1>3, PromiseInit, PTL DEF Spec, KeepsPromise, Promise!Spec
=============================================================================
