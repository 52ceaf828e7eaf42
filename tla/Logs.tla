-------------------------------- MODULE Logs --------------------------------
(***************************************************************************)
(* The whole way of a log record: RemoteLog gathers the records of the     *)
(* remote tools and writes them to the connection, LogDelivery takes them  *)
(* off it and hands them to the local handlers.  The connection keeps the  *)
(* order; a packet that arrives holds some of the records written and not  *)
(* yet read.  The n-th record that arrives is the n-th on the wire.        *)
(***************************************************************************)
EXTENDS RemoteLog

CONSTANTS
    Limit,      \* the limit of the deque
    MaxBatch    \* bound: records of one packet

ASSUME LogDeliveryConstants == Limit \in Nat \ {0} /\ MaxBatch \in Nat \ {0}

VARIABLES arrived, records, wake, idle, closing, lost, started, dpc, batch, room, wpc, taken, reported, emitted, spc

Local == INSTANCE LogDelivery

localVars == <<arrived, records, wake, idle, closing, lost, started, dpc, batch, room, wpc, taken, reported, emitted, spc>>
allVars == <<vars, localVars>>

LogsInit == Init /\ Local!Init

\* The local side reads what was written before the connection broke.
Receive == Local!Deliver /\ arrived' <= Len(wire)

RemoteNext == Next /\ UNCHANGED localVars

LocalNext ==
    /\ Receive \/ Local!LoopStep \/ Local!WorkerStep \/ Local!StopBegin \/ Local!StopStep
    /\ UNCHANGED vars

LogsNext == RemoteNext \/ LocalNext

LogsSpec == LogsInit /\ [][LogsNext]_allVars

\* The operating system runs every thread of the local side that is ready, and its handlers return.
LogsFairSpec ==
    /\ LogsSpec
    /\ WF_allVars(Local!LoopStep /\ UNCHANGED vars) /\ WF_allVars(Local!WorkerStep /\ UNCHANGED vars)
    /\ WF_allVars(Local!StopStep /\ UNCHANGED vars)

-----------------------------------------------------------------------------
(* Properties                                                               *)

\* What the local handlers have seen of the records that the remote tools logged
Seen == [i \in DOMAIN emitted |-> wire[emitted[i]]]

\* The local handlers see the records in the order in which the remote tools logged them, none twice,
\* across batches that are attached, refused, put back, cut by a full deque or cut by a failure
\* (RemoteLogHandler: "the records of one logger arrive in the order they were written").
SeenInOrder == \A i, j \in DOMAIN Seen : i < j => Seen[i] < Seen[j]

\* Until a batch is reported as dropped, each record that was logged waits at one place, was handed to
\* the handlers, or is in the number of lost records that the worker reports.
EveryRecord ==
    ~dropped => logged = Len(emitted) + (IF wpc = "emit" THEN 1 ELSE 0) + Len(records) + Len(batch) + lost
                         + (Len(wire) - arrived) + Len(flight) + Len(pending)

\* The types of both sides with the limit of the deque, order, that no record is lost
\* or doubled, and that somebody is due to send what waits unless a resume has left it
\* to nobody (RemoteLogHandler, LogDelivery; RecordsTravel is what that resume breaks).
LogsSafe == TypeOK /\ Local!TypeOK /\ Accounted /\ SomeoneDrains /\ SeenInOrder /\ EveryRecord

\* The worker thread never sleeps on a record that is there (LogDelivery.run, idle and wake).
AllDelivered == Local!AllDelivered

\* The thread of __aexit__ that stops the delivery gets its worker to end (LogDelivery.stop).
StopReturns == Local!StopReturns
=============================================================================
