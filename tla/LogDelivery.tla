----------------------------- MODULE LogDelivery ----------------------------
(***************************************************************************)
(* LogDelivery of rmote/protocol.py: the event loop leaves remote records  *)
(* in a bounded deque without a lock, and one worker thread hands them to  *)
(* the local handlers.                                                     *)
(*                                                                         *)
(* Three threads interleave at every access to a shared attribute: the     *)
(* event loop (deliver), the worker (run), and the thread that __aexit__   *)
(* uses for stop, once the event loop delivers no more.                    *)
(***************************************************************************)
EXTENDS Integers, Sequences

CONSTANTS
    Limit,        \* the limit of the deque
    MaxBatch,     \* bound: accepted records of one packet
    MaxRecords    \* bound: accepted records in all packets

VARIABLES
    arrived,   \* records that deliver accepted so far; record n is the n-th of them
    records,   \* the deque
    wake, idle, closing, lost,
    started,   \* self.worker is not None
    dpc,       \* where deliver is
    batch,     \* what deliver still has to store
    room,      \* the room that deliver saw
    wpc,       \* where the worker thread is
    taken,     \* the record in the hands of the worker
    reported,  \* the losses the worker has reported
    emitted,   \* the records that reached the local handlers
    spc        \* where stop is

loopVars == <<arrived, dpc, batch, room>>
workerVars == <<wpc, taken, reported, emitted>>
vars == <<loopVars, workerVars, records, wake, idle, closing, lost, started, spc>>

Init ==
    /\ arrived = 0 /\ records = <<>> /\ wake = FALSE /\ idle = FALSE /\ closing = FALSE /\ lost = 0
    /\ started = FALSE /\ dpc = "ready" /\ batch = <<>> /\ room = 0
    /\ wpc = "absent" /\ taken = 0 /\ reported = 0 /\ emitted = <<>> /\ spc = "ready"

-----------------------------------------------------------------------------
(* deliver, on the event loop                                               *)

\* Records that a local handler accepts; the others were dropped before.
Deliver ==
    /\ dpc = "ready" /\ spc = "ready"
    /\ \E n \in 1..MaxBatch :
        /\ arrived + n <= MaxRecords
        /\ arrived' = arrived + n
        /\ batch' = [i \in 1..n |-> arrived + i]
    /\ room' = (IF Len(records) < Limit THEN Limit - Len(records) ELSE 0)
    /\ dpc' = "count"
    /\ UNCHANGED <<workerVars, records, wake, idle, closing, lost, started, spc>>

\* The records that fit into the room that was seen.
Fitting == IF room < Len(batch) THEN SubSeq(batch, 1, room) ELSE batch

NewlyLost == Len(batch) - Len(Fitting)

CountLost ==
    /\ dpc = "count" /\ dpc' = "store"
    /\ lost' = lost + NewlyLost
    /\ batch' = Fitting
    /\ UNCHANGED <<arrived, room, workerVars, records, wake, idle, closing, started, spc>>

Store ==
    /\ dpc = "store" /\ dpc' = "wake"
    /\ records' = records \o batch /\ batch' = <<>>
    /\ UNCHANGED <<arrived, room, workerVars, wake, idle, closing, lost, started, spc>>

\* "if self.idle: self.wake.set()"
Wake ==
    /\ dpc = "wake" /\ dpc' = "spawn"
    /\ wake' = (wake \/ idle)
    /\ UNCHANGED <<arrived, batch, room, workerVars, records, idle, closing, lost, started, spc>>

\* The first batch starts the worker.
Spawn ==
    /\ dpc = "spawn" /\ dpc' = "ready"
    /\ IF ~started /\ ~closing
       THEN started' = TRUE /\ wpc' = "pop"
       ELSE UNCHANGED <<started, wpc>>
    /\ UNCHANGED <<arrived, batch, room, taken, reported, emitted, records, wake, idle, closing, lost, spc>>

-----------------------------------------------------------------------------
(* run, in the worker thread                                                *)

Pop ==
    /\ wpc = "pop"
    /\ \/ records # <<>> /\ taken' = Head(records) /\ records' = Tail(records) /\ wpc' = "emit"
       \/ records = <<>> /\ wpc' = "empty" /\ UNCHANGED <<records, taken>>
    /\ UNCHANGED <<loopVars, reported, emitted, wake, idle, closing, lost, started, spc>>

\* The deque was empty: return when closing.
Empty ==
    /\ wpc = "empty"
    /\ wpc' = IF closing THEN "gone" ELSE "idle"
    /\ UNCHANGED <<loopVars, taken, reported, emitted, records, wake, idle, closing, lost, started, spc>>

SayIdle ==
    /\ wpc = "idle" /\ wpc' = "look" /\ idle' = TRUE
    /\ UNCHANGED <<loopVars, taken, reported, emitted, records, wake, closing, lost, started, spc>>

\* Mutant: the worker does not look again after it said that it sleeps.
SleepsBlind == TRUE

\* Nothing arrived since the deque was found empty.
Sleeps == records = <<>> /\ ~closing

LookAgain ==
    /\ wpc = "look"
    /\ wpc' = IF Sleeps THEN "sleep" ELSE "awake"
    /\ UNCHANGED <<loopVars, taken, reported, emitted, records, wake, idle, closing, lost, started, spc>>

WakeUp ==
    /\ wpc = "sleep" /\ wake /\ wpc' = "awake"
    /\ UNCHANGED <<loopVars, taken, reported, emitted, records, wake, idle, closing, lost, started, spc>>

Awake ==
    /\ wpc = "awake" /\ wpc' = "clear" /\ idle' = FALSE
    /\ UNCHANGED <<loopVars, taken, reported, emitted, records, wake, closing, lost, started, spc>>

Clear ==
    /\ wpc = "clear" /\ wpc' = "pop" /\ wake' = FALSE
    /\ UNCHANGED <<loopVars, taken, reported, emitted, records, idle, closing, lost, started, spc>>

\* The local handlers take the record; one that raises does not stop the worker.
Emit ==
    /\ wpc = "emit" /\ wpc' = "report"
    /\ emitted' = Append(emitted, taken) /\ taken' = 0
    /\ UNCHANGED <<loopVars, reported, records, wake, idle, closing, lost, started, spc>>

\* "if self.lost > reported"
ReportLost ==
    /\ wpc = "report" /\ wpc' = "pop" /\ reported' = lost
    /\ UNCHANGED <<loopVars, taken, emitted, records, wake, idle, closing, lost, started, spc>>

-----------------------------------------------------------------------------
(* stop, after the receive loop has ended                                   *)

StopBegin ==
    /\ spc = "ready" /\ dpc = "ready"
    /\ IF started THEN spc' = "closing" /\ started' = FALSE
                  ELSE spc' = "stopped" /\ UNCHANGED started
    /\ UNCHANGED <<loopVars, workerVars, records, wake, idle, closing, lost>>

StopClosing ==
    /\ spc = "closing" /\ spc' = "wake" /\ closing' = TRUE
    /\ UNCHANGED <<loopVars, workerVars, records, wake, idle, lost, started>>

\* Mutant: the worker is not woken when the delivery stops.
StopWakeNobody ==
    /\ spc = "wake" /\ spc' = "join"
    /\ UNCHANGED <<loopVars, workerVars, records, wake, idle, closing, lost, started>>

StopWake ==
    /\ spc = "wake" /\ spc' = "join" /\ wake' = TRUE
    /\ UNCHANGED <<loopVars, workerVars, records, idle, closing, lost, started>>

\* worker.join, when the handlers are done before JOIN_TIMEOUT.
Join ==
    /\ spc = "join" /\ wpc = "gone" /\ spc' = "stopped"
    /\ UNCHANGED <<loopVars, workerVars, records, wake, idle, closing, lost, started>>

\* worker.join, when the handlers are too slow.
JoinTimeout ==
    /\ spc = "join" /\ wpc # "gone" /\ spc' = "timeout"
    /\ UNCHANGED <<loopVars, workerVars, records, wake, idle, closing, lost, started>>

-----------------------------------------------------------------------------
LoopStep == CountLost \/ Store \/ Wake \/ Spawn
WorkerStep == Pop \/ Empty \/ SayIdle \/ LookAgain \/ WakeUp \/ Awake \/ Clear \/ Emit \/ ReportLost
StopStep == StopClosing \/ StopWake \/ Join \/ JoinTimeout

Next == Deliver \/ LoopStep \/ WorkerStep \/ StopBegin \/ StopStep

Spec == Init /\ [][Next]_vars

\* The operating system runs every thread that is ready, and the local handlers
\* return.  Deliver and StopBegin are up to the peer and the application.
FairSpec == Spec /\ WF_vars(LoopStep) /\ WF_vars(WorkerStep) /\ WF_vars(StopStep)

-----------------------------------------------------------------------------
(* Properties                                                               *)

\* Every variable holds a value of the kind the code keeps there, and the deque
\* stays within its limit: one thread adds to it, and it added what it saw
\* room for ("a peer that logs faster than the handlers accept must not exhaust
\* memory").
TypeOK ==
    /\ arrived \in Nat /\ lost \in Nat /\ reported \in Nat /\ taken \in Nat /\ room \in Nat
    /\ records \in Seq(Nat) /\ Len(records) <= Limit /\ batch \in Seq(Nat) /\ emitted \in Seq(Nat)
    /\ wake \in BOOLEAN /\ idle \in BOOLEAN /\ closing \in BOOLEAN /\ started \in BOOLEAN
    /\ dpc \in {"ready", "count", "store", "wake", "spawn"}
    /\ wpc \in {"absent", "pop", "empty", "idle", "look", "sleep", "awake", "clear", "emit", "report", "gone"}
    /\ spc \in {"ready", "closing", "wake", "join", "stopped", "timeout"}

\* The handlers see the records in the order they arrived, each at most once.
EmittedInOrder == \A i, j \in 1..Len(emitted) : i < j => emitted[i] < emitted[j]

\* Every record is accounted for: it was handed over, it waits, or it was
\* counted as lost.
Counted ==
    Len(emitted) + (IF wpc = "emit" THEN 1 ELSE 0) + Len(records) + Len(batch) + lost = arrived

\* The worker never sleeps on a record that is there, whichever way the two
\* threads read and write idle, wake and the deque.
AllDelivered == records # <<>> ~> (records = <<>> \/ closing)

\* The thread of __aexit__ that stops the delivery gets its worker to end.
StopReturns == spc = "join" ~> wpc = "gone"

\* "Deliver what waits, then stop the worker": a stop that did not run into
\* its timeout leaves nothing in the deque (docstring of LogDelivery.stop).
StopDelivers == spc = "stopped" => records = <<>>
=============================================================================
