------------------------------ MODULE RemoteLog -----------------------------
(***************************************************************************)
(* RemoteLogHandler of rmote/protocol.py: how the log records of the       *)
(* remote side reach the wire, inside a response that leaves anyway or in  *)
(* a packet of their own.                                                  *)
(*                                                                         *)
(* emit runs in any thread, under the lock of the handler; everything else *)
(* runs on the event loop.  A step is what runs between two awaits.        *)
(***************************************************************************)
EXTENDS Integers, Sequences

CONSTANTS
    MaxRecords,       \* bound: records that the tools log
    MaxCalls,         \* bound: calls that the peer serves
    ATTACH_RECORDS,
    Heavy,            \* records whose text alone is above ATTACH_BYTES
    LinkMayBreak      \* whether the connection can drop

ASSUME RemoteLogConstants ==
    /\ MaxRecords \in Nat /\ MaxCalls \in Nat /\ ATTACH_RECORDS \in Nat \ {0}
    /\ Heavy \subseteq Nat /\ LinkMayBreak \in BOOLEAN

VARIABLES
    logged,    \* records logged so far; record n is the n-th of them
    pending,   \* the records that wait
    draining,
    sending,
    paused,
    timer,     \* self.timer is not None
    handles,   \* fallback timers that the event loop still holds
    starts,    \* start() callbacks that the event loop still holds
    drains,    \* drain() tasks that have not begun
    flight,    \* the batch on its way to the wire
    carrier,   \* who sends it: "none", "drain" or "response"
    stranded,  \* the records that wait were left by a resume with nobody due to send them
    calls,     \* calls that arrived so far
    running,   \* of these, the calls whose method runs
    plain,     \* of these, the calls whose response is sent without records
    wire,      \* the records written
    dropped,   \* a batch was reported to handleError, or discarded by a close
    link,      \* the connection is up
    closed     \* _closed of the protocol

handlerVars == <<pending, draining, sending, timer, handles, starts, drains, flight, carrier, stranded, wire, dropped>>
vars == <<logged, paused, calls, running, plain, link, closed, handlerVars>>

Init ==
    /\ logged = 0 /\ pending = <<>> /\ draining = FALSE /\ sending = FALSE /\ paused = TRUE
    /\ timer = FALSE /\ handles = 0 /\ starts = 0 /\ drains = 0 /\ flight = <<>>
    /\ carrier = "none" /\ stranded = FALSE /\ calls = 0 /\ running = 0 /\ plain = 0 /\ wire = <<>>
    /\ dropped = FALSE /\ link = TRUE /\ closed = FALSE

-----------------------------------------------------------------------------
(* Choosing how the records travel                                          *)

\* responses_pending: a response counts until _send_response has returned.
ResponsesPending == running + plain + (IF carrier = "response" THEN 1 ELSE 0)

\* emit; a loop that was closed refuses the callback and the records are dropped.
Emit ==
    /\ logged < MaxRecords /\ logged' = logged + 1
    /\ \/ /\ pending' = Append(pending, logged + 1)
          /\ draining' = TRUE
          /\ starts' = (IF draining THEN starts ELSE starts + 1)
          /\ UNCHANGED dropped
       \/ /\ closed /\ ~draining
          /\ pending' = <<>> /\ dropped' = TRUE /\ UNCHANGED <<draining, starts>>
    /\ UNCHANGED <<paused, sending, timer, handles, drains, flight, carrier, stranded, wire,
                   calls, running, plain, link, closed>>

\* start, from "self.paused" on.  The handle of a timer that is already set is
\* forgotten and not cancelled.
Choose ==
    \/ /\ ResponsesPending > 0 /\ ~timer
       /\ timer' = TRUE /\ handles' = handles + 1 /\ UNCHANGED drains
    \/ /\ ResponsesPending = 0 \/ timer
       /\ timer' = FALSE /\ drains' = drains + 1 /\ UNCHANGED handles

\* start, as a callback of the event loop.
Start ==
    /\ starts > 0 /\ starts' = starts - 1
    /\ \/ /\ closed
          /\ draining' = FALSE /\ pending' = <<>> /\ dropped' = (dropped \/ pending # <<>>)
          /\ UNCHANGED <<timer, handles, drains>>
       \/ ~closed /\ paused /\ UNCHANGED <<draining, pending, dropped, timer, handles, drains>>
       \/ ~closed /\ ~paused /\ Choose /\ UNCHANGED <<draining, pending, dropped>>
    /\ UNCHANGED <<logged, paused, sending, flight, carrier, stranded, wire, calls, running, plain, link, closed>>

\* The end of __aenter__: both READY boundaries are on the wire.
Unpause ==
    /\ paused /\ ~closed /\ paused' = FALSE
    /\ \/ pending # <<>> /\ Choose
       \/ pending = <<>> /\ UNCHANGED <<timer, handles, drains>>
    /\ UNCHANGED <<logged, pending, draining, sending, starts, flight, carrier, stranded, wire, dropped,
                   calls, running, plain, link, closed>>

\* send_alone, as the timer that fires.
SendAlone ==
    /\ handles > 0 /\ handles' = handles - 1
    /\ timer' = FALSE /\ drains' = drains + 1
    /\ UNCHANGED <<logged, paused, pending, draining, sending, starts, flight, carrier, stranded, wire, dropped,
                   calls, running, plain, link, closed>>

-----------------------------------------------------------------------------
(* drain                                                                    *)

\* The top of the loop.
TakeBatch ==
    \/ /\ sending \/ pending = <<>>
       /\ draining' = FALSE /\ UNCHANGED <<sending, pending, flight, carrier, stranded>>
    \/ /\ ~sending /\ pending # <<>>
       /\ flight' = pending /\ pending' = <<>> /\ sending' = TRUE
       /\ carrier' = "drain" /\ stranded' = FALSE /\ UNCHANGED draining

DrainBegin ==
    /\ drains > 0 /\ drains' = drains - 1
    /\ TakeBatch
    /\ UNCHANGED <<logged, paused, timer, handles, starts, wire, dropped, calls, running, plain, link, closed>>

\* The batch is written; what gathered meanwhile is the next one.
DrainSent ==
    /\ carrier = "drain" /\ link
    /\ wire' = wire \o flight
    /\ flight' = pending /\ pending' = <<>> /\ stranded' = FALSE
    /\ \/ pending = <<>> /\ sending' = FALSE /\ draining' = FALSE /\ carrier' = "none"
       \/ pending # <<>> /\ UNCHANGED <<sending, draining, carrier>>
    /\ UNCHANGED <<logged, paused, timer, handles, starts, drains, dropped, calls, running, plain, link, closed>>

\* send raises: every record of the batch goes to handleError.
DrainFail ==
    /\ carrier = "drain" /\ ~link
    /\ draining' = FALSE /\ sending' = FALSE /\ carrier' = "none" /\ flight' = <<>> /\ dropped' = TRUE
    /\ UNCHANGED <<logged, paused, pending, timer, handles, starts, drains, stranded, wire, calls, running, plain,
                   link, closed>>

-----------------------------------------------------------------------------
(* The responses of the calls that this side serves                         *)

\* _execute: the response is owed before the task of the method starts.
Serve ==
    /\ ~paused /\ ~closed /\ calls < MaxCalls
    /\ calls' = calls + 1 /\ running' = running + 1
    /\ UNCHANGED <<logged, paused, plain, link, closed, handlerVars>>

\* The tests of detach.
MayAttach ==
    /\ ~sending /\ pending # <<>> /\ Len(pending) <= ATTACH_RECORDS
    /\ \A i \in 1..Len(pending) : pending[i] \notin Heavy

\* detach cancels the fallback that it replaces.
HandlesLeft == IF timer THEN handles - 1 ELSE handles

\* _send_response up to its send: the response takes the records that wait.
Respond ==
    /\ running > 0 /\ running' = running - 1
    /\ \/ /\ MayAttach
          /\ flight' = pending /\ pending' = <<>> /\ sending' = TRUE /\ carrier' = "response"
          /\ timer' = FALSE /\ handles' = HandlesLeft /\ stranded' = FALSE
          /\ UNCHANGED plain
       \/ /\ ~MayAttach /\ plain' = plain + 1
          /\ UNCHANGED <<flight, pending, sending, carrier, stranded, timer, handles>>
    /\ UNCHANGED <<logged, paused, calls, link, closed, draining, starts, drains, wire, dropped>>

\* Mutant: a batch that failed goes behind the records that gathered meanwhile.
InPlaceBehind(batch) == pending \o batch

\* pending[:0] = batch
InPlace(batch) == batch \o pending

\* Records wait and nobody has said that they are scheduled.
Again(kept) == kept # <<>> /\ ~draining

\* A callback, a timer or a task that the event loop holds will look at the
\* records that wait.
Due == starts > 0 \/ handles > 0 \/ drains > 0

\* resume, with the start() that it calls while this response still counts.
\* draining also stays set when detach cancelled the timer it stood for.
Resume(batch) ==
    /\ sending' = FALSE /\ carrier' = "none" /\ flight' = <<>>
    /\ LET kept == InPlace(batch) IN
       \/ /\ ~Again(kept)
          /\ pending' = kept /\ draining' = (draining /\ kept # <<>>)
          /\ stranded' = (kept # <<>> /\ ~Due)
          /\ UNCHANGED <<timer, handles, drains, dropped>>
       \/ /\ Again(kept) /\ ~closed
          /\ pending' = kept /\ draining' = TRUE /\ Choose /\ stranded' = FALSE /\ UNCHANGED dropped
       \/ /\ Again(kept) /\ closed
          /\ pending' = <<>> /\ dropped' = TRUE /\ stranded' = FALSE
          /\ UNCHANGED <<draining, timer, handles, drains>>

\* The response, and the records in it, are written.
ResponseSent ==
    /\ carrier = "response" /\ link
    /\ wire' = wire \o flight
    /\ Resume(<<>>)
    /\ UNCHANGED <<logged, paused, calls, running, plain, link, closed, starts>>

\* The result cannot be pickled: the records keep their place, and a failure
\* is sent in place of the result.
ResponseRefused ==
    /\ carrier = "response"
    /\ Resume(flight)
    /\ plain' = plain + 1
    /\ UNCHANGED <<logged, paused, calls, running, link, closed, starts, wire>>

\* The transport noticed the loss: _finish_pending follows.
ResponseFail ==
    /\ carrier = "response" /\ ~link
    /\ Resume(flight)
    /\ closed' = TRUE
    /\ UNCHANGED <<logged, paused, calls, running, plain, link, starts, wire>>

\* A response without records is written, or fails.
PlainSent ==
    /\ plain > 0 /\ plain' = plain - 1
    /\ closed' = (closed \/ ~link)
    /\ UNCHANGED <<logged, paused, calls, running, link, handlerVars>>

-----------------------------------------------------------------------------
BreakLink ==
    /\ LinkMayBreak /\ link /\ link' = FALSE
    /\ UNCHANGED <<logged, paused, calls, running, plain, closed, handlerVars>>

\* The receive loop reaches the end of file.
Close ==
    /\ ~link /\ ~closed /\ closed' = TRUE
    /\ UNCHANGED <<logged, paused, calls, running, plain, link, handlerVars>>

\* __aexit__ cancels every task; their batches are discarded.
CancelTasks ==
    /\ closed /\ (drains > 0 \/ carrier # "none" \/ running > 0 \/ plain > 0)
    /\ drains' = 0 /\ carrier' = "none" /\ running' = 0 /\ plain' = 0
    /\ flight' = <<>> /\ dropped' = (dropped \/ flight # <<>>)
    /\ UNCHANGED <<logged, paused, pending, draining, sending, timer, handles, starts, stranded, wire, calls, link,
                   closed>>

LoopStep == Start \/ SendAlone \/ Unpause \/ DrainBegin \/ DrainSent \/ DrainFail
            \/ ResponseSent \/ ResponseFail \/ PlainSent

Next == Emit \/ Serve \/ Respond \/ ResponseRefused \/ BreakLink \/ Close \/ CancelTasks \/ LoopStep

Spec == Init /\ [][Next]_vars

\* The event loop runs every callback and task that is due and completes every
\* write.  A method owes no result, so Respond is not fair.
FairSpec ==
    /\ Spec
    /\ WF_vars(Start) /\ WF_vars(SendAlone) /\ WF_vars(Unpause) /\ WF_vars(DrainBegin)
    /\ WF_vars(DrainSent \/ DrainFail) /\ WF_vars(ResponseSent \/ ResponseFail) /\ WF_vars(PlainSent)
    /\ WF_vars(Close)

-----------------------------------------------------------------------------
(* Properties                                                               *)

\* Every variable holds a value of the kind the handler keeps there; no timer
\* is cancelled twice.
TypeOK ==
    /\ logged \in Nat /\ pending \in Seq(Nat) /\ flight \in Seq(Nat) /\ wire \in Seq(Nat)
    /\ draining \in BOOLEAN /\ sending \in BOOLEAN /\ paused \in BOOLEAN /\ timer \in BOOLEAN
    /\ handles \in Nat /\ starts \in Nat /\ drains \in Nat /\ carrier \in {"none", "drain", "response"}
    /\ calls \in Nat /\ running \in Nat /\ plain \in Nat /\ dropped \in BOOLEAN /\ stranded \in BOOLEAN
    /\ link \in BOOLEAN /\ closed \in BOOLEAN

\* Until the connection fails, no record is lost, doubled or reordered: what was
\* written, what is on its way and what waits are together the records in the
\* order they were logged ("the records of one logger arrive in the order they
\* were written").
Accounted ==
    ~dropped => wire \o flight \o pending = [n \in 1..logged |-> n]

\* What reached the wire is in the order it was logged, also after a failure.
WireInOrder == \A i, j \in 1..Len(wire) : i < j => wire[i] < wire[j]

\* Records that wait have somebody due to send them: a callback, a timer or a
\* task of the event loop, or the batch on the wire, which looks again when it is
\* written.  One step breaks this and no other: a resume that finds draining set,
\* although detach has cancelled the timer it stood for, leaves them to nobody.
SomeoneDrains ==
    (pending # <<>> /\ link /\ ~closed /\ ~paused) => Due \/ carrier # "none" \/ stranded

\* A record that was logged reaches the wire, unless the connection fails:
\* records wait for a response "no longer than ATTACH_DELAY and then travel
\* alone" (docstring of RemoteLogHandler).
RecordsTravel == \A n \in 1..MaxRecords : logged >= n ~> (Len(wire) >= n \/ ~link)
=============================================================================
