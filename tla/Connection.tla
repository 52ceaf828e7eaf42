----------------------------- MODULE Connection -----------------------------
(***************************************************************************)
(* Connection of rmote/sync.py: a factory starts a child process and its   *)
(* protocol on the private event loop, threads call tools, and threads     *)
(* close the connection, interrupted or not.                               *)
(*                                                                         *)
(* The private loop keeps the promises that Runtime checks: a request is   *)
(* run once and answered, giving it up cancels its task, and closing       *)
(* cancels every task, once, and waits for it.  asyncio reaps a child that *)
(* ended while the loop runs.  An interrupt arrives where a thread waits.  *)
(***************************************************************************)
EXTENDS Integers, FiniteSets

CONSTANTS
    Callers,          \* threads that call a tool, one call each
    Closers,          \* threads that close the connection
    Maker,            \* the closer that also ran the factory
    MaxInterrupts     \* bound: interrupts that arrive while a thread waits in close

ASSUME ConnectionConstants ==
    /\ IsFiniteSet(Callers) /\ IsFiniteSet(Closers) /\ Maker \in Closers /\ "nobody" \notin Closers
    /\ MaxInterrupts \in Nat

VARIABLES
    state,       \* _state
    closeLock,   \* the thread that holds _close_lock, or "nobody"
    interrupts,  \* interrupts of close so far
    mpc,         \* where the thread of the factory is
    kpc,         \* where each closing thread is
    opening,     \* the task of _open
    spawn,       \* _spawn_task
    process,     \* _process is set
    protocol,    \* _protocol: none, open, lost or exited
    child,       \* the child process
    signal,      \* the strongest signal it was sent
    cleanup,     \* _cleanup_task: where it is
    cancelled,   \* the Runner has cancelled the cleanup task, which has not noticed
    runtime,     \* the private loop: open, stopping or closed
    cpc,         \* where each calling thread is
    task         \* the task of _invoke of each call

connectVars == <<mpc, opening, spawn>>
childVars == <<child, signal>>
closeVars == <<closeLock, interrupts, kpc>>
callVars == <<cpc, task>>
vars == <<state, connectVars, childVars, process, protocol, cleanup, cancelled, runtime, closeVars, callVars>>

OpeningLive == {"queued", "spawn", "handshake", "cancelling"}
CleanupEnd == {"none", "done", "failed"}
TaskLive == {"queued", "inflight", "cancelling"}
LoopRuns == runtime # "closed"

Init ==
    /\ state = "CONNECTING" /\ closeLock = "nobody" /\ interrupts = 0
    /\ mpc = "connect" /\ kpc = [k \in Closers |-> "idle"]
    /\ opening = "queued" /\ spawn = "none" /\ process = FALSE /\ protocol = "none"
    /\ child = "none" /\ signal = "none" /\ cleanup = "none" /\ cancelled = FALSE
    /\ runtime = "open"
    /\ cpc = [c \in Callers |-> "idle"] /\ task = [c \in Callers |-> "none"]

\* What a protocol that closes does to the calls that wait (_finish_pending).
TasksFailed == [c \in Callers |-> IF task[c] = "inflight" THEN "done" ELSE task[c]]

\* The first step of __aexit__, where there is a protocol.
Exited == IF protocol = "none" THEN "none" ELSE "exited"

-----------------------------------------------------------------------------
(* The child process, as the operating system and asyncio handle it         *)

\* It may end by itself at any time; a signal may be ignored, except kill.
ChildEnds ==
    /\ child = "running" /\ child' = "ended"
    /\ UNCHANGED <<state, connectVars, signal, process, protocol, cleanup, cancelled, runtime, closeVars, callVars>>

\* The loop reaps it.
Reap ==
    /\ LoopRuns /\ child = "ended" /\ child' = "reaped"
    /\ UNCHANGED <<state, connectVars, signal, process, protocol, cleanup, cancelled, runtime, closeVars, callVars>>

\* The receive loop meets the end of the stream.
ProtocolLost ==
    /\ LoopRuns /\ opening = "done" /\ protocol = "open" /\ protocol' = "lost" /\ task' = TasksFailed
    /\ UNCHANGED <<state, connectVars, childVars, process, cleanup, cancelled, runtime, closeVars, cpc>>

-----------------------------------------------------------------------------
(* The factory                                                              *)

\* _open creates the task that spawns the child.
OpenStart ==
    /\ LoopRuns /\ opening = "queued" /\ opening' = "spawn" /\ spawn' = "running"
    /\ UNCHANGED <<state, mpc, childVars, process, protocol, cleanup, cancelled, runtime, closeVars, callVars>>

\* create_subprocess_exec returns or raises.
SpawnEnds ==
    /\ LoopRuns /\ spawn = "running"
    /\ \/ spawn' = "done" /\ child' = "running"
       \/ spawn' = "failed" /\ UNCHANGED child
    /\ UNCHANGED <<state, mpc, opening, signal, process, protocol, cleanup, cancelled, runtime, closeVars, callVars>>

\* "await asyncio.shield(self._spawn_task)" returns.
OpenSpawned ==
    /\ LoopRuns /\ opening = "spawn"
    /\ \/ spawn = "done" /\ opening' = "handshake" /\ process' = TRUE
       \/ spawn = "failed" /\ opening' = "failed" /\ UNCHANGED process
    /\ UNCHANGED <<state, mpc, spawn, childVars, protocol, cleanup, cancelled, runtime, closeVars, callVars>>

\* from_subprocess returns: there is a protocol, and __aenter__ begins.
OpenProtocol ==
    /\ LoopRuns /\ opening = "handshake" /\ protocol = "none" /\ protocol' = "open"
    /\ UNCHANGED <<state, connectVars, childVars, process, cleanup, cancelled, runtime, closeVars, callVars>>

\* __aenter__ returns.
OpenDone ==
    /\ LoopRuns /\ opening = "handshake" /\ protocol = "open" /\ opening' = "done"
    /\ UNCHANGED <<state, mpc, spawn, childVars, process, protocol, cleanup, cancelled, runtime, closeVars, callVars>>

\* The handshake fails, or the deadline of _open passes; the spawn task is
\* shielded from both.  A protocol that was entered exits.
OpenFails ==
    /\ LoopRuns /\ opening \in {"spawn", "handshake"}
    /\ opening' = "failed" /\ protocol' = Exited
    /\ UNCHANGED <<state, mpc, spawn, childVars, process, cleanup, cancelled, runtime, closeVars, callVars>>

\* The cancellation of an interrupted factory arrives in _open.
OpenCancelled ==
    /\ LoopRuns /\ opening = "cancelling" /\ opening' = "failed" /\ protocol' = Exited
    /\ UNCHANGED <<state, mpc, spawn, childVars, process, cleanup, cancelled, runtime, closeVars, callVars>>

\* The factory returns the connection.
Made ==
    /\ mpc = "connect" /\ opening = "done"
    /\ mpc' = "made" /\ state' = "OPEN"
    /\ UNCHANGED <<opening, spawn, childVars, process, protocol, cleanup, cancelled, runtime, closeVars, callVars>>

\* The factory fails and closes what it has.
MakeFails ==
    /\ mpc = "connect" /\ opening = "failed"
    /\ mpc' = "failing" /\ kpc' = [kpc EXCEPT ![Maker] = "lock"]
    /\ UNCHANGED <<state, opening, spawn, childVars, process, protocol, cleanup, cancelled, runtime,
                   closeLock, interrupts, callVars>>

\* The factory is interrupted: run cancels its request, which may be over.
InterruptMake ==
    /\ mpc = "connect"
    /\ opening' = CASE opening = "queued" -> "failed" [] opening \in {"spawn", "handshake"} -> "cancelling"
                    [] OTHER -> opening
    /\ mpc' = "failing" /\ kpc' = [kpc EXCEPT ![Maker] = "lock"]
    /\ UNCHANGED <<state, spawn, childVars, process, protocol, cleanup, cancelled, runtime,
                   closeLock, interrupts, callVars>>

-----------------------------------------------------------------------------
(* Calls                                                                    *)

\* _dispatch reads the state without the lock.
CallBegin(c) ==
    /\ mpc = "made" /\ cpc[c] = "idle"
    /\ cpc' = [cpc EXCEPT ![c] = IF state = "OPEN" THEN "submit" ELSE "refused"]
    /\ UNCHANGED <<state, connectVars, childVars, process, protocol, cleanup, cancelled, runtime, closeVars, task>>

\* submit; a runtime that closes refuses.
Submit(c) ==
    /\ cpc[c] = "submit"
    /\ IF runtime = "open"
       THEN cpc' = [cpc EXCEPT ![c] = "wait"] /\ task' = [task EXCEPT ![c] = "queued"]
       ELSE cpc' = [cpc EXCEPT ![c] = "refused"] /\ UNCHANGED task
    /\ UNCHANGED <<state, connectVars, childVars, process, protocol, cleanup, cancelled, runtime, closeVars>>

\* Mutant: the state is not looked at again on the loop.
MayCallLate == protocol = "open"

\* The checks of _invoke, on the loop.
MayCall == state = "OPEN" /\ protocol = "open"

\* _invoke hands the call to the protocol, or refuses it.
Invoke(c) ==
    /\ LoopRuns /\ task[c] = "queued"
    /\ task' = [task EXCEPT ![c] = IF MayCall THEN "inflight" ELSE "done"]
    /\ UNCHANGED <<state, connectVars, childVars, process, protocol, cleanup, cancelled, runtime, closeVars, cpc>>

\* A response arrives, or the deadline of the call passes.
CallAnswered(c) ==
    /\ LoopRuns /\ task[c] = "inflight" /\ task' = [task EXCEPT ![c] = "done"]
    /\ UNCHANGED <<state, connectVars, childVars, process, protocol, cleanup, cancelled, runtime, closeVars, cpc>>

\* The cancellation arrives in the task of a call.
CallCancelled(c) ==
    /\ LoopRuns /\ task[c] = "cancelling" /\ task' = [task EXCEPT ![c] = "done"]
    /\ UNCHANGED <<state, connectVars, childVars, process, protocol, cleanup, cancelled, runtime, closeVars, cpc>>

\* result returns or raises; after an interrupt, wait does, which a runtime
\* that closes refuses.
CallReturns(c) ==
    /\ \/ cpc[c] = "wait" /\ task[c] \notin TaskLive
       \/ cpc[c] = "settle" /\ (task[c] \notin TaskLive \/ runtime # "open")
    /\ cpc' = [cpc EXCEPT ![c] = "returned"]
    /\ UNCHANGED <<state, connectVars, childVars, process, protocol, cleanup, cancelled, runtime, closeVars, task>>

\* An interrupt: the future is cancelled, and the thread waits for its task.
InterruptCall(c) ==
    /\ cpc[c] = "wait" /\ cpc' = [cpc EXCEPT ![c] = "settle"]
    /\ task' = [task EXCEPT ![c] = CASE @ = "queued" -> "done" [] @ = "inflight" -> "cancelling" [] OTHER -> @]
    /\ UNCHANGED <<state, connectVars, childVars, process, protocol, cleanup, cancelled, runtime, closeVars>>

-----------------------------------------------------------------------------
(* close, in the threads that call it                                       *)

\* The application closes a connection that it was given.
CloseBegin(k) ==
    /\ mpc = "made" /\ kpc[k] = "idle" /\ kpc' = [kpc EXCEPT ![k] = "lock"]
    /\ UNCHANGED <<state, connectVars, childVars, process, protocol, cleanup, cancelled, runtime,
                   closeLock, interrupts, callVars>>

\* The close lock is free.  A connection that is closed already is left alone.
CloseLocked(k) ==
    /\ kpc[k] = "lock" /\ closeLock = "nobody"
    /\ IF state = "CLOSED"
       THEN kpc' = [kpc EXCEPT ![k] = "returned"] /\ UNCHANGED <<state, closeLock>>
       ELSE kpc' = [kpc EXCEPT ![k] = "first"] /\ closeLock' = k /\ state' = "CLOSING"
    /\ UNCHANGED <<interrupts, connectVars, childVars, process, protocol, cleanup, cancelled, runtime, callVars>>

\* _close_async shares one cleanup task between its callers.
CleanupCreated == IF cleanup = "none" THEN "start" ELSE cleanup

\* The loop runs the request of a closing thread.
CloseAsync(k) ==
    /\ LoopRuns /\ kpc[k] \in {"first", "second"}
    /\ cleanup' = CleanupCreated
    /\ kpc' = [kpc EXCEPT ![k] = IF @ = "first" THEN "await" ELSE "again"]
    /\ UNCHANGED <<state, closeLock, interrupts, connectVars, childVars, process, protocol, cancelled, runtime, callVars>>

\* The cleanup is over: the runtime is closed, after a second attempt when the
\* first one raised.
CloseRan(k) ==
    /\ kpc[k] \in {"await", "again"} /\ cleanup \in {"done", "failed"}
    /\ IF kpc[k] = "await" /\ cleanup = "failed"
       THEN kpc' = [kpc EXCEPT ![k] = "second"] /\ UNCHANGED runtime
       ELSE kpc' = [kpc EXCEPT ![k] = "join"] /\ runtime' = "cancel"
    /\ UNCHANGED <<state, closeLock, interrupts, connectVars, childVars, process, protocol, cleanup, cancelled, callVars>>

\* Mutant: an interrupt of close goes straight to the runtime.
AfterInterruptNow(where) == "join"

\* "An interrupted wait must not cancel process cleanup when the runtime shuts
\* down": the wait is repeated once.
AfterInterrupt(where) == IF where \in {"first", "await"} THEN "second" ELSE "join"

InterruptClose(k) ==
    /\ kpc[k] \in {"first", "await", "second", "again"} /\ interrupts < MaxInterrupts
    /\ interrupts' = interrupts + 1
    /\ kpc' = [kpc EXCEPT ![k] = AfterInterrupt(@)]
    /\ runtime' = IF AfterInterrupt(kpc[k]) = "join" THEN "cancel" ELSE runtime
    /\ UNCHANGED <<state, closeLock, connectVars, childVars, process, protocol, cleanup, cancelled, callVars>>

\* The Runner cancels every task that is left.
CancelAll ==
    /\ runtime = "cancel" /\ runtime' = "stopping"
    /\ opening' = IF opening \in OpeningLive THEN "cancelling" ELSE opening
    /\ spawn' = IF spawn = "running" THEN "cancelling" ELSE spawn
    /\ cancelled' = (cleanup \notin CleanupEnd)
    /\ task' = [c \in Callers |-> IF task[c] \in TaskLive THEN "cancelling" ELSE task[c]]
    /\ UNCHANGED <<state, mpc, childVars, process, protocol, cleanup, closeVars, cpc>>

\* asyncio ends a spawn that is cancelled: the child is killed and reaped.
SpawnCancelled ==
    /\ LoopRuns /\ spawn = "cancelling" /\ spawn' = "failed"
    /\ UNCHANGED <<state, mpc, opening, childVars, process, protocol, cleanup, cancelled, runtime, closeVars, callVars>>

\* Every task has ended, and the loop is closed.
CloseLoop ==
    /\ runtime = "stopping" /\ opening \notin OpeningLive /\ spawn \notin {"running", "cancelling"}
    /\ cleanup \in CleanupEnd /\ \A c \in Callers : task[c] \notin TaskLive
    /\ runtime' = "closed"
    /\ UNCHANGED <<state, connectVars, childVars, process, protocol, cleanup, cancelled, closeVars, callVars>>

\* The last finally clause of close.
LeaveClosed(k) == kpc' = [kpc EXCEPT ![k] = "returned"] /\ state' = "CLOSED" /\ closeLock' = "nobody"

\* The thread of the loop is joined.
CloseJoined(k) ==
    /\ kpc[k] = "join" /\ runtime = "closed" /\ LeaveClosed(k)
    /\ UNCHANGED <<interrupts, connectVars, childVars, process, protocol, cleanup, cancelled, runtime, callVars>>

\* The wait for that thread is interrupted.
InterruptJoin(k) ==
    /\ kpc[k] = "join" /\ interrupts < MaxInterrupts /\ interrupts' = interrupts + 1 /\ LeaveClosed(k)
    /\ UNCHANGED <<connectVars, childVars, process, protocol, cleanup, cancelled, runtime, callVars>>

-----------------------------------------------------------------------------
(* _cleanup and _terminate, on the loop                                     *)

Others == <<state, connectVars, runtime, closeVars, cpc>>
Running == LoopRuns /\ ~cancelled /\ UNCHANGED cancelled

\* There is a process: __aexit__ begins and fails the calls that wait, or,
\* without a protocol, the input of the child is closed.
CleanupExits == cleanup' = "exit" /\ protocol' = Exited /\ task' = TasksFailed

\* A process that nobody has seen yet is taken from the spawn task.
CleanupStart ==
    /\ cleanup = "start" /\ Running
    /\ \/ process /\ CleanupExits
       \/ ~process /\ cleanup' = (IF spawn = "none" THEN "done" ELSE "spawn") /\ UNCHANGED <<protocol, task>>
    /\ UNCHANGED <<Others, childVars, process>>

CleanupSpawned ==
    /\ cleanup = "spawn" /\ Running
    /\ \/ spawn = "done" /\ process' = TRUE /\ CleanupExits
       \/ spawn = "failed" /\ cleanup' = "done" /\ UNCHANGED <<process, protocol, task>>
    /\ UNCHANGED <<Others, childVars>>

\* The awaits of __aexit__ are over.
CleanupExited ==
    /\ cleanup = "exit" /\ Running /\ cleanup' = "wait"
    /\ UNCHANGED <<Others, childVars, process, protocol, task>>

\* The finally clause of _cleanup: "if process.returncode is None".
CleanupFinally ==
    IF child = "reaped" THEN cleanup' = "failed" /\ UNCHANGED signal ELSE cleanup' = "term2" /\ signal' = "term"

\* __aexit__ raises.
CleanupExitFails ==
    /\ cleanup = "exit" /\ protocol # "none" /\ Running /\ CleanupFinally
    /\ UNCHANGED <<Others, child, process, protocol, task>>

\* process.wait() returns.
CleanupReaped ==
    /\ cleanup \in {"wait", "term", "kill", "term2", "kill2"} /\ child = "reaped" /\ Running
    /\ cleanup' = IF cleanup \in {"term2", "kill2"} THEN "failed" ELSE "done"
    /\ UNCHANGED <<Others, childVars, process, protocol, task>>

\* Mutant: a child that ignores terminate is never killed.
EscalateOnce == IF cleanup \in {"exit", "wait"} THEN "term" ELSE cleanup

\* What follows a deadline: terminate after close_timeout, kill a second later.
Escalate ==
    CASE cleanup \in {"exit", "wait"} -> "term" [] cleanup = "term" -> "kill" [] cleanup = "term2" -> "kill2"

\* A deadline passes; the signal finds no process when the child was reaped.
CleanupDeadline ==
    /\ cleanup \in {"exit", "wait", "term", "term2"} /\ Running /\ cleanup' = Escalate
    /\ signal' = CASE child = "reaped" -> signal [] cleanup' = "term" -> "term"
                   [] cleanup' \in {"kill", "kill2"} -> "kill" [] OTHER -> signal
    /\ UNCHANGED <<Others, child, process, protocol, task>>

\* The cancellation of the Runner arrives: the finally clause still ends the
\* child, unless the task is not yet inside its try, or already in the clause.
CleanupCancelled ==
    /\ LoopRuns /\ cancelled /\ cancelled' = FALSE
    /\ IF cleanup \in {"start", "spawn", "term2", "kill2"} THEN cleanup' = "failed" /\ UNCHANGED signal
       ELSE CleanupFinally
    /\ UNCHANGED <<Others, child, process, protocol, task>>

-----------------------------------------------------------------------------
OpenStep == OpenStart \/ SpawnEnds \/ OpenSpawned \/ OpenProtocol \/ OpenDone \/ OpenFails \/ OpenCancelled
MakeStep == Made \/ MakeFails
CleanupStep ==
    \/ CleanupStart \/ CleanupSpawned \/ CleanupExited \/ CleanupExitFails \/ CleanupReaped
    \/ CleanupDeadline \/ CleanupCancelled
StopStep == CancelAll \/ SpawnCancelled \/ CloseLoop
CallerStep(c) == Submit(c) \/ CallReturns(c)
TaskStep(c) == Invoke(c) \/ CallCancelled(c)
CloserStep(k) == CloseLocked(k) \/ CloseAsync(k) \/ CloseRan(k) \/ CloseJoined(k)

Next ==
    \/ ChildEnds \/ Reap \/ ProtocolLost
    \/ OpenStep \/ MakeStep \/ InterruptMake \/ CleanupStep \/ StopStep
    \/ \E c \in Callers : CallBegin(c) \/ CallerStep(c) \/ TaskStep(c) \/ CallAnswered(c) \/ InterruptCall(c)
    \/ \E k \in Closers : CloseBegin(k) \/ CloserStep(k) \/ InterruptClose(k) \/ InterruptJoin(k)

Spec == Init /\ [][Next]_vars

\* The loop and the threads run on, timers fire, and the system ends a child
\* that was killed.  Nothing is assumed of the child otherwise, of answers, of
\* interrupts, or that somebody closes.
FairSpec ==
    /\ Spec
    /\ WF_vars(Reap) /\ WF_vars(signal = "kill" /\ ChildEnds)
    /\ WF_vars(OpenStep) /\ WF_vars(MakeStep) /\ WF_vars(CleanupStep) /\ WF_vars(StopStep)
    /\ \A c \in Callers : WF_vars(CallerStep(c)) /\ WF_vars(TaskStep(c))
    /\ \A k \in Closers : WF_vars(CloserStep(k))

-----------------------------------------------------------------------------
Holding == {"first", "await", "second", "again", "join"}

\* Types, and the close lock of Connection.close is held exactly by the thread
\* that is inside it.
TypeOK ==
    /\ state \in {"CONNECTING", "OPEN", "CLOSING", "CLOSED"}
    /\ closeLock \in Closers \cup {"nobody"} /\ interrupts \in 0..MaxInterrupts
    /\ mpc \in {"connect", "made", "failing"}
    /\ kpc \in [Closers -> {"idle", "lock", "returned"} \cup Holding]
    /\ opening \in OpeningLive \cup {"done", "failed"}
    /\ spawn \in {"none", "running", "cancelling", "done", "failed"} /\ process \in BOOLEAN
    /\ protocol \in {"none", "open", "lost", "exited"}
    /\ child \in {"none", "running", "ended", "reaped"} /\ signal \in {"none", "term", "kill"}
    /\ cleanup \in CleanupEnd \cup {"start", "spawn", "exit", "wait", "term", "kill", "term2", "kill2"}
    /\ cancelled \in BOOLEAN /\ runtime \in {"open", "cancel", "stopping", "closed"}
    /\ cpc \in [Callers -> {"idle", "submit", "wait", "settle", "returned", "refused"}]
    /\ task \in [Callers -> TaskLive \cup {"none", "done"}]
    /\ \A k \in Closers : closeLock = k <=> kpc[k] \in Holding

\* A connection that says it is closed has reaped its child, although the
\* factory and one wait of close may have been interrupted anywhere, also while
\* the child was being spawned (_close_async, _cleanup).  A second interrupt
\* reaches the runtime, which cancels the cleanup.
Clean == state = "CLOSED" /\ interrupts <= 1 => child \in {"none", "reaped"}

\* No call waits for the answer of a protocol that will read none: _invoke
\* looks at the protocol, and a protocol that closes fails its calls.
NoneStranded == protocol \in {"lost", "exited"} => \A c \in Callers : task[c] # "inflight"

\* "A closing connection is therefore refused" (_dispatch): no call leaves once
\* the cleanup has been created, although the state is read without its lock.
LateCallRefused ==
    [][\A c \in Callers : task[c] # "inflight" /\ task'[c] = "inflight" => cleanup = "none"]_vars

\* Every close returns, also when the child ignores terminate.
CloseEnds == \A k \in Closers : kpc[k] = "lock" ~> kpc[k] = "returned"

\* A closed connection leaves neither a child nor a caller behind, whichever
\* waits were interrupted (_close_async, _cleanup, _invoke).
ConnectionSafe == TypeOK /\ Clean /\ NoneStranded
=============================================================================
