------------------------------- MODULE Runtime ------------------------------
(***************************************************************************)
(* _Runtime of rmote/_runtime.py: threads submit coroutines to a private   *)
(* event loop thread and wait for their futures, while another thread      *)
(* closes the runtime.                                                     *)
(*                                                                         *)
(* submit takes no lock, so the threads interleave at every access to the  *)
(* shared state.  Completing a future and its callback _request_done are   *)
(* one step: the part that matters runs under the lock of the runtime.     *)
(***************************************************************************)
EXTENDS Integers, Sequences, FiniteSets

CONSTANTS
    Requests,       \* the requests, each of a thread of its own
    FromMain        \* the requests of the main thread, which waits on a gate

ASSUME RuntimeConstants ==
    /\ IsFiniteSet(Requests) /\ FromMain \subseteq Requests

VARIABLES
    state,      \* _state
    server,     \* where _serve is
    stopping,   \* the stop event of _main is set
    ready,      \* the callbacks that the loop still holds
    spc,        \* where each submitting thread is
    fut,        \* the Future of each request
    requests,   \* _requests
    gates,      \* _gates: requests whose gate is locked
    task,       \* the task of each request on the loop
    doomed,     \* tasks that the Runner cancelled and waits for
    sweep,      \* requests of the snapshot of _serve
    cpc         \* where close is

loopVars == <<server, stopping, task, doomed, sweep>>
requestVars == <<fut, requests, gates>>
vars == <<state, loopVars, ready, spc, requestVars, cpc>>

Live == {"created", "running", "cancelling"}

Init ==
    /\ state = "starting" /\ server = "boot" /\ stopping = FALSE /\ ready = <<>>
    /\ spc = [r \in Requests |-> "idle"] /\ fut = [r \in Requests |-> "pending"]
    /\ requests = {} /\ gates = {} /\ task = [r \in Requests |-> "none"]
    /\ doomed = {} /\ sweep = {} /\ cpc = "idle"

-----------------------------------------------------------------------------
(* Futures                                                                  *)

LoopIsOpen == server \notin {"boot", "closed", "sweep", "finished"}

\* Mutant: a request that is given up does not cancel its task.
CancelCallbackNever(r, how) == ready

\* What _request_done leaves for the loop.
CancelCallback(r, how) ==
    IF how = "cancelled" /\ state # "closed" /\ LoopIsOpen THEN Append(ready, <<"cancel", r>>) ELSE ready

\* Mutant: the gate is released only for a request that was cancelled.
CompleteHoldsGate(r, how) ==
    IF fut[r] # "pending" THEN UNCHANGED <<requestVars, ready>>
    ELSE /\ fut' = [fut EXCEPT ![r] = how]
         /\ requests' = requests \ {r} /\ gates' = (IF how = "cancelled" THEN gates \ {r} ELSE gates)
         /\ ready' = CancelCallback(r, how)

\* set_result, set_exception or cancel, with _request_done; a future that is
\* done stays as it is.
Complete(r, how) ==
    IF fut[r] # "pending" THEN UNCHANGED <<requestVars, ready>>
    ELSE /\ fut' = [fut EXCEPT ![r] = how]
         /\ requests' = requests \ {r} /\ gates' = gates \ {r}
         /\ ready' = CancelCallback(r, how)

-----------------------------------------------------------------------------
(* submit, result and run, in the threads of the callers                    *)

\* The future is published before the state is checked.
Publish(r) ==
    /\ spc[r] = "idle" /\ server \notin {"boot", "main?"} /\ cpc # "early"
    /\ spc' = [spc EXCEPT ![r] = "check"]
    /\ requests' = requests \cup {r}
    /\ gates' = (IF r \in FromMain THEN gates \cup {r} ELSE gates)
    /\ UNCHANGED <<state, loopVars, ready, fut, cpc>>

Reject(r) ==
    /\ spc' = [spc EXCEPT ![r] = "rejected"]
    /\ requests' = requests \ {r} /\ gates' = gates \ {r}
    /\ UNCHANGED <<state, loopVars, ready, fut, cpc>>

\* "if self._state != 'open'"
Check(r) ==
    /\ spc[r] = "check"
    /\ \/ state = "open" /\ spc' = [spc EXCEPT ![r] = "schedule"]
          /\ UNCHANGED <<state, loopVars, ready, requestVars, cpc>>
       \/ state # "open" /\ Reject(r)

\* call_soon_threadsafe, which raises when the loop is closed.
Schedule(r) ==
    /\ spc[r] = "schedule"
    /\ \/ /\ LoopIsOpen /\ spc' = [spc EXCEPT ![r] = "wait"]
          /\ ready' = Append(ready, <<"start", r>>)
          /\ UNCHANGED <<state, loopVars, requestVars, cpc>>
       \/ ~LoopIsOpen /\ Reject(r)

\* The gate of the main thread is released, the future is done.
Return(r) ==
    /\ spc[r] = "wait" /\ r \notin gates /\ fut[r] # "pending"
    /\ spc' = [spc EXCEPT ![r] = "returned"]
    /\ UNCHANGED <<state, loopVars, ready, requestVars, cpc>>

\* A timeout of run, or an interrupt: future.cancel().
GiveUp(r) ==
    /\ spc[r] = "wait"
    /\ Complete(r, "cancelled")
    /\ spc' = [spc EXCEPT ![r] = "gaveup"]
    /\ UNCHANGED <<state, loopVars, cpc>>

-----------------------------------------------------------------------------
(* The loop thread                                                          *)

\* The Runner has a loop.
Boot ==
    /\ server = "boot" /\ server' = "main?"
    /\ UNCHANGED <<state, stopping, task, doomed, sweep, ready, spc, requestVars, cpc>>

\* The start of _main: a close that came first is seen here.
EnterMain ==
    /\ server = "main?" /\ server' = "main"
    /\ IF state = "closing" THEN stopping' = TRUE /\ UNCHANGED state
                            ELSE state' = "open" /\ UNCHANGED stopping
    /\ UNCHANGED <<task, doomed, sweep, ready, spc, requestVars, cpc>>

\* _start, _cancel or stop.set, in the order they were scheduled.
RunCallback ==
    /\ LoopIsOpen /\ server # "main?" /\ ready # <<>>
    /\ ready' = Tail(ready)
    /\ LET kind == Head(ready)[1]  r == Head(ready)[2] IN
       \/ kind = "stop" /\ stopping' = TRUE /\ UNCHANGED task
       \/ /\ kind = "start" /\ UNCHANGED stopping
          /\ task' = (IF fut[r] = "cancelled" THEN task ELSE [task EXCEPT ![r] = "created"])
       \/ /\ kind = "cancel" /\ UNCHANGED stopping
          /\ task' = (IF task[r] \in Live THEN [task EXCEPT ![r] = "cancelling"] ELSE task)
    /\ UNCHANGED <<state, server, doomed, sweep, spc, requestVars, cpc>>

\* _execute invokes the factory.
StartWork(r) ==
    /\ LoopIsOpen /\ task[r] = "created" /\ task' = [task EXCEPT ![r] = "running"]
    /\ UNCHANGED <<state, server, stopping, doomed, sweep, ready, spc, requestVars, cpc>>

\* The coroutine returns or raises.
FinishWork(r) ==
    /\ LoopIsOpen /\ task[r] = "running" /\ task' = [task EXCEPT ![r] = "done"]
    /\ \E how \in {"result", "error"} : Complete(r, how)
    /\ UNCHANGED <<state, server, stopping, doomed, sweep, spc, cpc>>

\* The task was cancelled; the coroutine may still return or raise.
CancelWork(r) ==
    /\ LoopIsOpen /\ task[r] = "cancelling" /\ task' = [task EXCEPT ![r] = "done"]
    /\ \E how \in {"cancelled", "result", "error"} : Complete(r, how)
    /\ UNCHANGED <<state, server, stopping, doomed, sweep, spc, cpc>>

\* _main returns.
LeaveMain ==
    /\ server = "main" /\ stopping /\ server' = "cancel" /\ state' = "closing"
    /\ UNCHANGED <<stopping, task, doomed, sweep, ready, spc, requestVars, cpc>>

\* The Runner cancels every task, and waits for them.
CancelAll ==
    /\ server = "cancel" /\ server' = "gather"
    /\ doomed' = {r \in Requests : task[r] \in Live}
    /\ task' = [r \in Requests |-> IF task[r] \in Live THEN "cancelling" ELSE task[r]]
    /\ UNCHANGED <<state, stopping, sweep, ready, spc, requestVars, cpc>>

Gathered ==
    /\ server = "gather" /\ \A r \in doomed : task[r] \notin Live
    /\ server' = "shutdown"
    /\ UNCHANGED <<state, stopping, task, doomed, sweep, ready, spc, requestVars, cpc>>

\* The Runner has shut down generators and executor and closes the loop.
\* Callbacks that wait are dropped, and a task that appeared meanwhile with
\* them, whether its coroutine has begun or not.
CloseLoop ==
    /\ server = "shutdown" /\ server' = "closed"
    /\ ready' = <<>>
    /\ task' = [r \in Requests |-> CASE task[r] = "created" -> "dropped"
                                 [] task[r] \in {"running", "cancelling"} -> "destroyed"
                                 [] OTHER -> task[r]]
    /\ UNCHANGED <<state, stopping, doomed, sweep, spc, requestVars, cpc>>

\* Mutant: only the requests that have a task are completed.
SnapshotStarted == {r \in requests : task[r] # "none"}

Snapshot == requests

\* The finally clause of _serve, up to its snapshot.
TakeSnapshot ==
    /\ server = "closed" /\ server' = "sweep" /\ state' = "closed" /\ sweep' = Snapshot
    /\ UNCHANGED <<stopping, task, doomed, ready, spc, requestVars, cpc>>

Sweep(r) ==
    /\ server = "sweep" /\ r \in sweep /\ sweep' = sweep \ {r}
    /\ Complete(r, "cancelled")
    /\ UNCHANGED <<state, server, stopping, task, doomed, spc, cpc>>

Finish ==
    /\ server = "sweep" /\ sweep = {} /\ server' = "finished"
    /\ UNCHANGED <<state, stopping, task, doomed, sweep, ready, spc, requestVars, cpc>>

-----------------------------------------------------------------------------
(* close                                                                    *)

\* close; an interrupt of the constructor closes a runtime that is starting,
\* and nobody can submit to it.
CloseBegin ==
    /\ cpc = "idle" /\ state \notin {"closing", "closed"}
    /\ state' = "closing"
    /\ IF server \in {"boot", "main?"}
       THEN cpc' = "early" /\ UNCHANGED ready
       ELSE cpc' = "join" /\ ready' = Append(ready, <<"stop", "none">>)
    /\ UNCHANGED <<loopVars, spc, requestVars>>

Join ==
    /\ cpc \in {"early", "join"} /\ server = "finished" /\ cpc' = "closed"
    /\ UNCHANGED <<state, loopVars, ready, spc, requestVars>>

-----------------------------------------------------------------------------
LoopStep ==
    Boot \/ EnterMain \/ RunCallback \/ LeaveMain \/ CancelAll \/ Gathered \/ CloseLoop
    \/ TakeSnapshot \/ (\E r \in Requests : Sweep(r)) \/ Finish
CallerStep(r) == Check(r) \/ Schedule(r) \/ Return(r)

Next ==
    \/ Boot \/ EnterMain \/ RunCallback \/ LeaveMain \/ CancelAll \/ Gathered \/ CloseLoop
    \/ TakeSnapshot \/ Finish \/ CloseBegin \/ Join
    \/ \E r \in Requests :
        Publish(r) \/ Check(r) \/ Schedule(r) \/ Return(r) \/ GiveUp(r)
        \/ StartWork(r) \/ FinishWork(r) \/ CancelWork(r) \/ Sweep(r)

Spec == Init /\ [][Next]_vars

\* Every thread that can run is run; the loop runs its callbacks and starts its
\* tasks, and a coroutine that is cancelled ends ("cooperative task
\* cancellation").  It need not end by itself.
FairSpec ==
    /\ Spec
    /\ WF_vars(LoopStep) /\ WF_vars(Join)
    /\ \A r \in Requests :
        WF_vars(CallerStep(r)) /\ WF_vars(StartWork(r)) /\ WF_vars(CancelWork(r))

-----------------------------------------------------------------------------
(* Properties                                                               *)

\* Every variable holds a value of the kind the code keeps there.
TypeOK ==
    /\ state \in {"starting", "open", "closing", "closed"}
    /\ server \in {"boot", "main?", "main", "cancel", "gather", "shutdown", "closed", "sweep", "finished"}
    /\ stopping \in BOOLEAN /\ cpc \in {"idle", "early", "join", "closed"}
    /\ ready \in Seq({"start", "cancel", "stop"} \X (Requests \cup {"none"}))
    /\ spc \in [Requests -> {"idle", "check", "schedule", "wait", "returned", "rejected", "gaveup"}]
    /\ fut \in [Requests -> {"pending", "result", "error", "cancelled"}]
    /\ task \in [Requests -> Live \cup {"none", "done", "dropped", "destroyed"}]
    /\ requests \subseteq Requests /\ gates \subseteq FromMain
    /\ doomed \subseteq Requests /\ sweep \subseteq Requests

\* "Publish before checking the state so shutdown either sees this request in
\* its snapshot or submission rejects it": no thread is left waiting for a
\* future that the runtime has forgotten.
NoneForgotten ==
    server = "finished" => \A r \in Requests : spc[r] = "wait" => fut[r] # "pending" /\ r \notin gates

\* A close answers every thread that waits, also one whose work would run for
\* ever and one that was still submitting when the close began.
WaitersReturn ==
    \A r \in Requests :
        (cpc # "idle" /\ spc[r] \in {"check", "schedule", "wait"}) ~> spc[r] \in {"returned", "gaveup", "rejected"}

\* Giving up stops the work: the task of a request that its caller gave up
\* ends, wherever the loop was when the caller left ("timeout or interruption
\* cancels the local operation").
GivenUpEnds == \A r \in Requests : spc[r] = "gaveup" ~> task[r] \notin Live

\* close returns, whenever it came.
CloseReturns == cpc \in {"early", "join"} ~> cpc = "closed"

\* Whatever submit and close do to each other without a lock, no thread waits
\* for a request that the loop has forgotten (submit, _serve).
RuntimeSafe == TypeOK /\ NoneForgotten

\* No thread is left in the runtime after a close: neither one that waits for
\* its request (result) nor the one that closes.
EveryoneReturns == WaitersReturn /\ CloseReturns
=============================================================================
