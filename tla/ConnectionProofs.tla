-------------------------- MODULE ConnectionProofs --------------------------
(***************************************************************************)
(* Theorems about Connection, for every number of threads that call, of    *)
(* threads that close and of interrupts.                                   *)
(*                                                                         *)
(* A closed connection has reaped its child because of how close gets      *)
(* there: unless it was interrupted twice, it saw its cleanup end, and a   *)
(* cleanup that ended without being cancelled found no child or a reaped   *)
(* one, and no spawn that could still bring one.                           *)
(***************************************************************************)
EXTENDS Connection, SequenceTheorems, TLAPS

USE ConnectionConstants
USE DEF connectVars, childVars, closeVars, callVars, LoopRuns, Holding, OpeningLive, CleanupEnd, TaskLive

-----------------------------------------------------------------------------
(* The invariant                                                            *)

\* Before the factory is over nobody closes and nobody calls; afterwards _open
\* starts nothing, and a connection that was made has been opened.
Factory ==
    /\ mpc = "connect" => state = "CONNECTING" /\ \A k \in Closers : kpc[k] = "idle"
    /\ mpc # "connect" => opening \in {"cancelling", "failed", "done"}
    /\ mpc = "made" => opening = "done"
    /\ \A c \in Callers : cpc[c] # "idle" \/ task[c] # "none" => mpc = "made"

\* The thread inside close has announced it, there is no cleanup before, and
\* only one that is under way is cancelled.
Announced ==
    /\ \A k \in Closers : kpc[k] \in Holding => state = "CLOSING"
    /\ state \in {"CONNECTING", "OPEN"} => cleanup = "none"
    /\ cancelled => cleanup \notin CleanupEnd

\* There is a child once the spawn task is done, and only then.
Spawned ==
    /\ child = "none" <=> spawn # "done"
    /\ process => spawn = "done"
    /\ opening = "queued" => spawn = "none"

CleanedUp == cleanup \in {"done", "failed"}

\* A close that was interrupted at most once stops the loop only when the
\* cleanup has ended by itself.
Patient ==
    /\ interrupts <= 1 =>
        /\ ~cancelled
        /\ runtime # "open" \/ state = "CLOSED" => CleanedUp
        /\ \A k \in Closers : kpc[k] = "join" => CleanedUp
    /\ interrupts = 0 => \A k \in Closers : kpc[k] \in {"second", "again"} => CleanedUp

\* A cleanup that has ended by itself has reaped the child, or there is none
\* and there will be none.
Reaped == interrupts <= 1 /\ CleanedUp => child = "reaped" \/ spawn \in {"none", "failed"}

ConnectionInv ==
    TypeOK /\ Factory /\ Announced /\ Spawned /\ Patient /\ Reaped /\ NoneStranded

\* A connection that is being made has none of this.
LEMMA ConnectionInit == Init => ConnectionInv
<1> SUFFICES ASSUME Init PROVE ConnectionInv  OBVIOUS
<1>1. TypeOK
  <2>1. interrupts \in 0..MaxInterrupts  BY DEF Init
  <2>2. \A k \in Closers : closeLock = k <=> kpc[k] \in Holding  BY DEF Init
  <2>3. kpc \in [Closers -> {"idle", "lock", "returned"} \cup Holding]  BY DEF Init
  <2>4. cpc \in [Callers -> {"idle", "submit", "wait", "settle", "returned", "refused"}]
        /\ task \in [Callers -> TaskLive \cup {"none", "done"}]
    BY DEF Init
  <2> QED  BY <2>1, <2>2, <2>3, <2>4 DEF Init, TypeOK
<1>2. Factory /\ Announced /\ Spawned /\ Patient /\ Reaped /\ NoneStranded
  BY DEF Init, Factory, Announced, Spawned, Patient, Reaped, NoneStranded, CleanedUp
<1> QED  BY <1>1, <1>2 DEF ConnectionInv

\* The invariant says that a closed connection is clean.
LEMMA ConnectionSafety == ConnectionInv => ConnectionSafe
  BY DEF ConnectionInv, ConnectionSafe, Clean, Patient, Reaped, Spawned, TypeOK

\* Only _invoke sends a call, and it sends none once there is a cleanup.
CallStep == \A c \in Callers : task[c] # "inflight" /\ task'[c] = "inflight" => cleanup = "none"

-----------------------------------------------------------------------------
(* One lemma per group of actions                                           *)

USE DEF ConnectionInv

\* The child ends and is reaped.
LEMMA ChildKeeps == ASSUME ConnectionInv, ChildEnds \/ Reap PROVE ConnectionInv' /\ CallStep
<1>1. UNCHANGED <<state, connectVars, signal, process, protocol, cleanup, cancelled, runtime, closeVars, callVars>>
  BY DEF ChildEnds, Reap
<1>2. (child = "running" /\ child' = "ended") \/ (child = "ended" /\ child' = "reaped")  BY DEF ChildEnds, Reap
<1>3. TypeOK'  BY <1>1, <1>2 DEF TypeOK
<1>4. Factory' /\ Announced' /\ Patient' /\ NoneStranded'
  BY <1>1 DEF Factory, Announced, Patient, NoneStranded, CleanedUp
<1>5. Spawned' /\ Reaped'  BY <1>1, <1>2 DEF Spawned, Reaped, CleanedUp
<1> QED  BY <1>1, <1>3, <1>4, <1>5 DEF CallStep

\* _open: nothing it does meets a caller or a cleanup that has ended.
LEMMA OpenKeeps == ASSUME ConnectionInv, OpenStep PROVE ConnectionInv' /\ CallStep
<1>1. UNCHANGED <<state, mpc, signal, cleanup, cancelled, runtime, closeVars, callVars>>
  BY DEF OpenStep, OpenStart, SpawnEnds, OpenSpawned, OpenProtocol, OpenDone, OpenFails, OpenCancelled
<1>2. CASE OpenStart
  <2>1. TypeOK'  BY <1>1, <1>2 DEF OpenStart, TypeOK
  <2>2. mpc = "connect" /\ cleanup = "none"  BY <1>2 DEF OpenStart, Factory, Announced, TypeOK
  <2>3. Factory' /\ Announced' /\ Spawned' /\ NoneStranded'
    BY <1>1, <1>2, <2>2 DEF OpenStart, Factory, Announced, Spawned, NoneStranded
  <2>4. Patient' /\ Reaped'  BY <1>1, <1>2, <2>2 DEF OpenStart, Patient, Reaped, CleanedUp
  <2> QED  BY <1>1, <2>1, <2>3, <2>4 DEF CallStep
<1>3. CASE SpawnEnds
  <2>1. TypeOK'  BY <1>1, <1>3 DEF SpawnEnds, TypeOK
  <2>2. Factory' /\ Announced' /\ Spawned' /\ NoneStranded'
    BY <1>1, <1>3 DEF SpawnEnds, Factory, Announced, Spawned, NoneStranded
  <2>3. Patient' /\ Reaped'  BY <1>1, <1>3 DEF SpawnEnds, Spawned, Patient, Reaped, CleanedUp
  <2> QED  BY <1>1, <2>1, <2>2, <2>3 DEF CallStep
<1>4. CASE OpenSpawned \/ OpenProtocol \/ OpenDone \/ OpenFails \/ OpenCancelled
  <2>1. /\ UNCHANGED <<spawn, child>>
        /\ protocol' \in {"none", "open", "exited"} \/ protocol' = protocol
        /\ opening' \in {"handshake", "failed", "done"} \/ opening' = opening
        /\ process' = process \/ (process' = TRUE /\ spawn = "done")
    BY <1>4 DEF OpenSpawned, OpenProtocol, OpenDone, OpenFails, OpenCancelled, Exited
  <2>2. TypeOK'
    <3>1. process' \in BOOLEAN  BY <2>1 DEF TypeOK
    <3>2. protocol' \in {"none", "open", "lost", "exited"} /\ opening' \in OpeningLive \cup {"done", "failed"}
      BY <2>1 DEF TypeOK
    <3> QED  BY <1>1, <2>1, <3>1, <3>2 DEF TypeOK
  <2>3. mpc # "made" \/ (opening = "done" /\ UNCHANGED <<opening, protocol>>)
    BY <1>4 DEF Factory, OpenSpawned, OpenProtocol, OpenDone, OpenFails, OpenCancelled
  <2>4. mpc # "connect" => opening' \in {"cancelling", "failed", "done"}
    BY <1>4 DEF Factory, OpenSpawned, OpenProtocol, OpenDone, OpenFails, OpenCancelled
  <2>5. Factory' /\ NoneStranded'  BY <1>1, <2>3, <2>4 DEF Factory, NoneStranded
  <2>6. Announced' /\ Spawned'  BY <1>1, <2>1 DEF Announced, Spawned
  <2>7. Patient' /\ Reaped'  BY <1>1, <2>1 DEF Patient, Reaped, CleanedUp
  <2> QED  BY <1>1, <2>2, <2>5, <2>6, <2>7 DEF CallStep
<1> QED  BY <1>2, <1>3, <1>4 DEF OpenStep

\* The connection is lost, and its calls fail.
LEMMA LostKeeps == ASSUME ConnectionInv, ProtocolLost PROVE ConnectionInv' /\ CallStep
<1>1. UNCHANGED <<state, connectVars, childVars, process, cleanup, cancelled, runtime, closeVars, cpc>>
  BY DEF ProtocolLost
<1>2. /\ protocol' = "lost" /\ opening = "done"
      /\ \A c \in Callers : task'[c] = IF task[c] = "inflight" THEN "done" ELSE task[c]
  BY DEF ProtocolLost, TasksFailed
<1>3. TypeOK'  BY <1>1 DEF TypeOK, ProtocolLost, TasksFailed
<1>4. Factory' /\ NoneStranded'  BY <1>1, <1>2 DEF Factory, NoneStranded
<1>5. Announced' /\ Spawned' /\ Patient' /\ Reaped'
  BY <1>1 DEF Announced, Spawned, Patient, Reaped, CleanedUp
<1> QED  BY <1>2, <1>3, <1>4, <1>5 DEF CallStep

\* The factory returns, fails or is interrupted.
LEMMA MakeKeeps == ASSUME ConnectionInv, MakeStep \/ InterruptMake PROVE ConnectionInv' /\ CallStep
<1> USE DEF MakeStep, Made, MakeFails, InterruptMake
<1>1. /\ mpc = "connect" /\ cleanup = "none" /\ state = "CONNECTING" /\ (\A k \in Closers : kpc[k] = "idle")
      /\ UNCHANGED <<spawn, childVars, process, protocol, cleanup, cancelled, runtime, closeLock, interrupts, callVars>>
  BY DEF Factory, Announced
<1>2. kpc' = kpc \/ kpc' = [kpc EXCEPT ![Maker] = "lock"]  OBVIOUS
<1>3. /\ state' \in {"CONNECTING", "OPEN"} /\ mpc' \in {"made", "failing"}
      /\ opening' \in {"cancelling", "failed", "done"} /\ (mpc' = "made" => opening' = "done")
  BY <1>1 DEF TypeOK
<1>4. TypeOK'  BY <1>1, <1>2, <1>3 DEF TypeOK
<1>5. Factory' /\ NoneStranded'  BY <1>1, <1>3 DEF Factory, NoneStranded
<1>6. Announced' /\ Spawned'  BY <1>1, <1>2, <1>3 DEF Announced, Spawned, TypeOK
<1>7. Patient' /\ Reaped'  BY <1>1, <1>2, <1>3 DEF Patient, Reaped, CleanedUp, TypeOK
<1> QED  BY <1>1, <1>4, <1>5, <1>6, <1>7 DEF CallStep

\* The threads of the callers and their tasks.  Only Invoke sends, and only
\* over an open connection.
LEMMA CallKeeps ==
    ASSUME ConnectionInv, NEW c \in Callers,
           CallBegin(c) \/ CallerStep(c) \/ TaskStep(c) \/ CallAnswered(c) \/ InterruptCall(c)
    PROVE  ConnectionInv' /\ CallStep
<1> USE DEF CallerStep, TaskStep, CallBegin, Submit, Invoke, CallAnswered, CallCancelled, CallReturns, InterruptCall
<1>1. UNCHANGED <<state, connectVars, childVars, process, protocol, cleanup, cancelled, runtime, closeVars>>
  OBVIOUS
<1>2. /\ cpc' = cpc \/ \E v \in {"submit", "wait", "settle", "returned", "refused"} : cpc' = [cpc EXCEPT ![c] = v]
      /\ task' = task \/ \E v \in TaskLive \cup {"done"} : task' = [task EXCEPT ![c] = v]
  BY DEF TypeOK
<1>3. mpc = "made"  BY DEF Factory
<1>4. task'[c] = "inflight" => task[c] = "inflight" \/ (state = "OPEN" /\ protocol = "open")
  BY DEF MayCall, TypeOK
<1>5. TypeOK'  BY <1>1, <1>2 DEF TypeOK
<1>6. Factory'  BY <1>1, <1>3 DEF Factory
<1>7. \A d \in Callers : task'[d] = "inflight" => task[d] = "inflight" \/ (state = "OPEN" /\ protocol = "open")
  BY <1>2, <1>4 DEF TypeOK
<1>8. NoneStranded'  BY <1>1, <1>7 DEF NoneStranded
<1>9. CallStep  BY <1>7 DEF CallStep, Announced
<1>10. Announced' /\ Spawned' /\ Patient' /\ Reaped'
  BY <1>1 DEF Announced, Spawned, Patient, Reaped, CleanedUp
<1> QED  BY <1>5, <1>6, <1>8, <1>9, <1>10

\* What a step of a closing thread leaves alone.
CloseFrame == UNCHANGED <<connectVars, childVars, process, protocol, cancelled, callVars>>

\* A thread that closes moves; the parts of the invariant that its steps share.
LEMMA CloserFrame ==
    ASSUME ConnectionInv, CloseFrame, mpc # "connect", UNCHANGED state \/ state' \in {"CLOSING", "CLOSED"}
    PROVE  Factory' /\ Spawned' /\ NoneStranded' /\ CallStep
<1>1. Factory'  BY DEF CloseFrame, Factory
<1>2. Spawned' /\ NoneStranded' /\ CallStep  BY DEF CloseFrame, Spawned, NoneStranded, CallStep
<1> QED  BY <1>1, <1>2

\* close is called, and waits for its lock.
LEMMA CloseBeginKeeps == ASSUME ConnectionInv, NEW k \in Closers, CloseBegin(k) PROVE ConnectionInv' /\ CallStep
<1> USE DEF CloseBegin
<1>1. CloseFrame /\ UNCHANGED <<state, cleanup, runtime, closeLock, interrupts>>  BY DEF CloseFrame
<1>2. TypeOK'  BY <1>1 DEF TypeOK, CloseFrame
<1>3. Announced' /\ Patient' /\ Reaped'  BY <1>1 DEF Announced, Patient, Reaped, CleanedUp, TypeOK, CloseFrame
<1> QED  BY <1>1, <1>2, <1>3, CloserFrame

\* The lock is granted: the state is announced before anything else happens.
LEMMA CloseLockedKeeps == ASSUME ConnectionInv, NEW k \in Closers, CloseLocked(k) PROVE ConnectionInv' /\ CallStep
<1> USE DEF CloseLocked
<1>1. CloseFrame /\ UNCHANGED <<cleanup, runtime, interrupts>>  BY DEF CloseFrame
<1>2. mpc # "connect" /\ \A j \in Closers : kpc[j] \notin Holding  BY DEF Factory, TypeOK
<1>3. \/ state = "CLOSED" /\ kpc' = [kpc EXCEPT ![k] = "returned"] /\ UNCHANGED <<state, closeLock>>
      \/ state # "CLOSED" /\ kpc' = [kpc EXCEPT ![k] = "first"] /\ closeLock' = k /\ state' = "CLOSING"
  OBVIOUS
<1>4. TypeOK'  BY <1>1, <1>2, <1>3 DEF TypeOK, CloseFrame
<1>5. Announced'  BY <1>1, <1>2, <1>3 DEF Announced, TypeOK, CloseFrame
<1>6. Patient' /\ Reaped'  BY <1>1, <1>2, <1>3 DEF Patient, Reaped, CleanedUp, TypeOK, CloseFrame
<1> QED  BY <1>1, <1>2, <1>3, <1>4, <1>5, <1>6, CloserFrame

\* The steps of the thread that holds the lock, up to the join: the cleanup is
\* created once, awaited, and awaited again after a failure or an interrupt.
LEMMA CloseWaitsKeeps ==
    ASSUME ConnectionInv, NEW k \in Closers, CloseAsync(k) \/ CloseRan(k) \/ InterruptClose(k)
    PROVE  ConnectionInv' /\ CallStep
<1> USE DEF CloseAsync, CloseRan, InterruptClose, CleanupCreated, AfterInterrupt
<1>1. CloseFrame /\ UNCHANGED <<state, closeLock>>  BY DEF CloseFrame
<1>2. /\ kpc[k] \in {"first", "await", "second", "again"} /\ state = "CLOSING" /\ mpc # "connect"
      /\ \A j \in Closers \ {k} : kpc[j] \notin Holding
  BY DEF Announced, Factory, TypeOK
<1>3. \E v \in {"await", "again", "second", "join"} : kpc' = [kpc EXCEPT ![k] = v]  OBVIOUS
<1>4. kpc'[k] \in {"await", "again", "second", "join"} /\ \A j \in Closers \ {k} : kpc'[j] = kpc[j]
  BY <1>3 DEF TypeOK
<1>5. /\ cleanup' = cleanup \/ (cleanup = "none" /\ cleanup' = "start")
      /\ interrupts' = interrupts \/ (interrupts' = interrupts + 1 /\ interrupts < MaxInterrupts)
      /\ runtime' = runtime \/ (runtime' = "cancel" /\ kpc'[k] = "join")
  BY <1>3 DEF TypeOK
<1>6. TypeOK'  BY <1>1, <1>2, <1>3, <1>4, <1>5 DEF TypeOK, CloseFrame
<1>7. Announced'  BY <1>1, <1>2, <1>5 DEF Announced, CloseFrame
<1>8. interrupts' <= 1 /\ kpc'[k] = "join" => CleanedUp'
  <2>1. CASE CloseAsync(k)  BY <2>1, <1>3 DEF TypeOK
  <2>2. CASE CloseRan(k)  BY <2>2 DEF CleanedUp
  <2>3. CASE InterruptClose(k)
    <3>1. interrupts' <= 1 => interrupts = 0  BY <2>3 DEF TypeOK
    <3> QED  BY <2>3, <3>1 DEF Patient, CleanedUp, TypeOK
  <2> QED  BY <2>1, <2>2, <2>3
<1>9. interrupts' = 0 /\ kpc'[k] \in {"second", "again"} => CleanedUp'
  <2>1. CASE CloseAsync(k)  BY <2>1 DEF Patient, CleanedUp, TypeOK
  <2>2. CASE CloseRan(k)  BY <2>2 DEF CleanedUp, TypeOK
  <2>3. CASE InterruptClose(k)  BY <2>3 DEF TypeOK
  <2> QED  BY <2>1, <2>2, <2>3
<1>10. (interrupts' <= 1 => interrupts <= 1) /\ (interrupts' = 0 => interrupts = 0) /\ (CleanedUp' <=> CleanedUp)
  BY <1>5 DEF TypeOK, CleanedUp
<1>11. Patient'  BY <1>1, <1>2, <1>4, <1>5, <1>8, <1>9, <1>10 DEF Patient, CloseFrame
<1>12. Reaped'  BY <1>1, <1>10 DEF Reaped, CloseFrame
<1> QED  BY <1>1, <1>2, <1>6, <1>7, <1>11, <1>12, CloserFrame

\* The last finally clause of close, whether the loop has ended or the wait for
\* it was interrupted.
LEMMA CloseLeavesKeeps ==
    ASSUME ConnectionInv, NEW k \in Closers, CloseJoined(k) \/ InterruptJoin(k)
    PROVE  ConnectionInv' /\ CallStep
<1> USE DEF CloseJoined, InterruptJoin, LeaveClosed
<1>1. CloseFrame /\ UNCHANGED <<cleanup, runtime>>  BY DEF CloseFrame
<1>2. /\ kpc[k] = "join" /\ mpc # "connect" /\ kpc' = [kpc EXCEPT ![k] = "returned"]
      /\ state' = "CLOSED" /\ closeLock' = "nobody" /\ \A j \in Closers \ {k} : kpc[j] \notin Holding
  BY DEF Factory, TypeOK
<1>3. interrupts' = interrupts \/ (interrupts' = interrupts + 1 /\ interrupts < MaxInterrupts)  OBVIOUS
<1>4. interrupts' \in 0..MaxInterrupts /\ (interrupts' <= 1 => interrupts <= 1) /\ (interrupts' = 0 => interrupts = 0)
  BY <1>3 DEF TypeOK
<1>5. TypeOK'  BY <1>1, <1>2, <1>4 DEF TypeOK, CloseFrame
<1>6. Announced'  BY <1>1, <1>2 DEF Announced, TypeOK, CloseFrame
<1>7. Patient'  BY <1>1, <1>2, <1>4 DEF Patient, CleanedUp, CloseFrame, TypeOK
<1>8. Reaped'  BY <1>1, <1>4 DEF Reaped, CleanedUp, CloseFrame
<1> QED  BY <1>1, <1>2, <1>5, <1>6, <1>7, <1>8, CloserFrame

\* The Runner cancels what is left, and the loop ends.
LEMMA StopKeeps == ASSUME ConnectionInv, StopStep PROVE ConnectionInv' /\ CallStep
<1>1. CASE CancelAll
  <2> USE DEF CancelAll
  <2>1. UNCHANGED <<state, mpc, childVars, process, protocol, cleanup, closeVars, cpc>>  BY <1>1
  <2>2. /\ runtime = "cancel" /\ runtime' = "stopping" /\ cancelled' = (cleanup \notin CleanupEnd)
        /\ opening' = opening \/ (opening' = "cancelling" /\ opening \in OpeningLive)
        /\ spawn' = spawn \/ (spawn = "running" /\ spawn' = "cancelling")
    BY <1>1
  <2>3. \A c \in Callers : task'[c] = task[c] \/ (task[c] \in TaskLive /\ task'[c] = "cancelling")
    BY <1>1 DEF TypeOK
  <2>4. TypeOK'
    <3>1. task' \in [Callers -> TaskLive \cup {"none", "done"}]  BY <1>1 DEF TypeOK
    <3>2. cancelled' \in BOOLEAN  BY <2>2
    <3> QED  BY <2>1, <2>2, <3>1, <3>2 DEF TypeOK
  <2>5. Factory' /\ NoneStranded' /\ CallStep  BY <2>1, <2>2, <2>3 DEF Factory, NoneStranded, CallStep
  <2>6. Announced' /\ Spawned'  BY <2>1, <2>2 DEF Announced, Spawned
  <2>7. Patient'
    <3>1. interrupts <= 1 => ~cancelled'  BY <2>2 DEF Patient, CleanedUp
    <3> QED  BY <2>1, <2>2, <3>1 DEF Patient, CleanedUp
  <2>8. Reaped'  BY <2>1, <2>2 DEF Reaped, Spawned, CleanedUp
  <2> QED  BY <2>4, <2>5, <2>6, <2>7, <2>8
<1>2. CASE SpawnCancelled
  <2> USE DEF SpawnCancelled
  <2>1. TypeOK'  BY <1>2 DEF TypeOK
  <2>2. Factory' /\ NoneStranded' /\ Announced' /\ Spawned' /\ CallStep
    BY <1>2 DEF Factory, NoneStranded, Announced, Spawned, CallStep
  <2>3. Patient' /\ Reaped'  BY <1>2 DEF Patient, Reaped, Spawned, CleanedUp
  <2> QED  BY <2>1, <2>2, <2>3
<1>3. CASE CloseLoop
  <2> USE DEF CloseLoop
  <2>1. TypeOK'  BY <1>3 DEF TypeOK
  <2>2. Factory' /\ NoneStranded' /\ Announced' /\ Spawned' /\ CallStep
    BY <1>3 DEF Factory, NoneStranded, Announced, Spawned, CallStep
  <2>3. Patient' /\ Reaped'  BY <1>3 DEF Patient, Reaped, CleanedUp
  <2> QED  BY <2>1, <2>2, <2>3
<1> QED  BY <1>1, <1>2, <1>3 DEF StopStep

\* A step of the cleanup keeps the invariant when it ends the cleanup only with
\* a child that was reaped or will never be, or by a cancellation.
LEMMA CleanupFrame ==
    ASSUME ConnectionInv, UNCHANGED <<Others, child>>, cleanup \notin CleanupEnd,
           cleanup' \in {"done", "failed", "spawn", "exit", "wait", "term", "kill", "term2", "kill2"},
           signal' \in {"none", "term", "kill"},
           cancelled' \in BOOLEAN, ~cancelled', process' = process \/ (process' = TRUE /\ spawn = "done"),
           \/ UNCHANGED <<protocol, task>>
           \/ protocol' = Exited /\ task' = TasksFailed,
           CleanedUp' => cancelled \/ child = "reaped" \/ spawn \in {"none", "failed"}
    PROVE  ConnectionInv' /\ CallStep
<1>1. UNCHANGED <<state, mpc, opening, spawn, child, runtime, closeLock, interrupts, kpc, cpc>>  BY DEF Others
<1>2. task' = task \/ task' = TasksFailed  OBVIOUS
<1>3. task \in [Callers -> TaskLive \cup {"none", "done"}]  BY DEF TypeOK
<1>4. task' \in [Callers -> TaskLive \cup {"none", "done"}]  BY <1>2, <1>3 DEF TasksFailed
<1>5. \A c \in Callers : task'[c] = task[c] \/ (task'[c] = "done" /\ task[c] = "inflight")
  BY <1>2, <1>3 DEF TasksFailed
<1>6. protocol' = protocol \/ \A c \in Callers : task'[c] # "inflight"
  <2>1. task' = TasksFailed => \A c \in Callers : task'[c] # "inflight"  BY <1>3 DEF TasksFailed
  <2> QED  BY <2>1
<1>7. protocol' \in {"none", "open", "lost", "exited"}  BY DEF Exited, TypeOK
<1>8. process' \in BOOLEAN  BY DEF TypeOK
<1>9. TypeOK'  BY <1>1, <1>4, <1>7, <1>8 DEF TypeOK
<1>10. Factory' /\ NoneStranded' /\ CallStep  BY <1>1, <1>5, <1>6 DEF Factory, NoneStranded, CallStep
<1>11. Announced' /\ Spawned'  BY <1>1 DEF Announced, Spawned
<1>12. ~CleanedUp  BY DEF CleanedUp
<1>13. Patient' /\ Reaped'  BY <1>1, <1>12 DEF Patient, Reaped
<1> QED  BY <1>9, <1>10, <1>11, <1>13

\* _cleanup and _terminate.
LEMMA CleanupKeeps == ASSUME ConnectionInv, CleanupStep PROVE ConnectionInv' /\ CallStep
<1> USE DEF Running, CleanedUp
<1>1. CASE CleanupStart
  BY <1>1, CleanupFrame DEF CleanupStart, CleanupExits, TypeOK
<1>2. CASE CleanupSpawned
  BY <1>2, CleanupFrame DEF CleanupSpawned, CleanupExits, TypeOK
<1>3. CASE CleanupExited
  BY <1>3, CleanupFrame DEF CleanupExited, TypeOK
<1>4. CASE CleanupExitFails
  BY <1>4, CleanupFrame DEF CleanupExitFails, CleanupFinally, TypeOK
<1>5. CASE CleanupReaped
  BY <1>5, CleanupFrame DEF CleanupReaped, TypeOK
<1>6. CASE CleanupDeadline
  <2>1. cleanup' \in {"term", "kill", "kill2"} /\ signal' \in {"none", "term", "kill"}
    BY <1>6 DEF CleanupDeadline, Escalate, TypeOK
  <2> QED  BY <1>6, <2>1, CleanupFrame DEF CleanupDeadline, TypeOK
<1>7. CASE CleanupCancelled
  <2>1. cleanup' \in {"failed", "term2"} /\ signal' \in {"none", "term", "kill"}
    BY <1>7 DEF CleanupCancelled, CleanupFinally, TypeOK
  <2>2. cleanup \notin CleanupEnd  BY <1>7 DEF CleanupCancelled, Announced
  <2> QED  BY <1>7, <2>1, <2>2, CleanupFrame DEF CleanupCancelled
<1> QED  BY <1>1, <1>2, <1>3, <1>4, <1>5, <1>6, <1>7 DEF CleanupStep

-----------------------------------------------------------------------------
(* Theorems                                                                 *)

\* Every step keeps the invariant, and sends a call only before the cleanup.
LEMMA ConnectionNext == ConnectionInv /\ [Next]_vars => ConnectionInv' /\ (CallStep \/ UNCHANGED vars)
<1> SUFFICES ASSUME ConnectionInv, [Next]_vars PROVE ConnectionInv' /\ (CallStep \/ UNCHANGED vars)  OBVIOUS
<1>1. CASE ChildEnds \/ Reap  BY <1>1, ChildKeeps
<1>2. CASE ProtocolLost  BY <1>2, LostKeeps
<1>3. CASE OpenStep  BY <1>3, OpenKeeps
<1>4. CASE MakeStep \/ InterruptMake  BY <1>4, MakeKeeps
<1>5. CASE CleanupStep  BY <1>5, CleanupKeeps
<1>6. CASE StopStep  BY <1>6, StopKeeps
<1>7. ASSUME NEW c \in Callers, CallBegin(c) \/ CallerStep(c) \/ TaskStep(c) \/ CallAnswered(c) \/ InterruptCall(c)
      PROVE  ConnectionInv' /\ CallStep
  BY <1>7, CallKeeps
<1>8. ASSUME NEW k \in Closers, CloseBegin(k) \/ CloserStep(k) \/ InterruptClose(k) \/ InterruptJoin(k)
      PROVE  ConnectionInv' /\ CallStep
  BY <1>8, CloseBeginKeeps, CloseLockedKeeps, CloseWaitsKeeps, CloseLeavesKeeps DEF CloserStep
<1>9. CASE UNCHANGED vars
  BY <1>9 DEF vars, TypeOK, Factory, Announced, Spawned, Patient, Reaped, CleanedUp, NoneStranded
<1> QED  BY <1>1, <1>2, <1>3, <1>4, <1>5, <1>6, <1>7, <1>8, <1>9 DEF Next

\* A connection that says it is closed has reaped its child, whatever the
\* factory, one wait of close and the child did, no call is left with a protocol
\* that reads no answers, and the close lock is where it belongs: for any number
\* of callers and closers (_close_async, _cleanup, _finish_pending).
THEOREM ConnectionIsSafe == Spec => []ConnectionSafe
  BY ConnectionInit, ConnectionNext, ConnectionSafety, PTL DEF Spec

\* "A closing connection is therefore refused": although _dispatch reads the
\* state without its lock, no call is sent once there is a cleanup.
THEOREM ConnectionRefusesLateCalls == Spec => LateCallRefused
  BY ConnectionInit, ConnectionNext, PTL DEF Spec, LateCallRefused, CallStep

-----------------------------------------------------------------------------
(* The private loop of the connection (Runtime), for every number of        *)
(* threads that submit.                                                     *)
(*                                                                          *)
(* Loop!NoneForgotten speaks of the end only.  What makes it inductive is   *)
(* where a pending request is on the way there: _requests holds every       *)
(* published request whose future is pending, and, once the snapshot of     *)
(* _serve is taken, the snapshot still holds every thread that waits.       *)

CONSTANTS Requests, FromMain

VARIABLES
    loopState, server, stopping, ready, spc, fut, requests, gates, loopTask, doomed, sweep, loopPc

Loop == INSTANCE Runtime WITH state <- loopState, task <- loopTask, cpc <- loopPc

USE DEF Loop!loopVars, Loop!requestVars

Callback == {"start", "cancel", "stop"} \X (Requests \cup {"none"})

\* Nobody knows a request that was not published.
Unknown(r) ==
    /\ fut[r] = "pending" /\ loopTask[r] = "none" /\ r \notin requests /\ r \notin sweep
    /\ \A i \in 1..Len(ready) : ready[i][2] = r => ready[i][1] = "stop"

\* _requests holds the published requests whose future is pending, and only
\* for these a gate is locked.
Registered ==
    /\ \A r \in Requests : spc[r] = "idle" => Unknown(r)
    /\ \A r \in requests : fut[r] = "pending"
    /\ \A r \in Requests : spc[r] \in {"check", "schedule", "wait"} /\ fut[r] = "pending" => r \in requests
    /\ gates \subseteq requests

\* The snapshot that _serve completes holds every thread that waits.
Swept ==
    /\ server \in {"sweep", "finished"} =>
        \A r \in Requests : spc[r] = "wait" /\ fut[r] = "pending" => r \in sweep
    /\ server = "finished" => sweep = {}

RuntimeInv == Loop!TypeOK /\ Registered /\ Swept

\* A runtime that starts has no requests.
LEMMA RuntimeInit == Loop!Init => RuntimeInv
<1> SUFFICES ASSUME Loop!Init PROVE RuntimeInv  OBVIOUS
<1>1. Loop!TypeOK
  <2>1. ready \in Seq(Callback)  BY DEF Loop!Init
  <2> QED  BY <2>1 DEF Loop!Init, Loop!TypeOK, Loop!Live, Callback
<1>2. Len(ready) = 0  BY DEF Loop!Init
<1>3. Registered  BY <1>2 DEF Loop!Init, Registered, Unknown
<1>4. Swept
  <2>1. server = "boot"  BY DEF Loop!Init
  <2> QED  BY <2>1 DEF Swept
<1> QED  BY <1>1, <1>3, <1>4 DEF RuntimeInv

\* At the end, a thread that waits has its result and an open gate.
LEMMA RuntimeSafety == RuntimeInv => Loop!RuntimeSafe
  BY DEF RuntimeInv, Loop!RuntimeSafe, Loop!NoneForgotten, Registered, Swept

\* Completing a future takes the request out of _requests and releases its gate.
LEMMA CompleteKeeps ==
    ASSUME RuntimeInv, NEW r \in Requests, spc[r] # "idle",
           NEW how \in {"result", "error", "cancelled"}, Loop!Complete(r, how)
    PROVE  /\ fut' \in [Requests -> {"pending", "result", "error", "cancelled"}]
           /\ ready' \in Seq(Callback)
           /\ requests' \subseteq requests /\ gates' \subseteq requests' /\ gates' \subseteq gates
           /\ fut'[r] # "pending" /\ r \notin requests'
           /\ \A q \in Requests \ {r} : fut'[q] = fut[q] /\ (q \in requests' <=> q \in requests)
           /\ \A q \in Requests : spc[q] = "idle" =>
                \A i \in 1..Len(ready') : ready'[i][2] = q => ready'[i][1] = "stop"
<1> USE DEF RuntimeInv, Loop!Complete
<1>1. CASE fut[r] # "pending"
  <2>1. UNCHANGED <<fut, requests, gates, ready>>  BY <1>1
  <2> QED  BY <1>1, <2>1 DEF Loop!TypeOK, Registered, Unknown, Callback
<1>2. CASE fut[r] = "pending"
  <2>1. /\ fut' = [fut EXCEPT ![r] = how] /\ requests' = requests \ {r} /\ gates' = gates \ {r}
        /\ ready' = ready \/ ready' = Append(ready, <<"cancel", r>>)
    BY <1>2 DEF Loop!CancelCallback
  <2>2. ready \in Seq(Callback) /\ <<"cancel", r>> \in Callback  BY DEF Loop!TypeOK, Callback
  <2>3. ready' \in Seq(Callback)
    <3>1. CASE ready' = ready  BY <2>2, <3>1
    <3>2. CASE ready' = Append(ready, <<"cancel", r>>)  BY <2>2, <3>2, AppendProperties
    <3> QED  BY <2>1, <3>1, <3>2
  <2>4. ASSUME NEW q \in Requests, spc[q] = "idle", NEW i \in 1..Len(ready'), ready'[i][2] = q
        PROVE  ready'[i][1] = "stop"
    <3>1. q # r /\ \A k \in 1..Len(ready) : ready[k][2] = q => ready[k][1] = "stop"
      BY <2>4 DEF Registered, Unknown
    <3>2. ready'[i] = <<"cancel", r>> \/ (i \in 1..Len(ready) /\ ready'[i] = ready[i])
      <4>1. CASE ready' = ready  BY <4>1
      <4>2. CASE ready' = Append(ready, <<"cancel", r>>)
        BY <2>2, <2>4, <4>2, AppendProperties
      <4> QED  BY <2>1, <4>1, <4>2
    <3> QED  BY <2>4, <3>1, <3>2
  <2>5. gates' \subseteq requests' /\ requests' \subseteq requests /\ gates' \subseteq gates /\ r \notin requests'
    BY <2>1 DEF Registered
  <2>6. /\ fut' \in [Requests -> {"pending", "result", "error", "cancelled"}] /\ fut'[r] # "pending"
        /\ \A q \in Requests \ {r} : fut'[q] = fut[q] /\ (q \in requests' <=> q \in requests)
    BY <2>1 DEF Loop!TypeOK
  <2> QED  BY <2>3, <2>4, <2>5, <2>6
<1> QED  BY <1>1, <1>2

\* A thread publishes its request before it looks at the state.
LEMMA PublishKeeps == ASSUME RuntimeInv, NEW r \in Requests, Loop!Publish(r) PROVE RuntimeInv'
<1> USE DEF RuntimeInv, Loop!Publish
<1>1. gates' \subseteq FromMain /\ gates' \subseteq gates \cup {r}  BY DEF Loop!TypeOK
<1>2. Loop!TypeOK'  BY <1>1 DEF Loop!TypeOK
<1>3. Unknown(r)  BY DEF Registered
<1>4. Registered'  BY <1>1, <1>3 DEF Registered, Unknown, Loop!TypeOK
<1>5. Swept'  BY DEF Swept, Loop!TypeOK
<1> QED  BY <1>2, <1>4, <1>5

\* A thread leaves: its request was refused, is answered or was given up.
LEMMA RejectKeeps == ASSUME RuntimeInv, NEW r \in Requests, spc[r] # "idle", Loop!Reject(r) PROVE RuntimeInv'
<1> USE DEF RuntimeInv, Loop!Reject
<1>1. Loop!TypeOK'  BY DEF Loop!TypeOK
<1>2. Registered'  BY DEF Registered, Unknown, Loop!TypeOK
<1>3. Swept'  BY DEF Swept, Loop!TypeOK
<1> QED  BY <1>1, <1>2, <1>3

\* "if self._state != 'open'"
LEMMA CheckKeeps == ASSUME RuntimeInv, NEW r \in Requests, Loop!Check(r) PROVE RuntimeInv'
<1>1. CASE Loop!Reject(r)  BY <1>1, RejectKeeps DEF Loop!Check
<1>2. CASE spc' = [spc EXCEPT ![r] = "schedule"] /\ UNCHANGED <<loopState, Loop!loopVars, ready, Loop!requestVars, loopPc>>
  <2> USE DEF RuntimeInv
  <2>1. Loop!TypeOK'  BY <1>2 DEF Loop!TypeOK
  <2>2. Registered'  BY <1>2 DEF Loop!Check, Registered, Unknown, Loop!TypeOK
  <2>3. Swept'  BY <1>2 DEF Swept, Loop!TypeOK
  <2> QED  BY <2>1, <2>2, <2>3
<1> QED  BY <1>1, <1>2 DEF Loop!Check

\* A callback joins those of the loop.
LEMMA Joins ==
    ASSUME ready \in Seq(Callback), NEW e \in Callback, ready' = Append(ready, e)
    PROVE  /\ ready' \in Seq(Callback)
           /\ \A i \in 1..Len(ready') : ready'[i] = e \/ (i \in 1..Len(ready) /\ ready'[i] = ready[i])
  BY AppendProperties

\* call_soon_threadsafe: only an open loop, before the snapshot, takes a request
\* on.
LEMMA ScheduleKeeps == ASSUME RuntimeInv, NEW r \in Requests, Loop!Schedule(r) PROVE RuntimeInv'
<1>1. CASE Loop!Reject(r)  BY <1>1, RejectKeeps DEF Loop!Schedule
<1>2. CASE /\ Loop!LoopIsOpen /\ spc' = [spc EXCEPT ![r] = "wait"]
           /\ ready' = Append(ready, <<"start", r>>)
           /\ UNCHANGED <<loopState, Loop!loopVars, Loop!requestVars, loopPc>>
  <2> USE DEF RuntimeInv
  <2>1. <<"start", r>> \in Callback /\ ready \in Seq(Callback)  BY DEF Loop!TypeOK, Callback
  <2>2. /\ ready' \in Seq(Callback)
        /\ \A i \in 1..Len(ready') : ready'[i] = <<"start", r>> \/ (i \in 1..Len(ready) /\ ready'[i] = ready[i])
    BY <1>2, <2>1, Joins
  <2>3. Loop!TypeOK'  BY <1>2, <2>2 DEF Loop!TypeOK, Callback
  <2>4. Registered'
    <3>1. ASSUME NEW q \in Requests, spc'[q] = "idle" PROVE Unknown(q)'
      <4>1. q # r /\ Unknown(q)  BY <1>2, <3>1 DEF Registered, Loop!TypeOK
      <4> QED  BY <1>2, <2>2, <4>1 DEF Unknown
    <3> QED  BY <1>2, <3>1 DEF Loop!Schedule, Registered, Loop!TypeOK
  <2>5. Swept'  BY <1>2 DEF Swept, Loop!TypeOK, Loop!LoopIsOpen
  <2> QED  BY <2>3, <2>4, <2>5
<1> QED  BY <1>1, <1>2 DEF Loop!Schedule

\* The future is done, and the thread returns.
LEMMA ReturnKeeps == ASSUME RuntimeInv, NEW r \in Requests, Loop!Return(r) PROVE RuntimeInv'
<1> USE DEF RuntimeInv, Loop!Return
<1>1. Loop!TypeOK'  BY DEF Loop!TypeOK
<1>2. Registered'  BY DEF Registered, Unknown, Loop!TypeOK
<1>3. Swept'  BY DEF Swept, Loop!TypeOK
<1> QED  BY <1>1, <1>2, <1>3

\* Completing a future keeps the invariant, whatever thread does it and whatever
\* it does to its own task, its own place and its own entry of the snapshot.
LEMMA DoneKeeps ==
    ASSUME RuntimeInv, NEW r \in Requests, spc[r] # "idle",
           NEW how \in {"result", "error", "cancelled"}, Loop!Complete(r, how),
           NEW place \in {"wait", "gaveup"}, spc' = spc \/ spc' = [spc EXCEPT ![r] = place],
           loopTask' = loopTask \/ loopTask' = [loopTask EXCEPT ![r] = "done"],
           sweep' = sweep \/ sweep' = sweep \ {r},
           UNCHANGED <<loopState, server, stopping, doomed, loopPc>>
    PROVE  RuntimeInv'
<1> USE DEF RuntimeInv
<1>1. Loop!TypeOK'  BY CompleteKeeps DEF Loop!TypeOK, Callback
<1>2. Registered'
  <2>1. ASSUME NEW q \in Requests, spc'[q] = "idle" PROVE Unknown(q)'
    <3>1. q # r /\ spc[q] = "idle" /\ Unknown(q)  BY <2>1 DEF Registered, Loop!TypeOK
    <3> QED  BY <3>1, CompleteKeeps DEF Unknown, Loop!TypeOK
  <2>2. \A q \in requests' : fut'[q] = "pending"  BY CompleteKeeps DEF Registered, Loop!TypeOK
  <2>3. ASSUME NEW q \in Requests, spc'[q] \in {"check", "schedule", "wait"}, fut'[q] = "pending"
        PROVE  q \in requests'
    BY <2>3, CompleteKeeps DEF Registered, Loop!TypeOK
  <2> QED  BY <2>1, <2>2, <2>3, CompleteKeeps DEF Registered
<1>3. Swept'
  <2>1. ASSUME NEW q \in Requests, spc'[q] = "wait", fut'[q] = "pending" PROVE q # r /\ spc[q] = "wait" /\ fut[q] = "pending"
    BY <2>1, CompleteKeeps DEF Loop!TypeOK
  <2> QED  BY <2>1 DEF Swept
<1> QED  BY <1>1, <1>2, <1>3

\* A future is completed by its caller, by its task or by the sweep of _serve.
LEMMA CompletersKeep ==
    ASSUME RuntimeInv, NEW r \in Requests, Loop!GiveUp(r) \/ Loop!FinishWork(r) \/ Loop!CancelWork(r) \/ Loop!Sweep(r)
    PROVE  RuntimeInv'
<1>1. spc[r] # "idle"
  BY DEF RuntimeInv, Registered, Unknown, Loop!GiveUp, Loop!FinishWork, Loop!CancelWork, Loop!Sweep
<1>2. CASE Loop!GiveUp(r)  BY <1>1, <1>2, DoneKeeps DEF Loop!GiveUp
<1>3. CASE Loop!FinishWork(r) \/ Loop!CancelWork(r)
  <2>1. PICK how \in {"result", "error", "cancelled"} : Loop!Complete(r, how)  BY <1>3 DEF Loop!FinishWork, Loop!CancelWork
  <2>2. /\ loopTask' = [loopTask EXCEPT ![r] = "done"] /\ UNCHANGED <<loopState, server, stopping, doomed, sweep, spc, loopPc>>
    BY <1>3 DEF Loop!FinishWork, Loop!CancelWork
  <2> QED  BY <1>1, <2>1, <2>2, DoneKeeps
<1>4. CASE Loop!Sweep(r)  BY <1>1, <1>4, DoneKeeps DEF Loop!Sweep
<1> QED  BY <1>2, <1>3, <1>4

\* A step of the loop or of close that touches no request keeps the invariant
\* when it starts no task of a request that nobody published, adds no callback
\* but a stop, and does not end the sweep.
LEMMA LoopKeeps ==
    ASSUME RuntimeInv, Loop!TypeOK', UNCHANGED <<spc, Loop!requestVars, sweep>>,
           \A r \in Requests : Unknown(r) /\ spc[r] = "idle" => loopTask'[r] = "none",
           \A i \in 1..Len(ready') : ready'[i][1] = "stop" \/ \E k \in 1..Len(ready) : ready'[i] = ready[k],
           server' \in {"sweep", "finished"} => server' = server
    PROVE  RuntimeInv'
<1> USE DEF RuntimeInv
<1>1. Registered'
  <2>1. ASSUME NEW q \in Requests, spc'[q] = "idle" PROVE Unknown(q)'
    <3>1. spc[q] = "idle" /\ Unknown(q)  BY <2>1 DEF Registered
    <3>2. \A i \in 1..Len(ready') : ready'[i][2] = q => ready'[i][1] = "stop"  BY <3>1 DEF Unknown
    <3> QED  BY <3>1, <3>2 DEF Unknown
  <2> QED  BY <2>1 DEF Registered
<1>2. Swept'  BY DEF Swept
<1> QED  BY <1>1, <1>2

\* The steps that only move the loop thread or the thread of close.
LEMMA MoveKeeps ==
    ASSUME RuntimeInv, Loop!Boot \/ Loop!EnterMain \/ Loop!LeaveMain \/ Loop!Gathered \/ Loop!Join
    PROVE  RuntimeInv'
<1>1. Loop!TypeOK'  BY DEF RuntimeInv, Loop!TypeOK, Loop!Boot, Loop!EnterMain, Loop!LeaveMain, Loop!Gathered, Loop!Join
<1>2. /\ UNCHANGED <<spc, Loop!requestVars, sweep, loopTask, ready>>
      /\ server' \in {"sweep", "finished"} => server' = server
  BY DEF Loop!Boot, Loop!EnterMain, Loop!LeaveMain, Loop!Gathered, Loop!Join
<1> QED  BY <1>1, <1>2, LoopKeeps DEF Unknown

\* _start, _cancel or stop.set: only a published request gets a task.
LEMMA CallbackKeeps == ASSUME RuntimeInv, Loop!RunCallback PROVE RuntimeInv'
<1> USE DEF RuntimeInv
<1> DEFINE kind == Head(ready)[1]
           r == Head(ready)[2]
<1>1. ready \in Seq(Callback) /\ ready # <<>>  BY DEF Loop!TypeOK, Callback, Loop!RunCallback
<1>2. /\ ready' = Tail(ready) /\ ready' \in Seq(Callback) /\ Head(ready) = ready[1] /\ 1 \in 1..Len(ready)
      /\ \A i \in 1..Len(ready') : i + 1 \in 1..Len(ready) /\ ready'[i] = ready[i + 1]
  BY <1>1, HeadTailProperties DEF Loop!RunCallback
<1>3. /\ UNCHANGED <<loopState, server, doomed, sweep, spc, Loop!requestVars, loopPc>>
      /\ stopping' \in BOOLEAN
      /\ loopTask' = loopTask \/ (kind # "stop" /\ \E v \in {"created", "cancelling"} : loopTask' = [loopTask EXCEPT ![r] = v])
  BY DEF Loop!RunCallback, Loop!TypeOK
<1> HIDE DEF kind, r
<1>4. loopTask' \in [Requests -> Loop!Live \cup {"none", "done", "dropped", "destroyed"}]
  BY <1>3 DEF Loop!TypeOK, Loop!Live
<1>5. Loop!TypeOK'  BY <1>2, <1>3, <1>4 DEF Loop!TypeOK, Callback
<1>6. ASSUME NEW q \in Requests, Unknown(q), spc[q] = "idle" PROVE loopTask'[q] = "none"
  <2>1. r = q => kind = "stop"  BY <1>2, <1>6 DEF Unknown, kind, r
  <2> QED  BY <1>3, <1>6, <2>1 DEF Unknown, Loop!TypeOK
<1> QED  BY <1>2, <1>3, <1>5, <1>6, LoopKeeps

\* The tasks on the loop: started, cancelled by the Runner, dropped with the loop.
LEMMA TasksKeep ==
    ASSUME RuntimeInv, Loop!CancelAll \/ Loop!CloseLoop \/ \E r \in Requests : Loop!StartWork(r)
    PROVE  RuntimeInv'
<1> USE DEF RuntimeInv
<1>1. ASSUME NEW r \in Requests, Loop!StartWork(r) PROVE RuntimeInv'
  <2>1. Loop!TypeOK'  BY <1>1 DEF Loop!TypeOK, Loop!StartWork, Loop!Live
  <2>2. \A q \in Requests : Unknown(q) /\ spc[q] = "idle" => loopTask'[q] = "none"
    BY <1>1 DEF Loop!StartWork, Unknown, Loop!TypeOK
  <2> QED  BY <1>1, <2>1, <2>2, LoopKeeps DEF Loop!StartWork
<1>2. CASE Loop!CancelAll
  <2>1. Loop!TypeOK'  BY <1>2 DEF Loop!TypeOK, Loop!CancelAll, Loop!Live
  <2>2. \A q \in Requests : Unknown(q) /\ spc[q] = "idle" => loopTask'[q] = "none"
    BY <1>2 DEF Loop!CancelAll, Unknown, Loop!Live
  <2> QED  BY <1>2, <2>1, <2>2, LoopKeeps DEF Loop!CancelAll
<1>3. CASE Loop!CloseLoop
  <2>1. ready' \in Seq(Callback) /\ Len(ready') = 0  BY <1>3 DEF Loop!CloseLoop
  <2>2. loopTask' \in [Requests -> Loop!Live \cup {"none", "done", "dropped", "destroyed"}]
    BY <1>3 DEF Loop!TypeOK, Loop!CloseLoop, Loop!Live
  <2>3. Loop!TypeOK'  BY <1>3, <2>1, <2>2 DEF Loop!TypeOK, Loop!CloseLoop, Callback
  <2>4. \A q \in Requests : Unknown(q) /\ spc[q] = "idle" => loopTask'[q] = "none"
    BY <1>3 DEF Loop!CloseLoop, Unknown
  <2> QED  BY <1>3, <2>1, <2>3, <2>4, LoopKeeps DEF Loop!CloseLoop
<1> QED  BY <1>1, <1>2, <1>3

\* The finally clause of _serve: at its snapshot, every thread that waits is in
\* _requests, and it ends when the snapshot is used up.
LEMMA ServeKeeps == ASSUME RuntimeInv, Loop!TakeSnapshot \/ Loop!Finish PROVE RuntimeInv'
<1> USE DEF RuntimeInv
<1>1. CASE Loop!TakeSnapshot
  <2>1. Loop!TypeOK'  BY <1>1 DEF Loop!TypeOK, Loop!TakeSnapshot, Loop!Snapshot
  <2>2. Registered'  BY <1>1 DEF Registered, Unknown, Loop!TakeSnapshot, Loop!Snapshot
  <2>3. Swept'  BY <1>1 DEF Swept, Registered, Loop!TakeSnapshot, Loop!Snapshot
  <2> QED  BY <2>1, <2>2, <2>3
<1>2. CASE Loop!Finish
  <2>1. Loop!TypeOK'  BY <1>2 DEF Loop!TypeOK, Loop!Finish
  <2>2. Registered'  BY <1>2 DEF Registered, Unknown, Loop!Finish
  <2>3. Swept'  BY <1>2 DEF Swept, Loop!Finish
  <2> QED  BY <2>1, <2>2, <2>3
<1> QED  BY <1>1, <1>2

\* close asks the loop to stop.
LEMMA LoopCloseKeeps == ASSUME RuntimeInv, Loop!CloseBegin PROVE RuntimeInv'
<1> USE DEF RuntimeInv
<1>1. <<"stop", "none">> \in Callback /\ ready \in Seq(Callback)  BY DEF Loop!TypeOK, Callback
<1>2. CASE ready' = ready
  <2>1. Loop!TypeOK'  BY <1>2 DEF Loop!TypeOK, Loop!CloseBegin
  <2> QED  BY <1>2, <2>1, LoopKeeps DEF Loop!CloseBegin, Unknown
<1>3. CASE ready' = Append(ready, <<"stop", "none">>)
  <2>1. /\ ready' \in Seq(Callback)
        /\ \A i \in 1..Len(ready') :
            ready'[i] = <<"stop", "none">> \/ (i \in 1..Len(ready) /\ ready'[i] = ready[i])
    BY <1>1, <1>3, Joins
  <2>2. Loop!TypeOK'  BY <2>1 DEF Loop!TypeOK, Loop!CloseBegin, Callback
  <2>3. \A i \in 1..Len(ready') : ready'[i][1] = "stop" \/ \E k \in 1..Len(ready) : ready'[i] = ready[k]
    BY <2>1
  <2> QED  BY <2>2, <2>3, LoopKeeps DEF Loop!CloseBegin, Unknown
<1> QED  BY <1>2, <1>3 DEF Loop!CloseBegin

\* Every step keeps the invariant.
LEMMA RuntimeNext == RuntimeInv /\ [Loop!Next]_(Loop!vars) => RuntimeInv'
<1> SUFFICES ASSUME RuntimeInv, [Loop!Next]_(Loop!vars) PROVE RuntimeInv'  OBVIOUS
<1>1. CASE Loop!Boot \/ Loop!EnterMain \/ Loop!LeaveMain \/ Loop!Gathered \/ Loop!Join  BY <1>1, MoveKeeps
<1>2. CASE Loop!RunCallback  BY <1>2, CallbackKeeps
<1>3. CASE Loop!CancelAll \/ Loop!CloseLoop \/ \E r \in Requests : Loop!StartWork(r)  BY <1>3, TasksKeep
<1>4. CASE Loop!TakeSnapshot \/ Loop!Finish  BY <1>4, ServeKeeps
<1>5. CASE Loop!CloseBegin  BY <1>5, LoopCloseKeeps
<1>6. ASSUME NEW r \in Requests, Loop!Publish(r) \/ Loop!Check(r) \/ Loop!Schedule(r) \/ Loop!Return(r) PROVE RuntimeInv'
  BY <1>6, PublishKeeps, CheckKeeps, ScheduleKeeps, ReturnKeeps
<1>7. ASSUME NEW r \in Requests, Loop!GiveUp(r) \/ Loop!FinishWork(r) \/ Loop!CancelWork(r) \/ Loop!Sweep(r) PROVE RuntimeInv'
  BY <1>7, CompletersKeep
<1>8. CASE UNCHANGED Loop!vars  BY <1>8 DEF Loop!vars, RuntimeInv, Loop!TypeOK, Registered, Unknown, Swept
<1> QED  BY <1>1, <1>2, <1>3, <1>4, <1>5, <1>6, <1>7, <1>8 DEF Loop!Next

\* submit takes no lock, and still no thread waits for a request that the loop
\* has forgotten, for any number of threads and any order of submit, give up
\* and close ("shutdown either sees this request in its snapshot or submission
\* rejects it").
THEOREM RuntimeIsSafe == Loop!Spec => []Loop!RuntimeSafe
  BY RuntimeInit, RuntimeNext, RuntimeSafety, PTL DEF Loop!Spec
=============================================================================
