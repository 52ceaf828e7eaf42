----------------------------- MODULE MuxLaunch ------------------------------
(***************************************************************************)
(* rmote sshmux (rmote/cli/sshmux.py): launchers that share one control    *)
(* socket, and the servers behind it.  A launcher reuses the server that   *)
(* answers on the path or starts one and waits until it is ready; a server *)
(* connects once (Startup), listens, and leaves when it is told to, when   *)
(* it is idle or when its connection is lost.                              *)
(*                                                                         *)
(* The launcher and the server that it forks have the same name.  A member *)
(* of Foreground runs its server itself, without a launcher.               *)
(*                                                                         *)
(* Upsets names what the code does not exclude: "inode reuse" (a socket    *)
(* may get the inode of one that was closed and removed), "slow unlink"    *)
(* (other processes run between the lstat and the unlink of a server that  *)
(* leaves) and "late lock" (the deadline passes before the child of a      *)
(* launcher has made its process group).                                   *)
(***************************************************************************)
EXTENDS Startup

CONSTANTS
    Foreground,   \* the servers that are started without --daemon
    Free,         \* no launcher holds the lock
    MaxCrashes    \* bound: servers that are killed by somebody else

ASSUME LaunchConstants ==
    IsFiniteSet(Conns) /\ Foreground \subseteq Conns /\ Free \notin Conns /\ MaxCrashes \in Nat

VARIABLES
    launcher,   \* where each launcher is
    lock,       \* who holds the lock file next to the socket
    seen,       \* the inode that the launcher found on the path
    probed,     \* the server that its health check has reached
    file,       \* the inode of the socket on the path, or 0
    server,     \* where each server is
    inode,      \* identity: the inode of the socket that the server bound, or 0
    ready,      \* the pipe that a launcher waits on: "open", "written" or "closed"
    crashes

launchVars == <<launcher, lock, seen, probed>>
serverVars == <<server, inode, ready>>
vars == <<startVars, launchVars, file, serverVars, crashes>>

Init ==
    /\ StartInit /\ lock = Free /\ file = 0 /\ crashes = 0
    /\ launcher = [l \in Conns |-> "idle"] /\ seen = [l \in Conns |-> 0] /\ probed = [l \in Conns |-> Free]
    /\ server = [s \in Conns |-> "none"] /\ inode = [s \in Conns |-> 0]
    /\ ready = [s \in Conns |-> "open"]

Listening(s) == server[s] \in {"listening", "serving"}

-----------------------------------------------------------------------------
(* ensure_running                                                           *)

\* The locks and descriptors of the launcher go with it.
Ended(l, result) ==
    /\ launcher' = [launcher EXCEPT ![l] = result]
    /\ lock' = IF lock = l THEN Free ELSE lock

\* run: with --daemon the launcher, otherwise the server itself.
Begin(l) ==
    /\ launcher[l] = "idle"
    /\ IF l \in Foreground
       THEN /\ launcher' = [launcher EXCEPT ![l] = "none"] /\ server' = [server EXCEPT ![l] = "starting"]
       ELSE launcher' = [launcher EXCEPT ![l] = "locking"] /\ UNCHANGED server
    /\ UNCHANGED <<startVars, lock, seen, probed, file, inode, ready, crashes>>

LockFree(l) == lock = Free

\* flock(LOCK_EX | LOCK_NB), in a loop
TakeLock(l) ==
    /\ launcher[l] = "locking" /\ LockFree(l) /\ lock' = l
    /\ launcher' = [launcher EXCEPT ![l] = "inspecting"]
    /\ UNCHANGED <<startVars, seen, probed, file, serverVars, crashes>>

LockTimeout(l) ==
    /\ launcher[l] = "locking" /\ lock # Free /\ Ended(l, "failed")
    /\ UNCHANGED <<startVars, seen, probed, file, serverVars, crashes>>

\* target.lstat()
Inspect(l) ==
    /\ launcher[l] = "inspecting" /\ launcher' = [launcher EXCEPT ![l] = "probing"]
    /\ seen' = [seen EXCEPT ![l] = file]
    /\ UNCHANGED <<startVars, lock, probed, file, serverVars, crashes>>

\* running_pid: connect.  A path without a socket, or a socket that nobody listens on, refuses.
Probe(l) ==
    /\ launcher[l] = "probing" /\ probed[l] = Free
    /\ \/ \E s \in Conns : /\ Listening(s) /\ inode[s] = file /\ file # 0
                           /\ probed' = [probed EXCEPT ![l] = s] /\ UNCHANGED launcher
       \/ /\ ~\E s \in Conns : Listening(s) /\ inode[s] = file
          /\ launcher' = [launcher EXCEPT ![l] = "refused"] /\ UNCHANGED probed
    /\ UNCHANGED <<startVars, lock, seen, file, serverVars, crashes>>

\* The server answers HELLO and ALIVE_CHECK: it is reused.
Alive_(l) ==
    /\ launcher[l] = "probing" /\ probed[l] # Free
    /\ \E s \in {probed[l]} : server[s] = "serving"
    /\ Ended(l, "ok")
    /\ UNCHANGED <<startVars, seen, probed, file, serverVars, crashes>>

\* The server closes instead, or does not answer in a second: the error propagates.
ProbeFails(l) ==
    /\ launcher[l] = "probing" /\ probed[l] # Free /\ Ended(l, "failed")
    /\ UNCHANGED <<startVars, seen, probed, file, serverVars, crashes>>

\* Only a refused socket whose identity still matches is removed.
RemoveStale(l) ==
    /\ launcher[l] = "refused"
    /\ IF seen[l] # 0 /\ file \notin {0, seen[l]}
       THEN Ended(l, "failed") /\ UNCHANGED file
       ELSE /\ launcher' = [launcher EXCEPT ![l] = "forking"] /\ UNCHANGED lock
            /\ file' = IF seen[l] # 0 THEN 0 ELSE file
    /\ UNCHANGED <<startVars, seen, probed, serverVars, crashes>>

\* os.fork
Fork(l) ==
    /\ launcher[l] = "forking" /\ launcher' = [launcher EXCEPT ![l] = "waiting"]
    /\ server' = [server EXCEPT ![l] = "forked"]
    /\ UNCHANGED <<startVars, lock, seen, probed, file, inode, ready, crashes>>

\* setsid, and the second fork
Detach(s) ==
    /\ server[s] = "forked" /\ server' = [server EXCEPT ![s] = "starting"]
    /\ UNCHANGED <<startVars, launchVars, file, inode, ready, crashes>>

\* The byte of the pipe, or its end without one
Told(l) ==
    /\ launcher[l] = "waiting" /\ ready[l] # "open"
    /\ Ended(l, IF ready[l] = "written" THEN "ok" ELSE "failed")
    /\ UNCHANGED <<startVars, seen, probed, file, serverVars, crashes>>

\* The memory and the descriptors of the process of a server go with it.
Forgotten(s) ==
    /\ said' = [said EXCEPT ![s] = <<>>] /\ spoken' = [spoken EXCEPT ![s] = <<>>]
    /\ begun' = [begun EXCEPT ![s] = FALSE] /\ told' = [told EXCEPT ![s] = {}]
    /\ hurried' = [hurried EXCEPT ![s] = FALSE] /\ raised' = [raised EXCEPT ![s] = FALSE]
    /\ cause' = [cause EXCEPT ![s] = "none"]
    /\ down' = [down EXCEPT ![s] = <<>>] /\ err' = [err EXCEPT ![s] = <<>>]

\* A process is killed; its child reads the end of its input.
Killed(s) ==
    /\ Forgotten(s)
    /\ server' = [server EXCEPT ![s] = "gone"]
    /\ ready' = [ready EXCEPT ![s] = IF @ = "open" THEN "closed" ELSE @]
    /\ UNCHANGED inode
    /\ local' = [local EXCEPT ![s] = "gone"]

\* killpg: the server and its transport command, which share a session; a group that does not exist
\* yet is passed over.
KillGroup(l) ==
    IF server[l] = "forked" THEN UNCHANGED <<startVars, serverVars>>
    ELSE /\ Killed(l)
         /\ remote' = [remote EXCEPT ![l] = IF @ = "none" THEN @ ELSE "dead"]
         /\ up' = [up EXCEPT ![l] = <<>>] /\ record' = [record EXCEPT ![l] = "none"]
         /\ unsent' = [unsent EXCEPT ![l] = FALSE]

\* Mutant: the launcher waits without a deadline.
TimedOutNever(l) == FALSE

\* select returns nothing at the deadline, or the launcher is interrupted.
TimedOut(l) ==
    /\ launcher[l] = "waiting" /\ ready[l] = "open"
    /\ launcher' = [launcher EXCEPT ![l] = "killing"]
    /\ UNCHANGED <<startVars, lock, seen, probed, file, serverVars, crashes>>

\* The launcher kills the group and reaps its child.  Since the deadline the server may have become
\* ready, served, failed or ended.
GiveUp(l) ==
    /\ launcher[l] = "killing" /\ (server[l] = "forked" => "late lock" \in Upsets)
    /\ KillGroup(l) /\ Ended(l, "failed")
    /\ UNCHANGED <<seen, probed, file, crashes>>

-----------------------------------------------------------------------------
(* serve and MuxServer.run                                                  *)

\* The steps of the connection of server s.  Ctrl-C cancels the start of a server in the foreground;
\* a daemon has no terminal.
Connecting(s) ==
    /\ \/ server[s] = "starting" /\ (Spawn(s) \/ SpawnFails(s) \/ (s \in Foreground /\ CancelStart(s)))
       \/ CollectStderr(s) \/ Handshake(s) \/ HandshakeTimeout(s) \/ Ask(s) \/ AwaitStderr(s)
       \/ WriteBoundary(s) \/ ReadLine(s) \/ LateTimeout(s) \/ ReceiveLog(s)
       \/ CloseWriter(s) \/ WriterClosed(s) \/ Signalled(s) \/ Reaped(s)
    /\ UNCHANGED <<launchVars, file, serverVars, crashes>>

\* The steps of the process at the other end.
Remote(s) ==
    /\ \/ Boot(s) \/ RunCode(s) \/ FromStdio(s) \/ Verify(s) \/ WriteBoundaryR(s) \/ ReadBoundaryR(s)
       \/ InputEnds(s)
    /\ UNCHANGED <<launchVars, file, serverVars, crashes>>

RemoteFails(s) ==
    /\ Crash(s) \/ StdioFails(s) \/ LogRecord(s) \/ Stops(s) \/ (server[s] = "serving" /\ Dies(s))
    /\ UNCHANGED <<launchVars, file, serverVars, crashes>>

\* The inodes that a new socket may get.
NewInodes ==
    LET used == {inode[s] : s \in Conns}
    IN  IF "inode reuse" \in Upsets
        THEN {i \in 1..Cardinality(Conns) :
                 i # file /\ \A s \in Conns : inode[s] = i => server[s] \notin {"bound", "listening", "serving"}}
        ELSE {i \in 1..Cardinality(Conns) : i \notin used /\ \A j \in 1..(i - 1) : j \in used}

\* bind and lstat; a path that exists is refused, and the server leaves without having made anything.
Bind(s) ==
    /\ server[s] = "starting" /\ local[s] = "ready"
    /\ IF file # 0
       THEN Leave(s) /\ server' = [server EXCEPT ![s] = "leaving"] /\ UNCHANGED <<file, inode>>
       ELSE \E i \in NewInodes : /\ file' = i /\ inode' = [inode EXCEPT ![s] = i]
                                 /\ server' = [server EXCEPT ![s] = "bound"] /\ UNCHANGED local
    /\ UNCHANGED <<remote, pipes, evidence, cause, record, unsent, launchVars, ready, crashes>>

Listen(s) ==
    /\ server[s] = "bound" /\ server' = [server EXCEPT ![s] = "listening"]
    /\ UNCHANGED <<startVars, launchVars, file, inode, ready, crashes>>

\* The tasks are made and the launcher is told.
Ready(s) ==
    /\ server[s] = "listening" /\ server' = [server EXCEPT ![s] = "serving"]
    /\ ready' = [ready EXCEPT ![s] = "written"]
    /\ UNCHANGED <<startVars, launchVars, file, inode, crashes>>

\* TERMINATE, SIGTERM or SIGHUP; stop_when_idle; the connection is lost.  The listener closes first.
Stop(s) ==
    /\ server[s] = "serving"
    /\ server' = [server EXCEPT ![s] = "closing"]
    /\ UNCHANGED <<startVars, launchVars, file, inode, ready, crashes>>

\* The clients are cancelled and have released their sessions (Sessions).
ClientsEnd(s) ==
    /\ server[s] = "closing" /\ server' = [server EXCEPT ![s] = "unlinking"]
    /\ UNCHANGED <<startVars, launchVars, file, inode, ready, crashes>>

\* Mutant: the server removes whatever is on its path.
OwnsAny(s) == file # 0

\* (metadata.st_dev, metadata.st_ino) == identity
Owns(s) == file = inode[s]

\* lstat, and the socket is removed if it is the server's own; then serve leaves the connection.
Unlink(s) ==
    /\ server[s] \in {"unlinking", "removing"}
    /\ IF server[s] = "unlinking" /\ Owns(s) /\ "slow unlink" \in Upsets
       THEN server' = [server EXCEPT ![s] = "removing"] /\ UNCHANGED <<file, local>>
       ELSE /\ Leave(s) /\ server' = [server EXCEPT ![s] = "leaving"]
            /\ file' = IF Owns(s) \/ server[s] = "removing" THEN 0 ELSE file
    /\ UNCHANGED <<remote, pipes, evidence, cause, record, unsent, launchVars, inode, ready, crashes>>

\* The process of the server ends; the pipe to a launcher that still waits closes with it.
Gone(s) ==
    /\ server[s] \in {"starting", "leaving"} /\ local[s] \in {"failed", "closed"}
    /\ server' = [server EXCEPT ![s] = "gone"]
    /\ ready' = [ready EXCEPT ![s] = IF @ = "open" THEN "closed" ELSE @] /\ Forgotten(s)
    /\ UNCHANGED <<local, remote, up, record, unsent, launchVars, file, inode, crashes>>

\* Somebody kills a server: its socket stays behind.
CrashServer(s) ==
    /\ crashes < MaxCrashes /\ crashes' = crashes + 1
    /\ server[s] \notin {"none", "forked", "gone"} /\ Killed(s)
    /\ up' = To(up, s, "eof")
    /\ UNCHANGED <<remote, record, unsent, launchVars, file>>

-----------------------------------------------------------------------------
Launch(l) == \/ TakeLock(l) \/ LockTimeout(l) \/ Inspect(l) \/ Probe(l) \/ Alive_(l)
             \/ ProbeFails(l) \/ RemoveStale(l) \/ Fork(l) \/ Told(l) \/ TimedOut(l) \/ GiveUp(l)

Serve(s) == \/ Detach(s) \/ Connecting(s) \/ Bind(s) \/ Listen(s) \/ Ready(s) \/ ClientsEnd(s)
            \/ Unlink(s) \/ Gone(s)

Surroundings(s) == Remote(s) \/ RemoteFails(s) \/ Stop(s) \/ CrashServer(s)

Next == \E c \in Conns : Begin(c) \/ Launch(c) \/ Serve(c) \/ Surroundings(c)

Spec == Init /\ [][Next]_vars

\* A launcher runs and its deadlines pass, except that nothing makes it begin; a server runs and
\* stops when its connection is lost.  A peer may hang, but not after the end of its input.
FairSpec ==
    /\ Spec
    /\ \A c \in Conns :
           /\ WF_vars(Launch(c))
           /\ WF_vars(Serve(c)) /\ WF_vars(Remote(c) /\ local[c] = "gone") /\ WF_vars(Stop(c) /\ Lost(c))

-----------------------------------------------------------------------------
\* The types of the variables of the launchers and servers.
TypeOK ==
    /\ StartTypeOK /\ lock \in Conns \union {Free} /\ file \in 0..Cardinality(Conns)
    /\ launcher \in [Conns -> {"idle", "none", "locking", "inspecting", "probing", "refused", "forking",
                               "waiting", "killing", "ok", "failed"}]
    /\ server \in [Conns -> {"none", "forked", "starting", "bound", "listening", "serving", "closing",
                             "unlinking", "removing", "leaving", "gone"}]
    /\ inode \in [Conns -> 0..Cardinality(Conns)] /\ ready \in [Conns -> {"open", "written", "closed"}]

\* A server that listens is on the path: no launcher takes its socket for a stale one and no server
\* that leaves removes it, so two servers never serve one path.
Reachable == \A s \in Conns : Listening(s) => file = inode[s]

\* A launcher that failed after it forked has no server, started or half started.
NoOrphan == \A l \in Conns : launcher[l] = "failed" => server[l] \in {"none", "gone"}

\* One path has one server, and no failed start leaves a child, a server, a socket of its own or a log
\* frame in front of READY (ensure_running, MuxServer.run, Protocol.__aenter__).
MuxSafe == TypeOK /\ NoChild /\ PlainUntilReady /\ Reachable /\ NoOrphan

\* Every launcher that has begun ends, whatever the peer, another launcher or the server it asks does.
LaunchEnds == <>[](\A l \in Conns : launcher[l] \in {"idle", "none", "ok", "failed"})

\* A server that was started comes to serve or ends; one that is told to stop, that loses its
\* connection or that is killed ends, and so does the process it had started.
ServerEnds ==
    <>[](\A s \in Conns : \/ server[s] \in {"none", "serving"} /\ ~Lost(s)
                          \/ server[s] = "gone" /\ ~Alive(s))

\* Neither a launcher nor a server nor the process of a server is left waiting (ensure_running, serve, Protocol.__aexit__).
MuxEnds == LaunchEnds /\ ServerEnds
=============================================================================
