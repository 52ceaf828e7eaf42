------------------------------ MODULE Startup -------------------------------
(***************************************************************************)
(* The start and the end of a connection (rmote/protocol.py): the caller   *)
(* runs a command, feeds the bootstrap to the interpreter that it starts,  *)
(* makes TLS if it was asked for, exchanges the ready boundaries, and      *)
(* cleans up after any failure; the peer starts, or says why it cannot.    *)
(*                                                                         *)
(* Lines and TLS flights are tokens.  A connection c has the caller        *)
(* local[c], the process remote[c] (a transport command and the            *)
(* interpreter behind it), and three pipes.                                *)
(***************************************************************************)
EXTENDS Integers, Sequences, FiniteSets

CONSTANTS
    Conns,
    Secure,     \* the connections that are asked for with a TLSConfig
    ErrRoom,    \* lines of stderr that its pipe holds
    MaxLines,   \* MAX_START_FAILURE_LINES
    Upsets      \* what the surroundings may do beyond what a start expects

ASSUME StartupConstants == Secure \subseteq Conns /\ ErrRoom \in Nat \ {0} /\ MaxLines \in Nat \ {0}

VARIABLES
    local,    \* where the caller is
    remote,   \* where the process is
    up,       \* the caller's writes that the peer has not read
    down,     \* the peer's writes that the caller has not read
    err,      \* stderr of the process
    said,     \* lines kept from the protocol stream
    spoken,   \* transport_said: lines kept from stderr
    begun,    \* bytes of a TLS record were seen by the caller
    told,     \* what the error of a failed start carries
    hurried,  \* a bounded wait for the evidence ran out
    raised,   \* the start has failed: __aenter__ raises when it has cleaned up
    cause,    \* history: why the peer could not start
    record,   \* a log record of the peer: "none", "pending" or "sent"
    unsent    \* the caller has written more than the peer takes

pipes == <<up, down, err>>
evidence == <<said, spoken, begun, told, hurried, raised>>
startVars == <<local, remote, pipes, evidence, cause, record, unsent>>

Lines == {"noise", "banner", "reason", "crash", "alert", "garbled"}
Tokens == Lines \union {"code", "hello", "finish", "ready", "log", "eof"}

\* deque(maxlen=MAX_START_FAILURE_LINES)
Kept(lines, line) == LET all == Append(lines, line)
                     IN  IF Len(all) > MaxLines THEN Tail(all) ELSE all

Lines_(s) == {s[i] : i \in DOMAIN s}

StartInit ==
    /\ local = [c \in Conns |-> "idle"] /\ remote = [c \in Conns |-> "none"]
    /\ up = [c \in Conns |-> <<>>] /\ down = [c \in Conns |-> <<>>] /\ err = [c \in Conns |-> <<>>]
    /\ said = [c \in Conns |-> <<>>] /\ spoken = [c \in Conns |-> <<>>]
    /\ begun = [c \in Conns |-> FALSE] /\ told = [c \in Conns |-> {}] /\ hurried = [c \in Conns |-> FALSE]
    /\ raised = [c \in Conns |-> FALSE]
    /\ cause = [c \in Conns |-> "none"] /\ record = [c \in Conns |-> "none"] /\ unsent = [c \in Conns |-> FALSE]

Alive(c) == remote[c] \notin {"none", "dead"}
To(pipe, c, token) == IF Alive(c) THEN [pipe EXCEPT ![c] = Append(@, token)] ELSE pipe

-----------------------------------------------------------------------------
(* The process                                                              *)

\* The pipes of the output are open at the caller's end; a write to a closed one is an error that
\* the process passes over or dies of.
Heard(c) == local[c] \notin {"reaping", "failed", "closed", "gone"}

Out(pipe, c, tokens) == IF Heard(c) THEN [pipe EXCEPT ![c] = @ \o tokens] ELSE pipe

\* The process ends: its pipes report the end to the caller.
Ends(c, out, lines, why) ==
    /\ remote' = [remote EXCEPT ![c] = "dead"] /\ up' = [up EXCEPT ![c] = <<>>]
    /\ down' = Out(down, c, out \o <<"eof">>) /\ err' = Out(err, c, lines \o <<"eof">>)
    /\ cause' = [cause EXCEPT ![c] = why]
    /\ record' = [record EXCEPT ![c] = "none"] /\ unsent' = [unsent EXCEPT ![c] = FALSE]
    /\ UNCHANGED <<local, evidence>>

\* Room in the pipe of stderr
ErrFree(c) == Len(err[c]) < ErrRoom \/ ~Heard(c)

\* The transport prints a banner and the interpreter its prompts.
Boot(c) ==
    /\ remote[c] = "boot" /\ ErrFree(c)
    /\ remote' = [remote EXCEPT ![c] = "prompt"] /\ err' = Out(err, c, <<"noise">>)
    /\ \/ UNCHANGED down
       \/ down' = Out(down, c, <<"banner">>)
    /\ UNCHANGED <<local, up, evidence, cause, record, unsent>>

\* The bootstrap runs, or the interpreter cannot run it and says so on stderr only.
RunCode(c) ==
    /\ remote[c] = "prompt" /\ ErrFree(c) /\ up[c] # <<>> /\ Head(up[c]) = "code"
    /\ remote' = [remote EXCEPT ![c] = "stdio"]
    /\ up' = [up EXCEPT ![c] = Tail(@)] /\ err' = Out(err, c, <<"noise">>)
    /\ UNCHANGED <<local, down, evidence, cause, record, unsent>>

Crash(c) == remote[c] \in {"boot", "prompt"} /\ ErrFree(c) /\ Ends(c, <<>>, <<"crash">>, "crash")

\* from_stdio: the descriptors move away from 0, 1 and 2, the handler of log records is paused.
FromStdio(c) ==
    /\ remote[c] = "stdio"
    /\ remote' = [remote EXCEPT ![c] = IF c \in Secure THEN "handshake" ELSE "write"]
    /\ down' = IF c \in Secure THEN Out(down, c, <<"hello">>) ELSE down
    /\ UNCHANGED <<local, up, err, evidence, cause, record, unsent>>

\* report_start_failure: a line on the protocol stream, and the traceback on stderr.
StdioFails(c) == remote[c] = "stdio" /\ ErrFree(c) /\ Ends(c, <<"reason">>, <<"reason">>, "reason")

\* run: the client side of the handshake; stderr is gone, so a refusal is a TLS alert.
Verify(c) ==
    /\ remote[c] = "handshake" /\ up[c] # <<>> /\ Head(up[c]) = "hello"
    /\ \/ /\ remote' = [remote EXCEPT ![c] = "write"]
          /\ up' = [up EXCEPT ![c] = Tail(@)] /\ down' = Out(down, c, <<"finish">>)
          /\ UNCHANGED <<local, err, evidence, cause, record, unsent>>
       \/ Ends(c, <<"alert">>, <<>>, "none")

\* The handler sends only once it is unpaused, which __aenter__ does after the boundaries.
Emits(c) == remote[c] = "served"

\* A tool, a library or asyncio itself logs a record.
LogRecord(c) ==
    /\ remote[c] \in {"handshake", "write", "read", "served"} /\ record[c] = "none"
    /\ IF Emits(c)
       THEN record' = [record EXCEPT ![c] = "sent"] /\ down' = Out(down, c, <<"log">>)
       ELSE record' = [record EXCEPT ![c] = "pending"] /\ UNCHANGED down
    /\ UNCHANGED <<local, remote, up, err, evidence, cause, unsent>>

\* write_boundary
WriteBoundaryR(c) ==
    /\ remote[c] = "write"
    /\ remote' = [remote EXCEPT ![c] = "read"] /\ down' = Out(down, c, <<"ready">>)
    /\ UNCHANGED <<local, up, err, evidence, cause, record, unsent>>

\* read_boundary, the start of the receive loop and of the log handler.
ReadBoundaryR(c) ==
    /\ remote[c] = "read" /\ up[c] # <<>> /\ Head(up[c]) = "ready"
    /\ remote' = [remote EXCEPT ![c] = "served"] /\ up' = [up EXCEPT ![c] = Tail(@)]
    /\ IF record[c] = "pending"
       THEN record' = [record EXCEPT ![c] = "sent"] /\ down' = Out(down, c, <<"log">>)
       ELSE UNCHANGED <<record, down>>
    /\ UNCHANGED <<local, err, evidence, cause, unsent>>

\* The end of input: the interpreter, the handshake, read_boundary and wait_closed all end.
InputEnds(c) ==
    /\ remote[c] \in {"prompt", "handshake", "read", "served"} /\ up[c] # <<>> /\ Head(up[c]) = "eof"
    /\ Ends(c, <<>>, <<>>, "none")

\* SIGTERM of the caller, SIGKILL of the group, or the transport breaks.
Dies(c) == Alive(c) /\ Ends(c, <<>>, <<>>, "none")

\* The process is stopped with a full pipe: it no longer reads what the caller wrote.
Stops(c) ==
    /\ "stopped peer" \in Upsets /\ remote[c] = "served" /\ local[c] = "ready"
    /\ remote' = [remote EXCEPT ![c] = "stopped"] /\ unsent' = [unsent EXCEPT ![c] = TRUE]
    /\ UNCHANGED <<local, pipes, evidence, cause, record>>

-----------------------------------------------------------------------------
(* The caller: from_command and __aenter__                                  *)

\* create_subprocess_exec, then from_subprocess writes the bootstrap.
Spawn(c) ==
    /\ local[c] = "idle"
    /\ local' = [local EXCEPT ![c] = IF c \in Secure THEN "handshake" ELSE "write"]
    /\ remote' = [remote EXCEPT ![c] = "boot"] /\ up' = [up EXCEPT ![c] = <<"code">>]
    /\ UNCHANGED <<down, err, evidence, cause, record, unsent>>

\* The command does not start, or the TLS settings are bad: the new process is killed and reaped.
SpawnFails(c) ==
    /\ local[c] = "idle" /\ local' = [local EXCEPT ![c] = "failed"]
    /\ \/ UNCHANGED remote
       \/ c \in Secure /\ remote' = [remote EXCEPT ![c] = "dead"]
    /\ UNCHANGED <<pipes, evidence, cause, record, unsent>>

\* collect_stderr: it runs for as long as the caller keeps its task.
CollectStderr(c) ==
    /\ local[c] \in {"handshake", "ask", "stderr", "write", "late", "read", "ready"}
    /\ err[c] # <<>> /\ Head(err[c]) # "eof"
    /\ err' = [err EXCEPT ![c] = Tail(@)] /\ spoken' = [spoken EXCEPT ![c] = Kept(@, Head(err[c]))]
    /\ UNCHANGED <<local, remote, up, down, said, begun, told, hurried, raised, cause, record, unsent>>

\* The start raises with what is known now; __aenter__ calls __aexit__.
Raise(c, lines) ==
    /\ local' = [local EXCEPT ![c] = "exit"] /\ raised' = [raised EXCEPT ![c] = TRUE]
    /\ told' = [told EXCEPT ![c] = lines \union Lines_(spoken[c])]

Take(c) == down[c] # <<>> /\ down' = [down EXCEPT ![c] = Tail(@)]

\* TLSStream.handshake, the server side, and what __aenter__ makes of its failure.
Handshake(c) ==
    /\ local[c] = "handshake" /\ Take(c)
    /\ LET token == Head(down[c])
       IN  \/ /\ token = "hello" /\ begun' = [begun EXCEPT ![c] = TRUE]
              /\ up' = To(up, c, "hello") /\ UNCHANGED <<local, said, told, raised>>
           \/ /\ token = "finish" /\ local' = [local EXCEPT ![c] = "write"]
              /\ UNCHANGED <<up, said, begun, told, raised>>
           \/ /\ token \in {"alert", "eof"} /\ begun[c] /\ Raise(c, {"alert"})
              /\ UNCHANGED <<up, said, begun>>
           \/ /\ token = "eof" /\ ~begun[c] /\ local' = [local EXCEPT ![c] = "stderr"]
              /\ UNCHANGED <<up, said, begun, told, raised>>
           \/ /\ token \in {"banner", "reason", "log"} /\ local' = [local EXCEPT ![c] = "stderr"]
              /\ said' = [said EXCEPT ![c] = Kept(@, token)] /\ UNCHANGED <<up, begun, told, raised>>
    /\ UNCHANGED <<remote, err, spoken, hurried, cause, record, unsent>>

\* The handshake takes too long; without a byte of the peer its words are asked for once more.
HandshakeTimeout(c) ==
    /\ local[c] = "handshake" /\ local' = [local EXCEPT ![c] = IF begun[c] THEN "stderr" ELSE "ask"]
    /\ said' = [said EXCEPT ![c] = IF begun[c] THEN Kept(@, "garbled") ELSE @]
    /\ hurried' = [hurried EXCEPT ![c] = TRUE]
    /\ UNCHANGED <<remote, pipes, spoken, begun, told, raised, cause, record, unsent>>

\* raw_reader.read with a deadline of one second
Ask(c) ==
    /\ local[c] = "ask" /\ local' = [local EXCEPT ![c] = "stderr"]
    /\ \/ /\ Take(c) /\ said' = [said EXCEPT ![c] = IF Head(down[c]) = "eof" THEN @ ELSE Kept(@, Head(down[c]))]
          /\ UNCHANGED hurried
       \/ hurried' = [hurried EXCEPT ![c] = TRUE] /\ UNCHANGED <<down, said>>
    /\ UNCHANGED <<remote, up, err, spoken, begun, told, raised, cause, record, unsent>>

\* Mutant: the error is raised as soon as stdout ends.
StderrReadAny(c) == TRUE

\* The task that reads stderr has ended: everything that the transport said is known.
StderrRead(c) == err[c] # <<>> /\ Head(err[c]) = "eof"

\* asyncio.wait({_stderr_task}, timeout=0.1), then ConnectionError(start_failure(...))
AwaitStderr(c) ==
    /\ local[c] = "stderr" /\ Raise(c, Lines_(said[c]))
    /\ \/ StderrRead(c) /\ UNCHANGED hurried
       \/ ~StderrRead(c) /\ hurried' = [hurried EXCEPT ![c] = TRUE]
    /\ UNCHANGED <<remote, pipes, said, spoken, begun, cause, record, unsent>>

\* write_boundary; a process that is gone has closed its input, and its words are read after all.
WriteBoundary(c) ==
    /\ local[c] = "write"
    /\ \/ local' = [local EXCEPT ![c] = "read"] /\ up' = To(up, c, "ready")
       \/ ~Alive(c) /\ local' = [local EXCEPT ![c] = "late"] /\ UNCHANGED up
    /\ UNCHANGED <<remote, down, err, evidence, cause, record, unsent>>

\* read_boundary: one line.
ReadLine(c) ==
    /\ local[c] \in {"read", "late"} /\ Take(c)
    /\ LET line == Head(down[c])
       IN  \/ /\ line = "ready" /\ local[c] = "read"
              /\ local' = [local EXCEPT ![c] = "ready"] /\ UNCHANGED <<said, told, raised>>
           \/ line = "ready" /\ local[c] = "late" /\ Raise(c, {}) /\ UNCHANGED said
           \/ line = "eof" /\ local' = [local EXCEPT ![c] = "stderr"] /\ UNCHANGED <<said, told, raised>>
           \/ /\ line \notin {"ready", "eof"} /\ said' = [said EXCEPT ![c] = Kept(@, line)]
              /\ UNCHANGED <<local, told, raised>>
    /\ UNCHANGED <<remote, up, err, spoken, begun, hurried, cause, record, unsent>>

\* asyncio.timeout(1) around the reading of the last words, which an open pipe would hold up.
LateTimeout(c) ==
    /\ local[c] = "late" /\ Raise(c, {}) /\ hurried' = [hurried EXCEPT ![c] = TRUE]
    /\ UNCHANGED <<remote, pipes, said, spoken, begun, cause, record, unsent>>

\* The task of the start is cancelled.
CancelStart(c) ==
    /\ local[c] \in {"handshake", "ask", "stderr", "write", "late", "read"}
    /\ local' = [local EXCEPT ![c] = "exit"] /\ raised' = [raised EXCEPT ![c] = TRUE]
    /\ hurried' = [hurried EXCEPT ![c] = TRUE]
    /\ UNCHANGED <<remote, pipes, said, spoken, begun, told, cause, record, unsent>>

\* The receive loop takes a frame of the log.
ReceiveLog(c) ==
    /\ local[c] = "ready" /\ Take(c) /\ Head(down[c]) = "log"
    /\ UNCHANGED <<local, remote, up, err, evidence, cause, record, unsent>>

\* The receive loop has met the end of the stream: wait_closed returns.
Lost(c) == local[c] = "ready" /\ down[c] # <<>> /\ Head(down[c]) = "eof"

-----------------------------------------------------------------------------
(* The caller: __aexit__                                                    *)

\* __aexit__ of a connection that was ready.
Leave(c) == local[c] = "ready" /\ local' = [local EXCEPT ![c] = "exit"]

\* The tasks are cancelled and stdin is closed.
CloseWriter(c) ==
    /\ local[c] = "exit" /\ local' = [local EXCEPT ![c] = "flush"] /\ up' = To(up, c, "eof")
    /\ UNCHANGED <<remote, down, err, evidence, cause, record, unsent>>

\* terminate, and the pipes of the output are closed.
Terminate(c) == [local EXCEPT ![c] = "reaping"]

\* writer.wait_closed: the pipe closes when all that was written is taken.  TLSStream waits one
\* second; the writer of a plain pipe has no deadline.
WriterClosed(c) ==
    /\ local[c] = "flush" /\ (unsent[c] => c \in Secure) /\ local' = Terminate(c)
    /\ down' = [down EXCEPT ![c] = <<>>] /\ err' = [err EXCEPT ![c] = <<>>]
    /\ UNCHANGED <<remote, up, evidence, cause, record, unsent>>

\* SIGTERM, or SIGKILL after one second.
Signalled(c) == local[c] = "reaping" /\ Dies(c)

\* process.wait, and __aenter__ raises what it had caught.  A cancellation of the wait kills the process
\* at once, which Signalled includes.
Reaped(c) ==
    /\ local[c] = "reaping" /\ ~Alive(c)
    /\ local' = [local EXCEPT ![c] = IF raised[c] THEN "failed" ELSE "closed"]
    /\ UNCHANGED <<remote, pipes, evidence, cause, record, unsent>>

-----------------------------------------------------------------------------
\* The types of the variables.
StartTypeOK ==
    /\ local \in [Conns -> {"idle", "handshake", "ask", "stderr", "write", "late", "read", "ready",
                            "exit", "flush", "reaping", "failed", "closed", "gone"}]
    /\ remote \in [Conns -> {"none", "boot", "prompt", "stdio", "handshake", "write", "read", "served",
                             "stopped", "dead"}]
    /\ \A c \in Conns : /\ Lines_(up[c]) \subseteq Tokens /\ Lines_(down[c]) \subseteq Tokens
                        /\ Len(said[c]) <= MaxLines /\ Len(spoken[c]) <= MaxLines

\* A start that failed, or a connection that was left, has no process: it has been reaped.
NoChild == \A c \in Conns : local[c] \in {"failed", "closed"} => ~Alive(c)

\* Nothing but plain lines and TLS reaches the caller before the ready boundary: a log record of the
\* peer waits for it, because read_boundary would take its frame for a line.
PlainUntilReady ==
    \A c \in Conns : local[c] \in {"handshake", "ask", "write", "late", "read"} =>
        \A i \in DOMAIN down[c] : down[c][i] = "log" => \E j \in 1..(i - 1) : down[c][j] = "ready"

\* A peer that could not start has told the caller why, whether the reason came on the protocol
\* stream or, because the interpreter failed before our code ran, only on stderr; unless a bounded
\* wait for the evidence ran out.
ToldWhy ==
    \A c \in Conns : local[c] = "failed" /\ cause[c] # "none" /\ ~hurried[c] => cause[c] \in told[c]
=============================================================================
