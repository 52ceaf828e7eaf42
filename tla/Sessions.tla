------------------------------ MODULE Sessions ------------------------------
(***************************************************************************)
(* The clients of an sshmux server (MuxClient and MuxServer of             *)
(* rmote/cli/sshmux.py) and the remote sessions that they own (Vty).  The  *)
(* control socket of a client is the lease of its session: whatever ends   *)
(* the client - the end of its command, ~., a disconnect, the stop of the  *)
(* server or the loss of the connection - releases the session.            *)
(*                                                                         *)
(* The requests of all clients share one connection, in order.  A request  *)
(* that was sent is served even if its caller is cancelled.                *)
(***************************************************************************)
EXTENDS Vty, Sequences

CONSTANTS
    Terminal,   \* the open file description of the stdio of each client
    Typists     \* the clients whose users type more than their commands read

VARIABLES
    client,    \* where each client is
    server,    \* "serving", "stopping" or "stopped"
    link,      \* the rmote connection is open
    wire,      \* requests that the peer has not served: <<method, key>>
    answer,    \* the answer to the open or the close of a client: "none", "ok", "error"
    got,       \* chunks of output that the client has written
    lease,     \* the client holds an agent forwarding
    fds,       \* the client holds the three descriptors that it was passed
    nonblock,  \* O_NONBLOCK of each open file description
    saved,     \* the flags that the client found
    hurried,   \* a deadline of eight seconds ran out, or the client was cancelled in its cleanup
    ignored    \* history: the notice that the client left came before the task of its output had begun

clientVars == <<client, answer, got, lease, fds, nonblock, saved, hurried, ignored>>
vars == <<vtyVars, clientVars, server, link, wire>>

Clients == Keys

Init ==
    /\ VtyInit /\ client = [c \in Clients |-> "none"] /\ server = "serving" /\ link = TRUE /\ wire = <<>>
    /\ answer = [c \in Clients |-> "none"] /\ got = [c \in Clients |-> 0]
    /\ lease = [c \in Clients |-> FALSE] /\ fds = [c \in Clients |-> FALSE]
    /\ nonblock = [t \in {Terminal[c] : c \in Clients} |-> FALSE]
    /\ saved = [c \in Clients |-> FALSE]
    /\ hurried = [c \in Clients |-> FALSE] /\ ignored = [c \in Clients |-> FALSE]

Go(c, where) == client' = [client EXCEPT ![c] = where]

-----------------------------------------------------------------------------
(* The peer serves the requests                                             *)

Request(m) == wire # <<>> /\ Head(wire)[1] = m /\ wire' = Tail(wire)

\* The task of the output of k has begun, and is registered.
Begun(k) == producer[k] # "asked"

\* The tasks of the methods begin in the order of their packets.  The receive loop itself handles a
\* notice: it cancels the producer at once, or finds none because its task has not begun.
Serve ==
    /\ \/ Request("open") /\ (\A j \in Keys : Begun(j)) /\ Open(Head(wire)[2]) /\ UNCHANGED ignored
       \/ Request("output") /\ Ask(Head(wire)[2]) /\ UNCHANGED ignored
       \/ \E k \in Keys : /\ Request("release") /\ k = Head(wire)[2] /\ CancelOutput(k)
                           /\ ignored' = [ignored EXCEPT ![k] = ~Begun(k)]
       \/ Request("close") /\ (\A j \in Keys : Begun(j)) /\ Close(Head(wire)[2]) /\ UNCHANGED ignored
    /\ UNCHANGED <<client, answer, got, lease, fds, nonblock, saved, hurried, server, link>>

\* The response of Vty.shell
Opened(k) ==
    /\ \/ Started(k) /\ answer' = [answer EXCEPT ![k] = "ok"]
       \/ StartFails(k) /\ answer' = [answer EXCEPT ![k] = "error"]
    /\ UNCHANGED <<client, got, lease, fds, nonblock, saved, hurried, ignored, server, link, wire>>

\* The steps of the sessions that answer nobody here
Session(k) ==
    /\ ExitSeen(k) \/ Output(k) \/ Read(k) \/ EndProcess(k) \/ Released(k)
    /\ UNCHANGED <<clientVars, server, link, wire>>

Program(k) == (Child(k) \/ Unstick(k)) /\ UNCHANGED <<clientVars, server, link, wire>>

-----------------------------------------------------------------------------
(* MuxServer                                                                *)

\* accept: HELLO and the requests that follow are read under a deadline.
Accept(c) ==
    /\ client[c] = "none" /\ server = "serving" /\ Go(c, "hello")
    /\ UNCHANGED <<vtyVars, answer, got, lease, fds, nonblock, saved, hurried, ignored, server, link, wire>>

\* Mutant: the clients are only waited for.
StopWaits ==
    /\ server = "serving" /\ server' = "stopping" /\ UNCHANGED <<vtyVars, clientVars, link, wire>>

\* TERMINATE, a signal, stop_when_idle, or the connection is lost.  The clients are cancelled.
Stop ==
    /\ server = "serving" /\ server' = "stopping"
    /\ client' = [c \in Clients |->
           CASE client[c] = "opening" -> "collect"
             [] client[c] \in {"bridge", "status", "quit", "told"} -> "settle"
             [] client[c] \in {"hello", "lease", "sftp", "closing"} -> "free"
             [] OTHER -> client[c]]
    /\ hurried' = [c \in Clients |-> hurried[c] \/ client[c] = "closing"]
    /\ UNCHANGED <<vtyVars, answer, got, lease, fds, nonblock, saved, ignored, link, wire>>

\* The clients have been gathered.
Stopped ==
    /\ server = "stopping" /\ server' = "stopped" /\ \A c \in Clients : client[c] \in {"none", "done"}
    /\ UNCHANGED <<vtyVars, clientVars, link, wire>>

\* The connection breaks: pending calls fail, and the peer ends.
LoseLink ==
    /\ link /\ link' = FALSE /\ wire' = <<>> /\ RemoteEnds /\ ignored' = [c \in Clients |-> FALSE]
    /\ UNCHANGED <<client, answer, got, lease, fds, nonblock, saved, hurried, server>>

-----------------------------------------------------------------------------
(* MuxClient.run and MuxClient.session                                      *)

\* ALIVE_CHECK, a refused request, a bad packet, a deadline or the end of the socket.
NoSession(c) ==
    /\ client[c] = "hello" /\ Go(c, "free")
    /\ UNCHANGED <<vtyVars, answer, got, lease, fds, nonblock, saved, hurried, ignored, server, link, wire>>

\* NEW_SESSION with its three descriptors, which are made non-blocking.
NewSession(c) ==
    /\ client[c] = "hello"
    /\ fds' = [fds EXCEPT ![c] = TRUE] /\ saved' = [saved EXCEPT ![c] = nonblock[Terminal[c]]]
    /\ nonblock' = [nonblock EXCEPT ![Terminal[c]] = TRUE]
    /\ Go(c, "lease") \/ Go(c, "sftp")
    /\ UNCHANGED <<vtyVars, answer, got, lease, hurried, ignored, server, link, wire>>

\* The SFTP server ends, or its client disconnects.
Sftp(c) ==
    /\ client[c] = "sftp" /\ Go(c, "free")
    /\ UNCHANGED <<vtyVars, answer, got, lease, fds, nonblock, saved, hurried, ignored, server, link, wire>>

\* session: a forwarding of the agent if one was asked for and can be made, then Vty.shell.
OpenShell(c) ==
    /\ client[c] = "lease" /\ Go(c, "opening")
    /\ lease' = [lease EXCEPT ![c] = link]
    /\ IF link THEN wire' = Append(wire, <<"open", c>>) /\ UNCHANGED answer
       ELSE answer' = [answer EXCEPT ![c] = "error"] /\ UNCHANGED wire
    /\ UNCHANGED <<vtyVars, got, fds, nonblock, saved, hurried, ignored, server, link>>

\* The open was cancelled: its key is awaited and released, for at most eight seconds.
Collect(c) ==
    \/ answer[c] = "ok" /\ link /\ Go(c, "closing") /\ wire' = Append(wire, <<"close", c>>) /\ UNCHANGED hurried
    \/ (answer[c] = "error" \/ ~link) /\ Go(c, "free") /\ UNCHANGED <<wire, hurried>>
    \/ /\ answer[c] = "none" /\ link /\ Go(c, "free") /\ UNCHANGED wire
       /\ hurried' = [hurried EXCEPT ![c] = TRUE]

Collected(c) ==
    /\ client[c] = "collect" /\ Collect(c)
    /\ UNCHANGED <<vtyVars, answer, got, lease, fds, nonblock, saved, ignored, server, link>>

\* SESSION_OPENED and the tasks of bridge, unless the client has disconnected; or FAILURE.
Bridge(c) ==
    /\ client[c] = "opening"
    /\ \/ answer[c] = "ok" /\ link /\ Go(c, "bridge") /\ wire' = Append(wire, <<"output", c>>)
       \/ answer[c] = "ok" /\ link /\ Go(c, "closing") /\ wire' = Append(wire, <<"close", c>>)
       \/ (answer[c] = "error" \/ ~link) /\ Go(c, "free") /\ UNCHANGED wire
    /\ UNCHANGED <<vtyVars, answer, got, lease, fds, nonblock, saved, hurried, ignored, server, link>>

\* output: one chunk reaches the descriptor of the client.
WriteOut(c) ==
    /\ client[c] = "bridge" /\ got[c] < sent[c] /\ got' = [got EXCEPT ![c] = @ + 1]
    /\ UNCHANGED <<vtyVars, client, answer, lease, fds, nonblock, saved, hurried, ignored, server, link, wire>>

\* input: what the user types.
Input(c) ==
    /\ c \in Typists /\ client[c] = "bridge" /\ link /\ Write(c)
    /\ UNCHANGED <<clientVars, server, link, wire>>

\* Mutant: the status alone ends the bridge.
ResultEarly(c) == child[c] = "exited"

\* result: both streams have ended and every chunk is written; then Vty.wait.
Result(c) == producer[c] = "done" /\ got[c] = sent[c] /\ child[c] = "exited"

\* bridge returns the status of the command, or 255 after a disconnect or ~.; or a call of it raises
\* because the connection is lost.  "quit" includes the EXIT_MESSAGE with 255, which tells nothing of
\* the command, whether or not the client is there to read it.
BridgeEnds(c) ==
    /\ client[c] = "bridge"
    /\ (link /\ Result(c) /\ Go(c, "status")) \/ Go(c, "quit") \/ (~link /\ Go(c, "settle"))
    /\ UNCHANGED <<vtyVars, answer, got, lease, fds, nonblock, saved, hurried, ignored, server, link, wire>>

\* EXIT_MESSAGE with the status of the command; the client may have gone away.
SendStatus(c) ==
    /\ client[c] = "status" /\ (Go(c, "told") \/ Go(c, "settle"))
    /\ UNCHANGED <<vtyVars, answer, got, lease, fds, nonblock, saved, hurried, ignored, server, link, wire>>

\* The tasks are cancelled.  A stream that is cancelled in its own wait sends its release first; one
\* that is cancelled while a chunk is written is closed by the garbage collector, whose release
\* queues for the write lock behind the close.  Either is queued before what is sent later.
LeaveStream(c) == {<<<<"release", c>>, <<"close", c>>>>, <<<<"close", c>>, <<"release", c>>>>}

\* The finally of shell_session: Vty.close.
Settle(c) ==
    /\ client[c] \in {"settle", "told", "quit"} /\ Go(c, IF link THEN "closing" ELSE "free")
    /\ got' = [got EXCEPT ![c] = 0]
    /\ \E requests \in LeaveStream(c) : wire' = IF link THEN wire \o requests ELSE wire
    /\ UNCHANGED <<vtyVars, answer, lease, fds, nonblock, saved, hurried, ignored, server, link>>

\* Vty.close has answered or failed, or eight seconds have passed.
Closed(c) ==
    /\ client[c] = "closing" /\ Go(c, "free")
    /\ \/ (vty[c] = "gone" \/ ~link) /\ UNCHANGED hurried
       \/ link /\ vty[c] # "gone" /\ hurried' = [hurried EXCEPT ![c] = TRUE]
    /\ UNCHANGED <<vtyVars, answer, got, lease, fds, nonblock, saved, ignored, server, link, wire>>

Restore(c) == IF fds[c] THEN [nonblock EXCEPT ![Terminal[c]] = saved[c]] ELSE nonblock

\* The forwarding is released; the flags go back, the descriptors and the control socket close.
Finish(c) ==
    /\ client[c] = "free" /\ Go(c, "done") /\ lease' = [lease EXCEPT ![c] = FALSE]
    /\ nonblock' = Restore(c) /\ fds' = [fds EXCEPT ![c] = FALSE] /\ answer' = [answer EXCEPT ![c] = "none"]
    /\ UNCHANGED <<vtyVars, got, saved, hurried, ignored, server, link, wire>>

-----------------------------------------------------------------------------
ClientStep(c) ==
    \/ Collected(c) \/ Bridge(c) \/ WriteOut(c) \/ SendStatus(c) \/ Settle(c) \/ Closed(c)
    \/ OpenShell(c) \/ Finish(c)

Peer(c) == Opened(c) \/ Session(c)

Next ==
    \/ Serve \/ Stop \/ Stopped \/ LoseLink
    \/ \E c \in Clients :
           \/ Peer(c) \/ Program(c) \/ ClientStep(c)
           \/ Accept(c) \/ NoSession(c) \/ NewSession(c) \/ Sftp(c) \/ Input(c) \/ BridgeEnds(c)

Spec == Init /\ [][Next]_vars

\* What a client does by itself, once there is something to do
Proceeds(c) == ClientStep(c) \/ NoSession(c) \/ (BridgeEnds(c) /\ (Result(c) \/ ~link))

\* The event loops run, deadlines pass, and the end of a command or of the connection is noticed.  A
\* command may run for ever, and nobody has to type or to disconnect.  One condition is enough for all
\* of them: each step uses something up, so that none of them can keep another one waiting for ever.
FairSpec == Spec /\ WF_vars(Serve \/ Stopped \/ \E c \in Clients : Peer(c) \/ Proceeds(c))

-----------------------------------------------------------------------------
\* The types of the variables of the clients and the server.
TypeOK ==
    /\ VtyTypeOK /\ server \in {"serving", "stopping", "stopped"} /\ answer \in [Clients -> {"none", "ok", "error"}]
    /\ client \in [Clients -> {"none", "hello", "sftp", "lease", "opening", "collect", "bridge", "status", "quit", "told",
                               "settle", "closing", "free", "done"}]

\* A client that has ended has released its session, its forwarding and its descriptors, and the
\* flags of its terminal are back; unless the peer did not answer in time.
LeavesNothing ==
    \A c \in Clients : client[c] = "done" =>
        /\ ~lease[c] /\ ~fds[c] /\ nonblock[Terminal[c]] = FALSE
        /\ ~hurried[c] => vty[c] \in {"none", "gone"}

\* Sessions that share one event loop and one numbering of descriptors keep out of each other's way and
\* leave nothing behind (wait_readable, Vty.close, MuxClient.run, NonBlocking).
SessionsSafe == TypeOK /\ OwnReader /\ NoVtyLeft /\ LeavesNothing

\* A client that gets the status of its command has got all of its output before; 255, after a
\* disconnect or ~., is not the status of a command.
OutputBeforeExit == \A c \in Clients : client[c] = "told" => got[c] = made[c]

\* A client has ended, except that one whose command runs, or whose SFTP goes on, stays for as long as
\* the server serves.
ClientOver(c) ==
    \/ client[c] \in {"none", "done"}
    \/ server = "serving" /\ client[c] = "sftp"
    \/ server = "serving" /\ client[c] = "bridge" /\ child[c] = "running"

\* The read of the output of a client that has ended has ended at the peer as well, unless the notice of
\* its leaving came before the read had begun: that one was ignored, and nothing else ends the read.
OutputOver(c) == client[c] = "done" /\ ~ignored[c] => producer[c] \notin {"asked", "reading"}

\* Neither a client nor the read of its output at the peer is left behind (MuxClient.run, Vty.output).
SessionsEnd == <>[](\A c \in Clients : ClientOver(c) /\ OutputOver(c))
=============================================================================
