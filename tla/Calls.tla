-------------------------------- MODULE Calls -------------------------------
(***************************************************************************)
(* Ordinary calls of rmote/protocol.py: prepare_call, which brings the     *)
(* tool to the peer, and _call, which sends a request and waits for its    *)
(* response; the peer loads tools and runs methods, each in a task.        *)
(*                                                                         *)
(* Many calls share the packet ids, the futures, the sync locks, the cache *)
(* of tools and the set of modules the peer is known to hold.  A call may  *)
(* be cancelled wherever it waits; the connection may drop or be closed.   *)
(* What travels with a tool is module Bundles.                             *)
(* Packets are whole and ordered, as PacketChannel says.                   *)
(***************************************************************************)
EXTENDS Integers, Sequences, FiniteSets, Functions

CONSTANTS
    Callers,       \* the calls, each in a task of its own
    Programs,      \* what the calls may be: see Program
    Tools, Modules,
    Above,         \* the packages that each module is in
    Impatient,     \* the calls that may be cancelled
    LinkMayBreak

\* The tool of each call and the modules that the values in its arguments are of; what each module brings
\* along; the root and the bundle of each tool, and the modules that it needs.
Program == [tool : [Callers -> Tools], values : [Callers -> SUBSET Modules], brings : [Modules -> SUBSET Modules],
            root : [Tools -> Modules], bundle : [Tools -> SUBSET Modules], needed : [Tools -> SUBSET Modules]]

ASSUME CallsConstants ==
    /\ IsFiniteSet(Callers) /\ Programs \subseteq Program /\ Above \in [Modules -> SUBSET Modules]
    /\ Impatient \subseteq Callers /\ LinkMayBreak \in BOOLEAN

VARIABLES
    program,   \* what the calls are
    pc,        \* where each call is
    phase,     \* the _call it is in: "sync" or "rpc"
    id,        \* packet_id of that _call
    cargo,     \* the sources that its packet carries
    fut,       \* the state of its future
    answer,    \* the request whose response completed it
    lastId,    \* __last_id
    futures,   \* self.futures: the call that waits for each packet_id
    locks,     \* _tool_sync_locks: the holder, then the calls that wait
    cached,    \* _tools_cache
    known,     \* known_modules
    closed,    \* _closed
    handling,  \* responses whose task has not run yet
    link,      \* the connection is up
    up, down,  \* packets on the wire
    job,       \* the task of each request on the peer
    jobId,     \* its packet_id
    jobCargo,  \* the sources in its definition
    loading,   \* the queue of _tool_load_lock: the holder, then those that wait
    installed, \* modules whose sources the peer holds
    spaces,    \* packages that it holds as empty namespaces
    loaded,    \* self.tools of the peer
    executed,  \* how often the method of each call was started
    sent,      \* how often the source of each module was written
    closedP    \* _closed of the peer

callVars == <<pc, phase, id, cargo, fut, answer>>
localVars == <<callVars, lastId, futures, locks, cached, known, closed, handling, sent>>
peerVars == <<job, jobId, jobCargo, loading, installed, spaces, loaded, executed, closedP>>
vars == <<program, localVars, link, up, down, peerVars>>

Phases == {"sync", "rpc"}
Requests == Callers \X Phases
NoCall == "nobody"
Final == {"returned", "raised", "lost", "cancelled"}

Tool == program.tool
Root == program.root
Bundle == program.bundle

\* What the peer must hold to decode the arguments of a call
Carried == [c \in Callers |-> UNION {program.brings[m] : m \in program.values[c]}]

Init ==
    /\ program \in Programs /\ pc = [c \in Callers |-> "idle"] /\ phase = [c \in Callers |-> "sync"]
    /\ id = [c \in Callers |-> 0] /\ cargo = [c \in Callers |-> {}]
    /\ fut = [c \in Callers |-> "none"] /\ answer = [c \in Callers |-> <<NoCall, "sync">>]
    /\ lastId = 0 /\ futures = [n \in {} |-> NoCall]
    /\ locks = [r \in Range(Root) |-> <<>>] /\ cached = {} /\ known = {}
    /\ closed = FALSE /\ handling = {} /\ link = TRUE /\ up = <<>> /\ down = <<>>
    /\ job = [r \in Requests |-> "none"] /\ jobId = [r \in Requests |-> 0]
    /\ jobCargo = [r \in Requests |-> {}] /\ loading = <<>>
    /\ installed = {} /\ spaces = {} /\ loaded = {} /\ executed = [c \in Callers |-> 0]
    /\ sent = [m \in Modules |-> 0] /\ closedP = FALSE

Write(wire, packet) == IF link THEN Append(wire, packet) ELSE wire
Put(f, x, v) == [f EXCEPT ![x] = v]
RootOf(c) == Root[Tool[c]]

-----------------------------------------------------------------------------
(* prepare_call and _call                                                   *)

\* Mutant: an id is free again when its call is over.
GetIdReused == Cardinality(DOMAIN futures) + 1

GetId == lastId + 1

\* The queue of a lock without a call, which is in it once or not at all.
Without(queue, c) ==
    IF c \in Range(queue)
    THEN LET i == CHOOSE k \in DOMAIN queue : queue[k] = c IN SubSeq(queue, 1, i - 1) \o SubSeq(queue, i + 1, Len(queue))
    ELSE queue

\* The sync locks without the call.
Unlocked(c) == [r \in DOMAIN locks |-> Without(locks[r], c)]

\* The sources of a definition that still have to travel.
Missing(modules, have) == modules \ have

\* ModulePickler: a value whose own module is known brings nothing, any other one the bundle of its module.
Attached(c, have) == UNION {program.brings[m] \ have : m \in program.values[c] \ have}

\* futures.pop(packet_id, None)
FuturesWithout(c) == [n \in DOMAIN futures \ {id[c]} |-> futures[n]]

\* futures[packet_id] = future, for the next packet_id of a call
FuturesWith(c) == [n \in (DOMAIN futures \ {id[c]}) \cup {GetId} |-> IF n = GetId THEN c ELSE futures[n]]

\* _call, up to the write lock of its packet, which carries these sources.
Enter(c, where, sources) ==
    /\ phase' = Put(phase, c, where)
    /\ IF closed
       THEN /\ pc' = Put(pc, c, "lost") /\ fut' = Put(fut, c, "none")
            /\ UNCHANGED <<id, cargo, lastId, futures>>
       ELSE /\ pc' = Put(pc, c, "send") /\ fut' = Put(fut, c, "pending")
            /\ id' = Put(id, c, GetId) /\ lastId' = GetId
            /\ futures' = FuturesWith(c)
            /\ cargo' = Put(cargo, c, sources)
    /\ locks' = (IF where = "sync" /\ ~closed THEN locks ELSE Unlocked(c))

\* prepare_call: the tool is there, or its bundle has to be synchronized.
Begin(c) ==
    /\ pc[c] = "idle"
    /\ IF Tool[c] \in cached
       THEN Enter(c, "rpc", Attached(c, known))
       ELSE /\ pc' = Put(pc, c, "lock")
            /\ locks' = [locks EXCEPT ![RootOf(c)] = Append(@, c)]
            /\ UNCHANGED <<phase, id, cargo, fut, lastId, futures>>
    /\ UNCHANGED <<answer, cached, known, closed, handling, sent, link, up, down, program, peerVars>>

\* The sync lock is granted; another call may have brought the tool meanwhile.
Locked(c) ==
    /\ pc[c] = "lock" /\ Head(locks[RootOf(c)]) = c
    /\ IF Tool[c] \in cached
       THEN Enter(c, "rpc", Attached(c, known))
       ELSE Enter(c, "sync", Missing(Bundle[Tool[c]], known))
    /\ UNCHANGED <<answer, cached, known, closed, handling, sent, link, up, down, program, peerVars>>

\* send: the packet is written, and drained.
WritePacket(c) ==
    /\ pc[c] = "send" /\ ~closed
    /\ up' = Write(up, [call |-> c, phase |-> phase[c], id |-> id[c], sources |-> cargo[c]])
    /\ sent' = [m \in Modules |-> IF m \in cargo[c] THEN sent[m] + 1 ELSE sent[m]]
    /\ pc' = Put(pc, c, "drain")
    /\ UNCHANGED <<phase, id, cargo, fut, answer, lastId, futures, locks, cached, known, closed,
                   handling, link, down, program, peerVars>>

\* The envelope of a request counts as known; the sources of a definition only
\* when the peer has answered.
KnownSent(c) == IF phase[c] = "rpc" THEN known \cup cargo[c] ELSE known

Drained(c) ==
    /\ pc[c] = "drain"
    /\ pc' = Put(pc, c, "wait")
    /\ known' = KnownSent(c)
    /\ UNCHANGED <<phase, id, cargo, fut, answer, lastId, futures, locks, cached, closed, handling,
                   sent, link, up, down, program, peerVars>>

\* _call and prepare_call end.
End(c, how) ==
    /\ pc' = Put(pc, c, how) /\ fut' = Put(fut, c, "none")
    /\ futures' = FuturesWithout(c) /\ locks' = Unlocked(c)

\* The peer loaded the tool: remember it, release the lock and send the request.
Synced(c) ==
    /\ pc[c] = "wait" /\ phase[c] = "sync" /\ fut[c] = "result"
    /\ known' = known \cup cargo[c] /\ cached' = cached \cup {Tool[c]}
    /\ Enter(c, "rpc", Attached(c, known \cup cargo[c]))
    /\ UNCHANGED <<answer, closed, handling, sent, link, up, down, program, peerVars>>

\* The future of the call has a result, an error of the peer, or the close.
Resume(c) ==
    /\ pc[c] = "wait"
    /\ \/ fut[c] = "result" /\ phase[c] = "rpc" /\ End(c, "returned")
       \/ fut[c] = "error" /\ End(c, "raised")
       \/ fut[c] = "lost" /\ End(c, "lost")
    /\ UNCHANGED <<phase, id, cargo, answer, lastId, cached, known, closed, handling, sent, link,
                   up, down, program, peerVars>>

\* Mutant: only the futures are cleared, their calls are not told.
FailedSilently == fut

\* What _finish_pending does to the futures.
Failed == [c \in Callers |-> IF fut[c] = "pending" /\ c \in Range(futures) THEN "lost" ELSE fut[c]]
Forgotten == [n \in {} |-> NoCall]

\* send raises on a transport that is closed or noticed the loss; every other
\* call is failed with it.
SendFails(c) ==
    /\ pc[c] \in {"send", "drain"} /\ (closed \/ ~link)
    /\ closed' = TRUE /\ futures' = Forgotten /\ fut' = Put(Failed, c, "none")
    /\ pc' = Put(pc, c, "lost") /\ locks' = Unlocked(c)
    /\ UNCHANGED <<phase, id, cargo, answer, lastId, cached, known, handling, sent, link, up, down, program, peerVars>>

\* Mutant: the sources of a packet count as known although it was not written.
CancelCounted(c) ==
    /\ c \in Impatient /\ pc[c] \in {"lock", "send", "wait"}
    /\ pc' = Put(pc, c, "cancelled") /\ locks' = Unlocked(c) /\ fut' = Put(fut, c, "none")
    /\ futures' = (IF pc[c] = "lock" THEN futures ELSE FuturesWithout(c))
    /\ known' = known \cup cargo[c]
    /\ UNCHANGED <<phase, id, cargo, answer, lastId, cached, closed, handling, sent, link,
                   up, down, program, peerVars>>

\* The task of the call is cancelled while it waits for a lock or a response.
Cancel(c) ==
    /\ c \in Impatient /\ pc[c] \in {"lock", "send", "wait"}
    /\ pc' = Put(pc, c, "cancelled") /\ locks' = Unlocked(c) /\ fut' = Put(fut, c, "none")
    /\ futures' = (IF pc[c] = "lock" THEN futures ELSE FuturesWithout(c))
    /\ UNCHANGED <<phase, id, cargo, answer, lastId, cached, known, closed, handling, sent, link,
                   up, down, program, peerVars>>

\* The task is cancelled in drain: send_frame closes the writer and _call fails
\* every other call.
CancelDrain(c) ==
    /\ c \in Impatient /\ pc[c] = "drain"
    /\ closed' = TRUE /\ link' = FALSE
    /\ futures' = Forgotten /\ fut' = Put(Failed, c, "none")
    /\ pc' = Put(pc, c, "cancelled") /\ locks' = Unlocked(c)
    /\ \E n \in 0..Len(up) : up' = SubSeq(up, 1, n)
    /\ UNCHANGED <<phase, id, cargo, answer, lastId, cached, known, handling, sent, down, program, peerVars>>

-----------------------------------------------------------------------------
(* The receive loop of the caller                                           *)

\* Complete the future of a packet_id; a late response finds none.
Complete(packet, state) ==
    IF packet.id \notin DOMAIN futures THEN UNCHANGED <<futures, fut, answer>>
    ELSE LET c == futures[packet.id] IN
         /\ futures' = [n \in DOMAIN futures \ {packet.id} |-> futures[n]]
         /\ fut' = (IF fut[c] = "pending" THEN Put(fut, c, state) ELSE fut)
         /\ answer' = (IF fut[c] = "pending" THEN Put(answer, c, packet.of) ELSE answer)

\* A result is handed to a task, a failure is handled inline.
ReceiveDown ==
    /\ ~closed /\ down # <<>> /\ down' = Tail(down)
    /\ \/ Head(down).kind = "result" /\ handling' = handling \cup {Head(down)} /\ UNCHANGED <<futures, fut, answer>>
       \/ Head(down).kind = "error" /\ Complete(Head(down), "error") /\ UNCHANGED handling
    /\ UNCHANGED <<pc, phase, id, cargo, lastId, locks, cached, known, closed, sent, link, up, program, peerVars>>

\* _handle_rpc_response
HandleResult ==
    \E packet \in handling :
        /\ handling' = handling \ {packet}
        /\ Complete(packet, "result")
        /\ UNCHANGED <<pc, phase, id, cargo, lastId, locks, cached, known, closed, sent, link, up, down, program, peerVars>>

\* End of file: _finish_pending.  A response whose task has not run is too late.
Lose ==
    /\ ~closed /\ ~link /\ down = <<>>
    /\ closed' = TRUE /\ futures' = Forgotten /\ fut' = Failed
    /\ UNCHANGED <<pc, phase, id, cargo, answer, lastId, locks, cached, known, handling, sent, link, up, down, program, peerVars>>

\* __aexit__, while calls are under way.
Close ==
    /\ LinkMayBreak /\ link
    /\ closed' = TRUE /\ futures' = Forgotten /\ fut' = Failed /\ handling' = {}
    /\ link' = FALSE /\ down' = <<>>
    /\ UNCHANGED <<pc, phase, id, cargo, answer, lastId, locks, cached, known, sent, up, program, peerVars>>

-----------------------------------------------------------------------------
(* The peer                                                                 *)

\* ModuleLoader.install refuses a source for a name that it holds with another one.
Refused(sources) == sources \cap spaces # {}

\* A package that no bundle has brought yet becomes an empty namespace for the modules in it.
Install(sources) ==
    /\ installed' = installed \cup sources
    /\ spaces' = spaces \cup (UNION {Above[m] : m \in sources} \ installed')

\* A request starts a task.  The envelope of a call is installed when its
\* packet is decoded, the sources of a definition when it is built.
ReceiveUp ==
    /\ ~closedP /\ up # <<>> /\ up' = Tail(up)
    /\ Head(up).phase = "rpc" => ~Refused(Head(up).sources)
    /\ LET packet == Head(up)  request == <<packet.call, packet.phase>> IN
       /\ job' = Put(job, request, IF packet.phase = "sync" THEN "load" ELSE "scheduled")
       /\ jobId' = Put(jobId, request, packet.id)
       /\ IF packet.phase = "sync"
          THEN loading' = Append(loading, request) /\ jobCargo' = Put(jobCargo, request, packet.sources)
               /\ UNCHANGED <<installed, spaces>>
          ELSE Install(packet.sources) /\ UNCHANGED <<loading, jobCargo>>
    /\ UNCHANGED <<program, localVars, link, down, loaded, executed, closedP>>

\* An envelope that is refused ends the receive loop, and with it the peer.
RefuseUp ==
    /\ ~closedP /\ up # <<>> /\ Head(up).phase = "rpc" /\ Refused(Head(up).sources)
    /\ closedP' = TRUE /\ link' = FALSE /\ up' = <<>>
    /\ UNCHANGED <<program, localVars, down, job, jobId, jobCargo, loading, installed, spaces, loaded, executed>>

\* _load_tool, with the load lock: a tool that is registered is not built again.
LoadTool(request) ==
    /\ job[request] = "load" /\ Head(loading) = request
    /\ IF Tool[request[1]] \in loaded
       THEN job' = Put(job, request, "result") /\ loading' = Tail(loading)
       ELSE job' = Put(job, request, "build") /\ UNCHANGED loading
    /\ UNCHANGED <<program, localVars, link, up, down, jobId, jobCargo, installed, spaces, loaded, executed, closedP>>

\* build_tool, in a worker thread.  An import may fail; it does when a module
\* of the bundle is not there or was refused.
BuildTool(request) ==
    /\ job[request] = "build" /\ loading' = Tail(loading)
    /\ IF Refused(jobCargo[request]) THEN UNCHANGED <<installed, spaces>> ELSE Install(jobCargo[request])
    /\ \/ /\ ~Refused(jobCargo[request]) /\ Bundle[Tool[request[1]]] \subseteq installed'
          /\ job' = Put(job, request, "result") /\ loaded' = loaded \cup {Tool[request[1]]}
       \/ job' = Put(job, request, "error") /\ UNCHANGED loaded
    /\ UNCHANGED <<program, localVars, link, up, down, jobId, jobCargo, executed, closedP>>

\* _handle_rpc_request: find the tool and start the method.
StartMethod(request) ==
    /\ job[request] = "scheduled"
    /\ IF Tool[request[1]] \in loaded
       THEN job' = Put(job, request, "run") /\ executed' = [executed EXCEPT ![request[1]] = @ + 1]
       ELSE job' = Put(job, request, "error") /\ UNCHANGED executed
    /\ UNCHANGED <<program, localVars, link, up, down, jobId, jobCargo, loading, installed, spaces, loaded, closedP>>

\* The method returns or raises.
FinishMethod(request) ==
    /\ job[request] = "run"
    /\ \E how \in {"result", "error"} : job' = Put(job, request, how)
    /\ UNCHANGED <<program, localVars, link, up, down, jobId, jobCargo, loading, installed, spaces, loaded, executed, closedP>>

\* _send_response; on a transport that is gone it ends the connection.
SendResponse(request) ==
    /\ job[request] \in {"result", "error"}
    /\ job' = Put(job, request, "done")
    /\ down' = Write(down, [id |-> jobId[request], kind |-> job[request], of |-> request])
    /\ closedP' = (closedP \/ ~link)
    /\ UNCHANGED <<program, localVars, link, up, jobId, jobCargo, loading, installed, spaces, loaded, executed>>

\* The peer reaches the end of file and its tasks are cancelled.
LoseP ==
    /\ closedP \/ (~link /\ up = <<>>)
    /\ ~closedP \/ \E request \in Requests : job[request] \notin {"none", "done"}
    /\ closedP' = TRUE /\ loading' = <<>>
    /\ job' = [request \in Requests |-> IF job[request] = "none" THEN "none" ELSE "done"]
    /\ UNCHANGED <<program, localVars, link, up, down, jobId, jobCargo, installed, spaces, loaded, executed>>

\* The connection drops.  Of what is on the wire, a prefix still arrives.
BreakLink ==
    /\ LinkMayBreak /\ link /\ link' = FALSE
    /\ \E n \in 0..Len(up) : up' = SubSeq(up, 1, n)
    /\ \E n \in 0..Len(down) : down' = SubSeq(down, 1, n)
    /\ UNCHANGED <<program, localVars, peerVars>>

-----------------------------------------------------------------------------
CallStep(c) == Locked(c) \/ WritePacket(c) \/ Drained(c) \/ Synced(c) \/ Resume(c) \/ SendFails(c)
JobStep(r) == LoadTool(r) \/ BuildTool(r) \/ StartMethod(r) \/ FinishMethod(r) \/ SendResponse(r)

Next ==
    \/ \E c \in Callers :
        Begin(c) \/ Locked(c) \/ WritePacket(c) \/ Drained(c) \/ Synced(c) \/ Resume(c)
        \/ SendFails(c) \/ Cancel(c) \/ CancelDrain(c)
    \/ \E r \in Requests : LoadTool(r) \/ BuildTool(r) \/ StartMethod(r) \/ FinishMethod(r) \/ SendResponse(r)
    \/ ReceiveDown \/ HandleResult \/ Lose \/ Close \/ ReceiveUp \/ RefuseUp \/ LoseP \/ BreakLink

Spec == Init /\ [][Next]_vars

\* The event loops run what is ready, and the methods return.
FairSpec ==
    /\ Spec
    /\ \A c \in Callers : WF_vars(CallStep(c))
    /\ \A r \in Requests : WF_vars(JobStep(r))
    /\ WF_vars(ReceiveDown \/ Lose) /\ WF_vars(HandleResult) /\ WF_vars(ReceiveUp \/ RefuseUp \/ LoseP)

-----------------------------------------------------------------------------
(* Properties                                                               *)

\* Every variable holds a value of the kind the code keeps there, and a
\* request that is registered belongs to a call that waits for it.
TypeOK ==
    /\ pc \in [Callers -> {"idle", "lock", "send", "drain", "wait"} \cup Final]
    /\ phase \in [Callers -> Phases] /\ id \in [Callers -> Nat] /\ lastId \in Nat
    /\ cargo \in [Callers -> SUBSET Modules] /\ known \subseteq Modules /\ cached \subseteq Tools
    /\ fut \in [Callers -> {"none", "pending", "result", "error", "lost"}]
    /\ \A n \in DOMAIN futures :
        futures[n] \in Callers /\ id[futures[n]] = n /\ pc[futures[n]] \in {"send", "drain", "wait"}
    /\ installed \subseteq Modules /\ spaces \subseteq Modules /\ loaded \subseteq Tools
    /\ job \in [Requests -> {"none", "load", "build", "scheduled", "run", "result", "error", "done"}]

\* A call is completed by the response of its own request, whatever was
\* cancelled before it ("Late responses for cancelled or unknown request IDs
\* are ignored", docs/concepts.md); a call that returned ran its
\* method, once.
OwnAnswer ==
    \A c \in Callers :
        /\ fut[c] \in {"result", "error"} => answer[c] = <<c, phase[c]>>
        /\ executed[c] <= 1 /\ (pc[c] = "returned" => executed[c] = 1)

\* What the caller leaves out of a packet because the peer is known to hold it
\* is there when the peer needs it: when the arguments of a call are decoded,
\* when a tool is built, and when its method is looked up ("There is no
\* missing-module round trip").
NothingMissing ==
    /\ (up # <<>> /\ Head(up).phase = "rpc") => Carried[Head(up).call] \subseteq installed \cup Head(up).sources
    /\ \A c \in Callers : job[<<c, "sync">>] = "build" =>
        Bundle[Tool[c]] \subseteq installed \cup jobCargo[<<c, "sync">>]
    /\ \A c \in Callers : job[<<c, "rpc">>] = "scheduled" => Tool[c] \in loaded

\* A method runs only where everything is installed that its package refers to, through any chain of
\* declared modules ("Collect the sources of a root and of everything it references", expand).
Resolves == \A c \in Callers : executed[c] > 0 => program.needed[Tool[c]] \subseteq installed

\* A bundle holds all that its tool refers to, and with a module what that module brings along.
BundlesClosed ==
    \A p \in Programs :
        /\ \A t \in Tools : p.needed[t] \subseteq p.bundle[t] /\ \A m \in p.bundle[t] : p.brings[m] \subseteq p.bundle[t]
        /\ \A m \in Modules : \A n \in p.brings[m] : p.brings[n] \subseteq p.brings[m]

\* The modules that only the definitions of one package carry.
Private ==
    {m \in Modules :
        /\ \A c \in Callers : m \notin Carried[c]
        /\ \A t, u \in Tools : m \in Bundle[t] \cap Bundle[u] => Root[t] = Root[u]}

\* "Classes of one package wait for the same lock, so its bundle is built and
\* sent once instead of once for every class" (docs/concepts.md), as long as
\* no call is cancelled or fails.
SentOnce ==
    (\A c \in Callers : pc[c] \notin {"raised", "cancelled"}) => \A m \in Private : sent[m] <= 1

\* Every call that began comes to an end: a response, an error, or the close
\* of the connection; nobody waits for a lock that is never released.
CallEnds == \A c \in Callers : pc[c] = "lock" ~> pc[c] \in Final

\* Synchronisation is safe against calls that fail or are cancelled anywhere:
\* requests and futures keep to each other (_call, _finish_pending), the peer
\* holds what a packet leaves out (prepare_call) and what a tool refers to
\* (ModuleBundle.expand), and a package travels once.
CallsSafe == TypeOK /\ NothingMissing /\ SentOnce /\ Resolves
=============================================================================
