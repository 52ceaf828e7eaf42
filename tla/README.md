# Verification of rmote

rmote runs Python methods on another host through one byte stream. A client
starts a Python interpreter there (ssh, docker exec, a local process), sends it
the source of `rmote/protocol.py`, and from then on both ends run the same
`Protocol` class: calls, streams of items, source code and log records travel
as packets over the one stream. Tools built on it copy files and trees, hold
terminal sessions, configure hosts and cache facts; `rmote sshmux` shares one
connection between many clients. This directory holds TLA+ modules of the parts
of rmote where order, concurrency and failure decide correctness, the TLC
configurations that check them, and proofs.

Paths are relative to the repository (`src/rmote/...` is the package).

## 1. Inventory

| Part | State | Operations | Works with | What is hard |
|---|---|---|---|---|
| Frames (`BaseProtocol`, `FragmentBuffer`, `FrameCompressor`, `FrameDecompressor`) | write lock, read lock, two deflate dictionaries, one buffer per partial packet | `send_payload`, `send_frame`, `receive`, `decode_frames`, `decode_in_thread` | everything that sends | frames of many packets interleave; a task is cancelled between or inside frames; a worker thread moves the dictionary |
| Ordinary calls (`_call`, `prepare_call`, `_load_tool`, `_handle_rpc_request`) | packet ids, futures, tool cache, known modules, sync locks, load lock | begin, synchronise, send, wait, cancel, serve, close | Frames, module bundles | late responses, failure of one call seen by all, what the peer is known to hold |
| Module bundles (`ModuleBundle`, `ModuleLoader`) | sources, namespaces | root, collect, expand, install | calls | cycles, overlapping bundles, the order of arrival |
| Streaming calls (`stream`, `send_stream`, `StreamCredit`, `StreamBuffer`) | permission, buffer, queue, what is owed | produce, batch, write, take, give back, leave, end | Frames, calls | back pressure without deadlock, the end behind the items, a consumer that leaves |
| Logs (`RemoteLogHandler`, `LogDelivery`) | pending records, draining, timer; bounded deque, idle, wake, closing, lost | emit, attach to a response, drain; deliver, worker, stop | responses of calls, local handlers | records from any thread, three ways to the wire, no lock between two local threads |
| Start and end (`from_subprocess`, `read_boundary`, `__aenter__`, `__aexit__`) | pipes, READY boundary, kept lines | start, TLS handshake, fail with evidence, terminate | transports | failure before the protocol runs; evidence on two pipes |
| Private loop (`_Runtime`) | state, requests, gates, tasks | submit, wait, give up, close | `Connection` | submit takes no lock; start and close race |
| Synchronous connection (`Connection`) | state, process, protocol, cleanup task | connect, call, close, terminate | `_Runtime`, `Protocol` | close against calls, interrupted close, escalation |
| Fact cache (`cache/`) | memory per controller, a store of files or rows | update, invalidate, load, save, delete | facts | several writers of one file, cancelled waits, crashes |
| File synchronisation (`tools/file_sync.py`) | two sessions, plan, temporary file | open, step, check, commit, finish, close | calls | files that change meanwhile, failure at any step |
| rsync (`tools/rsync.py`) | two walks, window of tasks, destination tree | scan, mkdir, link, copy, chmod, chown, remove | file synchronisation | window, order of removal and modes, repetition after a failure |
| Sessions (`tools/vty.py`, `cli/sshmux.py`, `cli/shell.py`) | child, descriptors and readers of the loop, leases, terminal flags | open, output, write, close; client run, bridge, collect | streams | exit against close, reused descriptors, clients that leave |
| Multiplexer start (`cli/sshmux.py`) | lock file, control socket, server process | ensure running, probe, fork, serve, stop | start of a connection | two starts, stale sockets, deadlines |
| Host tools (`tools/*.py`) | the host | inspect, change, report | process runner | report against effect, failure half-way, crash |
| Agent (`tools/agent.py`), template engine, facts, command line, immutable values, serialization | little that is shared | relay, render, parse, print, convert | | |

What makes each part correct:

* Frames: a packet arrives whole, once, and in the order of its last frame;
  both dictionaries move in step; a large packet cannot hold the channel.
* Calls and bundles: a call gets its own answer or an error, its method runs at
  most once, and it ends. The peer has the tool, the sources that a packet
  relies on and what the tool refers to.
* Streams: items arrive in order; a normal end means all items arrived; memory
  is bounded; nobody waits on somebody who waits on him.
* Logs: no record is lost uncounted, doubled or reordered.
* Start: a start that fails leaves no process and says why.
* Private loop: a waiting thread always gets an answer; giving up stops the
  work; close returns.
* Synchronous connection: a closed connection has reaped its child, no call
  leaves once the close has begun its work, and close returns.
* Fact cache: batches merge whole, and neither store nor memory goes back.
* Files and trees: the destination is the old content or the whole source; a
  transfer that returns has converged, also after one that failed; its report
  is true; nothing is left over.
* Sessions: what a client opened goes with it; its status follows its output.
* Multiplexer: one server per path, and it stays reachable.
* Host tools: an undisturbed call reaches what it asks for, keeps the rest,
  reports truly, and a second one changes nothing.

`PROJECT.json` lists the hazards line by line ("hazards"), with the properties
that would show each of them.

## 2. Modules

| Module | Models | Kind |
|---|---|---|
| `Stream` | one streaming call from generator to consumer, both sides and the wire | component |
| `OrderedStream` | what a streaming call promises to the application | abstract specification |
| `MCStream` | instances of `Stream`, and properties that add up bytes | TLC |
| `Frames` | one direction of the connection at the level of frames | component |
| `PacketChannel` | a direction as its users see it: whole packets in order | abstract specification |
| `MCFrames` | instances of `Frames` | TLC |
| `Calls` | ordinary calls, tool synchronisation, and the peer that serves them | component |
| `Bundles` | which sources travel with a tool: the search, and its reference | pure operators |
| `MCCalls` | `Calls` over small worlds of modules | TLC |
| `RemoteLog` | `RemoteLogHandler` and the responses that carry its batches | component |
| `LogDelivery` | `LogDelivery` with its three threads | component |
| `Logs` | both, joined by the connection | composition |
| `Runtime` | `_Runtime`: submitting threads, loop thread, close | component |
| `Connection` | `Connection`: factory, calls, close and the end of the child process | component |
| `Startup` | start and end of a `Protocol` over a command, with TLS and READY | component |
| `MuxLaunch` | launchers and servers of one control socket, each server with its `Startup` | composition |
| `Vty` | sessions on the remote host | component |
| `Sessions` | the clients of an sshmux server, each with its session of `Vty` | composition |
| `MCSessions` | instances of `Sessions` | TLC |
| `FileSync` | one upload or download | component |
| `Rsync`, `MCRsync` | one tree made like another, over the promise of `FileSync` | component, TLC |
| `Cache`, `MCCache` | controllers over one store | component, TLC |
| `ConfText` | what the tools do to the lines of configuration files | pure operators |
| `HostTools` | the plan of each call of a tool: raise, nothing, or steps | pure operators |
| `Host`, `MCHost` | callers whose plans run on one host | component, TLC |
| `StreamProofs` | types of `Stream`, the order of its items, that it gives back what is owed, and its refinement of `OrderedStream` | proofs |
| `FramesProofs` | codec, packets and turns of `Frames`, and its refinement of `PacketChannel` | proofs |
| `CallsProofs` | own answers and supply of sources of `Calls` | proofs |
| `LogsProofs` | order and account of the records of `Logs` | proofs |
| `ConnectionProofs` | the end of `Connection`, and that its private loop (`Runtime`) forgets no request | proofs |
| `MuxProofs` | one server per path in `MuxLaunch`, and failures that are told in `Startup` | proofs |
| `SessionsProofs` | sessions of `Vty` kept apart, and the status after the output, in `Sessions` | proofs |
| `CacheProofs` | what is kept on disk: exclusion and contract of `Cache`, the temporary file of `FileSync`, the window and the removals of `Rsync` | proofs |

How the modules fit together: `Frames` is shown to implement `PacketChannel`,
and the wires of `Stream`, `Calls`, `RemoteLog` and `Sessions` are such
channels (a sequence of whole packets). `Logs`, `MuxLaunch` and `Sessions`
compose the components they name. `Rsync` uses what `FileSync` is checked for:
the whole content is installed in one step or nothing is. `Connection` relies
on what `Runtime` is checked for: a request runs once and is answered, giving
it up cancels its task, and closing cancels every task once and waits for it.

Conventions. A step is what the code does between two awaits; where threads or
processes share state without a lock (`LogDelivery`, `Runtime`, `Cache`,
`MuxLaunch`, `Host`) a step is one access. A variable keeps the name of the
attribute where it has one; `pc`-like variables say where a task or thread is.
A definition whose comment begins with "Mutant:" is not part of the model: it
is a wrong version of the definition below it, which shows that the property
named in `PROJECT.json` notices.

**Stream.** `ppc` is the producer task (`_execute`, `send_stream`), `wpc` the
writer task (`StreamBuffer.run`), `cpc` the consumer (`stream()`); `ReceiveUp`
and `ReceiveDown` are the receive loops. Items are numbered in the order they
are paid for; an item has a length. `credit` is the `StreamCredit`, `owed` what
the consumer has not given back yet. `BreakLink` keeps a prefix of what is on
the wire. `LoseP`/`LoseC` are `_finish_pending`. `Write` loses a packet on a
broken link, and the `...Fail` actions are the same call on a transport that
has noticed. The sender compares an item with the limit as it is, the receiver
with its header; both comparisons are there, and an item at the limit falls
between them.

**Frames.** Several tasks, one packet each. `waiters` is the queue of
`write_lock`. The body of a frame is its position; `packed` is the position in
the deflate dictionary, so inflating at another position is the error "desync".
A worker thread decodes a group frame by frame while the senders go on; the
reader is kept out by the read lock until the worker has returned, also when it
is cancelled or sees the end of the file. A `receive` that is cancelled
meanwhile ("dropping") raises when the worker is done, and a packet that the
worker completes is gone with it (`dropped`).

**Calls, Bundles.** A call goes through `_call` once or twice: "sync" for the
definition of its tool, "rpc" for the request. `cargo` are the sources in the
packet. The values in the arguments are of modules, and each module brings its
bundle; an argument sends nothing once its own module is known (`Attached`),
whether the rest of its bundle is or not. `futures` is the dictionary from
packet ids to the calls that wait for them. On the peer each request is a `job`.
`program` says what is called and which sources belong to it; `MCCalls` computes
that with the search of `Bundles` from a world of modules, and `Resolves`
compares what the peer holds with the least closed set. A reference is a name of
another declared module, or of a tool class (`tools`). `spaces` are the packages
that `ModuleLoader.install` made up as empty namespaces; a source that arrives
for one of them later is refused, in a definition (`BuildTool`) or in an
envelope, where it ends the receive loop (`RefuseUp`). Requests in the other
direction, inline classes and modules that the peer had loaded by itself are
left out.

**RemoteLog, LogDelivery, Logs.** `Logs` numbers a record when it is logged,
follows it through `pending`, `flight` and `wire`, and hands the wire to
`LogDelivery` in packets of any size. `Due` says that a callback, a timer or a
drain of the loop will look at the records that wait; `stranded` marks the one
state in which none will (section 4). See the comments at the top of each.

**Runtime, Connection.** `Runtime` treats the completion of a `Future` and its
callback as one step, and models `asyncio.Runner` from how `_serve` uses it.
In `Connection`, `cleanup` walks through `_cleanup`: the wait for the spawn
task, `__aexit__` ("exit"), the wait for the child, `_terminate` after the
deadline ("term", "kill"), and `_terminate` in the finally clause ("term2",
"kill2"). The child may ignore every signal but kill. Interrupts arrive in the
factory, in a call, and in each wait of `close`.

**Startup, MuxLaunch.** A connection is a caller (`local`), a process
(`remote`) and three pipes of tokens. The process may fail to start, fail
before or in the interpreter, refuse TLS, speak noise, or stop; `cause` is why,
`told` what the caller's error carries, and `raised` that the start has failed,
whether anything was told or not. `MuxLaunch` adds the lock file, the
path of the socket as an inode (`file`), and the launcher that forks, waits on
the `ready` pipe and at its deadline first sees the timeout (`TimedOut`) and
then kills the process group (`GiveUp`); the child may become ready in between.

**Vty, Sessions.** `reader` is the loop's table of readers by descriptor
number, and numbers are given out again, lowest first; there are as many
as terminals, the only descriptors that the loop reads. `end_process` may give
up on a child, which is then "left". `Vty.output` and `Vty.stderr` are one
producer; it is "asked" until its task begins, and a notice that comes before is
`ignored`, as in the code. A client passes through
hello, lease, opening, bridge, status, settle and closing; "quit" is a bridge
that returned 255 after a disconnect or `~.`. `wire` is the one
connection on which the requests of all clients are served in order.

**FileSync.** A step of a session is its check, its body and, for the last
step of the receiver, the checks around `fsync`; other programs may write
either file between any two of them. The signature of a block is a record
around its bytes: SHA-256 is taken as injective.

**Rsync.** `walks` is the stack of `walk`; `tasks` are the copies that run.
Any call may fail, the transfer may be cancelled, and a transfer may be made
again over what the first one left.

**Cache.** A job is a worker thread. The store is a function from keys to
entries, whichever backend it is; `lock` is the `flock` or the write
transaction.

**ConfText, HostTools, Host.** `Plan` gives the steps that a call takes after
what it has read; `Host` reads part by part, then takes the steps, one at a
time and interleaved with another caller, with a fault or a crash between any
two. A step that fails has done nothing, all, or, for apt, half (`Halfway`); a
query whose exit status the code ignores may fail and be taken for an answer
(`Misread`, after which the call is `misled`). A package may be on hold or
half-configured, and `chown` takes the setuid bit away (`Given`). The calls of a
behaviour are about one subject, since calls about different ones share nothing.

## 3. Runs

One run per component or composition, under the fair specification where it has
liveness properties. Each finishes in three minutes or less with two workers.

| Run | Instance | Shows |
|---|---|---|
| `stream` | items of 1, 8, 9 and 10 bytes with a header of 1, budget 8, backlog 3, item limit 9, up to 4 items; the consumer may leave, the connection may drop | items in order; the budget works for both ends (`StreamBudget`: an honest sender is accused for an item at the limit itself and for nothing else, memory is bounded, no permission is lost or made up, an item of at most half the budget finds room); items arrive, senders and consumers end; refinement of `OrderedStream`, by which a normal end is complete |
| `calls` | two calls of one package with one argument, or of two packages whose bundles overlap, over 7 modules with a cycle; cancellation at any point, loss, close | own answers, single execution, no missing source, what a tool refers to is there, one upload per package, every call ends |
| `frames` | packets of 3, 2 and 1 frames, 2 senders at a time, 2 reassembly buffers, decode groups of 2; senders and reader may be cancelled | dictionaries in step, whole packets, fair turns; what is written arrives, but for one packet per `receive` that was cancelled while a worker decoded it; refinement of `PacketChannel` |
| `logs` | 3 records, one call, batches of 2 into a deque of 2, failures, loss | order from logger to handler, every record accounted for; a callback, a timer, a drain or a response is due for what waits, but after one resume (`stranded`); no lost wake-up, stop ends |
| `runtime` | two requests, one of the main thread, start and close | nobody forgotten, waiters and close return, giving up works |
| `connection` | two callers, two closers, the factory may be interrupted, two interrupts of `close` | the child is reaped unless `close` is interrupted twice, no call leaves late or is stranded, every close returns |
| `file_sync` | source of 5 bytes over 5 or 6, blocks of 2, window of one block, batches of 3 signatures; one foreign write, cancellation, loss, death of the remote process | old file or whole source, a true result, no temporary file, honest ends do not refuse each other, the transfer returns |
| `cache` | two controllers of different versions, two keys, two threads, one crash, both backends | one writer, whole batches, nothing goes back in time, every job ends |
| `mux` | two launchers, one with TLS, stderr of one line, one killed server | a listening server is on its path, a failed start leaves nothing and, unless its own bounded wait ran out, says why; a launcher that gave up leaves no server, also when the child becomes ready at the deadline; launchers and servers end |
| `sessions` | two clients with terminals, one chunk of output each, one that types more than is read; stop and loss | readers not mixed up, nothing left but a child that `end_process` gave up on, status after output, every client ends and so does the read of its output, unless its release was ignored |
| `host` | 15 subjects with their calls, two callers, three calls, one failed step, failed query or crash | the rest is kept, calls converge, reports are true and calls idempotent, with the exceptions below |
| `rsync` | trees of files, directories and links with modes, owners, exclusion and deletion; window 2, two transfers, one failure, one cancellation | window, removal last and never beside a copy (`RemovesAlone`), convergence also after a failure, a true result, every transfer ends |

What the properties of `Host` leave out, each by a definition with a name:

* `Partial` (`hostname`, `authorized_key`, `sudoer`): `Converges` holds for them
  only when nothing failed or overlapped before;
* `Blind`: `write` with an owner and a setuid mode, `directory` on a regular
  file, ABSENT of a package on hold or half-configured do not converge at all;
* `ChangesAgain`: that `write`, and `install` of a package on hold, report a
  change each time; `ReplacesNext`: `line_in_file` whose regexp does not match
  its own line replaces the next matching line each time;
* `misled`: of a call with a query that failed unnoticed only `HostSafe` speaks;
* `Rest`: of a sysctl file only the keys, since `write_conf` drops its comments,
  and of `pacman.conf` not the comments between a section and the next header,
  which go with the section;
* `HonestReport` is not about `restart` and `update`, which always act.

Section 4 says which documents the code contradicts there. `Settled` of `Rsync`
is about one cancellation.

Bounds, and why they are enough. The code compares byte counts with the budget
and with half of it, counts with the backlog and half of it, and lengths with
the item limit; the constants of `MCStream` put prices on each side of these
comparisons (2 below half the budget of 8, 9 above all of it, a length of 9 at
the item limit and one of 10 above it), and four items fill the backlog of three
and reuse it. `Frames` has a packet larger than a decode group, one of the size
of a group and one of a single frame. Two calls contend for one sync lock and
for shared modules, which is all that calls share besides the packet ids. The
deque of `Logs` is smaller than what can arrive before the worker runs. Two
requests suffice for `Runtime` because requests share only the sets and the
callback queue. Two closers contend for the lock of `Connection`, and two
interrupts reach each branch of its error handling. Three blocks, the last one
short, give a first, a middle and a last block that match or differ in every
combination, and signatures that do not fit one batch with a longer window. Two
threads of either controller contend for the lock of the cache, and a third
would wait like the second. Two launchers are what it takes for one to meet the
socket of the other's server in each of its states. Two sessions are what it
takes for a descriptor to be reused. A window of two with three files has one
that waits.

Deadlock is not checked: calls, streams, transfers and runtimes really end, and
their last states have no successor. That nobody waits for ever is stated by
the liveness properties instead.

Fairness. Weak fairness of each task, receive loop, thread and process: an event
loop runs what is ready and the operating system schedules every thread. Nothing
is assumed of the generator (it may wait for ever), of the application beyond
asking for the next item until it leaves, of cancellation, of faults or of the
connection. `CallEnds` assumes that methods return. The properties of `Runtime`
do not assume that submitted work ends, only that cancelled work does, which the
code calls cooperative cancellation. `Connection` and `MuxLaunch` assume that
timers fire and that a child that was killed ends; `Sessions` only that timers
fire, since `end_process` gives up after the last one. A command in a session
and an SFTP may run for ever. `Sessions` has a single condition over all that
its loops, its deadlines and its clients do: each of these steps uses something
up (a request, a phase of a client or of a session, a chunk), so they cannot go
on for ever while another one is due. `FileSync` assumes that a remote process
whose connection is gone notices; `Rsync` and `Cache` that a call of the file
system returns. `Host` has no liveness property: the plan of a call is finite.

## 4. Where code and documents disagree

Each was met while modelling. Those with a configuration can be seen by running
TLC with it; the properties above are stated so that they hold of the code, and
say where they exclude one of these.

| Configuration, property | What happens |
|---|---|
| `MCStreamClaims.cfg`, `RoomCanAppear` | `StreamCredit.fits` lets a large item out only when nothing is in flight, and the consumer gives back only at half the budget: an item above half the budget, behind a small one, waits for ever. `protocol.py:910-911` says it "never waits for room that cannot appear". Confirmed with items of 1000 bytes and 4 MiB. |
| `MCStreamClaims.cfg`, `NeverAccused` | the sender compares an item without its header with `MAX_STREAM_ITEM` (`protocol.py:2435`), the receiver with it (`protocol.py:2515`): an item at the limit is sent, and refused as an overrun. `protocol.py:2499-2501`: "the limits here only catch a peer that ignores the budget". |
| `MCStreamClaims.cfg`, `LeavingStops` | the notice of a consumer that leaves before the task of its request has registered is ignored (`protocol.py:2475`), and the generator runs on. `docs/api/protocol.md:286-289` says that it receives the cancellation. |
| `MCStreamClaims.cfg` with an envelope, `PermissionIsOwed` | `decode_packet` counts the source envelope of a batch in what the consumer gives back, and nobody paid for it; `give_back` raises between honest ends and the stream ends early as if complete. `protocol.py:939-940`: this means "a broken peer". Confirmed: 600 items, normal end after 128. |
| `FramesLimit.cfg`, `LimitsAreForFaults` | a call cancelled between two fragments leaves them at the peer for ever; after `MAX_PARTIAL_PACKETS` of them a large packet closes the connection. `protocol.py:1317`: limits "stop a faulty peer". |
| `RemoteLogStuck.cfg`, `RecordsTravel` | a record that arrives while a response carries its predecessors gets neither timer nor drain (`protocol.py:3141`). `protocol.py:3012-3013`: "they wait no longer than ATTACH_DELAY". |
| `LogDeliveryStop.cfg`, `StopDelivers` | the worker finds the deque empty, a batch arrives, stop sets `closing`, and the worker returns (`protocol.py:137`). `protocol.py:180`: "Deliver what waits, then stop the worker." |
| `CallsNested.cfg`, `Resolves` | `expand` skips a root that is in `seen`, and `seen` also holds modules that were collected with their package: the `__tool_dependencies__` of such a module are never read. `protocol.py:536`: "Collect the sources of a root and of everything it references." Confirmed with a package `b` and `b/x.py`. |
| `FileSyncWindow.cfg`, `WithinWindow` | after a block differs every message signs, and keeps, another window of blocks (`file_sync.py:286-297`) while `content` still sends the requests of the large batch signed before it (`file_sync.py:268-275`), so the kept blocks pile up. `file_sync.py:96`: "keeps at most WINDOW bytes of content in memory". |
| `RsyncSetuid.cfg`, `Converges` | a setuid file with an equal mode and a new owner: `chown` clears the bit and `chmod` is skipped (`rsync.py:490-493`). |
| `RsyncCancel.cfg`, `AlwaysSettled` | cancelled again while the finally clause waits, `transfer` raises while tasks still change the destination (`rsync.py:582-585`), against "Cancelled after active operations settle". |
| `MuxClaims.cfg`, `Reachable` | a launcher takes a foreground server between bind and listen for a stale one and removes its socket (`sshmux.py:599-600`, `sshmux.py:669`): the server listens where nobody finds it. |
| `MuxClaims.cfg` with "slow unlink" or "inode reuse", `Reachable` | a server that leaves removes the socket of a later one, between its `lstat` and its `unlink` or because the inode was used again (`sshmux.py:547`). `sshmux.py:436`: "removes only the socket it created". |
| `MuxClaims.cfg` with "stopped peer", `ServerEnds` | `__aexit__` awaits `writer.wait_closed()` without a deadline and before it terminates the process (`protocol.py:2324-2327`); a peer that stopped reading hangs it, against `protocol.py:1243-1254`. |
| `HostClaims.cfg`, `Renamed`: `AlwaysConverges` | after a call that failed half-way `Hostname.set` compares only the running name (`hostname.py:54-55`) and leaves `/etc/hostname` as it is. |
| `HostClaims.cfg`, `Setuid`: `AlwaysConverges` | `write` with mode 4755 and an owner: `chown` after `chmod` clears the bit (`fs.py:227-229`), each time. |
| `HostClaims.cfg`, `NoDirectory`: `AlwaysConverges` | `directory` on a regular file reports success (`fs.py:240`, `fs.py:262`). |
| `HostClaims.cfg`, `Held`: `AlwaysConverges` | only the status "install ok installed" counts as installed (`apt.py:191`): ABSENT of a package on hold, or half-configured by an `apt-get` that was killed, returns unchanged and leaves it. |
| `HostClaims.cfg`, `Upgrade`: `FailuresRaise` | LATEST ignores the exit code of `--simulate` (`apt.py:218-220`) and takes a failure for nothing to upgrade. `apt.py:184`: a RuntimeError "if the underlying invocation fails". The queries of `pacman.py:183-185` are the same. |
| `HostClaims.cfg`, `Replace`: `Idempotent` | `line_in_file` with FIRST and a regexp that does not match the line itself replaces another matching line at each call (`fs.py:150`). `fs.py:111`: "idempotently". |

Without a configuration of their own:

* `docs/concepts.md:77-79` says that the stop notification does not interrupt
  an `await` inside the generator; `handle_stream_credit` cancels the task
  wherever it is (`CancelProducer` in `Stream`).
* `Vty.output` is a stream whose consumer may leave early: when the release of a
  client comes before the read of its output has begun, the read goes on at the
  peer (`ignored` in `Sessions`). `ReleasedEnds` of `Stream` begins at a release
  that is taken.
* After it has refused a batch, `stream()` raises without a notice to the sender,
  which keeps waiting for permission until the connection ends.
* A package that one bundle left as an empty namespace is refused when a later
  bundle brings it (`protocol.py:717`); in an envelope this ends the connection
  (`RefuseUp` in `Calls`). Confirmed. Whether two tools can be used on one
  connection thus depends on their order.
* A loss of log records is reported only behind a record delivered after it;
  the last loss is never reported.
* A request that is scheduled after the `Runner` cancelled its tasks begins and
  is destroyed with the loop ("destroyed" in `Runtime`), although
  `_runtime.py:20` says that shutdown waits for cancellation.
* A second interrupt of `close` reaches `_Runtime.close`, whose `Runner` cancels
  the cleanup and may leave the child (`CleanupCancelled`). The docstring of
  `Connection.close` promises to "reap the process". `Clean` is stated for one
  interrupt.
* A caller that is cancelled while `__aexit__` awaits `writer.wait_closed()`
  leaves it before the process is terminated. Not modelled.
* A launcher whose deadline passes before the `setsid` of its child kills no
  process group and leaves a daemon ("late lock").
* `Vty.close` promises that "A session that already ended reports its status
  again" (`vty.py:577-578`), but a second close returns 0; a `Vty.write` that
  waits for a full terminal never completes after a close; two clients that
  share one terminal share the flags that `NonBlocking` saves and restores
  (`shell.py:127-130`), which is why each has its own in `MCSessions`.
* `User.sudoer` and `authorized_key` compare only the content (`user.py:326`): a
  call after one that failed half-way leaves mode and owner as they are
  (`Partial`).
* `is-active` and `is-enabled` that fail are read as "no" (`service.py:41-48`): a
  call then starts or enables a unit that is running or enabled and reports a
  change.
* `Sysctl.write_conf` writes only keys and values (`sysctl.py:37-41`), so the
  comments of the file are lost; `PacmanRepository` takes a comment in front of
  the next header for a part of the section that it replaces.
* Concurrent `Sysctl` and `line_in_file` calls lose updates; `group_present`
  ignores the gid of an existing group.

## 5. Proofs

Every theorem is about the specification without fairness and about every value
of the constants that the named assumptions allow. Each inductive invariant was
first checked with TLC on the instance of the run, or on a larger one where
that instance does not reach a case.

| Theorem | States, for every instance |
|---|---|
| `StreamProofs!StreamTypes` | `Stream` is well typed; no count of bytes or items becomes negative |
| `StreamProofs!StreamInOrder` | `InOrder`: items are delivered in order, none twice and none skipped |
| `StreamProofs!StreamPermission` | `PermissionIsOwed`: `give_back` never raises between two honest ends, if no item brings sources |
| `StreamProofs!StreamKeepsPromise` | `KeepsPromise`: `Stream` implements `OrderedStream`, if no item brings sources |
| `FramesProofs!FramesAreSafe` | `FramesSafe`: dictionaries in step, packets whole, fair turns, and at most one packet lost for each `receive` that is cancelled |
| `FramesProofs!FramesKeepChannel` | `KeepsChannel`: `Frames` implements `PacketChannel` |
| `CallsProofs!CallsAnswerTheirOwn` | `OwnAnswer`: a call gets the answer of its own request and its method runs once |
| `CallsProofs!CallsAreSafe` | `CallsSafe`: the peer holds what a packet leaves out, one upload per package, and what a method refers to, if bundles are closed (`BundlesClosed`) |
| `LogsProofs!LogsAreSafe` | `LogsSafe`: records in order and accounted for, from logger to handler, and somebody due to send what waits unless a resume stranded it |
| `ConnectionProofs!RuntimeIsSafe` | `RuntimeSafe`: nobody waits for a request that the loop forgot |
| `ConnectionProofs!ConnectionIsSafe` | `ConnectionSafe`: a closed connection has reaped its child, no call is stranded |
| `ConnectionProofs!ConnectionRefusesLateCalls` | `LateCallRefused`: no call is sent once the cleanup exists |
| `CacheProofs!CacheIsSafe` | `CacheSafe`: one writer, own versions, no litter but after a crash |
| `CacheProofs!CacheKeepsContract` | `Contract`: whole batches, nothing goes back in time |
| `CacheProofs!NoFileLeft` | `NothingLeft` of `FileSync`: no temporary file stays behind a transfer that has returned, unless the remote process was killed |
| `CacheProofs!RsyncSettles` | at most `Concurrency` files under way, none once the transfer has returned or raised, and a result "unchanged" is right |
| `CacheProofs!RsyncRemovesAlone` | `RemovesAlone`: nothing is removed in the first walk or while a file is under way |
| `MuxProofs!FailuresAreTold` | `ToldWhy`: a start that raised and did not run out of its bounded wait names the cause there was evidence of, whatever happens to the path; nothing about what a launcher prints |
| `MuxProofs!StartsAreClean` | a connection that is over, failed, cancelled or left, has reaped its child, and nothing but plain lines comes before READY; for any foreground servers and upsets |
| `MuxProofs!NoServerLeft` | a launcher that gave up has left no server behind, for any upset of the path but a deadline before `setsid` ("late lock") |
| `MuxProofs!OneServer` | `MuxSafe`: one server per path, and the path is that of the listening one, if the servers are started by launchers, inodes are not used again and an unlink follows its check at once (`Settled`) |
| `SessionsProofs!SessionsKeepApart` | `SessionsSafe`: no two sessions share a descriptor or a reader, no session is left open, and a child is left only where `end_process` gave up on it, if every client has its own terminal |
| `SessionsProofs!StatusIsLast` | `OutputBeforeExit`: whoever is told the status has had all the output |

**Types and order of Stream.** `TypeOK` is inductive as it stands; the counters
that go down (`credit.bytes`, `credit.items`, `buffered`) stay natural because
of the guard of `give_back` and the `max(0, ...)` of `stream()`. `InOrder`
speaks of the delivered items only and is not inductive: it says nothing of the
items under way. Two parts are added:

* `Flow`: from the consumer back to the sender, the batch in hand, the queue,
  the wire, the packet of the writer and its buffer carry consecutive numbers,
  each place starting where the one before it stops (`Run` for one batch,
  `Runs` for a sequence of packets, with the running positions as a witness in
  place of a recursive sum). The chain is claimed only as far as it can still
  reach the application: up to the queue once the call accepts nothing more
  (`Accepting`), up to the wire once the connection is gone.
* `Places` and `Fresh`: where items can be at all (nothing in the hands of a
  writer that does not write, nothing in a response that is not a batch, a
  closed sender only on a lost connection), and that one request starts one
  writer.

Lemmas say what appending, taking the head and cutting do to `Runs`; one lemma
per action that moves items uses them, and `OrderKept` covers the others.
Assumptions: `StreamConstants`.

**The promise of Stream.** `OrderedStream` is broken by an end that comes too
early, and an early end has two causes.

* The response overtakes items. `Complete` says that wherever the response is
  (on the wire, in the hands of the task that handles it, in the queue), what
  is in front of it holds all that was made and not yet delivered. For this
  `Phases` ties the sender, its writer and its buffer together: on a connection
  that works, there is a response only when the writer is done, and it is done
  only with an empty buffer. `Ends` says that there is one response, that it is
  the last packet, that it says how the method ended, and that a stream that
  was refused has an entry in the queue which ends it.
* The method was stopped, and the stop is answered like an end. `Unstopped`
  says that a sender is stopped only when its consumer left or the connection is
  gone. The third way to be stopped is `give_back` with more than was spent.
  `Ledger` excludes it: what the sender counts as in flight is at least what
  buffer, writer, wire, queue and consumer hold, what the consumer owes and what
  is on its way back, in bytes and in items. It is an inequality because a
  refused or lost batch is never given back.

What a recursive sum computes cannot be proved here, since that needs induction
over the sequence. `Total(f, n, s)` says instead that running totals exist that
start at zero, grow by one value at a time and end in `s`; the lemmas extend
them at the end (`TotalAppend`), shift them when the head leaves (`TotalTail`)
and cut them (`TotalCut`).

The last part, `PromiseNext`, maps each action to a step of `OrderedStream` or
to a stutter: `Settle` to `Make`, the ways out of the loop to `Finish`,
`YieldItem` to `Deliver`, `Get` of a final entry to `End`, `Raise` or `GiveUp`.
Both theorems assume `EnvelopeSize = 0`. The assumption is needed:
`MCStreamClaims.cfg` shows that with an envelope more is given back than was
spent, and on that instance TLC also refutes `KeepsPromise`, since the stopped
stream ends as if complete (section 4). Nothing is assumed of
item sizes, budget or limits, so streams that are refused or that wait for ever
are included. `EndInv` and the inequality were checked by TLC on an
instance in which batches are refused.

**Frames.** Nothing of `FramesSafe` is inductive but its types. A `Cursor` is a
place in the stream of frames: bodies through the dictionary, frames of each
packet, packets completed. `Moves` says how one frame leads from a cursor to the
next, `Trail` that a sequence of frames does so one by one, with the cursors in
between as a witness. The invariant has these parts:

* `Linked`: while the receive loop runs, a trail leads from where the decoder is
  (`Reached`) along the group and the wire to where the senders are (`Sent`).
  Each write extends it, each decoded frame shortens it. From it follow the
  dictionaries (`InStep`), the parts (`Whole`) and the order of the packets, and
  so the refinement.
* `Groups`: only the last frame of a group completes a packet. `decode_frames`
  returns at the first packet and would lose the frames behind it.
* `Queue` and `Senders`: the queue of the lock holds each waiting task once, and
  no task has the lock and waits for it.
* `Turns`: the tasks in front of one that waits and the tasks whose frames it saw
    pass are different tasks, so their number is bounded by counting them.
* `Lost`: each packet that was dropped, and the one that a cancelled `receive`
  is about to drop, has a cancellation of its own.

Assumptions: `FramesConstants`, in which "none", for a free lock, is no packet.
The limits of the buffers may be anything, so that a connection which they stop
is included. TLC checked the invariant on the run and with decoding always inline.

**Calls.** `OwnAnswer` needs `AnswerInv`: an id that was given to a request is
in `futures` for that request or not at all (`Mine`), every packet, task and
answer carries the id of its request (`Tagged`), a request is on the wire at
most once and before its task (`Once`), and so a late answer finds nobody.
`CallsSafe` adds `SupplyInv`, what the peer will hold once it has read the
first i packets on the wire, and the queues of the sync locks, by which one
call at a time brings a package. An argument whose module is known sends nothing
at all, which is right only because what is known is closed: the known modules
hold with each module what it brings (`KnownWhole`), and what an argument
attaches completes that (`AttachedCompletes`). `CallsAreSafe` is proved under
`BundlesClosed`: what a tool refers to is in its bundle, and a bundle holds with
a module what that module brings. That is what
`ModuleBundle.expand` is for; TLC evaluates it for the worlds of `MCCalls`, and
`CallsNested.cfg` has the world in which `expand` fails at it.

**Logs.** The places a record can be in form a line on each side: the wire, the
batch in flight and the pending records on the remote side (`Kept`, without
gaps until the first drop); what was emitted, what the worker holds, the deque
and the batch that `deliver` stores on the local side (`Line`). Each place is
ascending and below the next, and each step moves records to the place before.
`Room` says that what `deliver` saw of the free room still fits when it stores,
although the worker runs meanwhile and no lock is held; `Arrived` joins the two
sides. `Attended` says who will look at the records that wait: a draining
handler has a callback, a timer, a drain or a carrier, or was stranded by a
resume that found `draining` set although `detach` had cancelled the timer.

**Runtime.** `NoneForgotten` speaks of the end. `Registered` says that
`_requests` holds every published request whose future is pending; `Swept` that
the snapshot taken by `_serve` holds every thread that waits. This is the
argument by which `submit` needs no lock: it publishes before it looks at the
state. The proof is in `ConnectionProofs`, through the instance `Loop`, and
needs no assumption on the constants.

**Connection.** A closed connection is clean because of how `close` gets there.
`Patient`: a close interrupted at most once stops the loop only when its cleanup
has ended by itself. `Reaped`: a cleanup that has ended by itself found the
child reaped, or no spawn that could still bring one. `Factory`, `Announced`
and `Spawned` say in which order the factory, the close and the child appear.
Assumptions: `ConnectionConstants`, with the name of no closer standing for a
free lock.

**Cache.** `CacheSafe` needs one addition, `Snapshots`: what a load has read is
a store. `OneWriter` says that the document of the writer is its batch on top of
the store as it still is; the replacement and with it `Contract` follow.
Assumptions: `CacheConstants`, with at least one controller.

**FileSync.** The proof is in `CacheProofs`, through the instance `Copy`. It
looks at the sessions and not at the content of blocks, so it holds for every
size and needs no assumption on the constants. A temporary file belongs to an
open receiver (`Held`), a local receiver is closed before the client goes on to
the remote one (`Left`), and an open receiver on the other host is registered,
so that a close or the end of its process removes the file (`Remote`). What
makes this inductive is who steps whom: a session is busy only while the client
waits for it, except the remote one behind a lost connection (`Local`), and a
client in its loop has an open receiver or is about to read its result
(`Looping`, `Opening`). TLC checked the invariant, `TempInv`, on 230 584 states.

**Rsync.** Also in `CacheProofs`, through the instance `Tree`. `Quiescent` says
that no task runs outside the first walk and the waits behind it, `Places` that
a walk which may remove is never one of the first pass; together they give
`RemovesAlone`. `Window` counts the tasks. `Noticed`, that a destination which
differs from the one before is reported as changed, holds over every call of
the coordinator and of a task, those that settle after a cancellation included.
Both theorems have the hypothesis `WellFormed`: the paths form a tree of
directories and each case has a destination in which `inspect` finds entries of
its own kinds. It is the assumption `RsyncConstants` of the module, which TLC
evaluates on the run, and is a hypothesis here because an instance does not
bring the assumptions of its module along.

**Startup, MuxLaunch.** `StartInv` is about one connection at a time, since
connections share only the path. A caller can name the cause of a failure
because of how the evidence travels: stderr ends once and with the process
(`ErrEnds`), the cause is the last line of it, read or unread, until the caller
stops listening (`Evidence`), a peer that has sent a flight of TLS or the
boundary does not fail to start any more (`Past`), and a caller that left in its
own time knows why (`Known`). `FailuresAreTold` and `StartsAreClean` follow
without a hypothesis on the surroundings, foreground servers that are cancelled
included. `NoServerLeft` has its own invariant: a launcher that has not forked
has no server, and one that ended with a failure has one that is gone
(`Bereft`); it needs no more than that the kill finds the process group.
`OneServer` adds `LaunchInv`: who holds the lock and whose server is on its way
(`Pair`), a server with a socket is on the path (`OnPath`), every socket has an
inode of its own (`OwnInodes`), and a launcher that was refused may remove what
is on the path because no server has a socket then (`Refused`). Its hypothesis
`Settled` says that servers are started by launchers and that the surroundings
do nothing but stop a peer. What it excludes can be the doing of rmote's own
processes, and each part of it is needed: `MuxClaims.cfg` has the foreground
server between bind and listen, the unlink behind its check and the inode that
is used again, each with a listening server that nobody reaches, and a child
before its `setsid` is an orphan. Assumptions: `StartupConstants`,
`LaunchConstants`.

**Vty, Sessions.** A descriptor number is given out again as soon as it is
closed, while a read of the session before may still be registered for it.
`Reading` is the reason why this is harmless: a read waits on the descriptor of
its own open session, and when a close has taken the session away from under it,
the next packet to be served is the one that cancels the read, and until then no
session has that number. A notice that was ignored before the read began is the
exception: nothing cancels such a read any more, so nothing takes a reader away
on its behalf. This rests on the order of the wire (`Wire`, which says what must
be in front of or behind a packet, and `Cut`, that a lost connection carries
none), on the phases of a session (`Phase`, `Distinct`) and on where its client
stands (`Owns`, `Holds`). `Drained` says that the producer is done only when the
child has exited and all its output was sent; with it, `StatusIsLast` needs no
hypothesis. A close returns with the child exited or given up, and the part
about children says no more. `SessionsKeepApart` has the hypothesis
`OwnTerminals`: two clients that share a terminal restore each other's flags
(section 4), and the part of `SessionsSafe` about flags is then false.
Assumptions: `VtyConstants`.

Only model-checked, and why:

* every liveness property: fairness and ENABLED are beyond the prover;
* `StreamBudget`: its sums are folds, whose value needs induction. The half of
    it that the promise needs is proved as `Ledger`;
* the operators of `Bundles` and `ConfText` and the plans of `HostTools`:
  searches and recursive definitions, which need induction, and with them
  `Host`;
* the content that `FileSync` installs, its result and `NeverRefused`: they
  fold over the blocks of a file, which needs induction;
* of `Rsync`, what is excluded, removed last and converged on (`RsyncSafe`,
  `Converges`, and that a reported change was one): they rest on the directories
  above a path, which are defined by recursion, and on all that the walk has
  done so far.

## 6. Plan

1. Proofs: `AccusedAtTheLimit` of `Stream`, from the running totals of `Ledger`;
   what is excluded in `Rsync`, with the directories above a path as a constant
   relation in place of the recursive function.
2. Models: agent forwarding (`tools/agent.py`) as sessions of its own; records
   of `TLSStream` after the handshake over a transport with back pressure; the
   other direction of `Calls`.

## 7. Not modelled

Text and formatting of messages, compression ratios, the restricted unpickler,
fact collectors and command line programs. The template engine is a sequential
interpreter of characters and Python values, of which a model would be a copy.
Of agent forwarding only the lease appears (`Sessions`). A receive that is
cancelled between a header and its body is left out because only the close of
the connection cancels it. `PROJECT.json` gives the reason for each part under
"components".
