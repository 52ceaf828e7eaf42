-------------------------------- MODULE Vty ---------------------------------
(***************************************************************************)
(* Sessions on the remote host (rmote/tools/vty.py): a child process       *)
(* behind a terminal or behind pipes, the streaming call that reads its    *)
(* output, the calls that write to it, and the close that ends it.         *)
(*                                                                         *)
(* Output and input are counted in chunks.  The event loop has one reader  *)
(* per descriptor number, and a number is given out again once it is       *)
(* closed: that is what two sessions share.                                *)
(***************************************************************************)
EXTENDS Integers, FiniteSets

CONSTANTS
    Keys,     \* the sessions; Vty.open gives each one its own key
    Ttys,     \* the sessions that have a terminal (want_pty)
    Nobody,
    MaxOut    \* bound: chunks that a child writes

ASSUME VtyConstants == IsFiniteSet(Keys) /\ Ttys \subseteq Keys /\ MaxOut \in Nat /\ Nobody \notin Keys

VARIABLES
    vty,       \* where each session is; it is in Vty.sessions when it is "open"
    child,     \* "none", "running", "exited", or "left": nobody waits for it any more, it may run on
    master,    \* master_fd, or 0 when it is closed
    slave,     \* our copy of the slave is open
    reader,    \* the loop's readers: the session whose read waits on each descriptor
    waits,     \* the descriptor that the read of a session has registered
    producer,  \* Vty.output: "none", "asked" (its task has not begun), "reading" or "done"
    made,      \* chunks that the child has written
    sent,      \* chunks that Vty.output has yielded
    stuck      \* a Vty.write waits for room; one that a close left behind is not followed

vtyVars == <<vty, child, master, slave, reader, waits, producer, made, sent, stuck>>

\* Descriptor numbers, as many as there can be open terminals; the lowest free one is given out.
Fds == 1..Cardinality(Ttys)

VtyInit ==
    /\ vty = [k \in Keys |-> "none"] /\ child = [k \in Keys |-> "none"]
    /\ master = [k \in Keys |-> 0] /\ slave = [k \in Keys |-> FALSE]
    /\ reader = [f \in Fds |-> Nobody] /\ waits = [k \in Keys |-> 0] /\ producer = [k \in Keys |-> "none"]
    /\ made = [k \in Keys |-> 0] /\ sent = [k \in Keys |-> 0]
    /\ stuck = [k \in Keys |-> FALSE]

\* The loop forgets the reader of a descriptor, whoever that is.
RemoveReader(f) == reader' = IF f = 0 THEN reader ELSE [reader EXCEPT ![f] = Nobody]

-----------------------------------------------------------------------------
(* Vty.open and Vty.shell                                                   *)

Free == {f \in Fds : \A j \in Keys : master[j] # f}

\* TerminalSession.start opens the terminal, then waits for the subprocess.
Open(k) ==
    /\ vty[k] = "none" /\ vty' = [vty EXCEPT ![k] = "starting"]
    /\ IF k \in Ttys THEN \E f \in Free : (\A g \in Free : f <= g) /\ master' = [master EXCEPT ![k] = f]
       ELSE UNCHANGED master
    /\ slave' = [slave EXCEPT ![k] = (k \in Ttys)]
    /\ UNCHANGED <<child, reader, waits, producer, made, sent, stuck>>

Started(k) ==
    /\ vty[k] = "starting" /\ vty' = [vty EXCEPT ![k] = "open"] /\ child' = [child EXCEPT ![k] = "running"]
    /\ UNCHANGED <<master, slave, reader, waits, producer, made, sent, stuck>>

\* The subprocess cannot start: both ends of the terminal are closed.
StartFails(k) ==
    /\ vty[k] = "starting" /\ vty' = [vty EXCEPT ![k] = "gone"]
    /\ master' = [master EXCEPT ![k] = 0] /\ slave' = [slave EXCEPT ![k] = FALSE]
    /\ UNCHANGED <<child, reader, waits, producer, made, sent, stuck>>

-----------------------------------------------------------------------------
(* The child                                                                *)

\* It writes and it exits.  The exit of one that was given up is seen only by the read of its pipe.
Child(k) ==
    /\ child[k] = "running" \/ (child[k] = "left" /\ k \notin Ttys)
    /\ \/ made[k] < MaxOut /\ vty[k] = "open" /\ made' = [made EXCEPT ![k] = @ + 1] /\ UNCHANGED child
       \/ child' = [child EXCEPT ![k] = "exited"] /\ UNCHANGED made
    /\ UNCHANGED <<vty, master, slave, reader, waits, producer, sent, stuck>>

\* exit_waiter: our copy of the slave is kept until the child has exited, so that it can drain.  With
\* it gone the terminal takes no input, and a write that waited fails.
ExitSeen(k) ==
    /\ child[k] = "exited" /\ slave[k] /\ slave' = [slave EXCEPT ![k] = FALSE]
    /\ stuck' = [stuck EXCEPT ![k] = FALSE]
    /\ UNCHANGED <<vty, child, master, reader, waits, producer, made, sent>>

-----------------------------------------------------------------------------
(* Vty.output and Vty.stderr.  A terminal has no separate stderr, so that   *)
(* Vty.stderr ends at once; for a session with pipes one producer stands    *)
(* for both streams and ends with the later of them.                        *)

\* The receive loop makes the task of the request.
Ask(k) ==
    /\ producer[k] = "none" /\ producer' = [producer EXCEPT ![k] = "asked"]
    /\ UNCHANGED <<vty, child, master, slave, reader, waits, made, sent, stuck>>

\* The task begins: send_stream registers itself, the session is looked up, and its read waits;
\* wait_readable registers the descriptor.
Output(k) ==
    /\ producer[k] = "asked"
    /\ IF vty[k] = "open"
       THEN /\ producer' = [producer EXCEPT ![k] = "reading"] /\ waits' = [waits EXCEPT ![k] = master[k]]
            /\ reader' = IF k \in Ttys THEN [reader EXCEPT ![master[k]] = k] ELSE reader
       ELSE producer' = [producer EXCEPT ![k] = "done"] /\ UNCHANGED <<waits, reader>>
    /\ UNCHANGED <<vty, child, master, slave, made, sent, stuck>>

\* Bytes, or the end that the last close of the other side gives; a terminal reports either one only
\* to the reader that its descriptor has.
Readable(k) ==
    /\ k \in Ttys => waits[k] # 0 /\ waits[k] = master[k] /\ reader[waits[k]] = k
    /\ made[k] > sent[k] \/ (child[k] = "exited" /\ ~slave[k])

\* One turn of the loop: a chunk is yielded, or the end ends it (EIO of a terminal).
Read(k) ==
    /\ producer[k] = "reading" /\ Readable(k)
    /\ IF made[k] > sent[k]
       THEN sent' = [sent EXCEPT ![k] = @ + 1] /\ UNCHANGED <<producer, reader, waits>>
       ELSE /\ producer' = [producer EXCEPT ![k] = "done"] /\ RemoveReader(waits[k])
            /\ waits' = [waits EXCEPT ![k] = 0] /\ UNCHANGED sent
    /\ UNCHANGED <<vty, child, master, slave, made, stuck>>

\* The consumer left: the task is cancelled, and wait_readable removes the reader of its descriptor.
\* A task that has not begun is not registered, and the notice is ignored.
CancelOutput(k) ==
    /\ producer' = [producer EXCEPT ![k] = IF @ = "asked" THEN @ ELSE "done"]
    /\ IF producer[k] = "reading"
       THEN RemoveReader(waits[k]) /\ waits' = [waits EXCEPT ![k] = 0]
       ELSE UNCHANGED <<reader, waits>>
    /\ UNCHANGED <<vty, child, master, slave, made, sent, stuck>>

-----------------------------------------------------------------------------
(* Vty.write and Vty.close                                                  *)

\* write_all, of a write or of the end of input: what the terminal or the pipe has no room for waits
\* until the descriptor is writable.
Write(k) ==
    /\ vty[k] = "open" /\ (k \in Ttys => slave[k])
    /\ ~stuck[k] /\ stuck' = [stuck EXCEPT ![k] = TRUE]
    /\ UNCHANGED <<vty, child, master, slave, reader, waits, producer, made, sent>>

\* The child reads, or the pipe breaks: the write goes on.
Unstick(k) ==
    /\ stuck[k] /\ stuck' = [stuck EXCEPT ![k] = FALSE]
    /\ UNCHANGED <<vty, child, master, slave, reader, waits, producer, made, sent>>

\* Mutant: the descriptor stays open.
ReleaseMasterNot(k) == UNCHANGED <<master, reader>>

\* TerminalSession.release: the terminal goes first, with whatever waits on it.
ReleaseMaster(k) == RemoveReader(master[k]) /\ master' = [master EXCEPT ![k] = 0]

\* Output that was not read goes with the terminal; a pipe keeps it for its reader.
Discard(k) ==
    IF k \in Ttys THEN made' = [made EXCEPT ![k] = 0] /\ sent' = [sent EXCEPT ![k] = 0]
    ELSE UNCHANGED <<made, sent>>

\* close: the session is taken out of the table, so a second close finds nothing.  The writer of a
\* terminal goes too: a write that waited for room waits for as long as the connection lasts.
Close(k) ==
    /\ IF vty[k] = "open"
       THEN vty' = [vty EXCEPT ![k] = "releasing"] /\ ReleaseMaster(k) /\ Discard(k)
       ELSE UNCHANGED <<vty, master, reader, made, sent>>
    /\ stuck' = [stuck EXCEPT ![k] = FALSE]
    /\ UNCHANGED <<child, slave, waits, producer>>

\* end_process: SIGHUP, SIGTERM and SIGKILL, with a deadline on each; a child that outlives the last one
\* is given up.
EndProcess(k) ==
    /\ vty[k] = "releasing" /\ child[k] = "running"
    /\ \E end \in {"exited", "left"} : child' = [child EXCEPT ![k] = end]
    /\ UNCHANGED <<vty, master, slave, reader, waits, producer, made, sent, stuck>>

\* The copy of the slave is closed: close returns.
Released(k) ==
    /\ vty[k] = "releasing" /\ child[k] \in {"exited", "left"}
    /\ vty' = [vty EXCEPT ![k] = "gone"] /\ slave' = [slave EXCEPT ![k] = FALSE]
    /\ UNCHANGED <<child, master, reader, waits, producer, made, sent, stuck>>

\* The remote process ends: its descriptors close, and the kernel hangs up its terminals.  Nobody
\* waits for the children any more: one that ignores the hangup, or has pipes, may run on.
RemoteEnds ==
    /\ vty' = [k \in Keys |-> "gone"]
    /\ child' = [k \in Keys |-> "left"]
    /\ master' = [k \in Keys |-> 0] /\ slave' = [k \in Keys |-> FALSE]
    /\ reader' = [f \in Fds |-> Nobody] /\ waits' = [k \in Keys |-> 0]
    /\ producer' = [k \in Keys |-> "done"] /\ stuck' = [k \in Keys |-> FALSE]
    /\ UNCHANGED <<made, sent>>

\* The types of the variables.
VtyTypeOK ==
    /\ vty \in [Keys -> {"none", "starting", "open", "releasing", "gone"}]
    /\ child \in [Keys -> {"none", "running", "left", "exited"}]
    /\ producer \in [Keys -> {"none", "asked", "reading", "done"}]
    /\ master \in [Keys -> Fds \union {0}] /\ reader \in [Fds -> Keys \union {Nobody}]
    /\ \A k \in Keys : sent[k] <= made[k] /\ made[k] <= MaxOut

\* The read of an open session keeps its reader: no session, closed and its descriptor given out
\* again, takes the reader of another one away.
OwnReader ==
    \A k \in Keys : producer[k] = "reading" /\ k \in Ttys /\ vty[k] = "open" => reader[master[k]] = k

\* A session that is gone has no descriptor, no copy of the slave and no child, except one that has
\* outlived the deadline of SIGKILL, or the process that had started it.
NoVtyLeft == \A k \in Keys : vty[k] = "gone" => master[k] = 0 /\ ~slave[k] /\ child[k] # "running"
=============================================================================
