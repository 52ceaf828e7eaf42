-------------------------------- MODULE Rsync --------------------------------
(***************************************************************************)
(* The synchronisation of a directory with another one (Rsync in           *)
(* rmote/tools/rsync.py), in either direction.                             *)
(*                                                                         *)
(* A coordinator walks the source twice.  The first walk makes directories *)
(* and links and starts a task for each regular file, with at most         *)
(* concurrency of them at a time in all directories together; the second,  *)
(* after the last task, removes what the source does not have and gives    *)
(* the directories their modes.  Each call on either side may fail, the    *)
(* caller may cancel the transfer, and a transfer may be made again.       *)
(*                                                                         *)
(* A task copies its file with FileSync, whose promise is taken from       *)
(* module FileSync: the whole content is installed in one step, with the   *)
(* mode and the owner of the file it replaces, or nothing is.  The source  *)
(* does not change, and nobody else writes the destination (the class asks *)
(* for it).  A failed call may have done its work: that is the step, and   *)
(* then a fault.  A glob is the set of paths that it matches.              *)
(***************************************************************************)
EXTENDS Integers, FiniteSets, Sequences, TLC

CONSTANTS
    Paths,         \* the paths below the two roots, and Root
    Root,
    Parent,        \* path -> the directory it is in, for all but Root
    Cases,         \* transfers, with the two trees
    Concurrency,
    MaxRuns,       \* bound: transfers of a behaviour
    MaxFaults,     \* bound: calls that fail
    MaxCancels     \* bound: cancellations

Entry(kind, data, mode, owner) == [kind |-> kind, data |-> data, mode |-> mode, owner |-> owner]

\* What inspect may find at the paths of a tree
IsTree(tree) ==
    /\ tree = [p \in Paths |-> Entry(tree[p].kind, tree[p].data, tree[p].mode, tree[p].owner)]
    /\ \A p \in Paths : tree[p].kind \in {"absent", "file", "dir", "link", "special"}

\* The paths form one tree, and each case has a destination.
WellFormed ==
    /\ Root \in Paths /\ Parent \in [Paths \ {Root} -> Paths] /\ Concurrency \in Nat \ {0}
    /\ MaxRuns \in Nat /\ MaxFaults \in Nat /\ MaxCancels \in Nat
    /\ \A c \in Cases : IsTree(c.dst)

ASSUME RsyncConstants == WellFormed

VARIABLES
    job,       \* what is asked for: src (the source), delete, deleteExcluded, preserve, owner, exclude
    dst,       \* path -> entry of the destination
    stage,     \* where the coordinator is
    walks,     \* the calls of walk, the outermost first
    tasks,     \* path -> a running or finished task
    changed,   \* result.changed
    before,    \* the destination when the transfer began
    cause,     \* why it failed
    hasty,     \* cancelled while it waited for its tasks to stop
    faults, cancels, runs

counters == <<faults, cancels, runs>>
vars == <<job, dst, stage, walks, tasks, changed, before, cause, hasty, counters>>

-----------------------------------------------------------------------------
(* Trees                                                                    *)

Absent == Entry("absent", "", "", "")

Children(tree, d) == {p \in Paths \ {Root} : Parent[p] = d /\ tree[p].kind # "absent"}

\* The directories that a path is in
Above[p \in Paths] == IF p = Root THEN {} ELSE {Parent[p]} \union Above[Parent[p]]

\* Without write permission nobody but root makes, replaces or removes an entry of a directory.
Writable(d) == dst[d].mode # "ro"

\* The names that a pattern with a trailing slash matches are excluded only as directories.
Excluded(p, kind) == \E x \in job.exclude : p \in x.paths /\ (x.dirs => kind = "dir")

-----------------------------------------------------------------------------
(* The coordinator                                                          *)

Walk(d, at) == [dir |-> d, at |-> at, todo |-> {}, seen |-> <<>>, item |-> d]

Init ==
    /\ \E c \in Cases : job = c.job /\ dst = c.dst
    /\ stage = "idle" /\ walks = <<>> /\ tasks = <<>> /\ changed = FALSE /\ before = dst
    /\ cause = "none" /\ hasty = FALSE /\ faults = 0 /\ cancels = 0 /\ runs = 0

Running == {p \in DOMAIN tasks : tasks[p].at \notin {"done", "failed", "refused"}}

\* upload or download, for the first time or again after the last call has settled
Begin ==
    /\ stage \in {"idle", "done", "failed"} /\ Running = {} /\ runs < MaxRuns /\ runs' = runs + 1
    /\ stage' = "first" /\ walks' = <<Walk(Root, "mkdir")>> /\ tasks' = <<>>
    /\ changed' = FALSE /\ before' = dst /\ cause' = "none" /\ hasty' = FALSE
    /\ UNCHANGED <<job, dst, faults, cancels>>

Top == walks[Len(walks)]
At(place) == stage \in {"first", "second"} /\ walks # <<>> /\ Top.at = place
Set(walk) == walks' = [walks EXCEPT ![Len(walks)] = walk]

\* An exception ends every walk; the tasks are cancelled and awaited.
Raise(why) == stage' = "stopping" /\ walks' = <<>> /\ cause' = why

\* Mutant: only new content counts.
PutSilently(p, entry) == dst' = [dst EXCEPT ![p] = entry] /\ changed' = (changed \/ dst[p].data # entry.data)

\* What a call does to the destination
Put(p, entry) == dst' = [dst EXCEPT ![p] = entry] /\ changed' = (changed \/ dst[p] # entry)

MkDir ==
    /\ At("mkdir")
    /\ LET d == Top.dir
       IN  CASE dst[d].kind = "dir" -> Set([Top EXCEPT !.at = "scan"]) /\ UNCHANGED <<dst, changed, stage, cause>>
             [] dst[d].kind = "absent" -> /\ Put(d, Entry("dir", "", "700", "root"))
                                          /\ Set([Top EXCEPT !.at = "scan"]) /\ UNCHANGED <<stage, cause>>
             [] OTHER -> Raise("conflict") /\ UNCHANGED <<dst, changed>>
    /\ UNCHANGED <<job, tasks, before, hasty, counters>>

\* An exclusion that matches on either side protects the name.
Protected(w) ==
    {p \in Children(job.src, w.dir) : Excluded(p, job.src[p].kind)} \union {p \in DOMAIN w.seen : Excluded(p, w.seen[p].kind)}
Entries(w) == Children(job.src, w.dir) \ Protected(w)
Existing(w) == DOMAIN w.seen \ (IF job.deleteExcluded THEN {} ELSE Protected(w))

OfKind(w, kinds) == {p \in Entries(w) : job.src[p].kind \in kinds}

\* The destination is scanned, and compared with the source.
Scan ==
    /\ At("scan")
    /\ LET w == [Top EXCEPT !.seen = [p \in Children(dst, Top.dir) |-> dst[p]]]
           conflict == \E p \in Entries(w) : \/ job.src[p].kind = "special"
                                             \/ p \in Existing(w) /\ w.seen[p].kind # job.src[p].kind
       IN  IF conflict THEN Raise("conflict")
           ELSE /\ Set(IF stage = "first" THEN [w EXCEPT !.at = "items", !.todo = OfKind(w, {"file", "link"})]
                       ELSE [w EXCEPT !.at = "dirs", !.todo = OfKind(w, {"dir"})])
                /\ UNCHANGED <<stage, cause>>
    /\ UNCHANGED <<job, dst, tasks, changed, before, hasty, counters>>

\* A task begins, with the mode that the scan saw.
StartFile(p) ==
    /\ At("items") /\ p \in Top.todo /\ job.src[p].kind = "file" /\ Cardinality(DOMAIN tasks) < Concurrency
    /\ LET task == [at |-> "sync", present |-> IF p \in Existing(Top) THEN Top.seen[p].mode ELSE "none"]
       IN  tasks' = [q \in DOMAIN tasks \union {p} |-> IF q = p THEN task ELSE tasks[q]]
    /\ Set([Top EXCEPT !.todo = @ \ {p}])
    /\ UNCHANGED <<job, dst, stage, changed, before, cause, hasty, counters>>

\* The tasks that have ended leave the window; one that failed fails the transfer.
Reaped ==
    /\ tasks' = [p \in Running |-> tasks[p]]
    /\ IF \E p \in DOMAIN tasks : tasks[p].at \in {"failed", "refused"}
       THEN Raise(IF \E p \in DOMAIN tasks : tasks[p].at = "refused" THEN "refused" ELSE "fault")
       ELSE IF stage = "reap" THEN stage' = "second" /\ walks' = <<Walk(Root, "scan")>> /\ UNCHANGED cause
       ELSE UNCHANGED <<stage, walks, cause>>
    /\ UNCHANGED <<job, dst, changed, before, hasty, counters>>

Full == At("items") /\ (\E p \in Top.todo : job.src[p].kind = "file") /\ Cardinality(DOMAIN tasks) >= Concurrency

\* Mutant: the second walk does not wait for the tasks.
ReapEarly == ((Full /\ Running # DOMAIN tasks) \/ stage = "reap") /\ Reaped

\* Mutant: the task that filled the window is not noticed.
ReapLate == stage = "reap" /\ Running = {} /\ Reaped

\* reap: in a full window for the first task that ends, after the first walk for all of them
Reap == ((Full /\ Running # DOMAIN tasks) \/ (stage = "reap" /\ Running = {})) /\ Reaped

\* A link is made beside the old one and replaces it; the new one belongs to the process.
Link(p) ==
    /\ At("items") /\ p \in Top.todo /\ job.src[p].kind = "link"
    /\ IF dst[p].kind = "link" /\ dst[p].data = job.src[p].data
       THEN Set([Top EXCEPT !.at = "own", !.item = p]) /\ UNCHANGED <<dst, changed, stage, cause>>
       ELSE IF Writable(Top.dir)
       THEN Put(p, Entry("link", job.src[p].data, "", "root")) /\ Set([Top EXCEPT !.at = "own", !.item = p]) /\ UNCHANGED <<stage, cause>>
       ELSE Raise("refused") /\ UNCHANGED <<dst, changed>>
    /\ UNCHANGED <<job, tasks, before, hasty, counters>>

\* chown: the kernel takes the set-user-id bit away from a file that gets another owner.
Owned(entry) ==
    IF job.owner \in {"", entry.owner} THEN entry
    ELSE [entry EXCEPT !.owner = job.owner, !.mode = IF @ = "suid" THEN "x" ELSE @]

OwnLink(p) ==
    /\ At("own") /\ p = Top.item
    /\ Put(p, Owned(dst[p])) /\ Set([Top EXCEPT !.at = "items", !.todo = @ \ {p}, !.item = Top.dir])
    /\ UNCHANGED <<job, stage, tasks, before, cause, hasty, counters>>

ItemsDone ==
    /\ At("items") /\ Top.todo = {}
    /\ Set([Top EXCEPT !.at = "dirs", !.todo = OfKind(Top, {"dir"})])
    /\ UNCHANGED <<job, dst, stage, tasks, changed, before, cause, hasty, counters>>

Descend(p) ==
    /\ At("dirs") /\ p \in Top.todo
    /\ walks' = Append([walks EXCEPT ![Len(walks)].todo = @ \ {p}], Walk(p, IF stage = "first" THEN "mkdir" ELSE "scan"))
    /\ UNCHANGED <<job, dst, stage, tasks, changed, before, cause, hasty, counters>>

Return == walks' = SubSeq(walks, 1, Len(walks) - 1)

\* The first walk leaves a directory; the outermost one is followed by the wait for the tasks.
Ascend ==
    /\ At("dirs") /\ Top.todo = {}
    /\ IF stage = "second" THEN Set([Top EXCEPT !.at = "delete"]) /\ UNCHANGED stage
       ELSE Return /\ stage' = IF Len(walks) = 1 THEN "reap" ELSE stage
    /\ UNCHANGED <<job, dst, tasks, changed, before, cause, hasty, counters>>

\* What the second walk removes in its directory
Extra(w) == IF job.delete \/ job.deleteExcluded THEN Existing(w) \ Entries(w) ELSE {}

\* remove takes an extra entry with all that is in it, but no excluded path and no directory of one.
Removable(w) ==
    {p \in Paths \ {Root} :
        /\ dst[p].kind # "absent" /\ Children(dst, p) = {}
        /\ \E e \in Extra(w) : /\ e \in Above[p] \union {p}
                               /\ job.deleteExcluded \/ \A q \in Above[p] \union {p} :
                                      e \in Above[q] \union {q} => ~Excluded(q, dst[q].kind)}

Remove(p) ==
    /\ At("delete") /\ p \in Removable(Top)
    /\ IF Writable(Parent[p]) THEN Put(p, Absent) /\ UNCHANGED <<stage, walks, cause>>
       ELSE Raise("refused") /\ UNCHANGED <<dst, changed>>
    /\ UNCHANGED <<job, tasks, before, hasty, counters>>

\* metadata of a directory, when all that is in it is in place: its owner, then its mode.
OwnDir ==
    /\ At("delete") /\ Removable(Top) = {}
    /\ Put(Top.dir, Owned(dst[Top.dir])) /\ Set([Top EXCEPT !.at = "mode"])
    /\ UNCHANGED <<job, stage, tasks, before, cause, hasty, counters>>

Moded(p) == [dst[p] EXCEPT !.mode = job.src[p].mode]

ModeDir ==
    /\ At("mode")
    /\ Put(Top.dir, IF job.preserve THEN Moded(Top.dir) ELSE dst[Top.dir])
    /\ Return /\ stage' = IF Len(walks) = 1 THEN "done" ELSE stage
    /\ UNCHANGED <<job, tasks, before, cause, hasty, counters>>

-----------------------------------------------------------------------------
(* The task of a file                                                       *)

Move(p, to) == tasks' = [tasks EXCEPT ![p].at = to]

\* FileSync writes nothing if the content is the same.
Synced(p) ==
    LET old == dst[p]
    IN  CASE old.kind = "absent" -> Entry("file", job.src[p].data, "600", "root")
          [] old.kind # "absent" -> [old EXCEPT !.data = job.src[p].data]

Sync(p) ==
    /\ tasks[p].at = "sync"
    /\ IF dst[p] = Synced(p) \/ Writable(Parent[p]) THEN Put(p, Synced(p)) /\ Move(p, "own")
       ELSE Move(p, "refused") /\ UNCHANGED <<dst, changed>>

OwnFile(p) == tasks[p].at = "own" /\ Put(p, Owned(dst[p])) /\ Move(p, "mode")

\* Mutant: the mode of a file that existed is not looked at.
ModeDiffersNew(p) == job.preserve /\ tasks[p].present = "none"

\* A mode that the scan found equal costs no call.
ModeDiffers(p) == job.preserve /\ job.src[p].mode # tasks[p].present

ModeFile(p) ==
    /\ tasks[p].at = "mode" /\ Move(p, "done")
    /\ Put(p, IF ModeDiffers(p) THEN Moded(p) ELSE dst[p])

Busy == stage \in {"first", "reap"}

Task(p) ==
    /\ Busy /\ p \in Running /\ (Sync(p) \/ OwnFile(p) \/ ModeFile(p))
    /\ UNCHANGED <<job, stage, walks, before, cause, hasty, counters>>

\* A task that was cancelled lets the call that it is in settle, and makes no other one.
EndTask(p) ==
    /\ ~Busy /\ p \in Running
    /\ tasks' = [q \in DOMAIN tasks \ {p} |-> tasks[q]]
    /\ \/ UNCHANGED <<dst, changed>>
       \/ tasks[p].at = "sync" /\ (dst[p] = Synced(p) \/ Writable(Parent[p])) /\ Put(p, Synced(p))
       \/ tasks[p].at = "own" /\ Put(p, Owned(dst[p]))
       \/ tasks[p].at = "mode" /\ ModeDiffers(p) /\ Put(p, Moded(p))
    /\ UNCHANGED <<job, stage, walks, before, cause, hasty, counters>>

-----------------------------------------------------------------------------
(* Failures                                                                 *)

\* A call of the coordinator fails.
Fault ==
    /\ stage \in {"first", "second"} /\ faults < MaxFaults /\ faults' = faults + 1 /\ Raise("fault")
    /\ UNCHANGED <<job, dst, tasks, changed, before, hasty, cancels, runs>>

TaskFault(p) ==
    /\ Busy /\ p \in Running /\ faults < MaxFaults /\ faults' = faults + 1 /\ Move(p, "failed")
    /\ UNCHANGED <<job, dst, stage, walks, changed, before, cause, hasty, cancels, runs>>

Cancel ==
    /\ stage \in {"first", "reap", "second"} /\ cancels < MaxCancels /\ cancels' = cancels + 1 /\ Raise("cancel")
    /\ UNCHANGED <<job, dst, tasks, changed, before, hasty, faults, runs>>

\* The wait for the cancelled tasks is itself cancelled.
CancelAgain ==
    /\ stage = "stopping" /\ Running # {} /\ cancels < MaxCancels /\ cancels' = cancels + 1
    /\ stage' = "failed" /\ hasty' = TRUE
    /\ UNCHANGED <<job, dst, walks, tasks, changed, before, cause, faults, runs>>

Stopped ==
    /\ stage = "stopping" /\ Running = {} /\ stage' = "failed"
    /\ UNCHANGED <<job, dst, walks, tasks, changed, before, cause, hasty, counters>>

-----------------------------------------------------------------------------
Coordinate ==
    \/ MkDir \/ Scan \/ Reap \/ ItemsDone \/ Ascend \/ OwnDir \/ ModeDir \/ Stopped
    \/ \E p \in Paths \ {Root} : StartFile(p) \/ Link(p) \/ OwnLink(p) \/ Descend(p) \/ Remove(p)

Next ==
    \/ Begin \/ Coordinate \/ Fault \/ Cancel \/ CancelAgain
    \/ \E p \in DOMAIN tasks : Task(p) \/ EndTask(p) \/ TaskFault(p)

Spec == Init /\ [][Next]_vars

\* Calls return: the coordinator and each task take their next step.
FairSpec ==
    /\ Spec /\ WF_vars(Coordinate)
    /\ \A p \in Paths : WF_vars(p \in DOMAIN tasks /\ (Task(p) \/ EndTask(p)))

-----------------------------------------------------------------------------
(* Properties                                                               *)

\* The types of the variables.
TypeOK ==
    /\ \A p \in Paths : dst[p].kind \in {"absent", "file", "dir", "link", "special"}
    /\ stage \in {"idle", "first", "reap", "second", "stopping", "done", "failed"}
    /\ DOMAIN tasks \subseteq Paths /\ changed \in BOOLEAN
    /\ faults \in 0..MaxFaults /\ cancels \in 0..MaxCancels /\ runs \in 0..MaxRuns

\* What the transfer leaves alone: an excluded path of either side, and all below it
Left(p) ==
    \E q \in Above[p] \union {p} : \/ job.src[q].kind # "absent" /\ Excluded(q, job.src[q].kind)
                                   \/ before[q].kind # "absent" /\ Excluded(q, before[q].kind)

\* What the source has and the transfer copies
Wanted == {p \in Paths : job.src[p].kind # "absent" /\ ~Left(p)}

\* The entry of the source is in place.
Copied(p) ==
    /\ dst[p].kind = job.src[p].kind /\ dst[p].data = job.src[p].data
    /\ job.preserve /\ job.src[p].kind # "link" => dst[p].mode = job.src[p].mode
    /\ job.owner \in {"", dst[p].owner}

\* What the destination has and the source does not
Extras == {p \in Paths \ {Root} : before[p].kind # "absent" /\ p \notin Wanted}

Gone(p) == dst[p].kind = "absent"

\* An extra directory stays for the sake of an excluded path in it.
Held(p) == Left(p) \/ \E q \in Paths : p \in Above[q] /\ Left(q) /\ before[q].kind # "absent"

\* Nothing that is excluded is touched, unless its removal was asked for (Rsync: "Their contents, modes
\* and ownership are left untouched").
ExcludedUntouched == job.deleteExcluded \/ \A p \in Paths : Left(p) => dst[p] = before[p]

\* Nothing is removed before every file of the source has arrived (Rsync: "Deletion starts only after all
\* content transfers succeed").
RemovedLast ==
    (\E p \in Extras : Gone(p)) =>
        \A p \in Wanted : job.src[p].kind = "file" => dst[p].kind = "file" /\ dst[p].data = job.src[p].data

\* No mode that was copied stands in the way of the rest, in this transfer or in the next one after a
\* failure: no call is refused.
NeverRefused == cause # "refused"

\* A transfer that has returned or raised makes no more changes; a second cancellation, while the first
\* one or a failure waits for the tasks, may break this (see README).
Settled == stage \in {"done", "failed"} /\ ~hasty => Running = {}

\* The result says whether the destination changed.
HonestResult == stage = "done" => changed = (dst # before)

\* Nothing is removed while a task runs or in the first walk ("Deletion starts only after all content
\* transfers succeed"), whichever calls fail and however often the transfer is cancelled and made again.
RemovesAlone ==
    [][(\E p \in Paths : dst[p].kind # "absent" /\ dst'[p].kind = "absent") => stage = "second" /\ Running = {}]_vars

\* The window of transfers, removal last, exclusions, no refusal, nothing left running, and a true result.
RsyncSafe ==
    /\ TypeOK /\ Cardinality(Running) <= Concurrency
    /\ ExcludedUntouched /\ RemovedLast /\ NeverRefused /\ Settled /\ HonestResult

\* A transfer that returns has made the destination what was asked for, whatever an earlier one that
\* failed or was cancelled left behind ("retry to converge").
Converges ==
    stage = "done" =>
        /\ \A p \in Wanted : Copied(p)
        /\ \A p \in Extras :
              IF job.deleteExcluded \/ (job.delete /\ ~Held(p)) THEN Gone(p) ELSE dst[p] = before[p]

\* As Settled, however often the transfer is cancelled ("Cancelled after active operations settle").
AlwaysSettled == stage \in {"done", "failed"} => Running = {}

\* Every transfer returns or raises, and its calls come to an end.
TransferEnds == <>[](stage \in {"idle", "done", "failed"} /\ Running = {})
=============================================================================
