------------------------------- MODULE Cache --------------------------------
(***************************************************************************)
(* rmote/cache: controllers that keep results in memory (Cache) and share  *)
(* them through a store on disk (JSONCacheDir or SQLiteCache).             *)
(*                                                                         *)
(* Every call of a backend runs in a worker thread, here a job.  A         *)
(* controller that is cancelled while it waits leaves the thread running   *)
(* and may start another one, so jobs of one controller overlap freely.    *)
(* One namespace; the text of a document or a row stands for its entries.  *)
(***************************************************************************)
EXTENDS Integers

CONSTANTS
    Keys,
    Procs,        \* the controllers
    Version,      \* the version of the values that each controller expects
    Jobs,         \* worker threads; a thread is used again when it is free
    MaxTime,      \* bound: collection times
    MaxUpdates,   \* bound: calls of update and invalidate
    MaxJobs,      \* bound: calls of a backend
    MaxCrashes    \* bound: controllers that are killed and started again

ASSUME CacheConstants ==
    /\ Procs # {} /\ Version \in [Procs -> Nat \ {0}]
    /\ MaxTime \in Nat /\ MaxUpdates \in Nat /\ MaxJobs \in Nat /\ MaxCrashes \in Nat

VARIABLES
    backend,   \* "json" for JSONCacheDir, "sqlite" for SQLiteCache
    memory,    \* Cache.entries of each controller
    store,     \* the entries on disk
    pc,        \* where each job is
    owner,     \* the controller that a job works for
    batch,     \* what the job writes, or what it read
    document,  \* the document or the rows under the hands of the job
    lock,      \* the jobs that hold the flock or the write transaction: none or one
    temps,     \* temporary files: the jobs that made them
    litter,    \* a temporary file was left behind
    updates, begun, crashes

jobVars == <<pc, owner, batch, document, lock, temps>>
vars == <<backend, memory, store, jobVars, litter, updates, begun, crashes>>

Times == 0..MaxTime

\* CacheEntry; the value is identified by who collected it and when.
Entry == [at : Times, version : {Version[p] : p \in Procs}, by : Procs]

\* An absent key is older than every entry, so that no case is needed for it.
NoEntry == [at |-> -1]
Delete == [at |-> MaxTime + 1]

Contents == [Keys -> Entry \union {NoEntry}]
Batches == [Keys -> Entry \union {NoEntry, Delete}]
Nothing == [k \in Keys |-> NoEntry]

Init ==
    /\ backend \in {"json", "sqlite"} /\ memory = [p \in Procs |-> Nothing] /\ store = Nothing
    /\ pc = [j \in Jobs |-> "free"] /\ owner = [j \in Jobs |-> CHOOSE p \in Procs : TRUE]
    /\ batch = [j \in Jobs |-> Nothing] /\ document = [j \in Jobs |-> Nothing]
    /\ lock = {} /\ temps = {} /\ litter = FALSE /\ updates = 0 /\ begun = 0 /\ crashes = 0

-----------------------------------------------------------------------------
(* The cache in memory                                                      *)

\* merge: an entry replaces one that is not newer.
Merge(old, new) ==
    [k \in Keys |-> IF new[k] # NoEntry /\ old[k].at <= new[k].at THEN new[k] ELSE old[k]]

\* update, with values collected at t.
Update(p, K, t) ==
    /\ updates < MaxUpdates /\ updates' = updates + 1
    /\ memory' = [memory EXCEPT ![p] =
           Merge(@, [k \in Keys |-> IF k \in K THEN [at |-> t, version |-> Version[p], by |-> p] ELSE NoEntry])]
    /\ UNCHANGED <<backend, store, jobVars, litter, begun, crashes>>

\* invalidate
Invalidate(p, K) ==
    /\ updates < MaxUpdates /\ updates' = updates + 1
    /\ memory' = [memory EXCEPT ![p] = [k \in Keys |-> IF k \in K THEN NoEntry ELSE @[k]]]
    /\ UNCHANGED <<backend, store, jobVars, litter, begun, crashes>>

-----------------------------------------------------------------------------
(* Calls of a backend                                                       *)

Begin(j, p, entries, stage) ==
    /\ pc[j] = "free" /\ begun < MaxJobs /\ begun' = begun + 1
    /\ pc' = [pc EXCEPT ![j] = stage] /\ owner' = [owner EXCEPT ![j] = p]
    /\ batch' = [batch EXCEPT ![j] = entries]
    /\ UNCHANGED <<backend, memory, store, document, lock, temps, litter, updates, crashes>>

\* save: the entries are taken when it begins.
Save(j, p, K) ==
    LET entries == [k \in Keys |-> IF k \in K THEN memory[p][k] ELSE NoEntry]
    IN entries # Nothing /\ Begin(j, p, entries, "wait")

\* delete
Remove(j, p, k) == Begin(j, p, [Nothing EXCEPT ![k] = Delete], "wait")

\* load
Load(j, p) == Begin(j, p, Nothing, "load")

Keep == UNCHANGED <<backend, memory, owner, litter, updates, begun, crashes>>

\* Mutant: the lock is not given back.
ReleaseHolds(j) ==
    /\ pc' = [pc EXCEPT ![j] = "free"] /\ UNCHANGED lock
    /\ batch' = [batch EXCEPT ![j] = Nothing] /\ document' = [document EXCEPT ![j] = Nothing]

\* The thread is done: with the lock, without it.
Release(j) ==
    /\ pc' = [pc EXCEPT ![j] = "free"] /\ lock' = lock \ {j}
    /\ batch' = [batch EXCEPT ![j] = Nothing] /\ document' = [document EXCEPT ![j] = Nothing]

Unmoved(j) == UNCHANGED <<batch, document, lock>>

\* Mutant: the lock is shared.
AcquireShared(j) ==
    /\ pc[j] = "wait" /\ lock' = lock \union {j} /\ pc' = [pc EXCEPT ![j] = "read"]
    /\ Keep /\ UNCHANGED <<store, batch, document, temps>>

\* locked, or the start of a transaction.
Acquire(j) ==
    /\ pc[j] = "wait" /\ lock = {}
    /\ lock' = {j} /\ pc' = [pc EXCEPT ![j] = "read"]
    /\ Keep /\ UNCHANGED <<store, batch, document, temps>>

\* SQLite gives up after its timeout; flock waits for ever.
AcquireTimeout(j) ==
    /\ backend = "sqlite" /\ pc[j] = "wait" /\ lock # {} /\ Release(j)
    /\ Keep /\ UNCHANGED <<store, temps>>

\* Mutant: an older collection replaces a newer one.
MergedBlind(old, new) ==
    [k \in Keys |-> IF new[k] = Delete THEN NoEntry ELSE IF new[k] = NoEntry THEN old[k] ELSE new[k]]

\* write_entries of both backends: the loop over the batch, or the UPSERT with
\* its condition and DELETE.
Merged(old, new) ==
    [k \in Keys |-> IF new[k] = Delete THEN NoEntry
                    ELSE IF new[k] = NoEntry \/ old[k].at > new[k].at THEN old[k] ELSE new[k]]

\* A branch of the batch removes a stored one, or is not older.
Changes(old, new) ==
    \E k \in Keys : /\ new[k] # NoEntry
                    /\ IF new[k] = Delete THEN old[k] # NoEntry ELSE old[k].at <= new[k].at

\* The document is read and changed, the rows are changed inside the
\* transaction; a document that does not change is not written.
ReadStore(j) ==
    /\ pc[j] = "read"
    /\ \/ /\ Changes(store, batch[j]) \/ backend = "sqlite"
          /\ document' = [document EXCEPT ![j] = Merged(store, batch[j])]
          /\ pc' = [pc EXCEPT ![j] = IF backend = "json" THEN "write" ELSE "commit"]
          /\ UNCHANGED <<batch, lock>>
       \/ backend = "json" /\ ~Changes(store, batch[j]) /\ Release(j)
    /\ Keep /\ UNCHANGED <<store, temps>>

\* The temporary file is written and synced, or that fails and it is removed.
WriteTemp(j) ==
    /\ pc[j] = "write"
    /\ \/ pc' = [pc EXCEPT ![j] = "commit"] /\ temps' = temps \union {j} /\ Unmoved(j)
       \/ Release(j) /\ UNCHANGED temps
    /\ Keep /\ UNCHANGED store

\* os.replace and the end of the lock, or COMMIT; either may fail.
Commit(j) ==
    /\ pc[j] = "commit" /\ Release(j)
    /\ store' = document[j] \/ UNCHANGED store
    /\ temps' = temps \ {j} /\ Keep

\* read_entries: one snapshot, and the lock of a document only while it is read.
ReadEntries(j) ==
    /\ pc[j] = "load" /\ (backend = "json" => lock = {})
    /\ pc' = [pc EXCEPT ![j] = "loaded"] /\ batch' = [batch EXCEPT ![j] = store]
    /\ UNCHANGED <<backend, memory, store, owner, document, lock, temps, litter, updates, begun, crashes>>

\* load drops the entries of another version.
Compatible(p, entries) ==
    [k \in Keys |-> IF entries[k] # NoEntry /\ entries[k].version = Version[p] THEN entries[k] ELSE NoEntry]

\* load, back on the event loop.
Loaded(j) ==
    /\ pc[j] = "loaded" /\ Release(j)
    /\ memory' = [memory EXCEPT ![owner[j]] = Merge(@, Compatible(owner[j], batch[j]))]
    /\ UNCHANGED <<backend, store, owner, temps, litter, updates, begun, crashes>>

\* A controller is killed and started again: its threads are gone, the system
\* drops its lock or rolls its transaction back, a temporary file stays.
Crash(p) ==
    /\ crashes < MaxCrashes /\ crashes' = crashes + 1
    /\ LET mine == {j \in Jobs : pc[j] # "free" /\ owner[j] = p}
       IN /\ pc' = [j \in Jobs |-> IF j \in mine THEN "free" ELSE pc[j]]
          /\ batch' = [j \in Jobs |-> IF j \in mine THEN Nothing ELSE batch[j]]
          /\ document' = [j \in Jobs |-> IF j \in mine THEN Nothing ELSE document[j]]
          /\ lock' = lock \ mine /\ temps' = temps \ mine
          /\ litter' = (litter \/ (backend = "json" /\ temps \intersect mine # {}))
    /\ memory' = [memory EXCEPT ![p] = Nothing]
    /\ UNCHANGED <<backend, store, owner, updates, begun>>

-----------------------------------------------------------------------------
JobStep(j) ==
    \/ Acquire(j) \/ AcquireTimeout(j) \/ ReadStore(j) \/ WriteTemp(j) \/ Commit(j)
    \/ ReadEntries(j) \/ Loaded(j)

Use ==
    \/ \E p \in Procs, K \in SUBSET Keys \ {{}} : Invalidate(p, K) \/ \E t \in Times : Update(p, K, t)
    \/ \E j \in Jobs, p \in Procs :
           Load(j, p) \/ (\E K \in SUBSET Keys \ {{}} : Save(j, p, K)) \/ (\E k \in Keys : Remove(j, p, k))

Next == Use \/ (\E j \in Jobs : JobStep(j)) \/ (\E p \in Procs : Crash(p))

Spec == Init /\ [][Next]_vars

\* The operating system runs every thread and grants a free lock.
FairSpec == Spec /\ \A j \in Jobs : WF_vars(JobStep(j))

-----------------------------------------------------------------------------
(* Properties                                                               *)

\* Every variable holds a value of the kind the code keeps there.
TypeOK ==
    /\ backend \in {"json", "sqlite"} /\ memory \in [Procs -> Contents] /\ store \in Contents
    /\ pc \in [Jobs -> {"free", "wait", "read", "write", "commit", "load", "loaded"}]
    /\ owner \in [Jobs -> Procs] /\ batch \in [Jobs -> Batches] /\ document \in [Jobs -> Contents]
    /\ lock \subseteq Jobs /\ temps \subseteq Jobs /\ litter \in BOOLEAN
    /\ updates \in Nat /\ begun \in Nat /\ crashes \in Nat

\* One writer at a time, and its document is its batch on top of what is stored
\* at this moment: no write of another controller falls between.
OneWriter ==
    /\ \A j \in Jobs : pc[j] \in {"read", "write", "commit"} <=> j \in lock
    /\ \A i, j \in lock : i = j
    /\ \A j \in Jobs : pc[j] \in {"write", "commit"} => document[j] = Merged(store, batch[j])

\* A controller holds only values of the version it asked for, and a temporary
\* file is left behind only by a controller that was killed.
OwnVersions == \A p \in Procs, k \in Keys : memory[p][k] # NoEntry => memory[p][k].version = Version[p]
NoLitter == (\A j \in temps : pc[j] = "commit") /\ (litter => crashes > 0)

\* Writers exclude each other from the first read to the replacement, and
\* neither foreign versions nor temporary files get loose.
CacheSafe == TypeOK /\ OneWriter /\ OwnVersions /\ NoLitter

\* The contract of CacheBackend, "atomically merge a batch, ignoring older writes
\* independently per key": every change of the store is one whole batch on top
\* of the store as it was, and no stored collection gives way to an older one.
StoreForward ==
    [][/\ \E j \in Jobs : store' = Merged(store, batch[j])
       /\ \A k \in Keys : store'[k] # NoEntry => store'[k].at >= store[k].at]_store

\* A load that comes back late, or an old observation, never replaces a newer
\* one in memory.
MemoryForward ==
    [][\A p \in Procs, k \in Keys :
        memory'[p][k] # NoEntry => memory'[p][k].at >= memory[p][k].at]_memory

\* Every call of a backend ends, however the controllers crash and collide.
JobEnds == \A j \in Jobs : pc[j] # "free" ~> pc[j] = "free"

\* The contract of CacheBackend and of the memory in front of it: whole batches, and never back in time.
Contract == StoreForward /\ MemoryForward
=============================================================================
