----------------------------- MODULE CacheProofs ----------------------------
(***************************************************************************)
(* Theorems about the components that change files: Cache, and behind it   *)
(* FileSync (the instance Copy) and Rsync (the instance Tree).             *)
(*                                                                         *)
(* Cache, for every set of keys, controllers and worker threads, and for   *)
(* every number of calls and crashes.  CacheSafe is inductive with one addition: what a load has read is a     *)
(* snapshot of the store, so no deletion is among it.  OneWriter says that *)
(* the document of the writer is still its batch on top of the store,      *)
(* which is what the replacement of the store rests on.                    *)
(***************************************************************************)
EXTENDS Cache, Sequences, FiniteSets, SequenceTheorems, FiniteSetTheorems, TLAPS

USE CacheConstants DEF jobVars, Times

-----------------------------------------------------------------------------
(* Entries                                                                  *)

\* An absent key and a deletion are no entries, and are told apart by their
\* times.
LEMMA EntryTimes ==
    /\ NoEntry \notin Entry /\ Delete \notin Entry /\ NoEntry # Delete
    /\ \A e \in Entry : e.at \in 0..MaxTime
    /\ NoEntry.at = -1 /\ Delete.at = MaxTime + 1
  BY DEF NoEntry, Delete, Entry

\* merge keeps a memory a memory, and never goes back in time.
LEMMA MergeKeeps ==
    ASSUME NEW old \in Contents, NEW new \in Contents
    PROVE  /\ Merge(old, new) \in Contents
           /\ \A k \in Keys : Merge(old, new)[k] # NoEntry => Merge(old, new)[k].at >= old[k].at
  BY EntryTimes DEF Merge, Contents

\* The same for write_entries, where a batch may also delete.
LEMMA MergedKeeps ==
    ASSUME NEW old \in Contents, NEW new \in Batches
    PROVE  /\ Merged(old, new) \in Contents
           /\ \A k \in Keys : Merged(old, new)[k] # NoEntry => Merged(old, new)[k].at >= old[k].at
  BY EntryTimes DEF Merged, Contents, Batches

\* A store without entries is a store, and a batch; a store is a batch.
LEMMA NothingTypes == Nothing \in Contents /\ Nothing \in Batches /\ Contents \subseteq Batches
  BY DEF Nothing, Contents, Batches

\* What load keeps is of the version that the controller expects.
LEMMA CompatibleKeeps ==
    ASSUME NEW p \in Procs, NEW entries \in Contents
    PROVE  /\ Compatible(p, entries) \in Contents
           /\ \A k \in Keys : Compatible(p, entries)[k] # NoEntry => Compatible(p, entries)[k].version = Version[p]
  BY DEF Compatible, Contents

-----------------------------------------------------------------------------
(* The invariant                                                            *)

\* What a load has read is a store.
Snapshots == \A j \in Jobs : pc[j] = "loaded" => batch[j] \in Contents

CacheInv == CacheSafe /\ Snapshots

\* A new cache is empty and nobody works on it.
LEMMA CacheInit == Init => CacheInv
<1> SUFFICES ASSUME Init PROVE CacheInv  OBVIOUS
<1>1. TypeOK  BY NothingTypes DEF Init, TypeOK
<1>2. OneWriter  BY DEF Init, OneWriter
<1>3. OwnVersions /\ NoLitter  BY DEF Init, OwnVersions, NoLitter, Nothing
<1>4. Snapshots  BY DEF Init, Snapshots
<1> QED  BY <1>1, <1>2, <1>3, <1>4 DEF CacheInv, CacheSafe

\* update and invalidate touch one memory, forward in time and with values of
\* its own version.
LEMMA UseMemory ==
    ASSUME CacheInv, NEW p \in Procs, NEW K \in SUBSET Keys,
           Invalidate(p, K) \/ \E t \in Times : Update(p, K, t)
    PROVE  CacheInv' /\ [\A q \in Procs, k \in Keys : memory'[q][k] # NoEntry => memory'[q][k].at >= memory[q][k].at]_memory
<1> USE DEF CacheInv, CacheSafe
<1> DEFINE new == memory'[p]
<1>1. /\ UNCHANGED <<backend, store, jobVars, litter, begun, crashes>> /\ updates' \in Nat
      /\ memory' = [memory EXCEPT ![p] = new]
  <2>1. ASSUME NEW value, memory' = [memory EXCEPT ![p] = value] PROVE memory' = [memory EXCEPT ![p] = new]
    BY <2>1 DEF TypeOK
  <2>2. updates' \in Nat
    <3>1. updates' = updates + 1  BY DEF Invalidate, Update
    <3> QED  BY <3>1 DEF TypeOK
  <2> QED  BY <2>1, <2>2 DEF Invalidate, Update
<1>2. /\ new \in Contents
      /\ \A k \in Keys : new[k] # NoEntry => new[k].at >= memory[p][k].at /\ new[k].version = Version[p]
  <2>1. CASE Invalidate(p, K)
    BY <2>1, EntryTimes DEF Invalidate, TypeOK, Contents, OwnVersions
  <2>2. ASSUME NEW t \in Times, Update(p, K, t) PROVE <1>2!1 /\ <1>2!2
    <3> DEFINE fresh == [k \in Keys |-> IF k \in K THEN [at |-> t, version |-> Version[p], by |-> p] ELSE NoEntry]
    <3>1. fresh \in Contents /\ \A k \in Keys : fresh[k] # NoEntry => fresh[k].version = Version[p]
      BY DEF Contents, Entry
    <3>2. memory[p] \in Contents /\ new = Merge(memory[p], fresh)  BY <2>2 DEF Update, TypeOK
    <3> HIDE DEF fresh
    <3>3. \A k \in Keys : Merge(memory[p], fresh)[k] \in {memory[p][k], fresh[k]}  BY DEF Merge
    <3> QED  BY <3>1, <3>2, <3>3, MergeKeeps DEF OwnVersions
  <2> QED  BY <2>1, <2>2
<1> HIDE DEF new
<1>3. TypeOK'  BY <1>1, <1>2 DEF TypeOK
<1>4. OneWriter' /\ NoLitter' /\ Snapshots'  BY <1>1 DEF OneWriter, NoLitter, Snapshots
<1>5. OwnVersions'  BY <1>1, <1>2 DEF OwnVersions, TypeOK
<1>6. \A q \in Procs, k \in Keys : memory'[q][k] # NoEntry => memory'[q][k].at >= memory[q][k].at
  BY <1>1, <1>2, EntryTimes DEF TypeOK, Contents
<1> QED  BY <1>3, <1>4, <1>5, <1>6

\* save, load and delete occupy a free thread.
LEMMA BeginKeeps ==
    ASSUME CacheInv, NEW j \in Jobs, NEW p \in Procs, NEW entries \in Batches, NEW stage \in {"wait", "load"},
           Begin(j, p, entries, stage)
    PROVE  CacheInv'
<1> USE DEF CacheInv, CacheSafe, Begin
<1>1. begun' \in Nat
  <2>1. begun' = begun + 1  OBVIOUS
  <2> QED  BY <2>1 DEF TypeOK
<1>2. TypeOK'  BY <1>1 DEF TypeOK
<1>3. OneWriter'  BY DEF OneWriter, TypeOK
<1>4. OwnVersions' /\ NoLitter' /\ Snapshots'  BY DEF OwnVersions, NoLitter, Snapshots, TypeOK
<1> QED  BY <1>2, <1>3, <1>4

\* The three ways to occupy a thread.
LEMMA UseBackend ==
    ASSUME CacheInv, NEW j \in Jobs, NEW p \in Procs,
           Load(j, p) \/ (\E K \in SUBSET Keys : Save(j, p, K)) \/ (\E k \in Keys : Remove(j, p, k))
    PROVE  CacheInv' /\ UNCHANGED <<memory, store>>
<1>1. CASE Load(j, p)
  BY <1>1, NothingTypes, BeginKeeps DEF Load, Begin
<1>2. ASSUME NEW K \in SUBSET Keys, Save(j, p, K) PROVE CacheInv' /\ UNCHANGED <<memory, store>>
  <2> DEFINE entries == [k \in Keys |-> IF k \in K THEN memory[p][k] ELSE NoEntry]
  <2>1. entries \in Batches  BY DEF CacheInv, CacheSafe, TypeOK, Contents, Batches
  <2>2. Begin(j, p, entries, "wait")  BY <1>2 DEF Save
  <2> HIDE DEF entries
  <2> QED  BY <2>1, <2>2, BeginKeeps DEF Begin
<1>3. ASSUME NEW k \in Keys, Remove(j, p, k) PROVE CacheInv' /\ UNCHANGED <<memory, store>>
  <2>1. [Nothing EXCEPT ![k] = Delete] \in Batches  BY DEF Nothing, Batches
  <2> QED  BY <1>3, <2>1, BeginKeeps DEF Remove, Begin
<1> QED  BY <1>1, <1>2, <1>3

\* A thread that ends gives the lock back, if it had it; nobody else had read
\* the store that it may have replaced.
LEMMA ReleaseKeeps ==
    ASSUME CacheInv, NEW j \in Jobs, Release(j), UNCHANGED owner, temps' = temps \ {j},
           UNCHANGED store \/ pc[j] = "commit"
    PROVE  /\ pc' \in [Jobs -> {"free", "wait", "read", "write", "commit", "load", "loaded"}]
           /\ owner' \in [Jobs -> Procs] /\ batch' \in [Jobs -> Batches] /\ document' \in [Jobs -> Contents]
           /\ lock' \subseteq Jobs /\ temps' \subseteq Jobs
           /\ OneWriter' /\ Snapshots' /\ \A i \in temps' : pc'[i] = "commit"
<1> USE DEF CacheInv, CacheSafe, Release
<1>1. /\ pc' \in [Jobs -> {"free", "wait", "read", "write", "commit", "load", "loaded"}]
      /\ owner' \in [Jobs -> Procs] /\ batch' \in [Jobs -> Batches] /\ document' \in [Jobs -> Contents]
      /\ lock' \subseteq Jobs /\ temps' \subseteq Jobs
  BY NothingTypes DEF TypeOK
<1>2. OneWriter'  BY DEF OneWriter, TypeOK
<1>3. Snapshots' /\ \A i \in temps' : pc'[i] = "commit"  BY DEF Snapshots, TypeOK, NoLitter
<1> QED  BY <1>1, <1>2, <1>3

\* The steps of a thread that leave the memories and the store as they are.
LEMMA QuietJob ==
    ASSUME CacheInv, NEW j \in Jobs,
           Acquire(j) \/ AcquireTimeout(j) \/ ReadStore(j) \/ WriteTemp(j) \/ ReadEntries(j)
    PROVE  CacheInv' /\ UNCHANGED <<memory, store>>
<1> USE DEF CacheInv, CacheSafe, Keep
<1>1. UNCHANGED <<backend, memory, store, owner, litter, updates, begun, crashes>>
  BY DEF Acquire, AcquireTimeout, ReadStore, WriteTemp, ReadEntries
<1>2. OwnVersions'  BY <1>1 DEF OwnVersions
<1>3. ASSUME Release(j), UNCHANGED temps, pc[j] # "commit" PROVE CacheInv'
  <2>1. temps' = temps \ {j}  BY <1>3 DEF NoLitter, TypeOK
  <2>2. NoLitter'  BY <1>1, <1>3, <2>1, ReleaseKeeps DEF NoLitter
  <2>3. TypeOK'  BY <1>1, <1>3, <2>1, ReleaseKeeps DEF TypeOK
  <2> QED  BY <1>1, <1>2, <1>3, <2>1, <2>2, <2>3, ReleaseKeeps
<1>4. CASE Acquire(j)
  <2>1. TypeOK'  BY <1>1, <1>4 DEF Acquire, TypeOK
  <2>2. OneWriter'  BY <1>4 DEF Acquire, OneWriter, TypeOK
  <2>3. NoLitter' /\ Snapshots'  BY <1>1, <1>4 DEF Acquire, NoLitter, Snapshots, TypeOK
  <2> QED  BY <1>1, <1>2, <2>1, <2>2, <2>3
<1>5. CASE AcquireTimeout(j)  BY <1>1, <1>3, <1>5 DEF AcquireTimeout
<1>6. CASE ReadStore(j)
  <2>1. CASE Release(j)  BY <1>1, <1>3, <1>6, <2>1 DEF ReadStore
  <2>2. CASE /\ document' = [document EXCEPT ![j] = Merged(store, batch[j])]
             /\ pc' = [pc EXCEPT ![j] = IF backend = "json" THEN "write" ELSE "commit"]
             /\ UNCHANGED <<batch, lock, temps>>
    <3>1. Merged(store, batch[j]) \in Contents  BY MergedKeeps DEF TypeOK
    <3>2. TypeOK'  BY <1>1, <2>2, <3>1 DEF TypeOK
    <3>3. OneWriter'  BY <1>1, <1>6, <2>2 DEF ReadStore, OneWriter, TypeOK
    <3>4. NoLitter' /\ Snapshots'  BY <1>1, <1>6, <2>2 DEF ReadStore, NoLitter, Snapshots, TypeOK
    <3> QED  BY <1>1, <1>2, <3>2, <3>3, <3>4
  <2> QED  BY <1>6, <2>1, <2>2 DEF ReadStore
<1>7. CASE WriteTemp(j)
  <2>1. CASE Release(j) /\ UNCHANGED temps  BY <1>1, <1>3, <1>7, <2>1 DEF WriteTemp
  <2>2. CASE pc' = [pc EXCEPT ![j] = "commit"] /\ temps' = temps \union {j} /\ Unmoved(j)
    <3>1. TypeOK'  BY <1>1, <2>2 DEF TypeOK, Unmoved
    <3>2. OneWriter'  BY <1>1, <1>7, <2>2 DEF WriteTemp, OneWriter, TypeOK, Unmoved
    <3>3. NoLitter' /\ Snapshots'  BY <1>1, <1>7, <2>2 DEF WriteTemp, NoLitter, Snapshots, TypeOK, Unmoved
    <3> QED  BY <1>1, <1>2, <3>1, <3>2, <3>3
  <2> QED  BY <1>7, <2>1, <2>2 DEF WriteTemp
<1>8. CASE ReadEntries(j)
  <2>1. TypeOK'  BY <1>1, <1>8, NothingTypes DEF ReadEntries, TypeOK
  <2>2. OneWriter'  BY <1>8 DEF ReadEntries, OneWriter, TypeOK
  <2>3. NoLitter' /\ Snapshots'  BY <1>8 DEF ReadEntries, NoLitter, Snapshots, TypeOK
  <2> QED  BY <1>1, <1>2, <2>1, <2>2, <2>3
<1> QED  BY <1>1, <1>4, <1>5, <1>6, <1>7, <1>8

\* os.replace or COMMIT: the store becomes the batch of the writer on top of the
\* store as it is at this moment.
LEMMA CommitKeeps ==
    ASSUME CacheInv, NEW j \in Jobs, Commit(j)
    PROVE  CacheInv' /\ UNCHANGED memory /\ (UNCHANGED store \/ store' = Merged(store, batch[j]))
<1> USE DEF CacheInv, CacheSafe, Commit, Keep
<1>1. UNCHANGED store \/ store' = Merged(store, batch[j])  BY DEF OneWriter
<1>2. store' \in Contents  BY <1>1, MergedKeeps DEF TypeOK
<1>3. TypeOK'  BY <1>2, ReleaseKeeps DEF TypeOK
<1>4. NoLitter'  BY ReleaseKeeps DEF NoLitter
<1>5. OwnVersions'  BY DEF OwnVersions
<1> QED  BY <1>1, <1>3, <1>4, <1>5, ReleaseKeeps

\* The end of load: entries of another version are dropped and newer ones in
\* memory stay.
LEMMA LoadedKeeps ==
    ASSUME CacheInv, NEW j \in Jobs, Loaded(j)
    PROVE  /\ CacheInv' /\ UNCHANGED store
           /\ \A q \in Procs, k \in Keys : memory'[q][k] # NoEntry => memory'[q][k].at >= memory[q][k].at
<1> USE DEF CacheInv, CacheSafe, Loaded
<1> DEFINE p == owner[j]
           found == Compatible(p, batch[j])
<1>1. p \in Procs /\ memory[p] \in Contents /\ batch[j] \in Contents  BY DEF TypeOK, Snapshots
<1>2. memory' = [memory EXCEPT ![p] = Merge(memory[p], found)]  OBVIOUS
<1>3. found \in Contents /\ \A k \in Keys : found[k] # NoEntry => found[k].version = Version[p]
  BY <1>1, CompatibleKeeps
<1> HIDE DEF p, found
<1>4. \A k \in Keys : Merge(memory[p], found)[k] \in {memory[p][k], found[k]}  BY DEF Merge
<1>5. temps' = temps \ {j}  BY DEF NoLitter
<1>6. OneWriter' /\ NoLitter' /\ Snapshots'  BY <1>5, ReleaseKeeps DEF NoLitter
<1>7. memory' \in [Procs -> Contents]  BY <1>1, <1>2, <1>3, MergeKeeps DEF TypeOK
<1>8. TypeOK'  BY <1>5, <1>7, ReleaseKeeps DEF TypeOK
<1>9. OwnVersions'  BY <1>1, <1>2, <1>3, <1>4 DEF OwnVersions, TypeOK
<1>10. \A q \in Procs, k \in Keys : memory'[q][k] # NoEntry => memory'[q][k].at >= memory[q][k].at
  BY <1>1, <1>2, <1>3, MergeKeeps, EntryTimes, SMTT(30) DEF TypeOK, Contents
<1> QED  BY <1>6, <1>8, <1>9, <1>10

\* A controller that is killed takes its threads, its lock and its memory with
\* it; only its temporary file may stay.
LEMMA CrashKeeps ==
    ASSUME CacheInv, NEW p \in Procs, Crash(p)
    PROVE  /\ CacheInv' /\ UNCHANGED store
           /\ \A q \in Procs, k \in Keys : memory'[q][k] # NoEntry => memory'[q][k].at >= memory[q][k].at
<1> USE DEF CacheInv, CacheSafe
<1> DEFINE mine == {j \in Jobs : pc[j] # "free" /\ owner[j] = p}
<1>1. /\ pc' = [j \in Jobs |-> IF j \in mine THEN "free" ELSE pc[j]]
      /\ batch' = [j \in Jobs |-> IF j \in mine THEN Nothing ELSE batch[j]]
      /\ document' = [j \in Jobs |-> IF j \in mine THEN Nothing ELSE document[j]]
      /\ lock' = lock \ mine /\ temps' = temps \ mine
      /\ litter' = (litter \/ (backend = "json" /\ temps \intersect mine # {}))
      /\ memory' = [memory EXCEPT ![p] = Nothing] /\ crashes' = crashes + 1
      /\ UNCHANGED <<backend, store, owner, updates, begun>>
  BY DEF Crash
<1> HIDE DEF mine
<1>2. crashes' \in Nat /\ crashes' > 0  BY <1>1 DEF TypeOK
<1>3. litter' \in BOOLEAN  BY <1>1 DEF TypeOK
<1>4. TypeOK'  BY <1>1, <1>2, <1>3, NothingTypes DEF TypeOK
<1>5. OneWriter'  BY <1>1 DEF OneWriter, TypeOK
<1>6. OwnVersions'  BY <1>1 DEF OwnVersions, TypeOK, Nothing
<1>7. NoLitter' /\ Snapshots'  BY <1>1, <1>2 DEF NoLitter, Snapshots, TypeOK
<1>8. \A q \in Procs, k \in Keys : memory'[q][k] # NoEntry => memory'[q][k].at >= memory[q][k].at
  BY <1>1, EntryTimes DEF TypeOK, Contents, Nothing
<1> QED  BY <1>1, <1>4, <1>5, <1>6, <1>7, <1>8

-----------------------------------------------------------------------------
(* Theorems                                                                 *)

\* A step replaces the store by a batch on top of it, or leaves it alone.
StoreStep == store' = store \/ \E j \in Jobs : store' = Merged(store, batch[j])

\* A step brings no older value into a memory.
MemoryStep ==
    memory' = memory \/
    \A q \in Procs, k \in Keys : memory'[q][k] # NoEntry => memory'[q][k].at >= memory[q][k].at

\* Every step keeps the invariant and the contract.
LEMMA CacheNext == CacheInv /\ [Next]_vars => CacheInv' /\ StoreStep /\ MemoryStep
<1> SUFFICES ASSUME CacheInv, [Next]_vars PROVE CacheInv' /\ StoreStep /\ MemoryStep  OBVIOUS
<1> USE DEF StoreStep, MemoryStep
<1>1. ASSUME NEW p \in Procs, NEW K \in SUBSET Keys \ {{}},
             Invalidate(p, K) \/ \E t \in Times : Update(p, K, t)
      PROVE  CacheInv' /\ StoreStep /\ MemoryStep
  <2>1. store' = store  BY <1>1 DEF Invalidate, Update
  <2> QED  BY <1>1, <2>1, UseMemory
<1>2. ASSUME NEW j \in Jobs, NEW p \in Procs,
             Load(j, p) \/ (\E K \in SUBSET Keys \ {{}} : Save(j, p, K)) \/ (\E k \in Keys : Remove(j, p, k))
      PROVE  CacheInv' /\ StoreStep /\ MemoryStep
  BY <1>2, UseBackend
<1>3. ASSUME NEW j \in Jobs, JobStep(j) PROVE CacheInv' /\ StoreStep /\ MemoryStep
  BY <1>3, QuietJob, CommitKeeps, LoadedKeeps DEF JobStep
<1>4. ASSUME NEW p \in Procs, Crash(p) PROVE CacheInv' /\ StoreStep /\ MemoryStep
  BY <1>4, CrashKeeps
<1>5. CASE UNCHANGED vars
  <2>1. CacheInv'
    BY <1>5 DEF vars, CacheInv, CacheSafe, TypeOK, OneWriter, OwnVersions, NoLitter, Snapshots
  <2> QED  BY <1>5, <2>1 DEF vars
<1> QED  BY <1>1, <1>2, <1>3, <1>4, <1>5 DEF Next, Use

\* Writers of a cache exclude each other from their first read to the
\* replacement of the store, a controller holds only values of its own version,
\* and only a killed controller leaves a temporary file, for any number of
\* controllers, threads, keys and crashes (write_entries, load).
THEOREM CacheIsSafe == Spec => []CacheSafe
<1>1. CacheInv => CacheSafe  BY DEF CacheInv
<1> QED  BY <1>1, CacheInit, CacheNext, PTL DEF Spec

\* The contract of CacheBackend: every change of the store is one whole batch
\* on top of the store as it was, and neither the store nor a memory ever goes
\* back to an older collection.
THEOREM CacheKeepsContract == Spec => Contract
<1>1. CacheInv /\ StoreStep => [/\ \E j \in Jobs : store' = Merged(store, batch[j])
                               /\ \A k \in Keys : store'[k] # NoEntry => store'[k].at >= store[k].at]_store
  <2> SUFFICES ASSUME CacheInv, NEW j \in Jobs, store' = Merged(store, batch[j])
               PROVE  \A k \in Keys : store'[k] # NoEntry => store'[k].at >= store[k].at
    BY DEF StoreStep
  <2> QED  BY MergedKeeps DEF CacheInv, CacheSafe, TypeOK
<1>2. MemoryStep => [\A p \in Procs, k \in Keys : memory'[p][k] # NoEntry => memory'[p][k].at >= memory[p][k].at]_memory
  BY DEF MemoryStep
<1> QED  BY <1>1, <1>2, CacheInit, CacheNext, PTL DEF Spec, Contract, StoreForward, MemoryForward

-----------------------------------------------------------------------------
(* FileSync.  Nothing is assumed of its constants, and what blocks, plans   *)
(* and digests are is not looked at: only who has the temporary file.       *)

CONSTANTS SourceSizes, DestSizes, BlockSize, WINDOW, SIGNATURE_BATCH, MaxWrites, LinkMayBreak

VARIABLES
    source, dest, fd, far, link, killed, writes, copyPc, turn, waiting, message, cancelled, finished, outcome,
    life, registered, phase, initial, s, r, temp, torn, installed

Copy == INSTANCE FileSync WITH pc <- copyPc

\* Where the two sessions and their steps can be
Kinds ==
    /\ far \in Copy!Sides /\ turn \in Copy!Sides
    /\ life \in [Copy!Sides -> {"none", "open", "closed"}]
    /\ phase \in [Copy!Sides -> {"idle", "opening", "check", "body", "finish", "sync", "replace", "done", "failed"}]

\* The temporary file belongs to a receiver that is open, and so does a step of the receiver.
Held == temp => life["recv"] = "open"
Attended == Copy!Busy("recv") => life["recv"] = "open"

\* A session is stepped only while the client waits for it; behind a lost connection the far one may
\* still be busy when the client has gone on.
Local == \A x \in Copy!Sides : Copy!Busy(x) /\ (x = far => link) => copyPc = "loop" /\ waiting /\ turn = x

\* An open receiver on the other host is registered, so that somebody will close it, unless its process
\* was killed.
Remote == far = "recv" /\ life["recv"] = "open" => registered \/ killed

\* The client steps an open receiver, or gets its result.
Looping ==
    copyPc = "loop" /\ (far = "recv" => link) =>
        \/ life["recv"] = "open"
        \/ message.kind = "result" /\ phase["recv"] = "done" /\ waiting /\ turn = "recv" /\ far = "recv"

\* An _open that was answered has opened the receiver.
Opening == copyPc = "open" /\ waiting /\ link /\ far = "recv" /\ phase["recv"] = "idle" => life["recv"] = "open"

\* The local session is closed first.
Left == copyPc \in {"close_remote", "returned"} => life[Copy!near] # "open"

TempInv == Kinds /\ Held /\ Attended /\ Local /\ Remote /\ Looping /\ Opening /\ Left

\* No session is open in the beginning.
LEMMA TempInit == Copy!Init => TempInv
  BY DEF Copy!Init, TempInv, Kinds, Held, Attended, Local, Remote, Looping, Opening, Left, Copy!Busy, Copy!Sides, Copy!near

\* Other programs, the connection, the end of the remote process and a cancellation keep the invariant.
LEMMA OutsideKeeps ==
    ASSUME TempInv, Copy!SourceWritten \/ Copy!DestWritten \/ Copy!BreakLink \/ Copy!RemoteKilled \/ Copy!Cancel \/ Copy!RemoteExits
    PROVE  TempInv'
<1> USE DEF TempInv, Kinds, Held, Attended, Local, Remote, Looping, Opening, Left, Copy!Busy, Copy!near, Copy!Sides,
            Copy!fileVars, Copy!clientVars, Copy!sessionVars
<1>1. CASE Copy!SourceWritten  BY <1>1 DEF Copy!SourceWritten
<1>2. CASE Copy!DestWritten  BY <1>2 DEF Copy!DestWritten
<1>3. CASE Copy!BreakLink  BY <1>3 DEF Copy!BreakLink
<1>4. CASE Copy!RemoteKilled  BY <1>4 DEF Copy!RemoteKilled
<1>5. CASE Copy!Cancel  BY <1>5 DEF Copy!Cancel
<1>6. CASE Copy!RemoteExits  BY <1>6 DEF Copy!RemoteExits, Copy!CloseSession
<1> QED  BY <1>1, <1>2, <1>3, <1>4, <1>5, <1>6

\* So do the steps that open the two sessions.
LEMMA OpeningKeeps ==
    ASSUME TempInv, Copy!OpenLocal \/ Copy!CallOpen \/ Copy!OpenRemote \/ Copy!OpenAnswered
    PROVE  TempInv'
<1> USE DEF TempInv, Kinds, Held, Attended, Local, Remote, Looping, Opening, Left, Copy!Busy, Copy!near, Copy!Sides,
            Copy!fileVars, Copy!clientVars, Copy!sessionVars
<1>1. CASE Copy!OpenLocal  BY <1>1 DEF Copy!OpenLocal, Copy!OpenSession, Copy!Opened, Copy!due
<1>2. CASE Copy!CallOpen  BY <1>2 DEF Copy!CallOpen
<1>3. CASE Copy!OpenRemote  BY <1>3 DEF Copy!OpenRemote, Copy!OpenSession
<1>4. CASE Copy!OpenAnswered  BY <1>4 DEF Copy!OpenAnswered
<1> QED  BY <1>1, <1>2, <1>3, <1>4

\* So do the loop of the client and its finally clause.
LEMMA LoopKeeps ==
    ASSUME TempInv, Copy!CallStep \/ Copy!StepAnswered \/ Copy!CloseLocal \/ Copy!CloseRemote
    PROVE  TempInv'
<1> USE DEF TempInv, Kinds, Held, Attended, Local, Remote, Looping, Opening, Left, Copy!Busy, Copy!near, Copy!Sides,
            Copy!fileVars, Copy!clientVars, Copy!sessionVars
<1>1. CASE Copy!CallStep  BY <1>1 DEF Copy!CallStep
<1>2. CASE Copy!StepAnswered
  <2>1. CASE phase[turn] = "done" /\ (turn = far => link) /\ phase' = [phase EXCEPT ![turn] = "idle"]
    <3>1. CASE message.kind = "result"  BY <1>2, <2>1, <3>1 DEF Copy!StepAnswered
    <3>2. CASE message.kind # "result"  BY <1>2, <2>1, <3>2 DEF Copy!StepAnswered
    <3> QED  BY <3>1, <3>2
  <2>2. CASE (phase[turn] = "failed" \/ (turn = far /\ ~link)) /\ copyPc' = "close" /\ UNCHANGED <<phase, turn, finished>>
    BY <1>2, <2>2 DEF Copy!StepAnswered
  <2> QED  BY <1>2, <2>1, <2>2 DEF Copy!StepAnswered
<1>3. CASE Copy!CloseLocal  BY <1>3 DEF Copy!CloseLocal, Copy!CloseSession
<1>4. CASE Copy!CloseRemote
  <2>1. CASE ~link  BY <1>4, <2>1 DEF Copy!CloseRemote, Copy!CloseSession
  <2>2. CASE ~registered  BY <1>4, <2>2 DEF Copy!CloseRemote, Copy!CloseSession
  <2>3. CASE link /\ registered  BY <1>4, <2>3 DEF Copy!CloseRemote, Copy!CloseSession
  <2> QED  BY <2>1, <2>2, <2>3
<1> QED  BY <1>1, <1>2, <1>3, <1>4

\* So does a step of either session.
LEMMA StepKeeps ==
    ASSUME TempInv, NEW x \in Copy!Sides, Copy!Step(x)
    PROVE  TempInv'
<1> USE DEF TempInv, Kinds, Held, Attended, Local, Remote, Looping, Opening, Left, Copy!Busy, Copy!near, Copy!Sides,
            Copy!fileVars, Copy!clientVars, Copy!sessionVars
<1>1. CASE Copy!Check(x)  BY <1>1 DEF Copy!Check
<1>2. CASE Copy!SendStep  BY <1>2 DEF Copy!SendStep, Copy!ClosesItself, Copy!CloseSession
<1>3. CASE Copy!ReceiveStep
  <2>1. /\ phase["recv"] = "body" /\ \E p \in {"finish", "done", "failed"} : phase' = [phase EXCEPT !["recv"] = p]
        /\ UNCHANGED <<copyPc, turn, waiting, life, registered, far, link, killed>>
    BY <1>3 DEF Copy!ReceiveStep
  <2> QED  BY <2>1
<1>4. CASE Copy!Finish
  <2>1. /\ phase["recv"] = "finish" /\ UNCHANGED <<copyPc, turn, waiting, far, link, killed>>
        /\ \/ /\ phase' = [phase EXCEPT !["recv"] = "failed"] \/ phase' = [phase EXCEPT !["recv"] = "sync"]
              /\ UNCHANGED <<life, registered>>
           \/ /\ phase' = [phase EXCEPT !["recv"] = "done"] /\ message'.kind = "result"
              /\ Copy!ClosesItself("recv")
    BY <1>4 DEF Copy!Finish, Copy!Result
  <2>2. CASE UNCHANGED <<life, registered>>  BY <2>1, <2>2
  <2>3. CASE /\ phase' = [phase EXCEPT !["recv"] = "done"] /\ message'.kind = "result" /\ far = "recv"
             /\ registered' = FALSE /\ life' = [life EXCEPT !["recv"] = "closed"] /\ ~temp'
    BY <2>1, <2>3
  <2> QED  BY <2>1, <2>2, <2>3 DEF Copy!ClosesItself, Copy!CloseSession
<1>5. CASE Copy!Sync  BY <1>5 DEF Copy!Sync
<1>6. CASE Copy!Replace  BY <1>6 DEF Copy!Replace, Copy!Result
<1> QED  BY <1>1, <1>2, <1>3, <1>4, <1>5, <1>6 DEF Copy!Step

\* Every step of a transfer keeps the invariant.
LEMMA TempNext == TempInv /\ [Copy!Next]_(Copy!vars) => TempInv'
<1> SUFFICES ASSUME TempInv, [Copy!Next]_(Copy!vars) PROVE TempInv'  OBVIOUS
<1>1. CASE UNCHANGED Copy!vars
  BY <1>1 DEF Copy!vars, Copy!fileVars, Copy!clientVars, Copy!sessionVars, TempInv, Kinds, Held, Attended, Local, Remote,
              Looping, Opening, Left, Copy!Busy, Copy!near
<1> QED  BY <1>1, OutsideKeeps, OpeningKeeps, LoopKeeps, StepKeeps DEF Copy!Next, Copy!Client, Copy!Others

\* No temporary file stays behind a transfer that has returned, once the remote process has noticed, in
\* either direction and whatever is written, cancelled, lost or fails; only a kill of that process leaves
\* one (Session.close, FileSync.transfer, _cleanup).
THEOREM NoFileLeft == Copy!Spec => []Copy!NothingLeft
<1>1. TempInv => Copy!NothingLeft
  BY DEF TempInv, Kinds, Held, Remote, Left, Copy!NothingLeft, Copy!near, Copy!Sides
<1> QED  BY <1>1, TempInit, TempNext, PTL DEF Copy!Spec

-----------------------------------------------------------------------------
(* Rsync                                                                    *)

CONSTANTS Paths, Root, Parent, Cases, Concurrency, MaxRuns, MaxFaults, MaxCancels

VARIABLES job, dst, stage, walks, tasks, changed, before, cause, hasty, faults, cancels, runs

Tree == INSTANCE Rsync

USE DEF Tree!counters

\* What a scan finds at a path
IsEntry(e) == e = Tree!Entry(e.kind, e.data, e.mode, e.owner) /\ e.kind \in {"absent", "file", "dir", "link", "special"}

\* The destination is a tree.
TreeOK == dst = [p \in Paths |-> dst[p]] /\ (\A p \in Paths : IsEntry(dst[p])) /\ changed \in BOOLEAN

\* No change goes unnoticed.
Noticed == dst # before => changed

\* The walks are a stack, and each is somewhere.
IsWalk(w) == "at" \in DOMAIN w
Stack == \E S : walks \in Seq(S) /\ \A w \in S : IsWalk(w)

\* The first walk removes nothing and sets no mode of a directory; the second starts no task.
Fits(at) == (stage = "first" => at \notin {"delete", "mode"}) /\ (stage = "second" => at \notin {"items", "own"})
Places == \A i \in 1..Len(walks) : Fits(walks[i].at)

\* The tasks of the window are counted.
Window == DOMAIN tasks \subseteq Paths /\ IsFiniteSet(DOMAIN tasks) /\ Cardinality(DOMAIN tasks) <= Concurrency

\* No task runs outside the first walk, unless the wait for them was cut short.
Quiescent == (stage \in {"idle", "second", "done"} \/ (stage = "failed" /\ ~hasty)) => Tree!Running = {}

Counts ==
    /\ stage \in {"idle", "first", "reap", "second", "stopping", "done", "failed"}
    /\ faults \in 0..MaxFaults /\ cancels \in 0..MaxCancels /\ runs \in 0..MaxRuns

RsyncInv == TreeOK /\ Noticed /\ Stack /\ Places /\ Window /\ Quiescent /\ Counts

\* A part of RsyncSafe, with the half of its HonestResult that matters: what a transfer that has ended has left
\* running, and that it reports a change.
Disciplined ==
    /\ Tree!TypeOK /\ Cardinality(Tree!Running) <= Concurrency /\ Tree!Settled
    /\ stage = "done" /\ ~changed => dst = before

\* The action of Tree!RemovesAlone
RemovalAlone ==
    (\E p \in Paths : dst[p].kind # "absent" /\ dst'[p].kind = "absent") => stage = "second" /\ Tree!Running = {}

\* The instance counts as this module does.
LEMMA SameCount == \A S : Tree!Cardinality(S) = Cardinality(S)
  BY DEF Tree!Cardinality, Cardinality

\* An empty window has room.
LEMMA EmptyWindow ==
    ASSUME Tree!WellFormed, NEW f, DOMAIN f = {}
    PROVE  DOMAIN f \subseteq Paths /\ IsFiniteSet(DOMAIN f) /\ Cardinality(DOMAIN f) <= Concurrency
  BY FS_EmptySet DEF Tree!WellFormed

\* Nothing is walked and no task runs before the first transfer.
LEMMA RsyncInit == Tree!WellFormed /\ Tree!Init => RsyncInv
<1> SUFFICES ASSUME Tree!WellFormed, Tree!Init PROVE RsyncInv  OBVIOUS
<1>1. TreeOK
  <2>1. Tree!IsTree(dst) /\ changed = FALSE  BY DEF Tree!WellFormed, Tree!Init
  <2>2. ASSUME NEW p \in Paths PROVE IsEntry(dst[p])  BY <2>1 DEF Tree!IsTree, IsEntry
  <2>3. dst = [p \in Paths |-> dst[p]]  BY <2>1 DEF Tree!IsTree
  <2> QED  BY <2>1, <2>2, <2>3 DEF TreeOK
<1>2. Window /\ Tree!Running = {}
  <2>1. DOMAIN tasks = {}  BY DEF Tree!Init
  <2> QED  BY <2>1, EmptyWindow DEF Window, Tree!Running
<1>3. Counts /\ Noticed  BY DEF Tree!WellFormed, Tree!Init, Counts, Noticed
<1>4. Stack /\ Places
  <2>1. walks \in Seq({}) /\ Len(walks) = 0  BY DEF Tree!Init
  <2>2. \A w \in {} : IsWalk(w)  OBVIOUS
  <2>3. \E S : walks \in Seq(S) /\ \A w \in S : IsWalk(w)
    <3> WITNESS {}
    <3> QED  BY <2>1, <2>2
  <2>4. Places  BY <2>1 DEF Places
  <2> QED  BY <2>3, <2>4 DEF Stack
<1> QED  BY <1>1, <1>2, <1>3, <1>4 DEF RsyncInv, Quiescent

\* An entry that may be put: it is one, and it does not remove.
Soft(p, entry) == p \in Paths => IsEntry(entry) /\ (entry.kind = "absent" => dst[p].kind = "absent")

\* A call that puts an entry keeps the tree a tree, and is counted if it changes it.
LEMMA PutKeeps ==
    ASSUME TreeOK, Noticed, UNCHANGED before, NEW p, NEW entry, p \in Paths => IsEntry(entry), Tree!Put(p, entry)
    PROVE  TreeOK' /\ Noticed' /\ (Soft(p, entry) => RemovalAlone)
<1>0. dst' = [dst EXCEPT ![p] = entry] /\ changed' = (changed \/ dst[p] # entry)  BY DEF Tree!Put
<1>1. dst' = [x \in Paths |-> IF x = p THEN entry ELSE dst[x]]  BY <1>0 DEF TreeOK
<1>2. TreeOK'  BY <1>0, <1>1 DEF TreeOK
<1>3. Soft(p, entry) => RemovalAlone  BY <1>1 DEF Soft, RemovalAlone
<1>4. CASE p \notin Paths \/ dst[p] = entry
  <2>1. dst' = dst  BY <1>1, <1>4 DEF TreeOK
  <2> QED  BY <1>0, <1>2, <1>3, <2>1 DEF Noticed
<1> QED  BY <1>0, <1>2, <1>3, <1>4 DEF Noticed

\* The entries that the calls put.
LEMMA EntryTypes ==
    ASSUME TreeOK
    PROVE  /\ \A p : Soft(p, dst[p]) /\ Soft(p, Tree!Owned(dst[p])) /\ Soft(p, Tree!Moded(p)) /\ Soft(p, Tree!Synced(p))
           /\ \A p, data, mode : \A kind \in {"file", "dir", "link"} : Soft(p, Tree!Entry(kind, data, mode, "root"))
           /\ IsEntry(Tree!Absent)
<1>1. ASSUME NEW p \in Paths PROVE Soft(p, dst[p]) /\ Soft(p, Tree!Owned(dst[p])) /\ Soft(p, Tree!Moded(p)) /\ Soft(p, Tree!Synced(p))
  <2>1. IsEntry(dst[p])  BY DEF TreeOK
  <2>2. Soft(p, Tree!Owned(dst[p]))  BY <2>1 DEF Soft, Tree!Owned, IsEntry, Tree!Entry
  <2>3. Soft(p, Tree!Moded(p))  BY <2>1 DEF Soft, Tree!Moded, IsEntry, Tree!Entry
  <2>4. Soft(p, Tree!Synced(p))  BY <2>1 DEF Soft, Tree!Synced, IsEntry, Tree!Entry
  <2> QED  BY <2>1, <2>2, <2>3, <2>4 DEF Soft
<1>2. IsEntry(Tree!Absent) /\ \A data, mode : \A kind \in {"file", "dir", "link"} :
          IsEntry(Tree!Entry(kind, data, mode, "root")) /\ Tree!Entry(kind, data, mode, "root").kind = kind
  BY DEF IsEntry, Tree!Entry, Tree!Absent
<1> QED  BY <1>1, <1>2 DEF Soft

\* A call that puts such an entry
LEMMA SoftKeeps ==
    ASSUME TreeOK, Noticed, UNCHANGED before, NEW p, NEW entry, Soft(p, entry), Tree!Put(p, entry)
    PROVE  TreeOK' /\ Noticed' /\ RemovalAlone
  BY PutKeeps DEF Soft

\* A step that leaves the tree alone
LEMMA QuietKeeps ==
    ASSUME TreeOK, Noticed, UNCHANGED <<dst, changed, before>>
    PROVE  TreeOK' /\ Noticed' /\ RemovalAlone
  BY DEF TreeOK, Noticed, RemovalAlone

\* A window that does not grow
LEMMA FewerTasks ==
    ASSUME Tree!WellFormed, Window, DOMAIN tasks' \subseteq DOMAIN tasks
    PROVE  Window'
<1>1. IsFiniteSet(DOMAIN tasks') /\ Cardinality(DOMAIN tasks') <= Cardinality(DOMAIN tasks)  BY FS_Subset DEF Window
<1>2. Cardinality(DOMAIN tasks') \in Nat /\ Cardinality(DOMAIN tasks) \in Nat  BY <1>1, FS_CardinalityType DEF Window
<1> QED  BY <1>1, <1>2 DEF Tree!WellFormed, Window

\* A walk that begins
LEMMA WalkType == \A d, at : IsWalk(Tree!Walk(d, at)) /\ Tree!Walk(d, at).at = at
  BY DEF Tree!Walk, IsWalk

\* The walk on top
LEMMA TopType ==
    ASSUME Stack, walks # <<>>
    PROVE  IsWalk(Tree!Top) /\ Len(walks) \in Nat \ {0} /\ Tree!Top = walks[Len(walks)]
<1> PICK S : walks \in Seq(S) /\ \A w \in S : IsWalk(w)  BY DEF Stack
<1> QED  BY DEF Tree!Top

\* A step of the walk on top keeps the stack.
LEMMA SetKeeps ==
    ASSUME Stack, Places, walks # <<>>, NEW w, IsWalk(w), Tree!Set(w), UNCHANGED stage, Fits(w.at)
    PROVE  Stack' /\ Places'
<1> PICK S : walks \in Seq(S) /\ \A v \in S : IsWalk(v)  BY DEF Stack
<1>1. walks' = [walks EXCEPT ![Len(walks)] = w] /\ walks \in Seq(S \union {w})  BY DEF Tree!Set
<1>2. walks' \in Seq(S \union {w}) /\ Len(walks') = Len(walks)  BY <1>1
<1>3. Stack'
  <2>1. \A v \in S \union {w} : IsWalk(v)  OBVIOUS
  <2> QED  BY <1>2, <2>1 DEF Stack
<1>4. Len(walks) \in Nat \ {0}  BY TopType
<1>5. walks'[Len(walks)] = w /\ \A i \in 1..(Len(walks) - 1) : walks'[i] = walks[i]  BY <1>1, <1>4
<1>6. ASSUME NEW i \in 1..Len(walks) PROVE Fits(walks'[i].at)
  <2>1. CASE i = Len(walks)  BY <1>5, <2>1
  <2>2. CASE i # Len(walks)
    <3>1. i \in 1..(Len(walks) - 1)  BY <1>4, <2>2
    <3> QED  BY <1>5, <3>1 DEF Places
  <2> QED  BY <2>1, <2>2
<1> QED  BY <1>2, <1>3, <1>6 DEF Places, Fits

\* An exception ends the walks.
LEMMA RaiseKeeps ==
    ASSUME NEW why, Tree!Raise(why)
    PROVE  Stack' /\ Places' /\ stage' = "stopping"
<1>1. walks' \in Seq({}) /\ stage' = "stopping"  BY DEF Tree!Raise
<1> QED  BY <1>1 DEF Stack, Places, Fits

\* A walk returns to the one that called it.
LEMMA ReturnKeeps ==
    ASSUME Stack, Places, walks # <<>>, Tree!Return, stage' = stage \/ stage' \notin {"first", "second"}
    PROVE  Stack' /\ Places'
<1> PICK S : walks \in Seq(S) /\ \A v \in S : IsWalk(v)  BY DEF Stack
<1>1. Len(walks) \in Nat \ {0} /\ walks' = SubSeq(walks, 1, Len(walks) - 1)  BY TopType DEF Tree!Return
<1>2. walks' \in Seq(S) /\ Len(walks') = Len(walks) - 1 /\ \A i \in 1..(Len(walks) - 1) : walks'[i] = walks[i]
  <2>1. \A i \in 1..(Len(walks) - 1) : walks[i] \in S  BY <1>1
  <2>2. /\ walks' \in Seq(S) /\ Len(walks') = (IF 1 <= Len(walks) - 1 THEN Len(walks) - 1 - 1 + 1 ELSE 0)
        /\ \A i \in 1..(Len(walks) - 1 - 1 + 1) : walks'[i] = walks[1 + i - 1]
    BY <1>1, <2>1, SubSeqProperties
  <2>3. Len(walks) - 1 - 1 + 1 = Len(walks) - 1 /\ \A i \in 1..(Len(walks) - 1) : 1 + i - 1 = i  BY <1>1
  <2> QED  BY <1>1, <2>2, <2>3
<1>3. Stack'  BY <1>2 DEF Stack
<1>4. ASSUME NEW i \in 1..Len(walks') PROVE Fits(walks[i].at)  BY <1>1, <1>2 DEF Places
<1> QED  BY <1>2, <1>3, <1>4 DEF Places, Fits

\* What a step of the coordinator may do to where it is and to the window
Onward ==
    /\ UNCHANGED tasks
    /\ stage' = stage \/ stage' \in {"reap", "stopping"} \/ (stage' = "done" /\ stage = "second")

\* Such a step keeps the window, and no task runs where none may.
LEMMA OnwardKeeps ==
    ASSUME Window, Counts, Quiescent, Onward, UNCHANGED <<hasty, Tree!counters>>
    PROVE  Window' /\ Counts' /\ Quiescent'
<1>1. Window' /\ Tree!Running' = Tree!Running  BY DEF Onward, Window, Tree!Running
<1> QED  BY <1>1 DEF Onward, Counts, Quiescent

\* A walk with other fields
LEMMA WalkFields ==
    ASSUME NEW w, IsWalk(w)
    PROVE  /\ \A at : IsWalk([w EXCEPT !.at = at]) /\ [w EXCEPT !.at = at].at = at
           /\ \A seen : IsWalk([w EXCEPT !.seen = seen])
           /\ \A todo : IsWalk([w EXCEPT !.todo = todo]) /\ [w EXCEPT !.todo = todo].at = w.at
           /\ \A at, todo : IsWalk([w EXCEPT !.at = at, !.todo = todo]) /\ [w EXCEPT !.at = at, !.todo = todo].at = at
           /\ \A at, item : IsWalk([w EXCEPT !.at = at, !.item = item]) /\ [w EXCEPT !.at = at, !.item = item].at = at
           /\ \A at, todo, item : /\ IsWalk([w EXCEPT !.at = at, !.todo = todo, !.item = item])
                                  /\ [w EXCEPT !.at = at, !.todo = todo, !.item = item].at = at
  BY DEF IsWalk

\* A directory is made, or is there.
LEMMA MkDirKeeps == ASSUME Tree!WellFormed, RsyncInv, Tree!MkDir PROVE RsyncInv' /\ RemovalAlone
<1> USE DEF RsyncInv
<1>1. walks # <<>> /\ UNCHANGED <<tasks, before, hasty, Tree!counters>>  BY DEF Tree!MkDir, Tree!At
<1> DEFINE w == [Tree!Top EXCEPT !.at = "scan"]
<1>2. IsWalk(w) /\ w.at = "scan"  BY <1>1, TopType, WalkFields
<1> HIDE DEF w
<1>3. CASE Tree!Set(w) /\ UNCHANGED <<dst, changed, stage>>
  BY <1>1, <1>2, <1>3, SetKeeps, QuietKeeps, OnwardKeeps DEF Onward, Fits
<1>4. CASE Tree!Set(w) /\ Tree!Put(Tree!Top.dir, Tree!Entry("dir", "", "700", "root")) /\ UNCHANGED stage
  <2>1. TreeOK' /\ Noticed' /\ RemovalAlone  BY <1>1, <1>4, EntryTypes, SoftKeeps
  <2> QED  BY <1>1, <1>2, <1>4, <2>1, SetKeeps, OnwardKeeps DEF Onward, Fits
<1>5. CASE Tree!Raise("conflict") /\ UNCHANGED <<dst, changed>>
  BY <1>1, <1>5, RaiseKeeps, QuietKeeps, OnwardKeeps DEF Onward
<1> QED  BY <1>3, <1>4, <1>5 DEF Tree!MkDir, w

\* The destination is scanned.
LEMMA ScanKeeps == ASSUME Tree!WellFormed, RsyncInv, Tree!Scan PROVE RsyncInv' /\ RemovalAlone
<1> USE DEF RsyncInv
<1>1. walks # <<>> /\ stage \in {"first", "second"} /\ UNCHANGED <<tasks, before, hasty, Tree!counters, dst, changed>>
  BY DEF Tree!Scan, Tree!At
<1>2. TreeOK' /\ Noticed' /\ RemovalAlone  BY <1>1, QuietKeeps
<1>3. CASE Tree!Raise("conflict")  BY <1>1, <1>2, <1>3, RaiseKeeps, OnwardKeeps DEF Onward
<1>4. CASE ~Tree!Raise("conflict")
  <2> DEFINE w == [Tree!Top EXCEPT !.seen = [p \in Tree!Children(dst, Tree!Top.dir) |-> dst[p]]]
             v == IF stage = "first" THEN [w EXCEPT !.at = "items", !.todo = Tree!OfKind(w, {"file", "link"})]
                  ELSE [w EXCEPT !.at = "dirs", !.todo = Tree!OfKind(w, {"dir"})]
  <2>1. Tree!Set(v) /\ UNCHANGED stage  BY <1>4 DEF Tree!Scan
  <2>2. IsWalk(w)  BY <1>1, TopType, WalkFields
  <2> HIDE DEF w
  <2>3. IsWalk(v) /\ v.at = IF stage = "first" THEN "items" ELSE "dirs"  BY <2>2 DEF IsWalk
  <2> HIDE DEF v
  <2> QED  BY <1>1, <1>2, <2>1, <2>3, SetKeeps, OnwardKeeps DEF Onward, Fits
<1> QED  BY <1>3, <1>4

\* A link is made.
LEMMA LinkKeeps == ASSUME Tree!WellFormed, RsyncInv, NEW p \in Paths, Tree!Link(p) PROVE RsyncInv' /\ RemovalAlone
<1> USE DEF RsyncInv
<1>1. walks # <<>> /\ Tree!Top.at = "items" /\ UNCHANGED <<tasks, before, hasty, Tree!counters>>  BY DEF Tree!Link, Tree!At
<1> DEFINE w == [Tree!Top EXCEPT !.at = "own", !.item = p]
<1>2. IsWalk(w) /\ w.at = "own" /\ stage # "second"
  <2>1. Fits(Tree!Top.at)  BY <1>1, TopType DEF Places
  <2> QED  BY <1>1, <2>1, TopType, WalkFields DEF Fits
<1> HIDE DEF w
<1>3. CASE Tree!Set(w) /\ UNCHANGED <<dst, changed, stage>>
  BY <1>1, <1>2, <1>3, SetKeeps, QuietKeeps, OnwardKeeps DEF Onward, Fits
<1>4. CASE Tree!Set(w) /\ Tree!Put(p, Tree!Entry("link", job.src[p].data, "", "root")) /\ UNCHANGED stage
  <2>1. TreeOK' /\ Noticed' /\ RemovalAlone  BY <1>1, <1>4, EntryTypes, SoftKeeps
  <2> QED  BY <1>1, <1>2, <1>4, <2>1, SetKeeps, OnwardKeeps DEF Onward, Fits
<1>5. CASE Tree!Raise("refused") /\ UNCHANGED <<dst, changed>>
  BY <1>1, <1>5, RaiseKeeps, QuietKeeps, OnwardKeeps DEF Onward
<1> QED  BY <1>3, <1>4, <1>5 DEF Tree!Link, w

\* A link gets its owner.
LEMMA OwnLinkKeeps == ASSUME Tree!WellFormed, RsyncInv, NEW p \in Paths, Tree!OwnLink(p) PROVE RsyncInv' /\ RemovalAlone
<1> USE DEF RsyncInv
<1>1. walks # <<>> /\ Tree!Top.at = "own" /\ UNCHANGED <<tasks, stage, before, hasty, Tree!counters>>
      /\ Tree!Put(p, Tree!Owned(dst[p]))
  BY DEF Tree!OwnLink, Tree!At
<1> DEFINE w == [Tree!Top EXCEPT !.at = "items", !.todo = Tree!Top.todo \ {p}, !.item = Tree!Top.dir]
<1>2. Tree!Set(w)  BY DEF Tree!OwnLink
<1>3. IsWalk(w) /\ w.at = "items" /\ stage # "second"
  <2>1. Fits(Tree!Top.at) /\ IsWalk(Tree!Top)  BY <1>1, TopType DEF Places
  <2>2. IsWalk(w) /\ w.at = "items"  BY <2>1 DEF IsWalk
  <2> QED  BY <1>1, <2>1, <2>2 DEF Fits
<1> HIDE DEF w
<1>4. TreeOK' /\ Noticed' /\ RemovalAlone  BY <1>1, EntryTypes, SoftKeeps
<1> QED  BY <1>1, <1>2, <1>3, <1>4, SetKeeps, OnwardKeeps DEF Onward, Fits

\* The walk goes on to the directories.
LEMMA ItemsDoneKeeps == ASSUME Tree!WellFormed, RsyncInv, Tree!ItemsDone PROVE RsyncInv' /\ RemovalAlone
<1> USE DEF RsyncInv
<1>1. walks # <<>> /\ UNCHANGED <<tasks, stage, dst, changed, before, hasty, Tree!counters>>  BY DEF Tree!ItemsDone, Tree!At
<1> DEFINE w == [Tree!Top EXCEPT !.at = "dirs", !.todo = Tree!OfKind(Tree!Top, {"dir"})]
<1>2. Tree!Set(w)  BY DEF Tree!ItemsDone
<1>3. IsWalk(Tree!Top)  BY <1>1, TopType
<1>4. IsWalk(w) /\ w.at = "dirs"  BY <1>3 DEF IsWalk
<1> HIDE DEF w
<1> QED  BY <1>1, <1>2, <1>4, SetKeeps, QuietKeeps, OnwardKeeps DEF Onward, Fits

\* It enters one of them.
LEMMA DescendKeeps == ASSUME Tree!WellFormed, RsyncInv, NEW p \in Paths, Tree!Descend(p) PROVE RsyncInv' /\ RemovalAlone
<1> USE DEF RsyncInv
<1>1. walks # <<>> /\ stage \in {"first", "second"} /\ UNCHANGED <<tasks, stage, dst, changed, before, hasty, Tree!counters>>
  BY DEF Tree!Descend, Tree!At
<1>2. PICK S : walks \in Seq(S) /\ \A v \in S : IsWalk(v)  BY DEF Stack
<1> DEFINE n == Tree!Walk(p, IF stage = "first" THEN "mkdir" ELSE "scan")
           w == [Tree!Top EXCEPT !.todo = Tree!Top.todo \ {p}]
           rest == [walks EXCEPT ![Len(walks)] = w]
<1>3. walks' = Append(rest, n)  BY DEF Tree!Descend, Tree!Top
<1>4. IsWalk(n) /\ Fits(n.at)  BY <1>1, WalkType DEF Fits
<1>5. IsWalk(w) /\ Fits(w.at) /\ Len(walks) \in Nat \ {0}
  <2>1. Fits(Tree!Top.at)  BY <1>1, TopType DEF Places
  <2> QED  BY <1>1, <2>1, TopType, WalkFields
<1> HIDE DEF n, w
<1>6. rest \in Seq(S \union {w, n}) /\ Len(rest) = Len(walks)
  <2>1. walks \in Seq(S \union {w, n}) /\ w \in S \union {w, n}  BY <1>2
  <2> QED  BY <2>1, <1>5
<1>7. ASSUME NEW i \in 1..Len(walks) PROVE Fits(rest[i].at)
  <2>1. Fits(walks[i].at)  BY DEF Places
  <2> QED  BY <1>2, <1>5, <2>1
<1> HIDE DEF rest
<1>8. walks' \in Seq(S \union {w, n}) /\ Len(walks') = Len(rest) + 1 /\ walks'[Len(rest) + 1] = n
      /\ \A i \in 1..Len(rest) : walks'[i] = rest[i]
  BY <1>3, <1>6
<1>9. Stack'
  <2>1. \A v \in S \union {w, n} : IsWalk(v)  BY <1>2, <1>4, <1>5
  <2> QED  BY <1>8, <2>1 DEF Stack
<1>10. Places'
  <2>1. ASSUME NEW i \in 1..Len(walks') PROVE Fits(walks'[i].at)  BY <1>4, <1>5, <1>6, <1>7, <1>8
  <2> QED  BY <1>1, <2>1 DEF Places, Fits
<1> QED  BY <1>1, <1>9, <1>10, QuietKeeps, OnwardKeeps DEF Onward


\* It leaves one.
LEMMA AscendKeeps == ASSUME Tree!WellFormed, RsyncInv, Tree!Ascend PROVE RsyncInv' /\ RemovalAlone
<1> USE DEF RsyncInv
<1>1. walks # <<>> /\ stage \in {"first", "second"} /\ UNCHANGED <<tasks, dst, changed, before, hasty, Tree!counters>>
  BY DEF Tree!Ascend, Tree!At
<1>2. CASE stage = "second"
  <2> DEFINE w == [Tree!Top EXCEPT !.at = "delete"]
  <2>1. Tree!Set(w) /\ UNCHANGED stage  BY <1>2 DEF Tree!Ascend
  <2>2. IsWalk(w) /\ w.at = "delete"  BY <1>1, TopType, WalkFields
  <2> HIDE DEF w
  <2> QED  BY <1>1, <1>2, <2>1, <2>2, SetKeeps, QuietKeeps, OnwardKeeps DEF Onward, Fits
<1>3. CASE stage # "second"
  <2>1. Tree!Return /\ (stage' = "reap" \/ stage' = stage)  BY <1>3 DEF Tree!Ascend
  <2> QED  BY <1>1, <2>1, ReturnKeeps, QuietKeeps, OnwardKeeps DEF Onward
<1> QED  BY <1>2, <1>3

\* Removal: only the second walk gets there, and no task runs then.
LEMMA RemoveKeeps == ASSUME Tree!WellFormed, RsyncInv, NEW p \in Paths, Tree!Remove(p) PROVE RsyncInv' /\ RemovalAlone
<1> USE DEF RsyncInv
<1>1. walks # <<>> /\ Tree!Top.at = "delete" /\ stage \in {"first", "second"} /\ UNCHANGED <<tasks, before, hasty, Tree!counters>>
  BY DEF Tree!Remove, Tree!At
<1>2. CASE Tree!Put(p, Tree!Absent) /\ UNCHANGED <<stage, walks>>
  <2>1. TreeOK' /\ Noticed'  BY <1>1, <1>2, EntryTypes, PutKeeps
  <2>2. Stack' /\ Places'  BY <1>2 DEF Stack, Places, Fits
  <2>3. stage = "second" /\ Tree!Running = {}
    <3>1. Fits(Tree!Top.at)  BY <1>1, TopType DEF Places
    <3>2. stage = "second"  BY <1>1, <3>1 DEF Fits
    <3> QED  BY <3>2 DEF Quiescent
  <2> QED  BY <1>1, <1>2, <2>1, <2>2, <2>3, OnwardKeeps DEF Onward, RemovalAlone
<1>3. CASE Tree!Raise("refused") /\ UNCHANGED <<dst, changed>>
  BY <1>1, <1>3, RaiseKeeps, QuietKeeps, OnwardKeeps DEF Onward
<1> QED  BY <1>2, <1>3 DEF Tree!Remove

\* A directory gets its owner.
LEMMA OwnDirKeeps == ASSUME Tree!WellFormed, RsyncInv, Tree!OwnDir PROVE RsyncInv' /\ RemovalAlone
<1> USE DEF RsyncInv
<1>1. walks # <<>> /\ Tree!Top.at = "delete" /\ UNCHANGED <<tasks, stage, before, hasty, Tree!counters>>
      /\ Tree!Put(Tree!Top.dir, Tree!Owned(dst[Tree!Top.dir]))
  BY DEF Tree!OwnDir, Tree!At
<1> DEFINE w == [Tree!Top EXCEPT !.at = "mode"]
<1>2. Tree!Set(w) /\ IsWalk(w) /\ w.at = "mode"  BY <1>1, TopType, WalkFields DEF Tree!OwnDir
<1>3. stage # "first"
  <2>1. Fits(Tree!Top.at)  BY <1>1, TopType DEF Places
  <2> QED  BY <1>1, <2>1 DEF Fits
<1> HIDE DEF w
<1>4. TreeOK' /\ Noticed' /\ RemovalAlone  BY <1>1, EntryTypes, SoftKeeps
<1> QED  BY <1>1, <1>2, <1>3, <1>4, SetKeeps, OnwardKeeps DEF Onward, Fits

\* A directory gets its mode; the outermost one ends the transfer.
LEMMA ModeDirKeeps == ASSUME Tree!WellFormed, RsyncInv, Tree!ModeDir PROVE RsyncInv' /\ RemovalAlone
<1> USE DEF RsyncInv
<1>1. walks # <<>> /\ Tree!Top.at = "mode" /\ stage \in {"first", "second"} /\ UNCHANGED <<tasks, before, hasty, Tree!counters>>
  BY DEF Tree!ModeDir, Tree!At
<1>2. stage = "second"
  <2>1. Fits(Tree!Top.at)  BY <1>1, TopType DEF Places
  <2> QED  BY <1>1, <2>1 DEF Fits
<1>3. Tree!Return /\ (stage' = "done" \/ stage' = stage)  BY DEF Tree!ModeDir
<1>4. Soft(Tree!Top.dir, IF job.preserve THEN Tree!Moded(Tree!Top.dir) ELSE dst[Tree!Top.dir])  BY EntryTypes
<1>5. TreeOK' /\ Noticed' /\ RemovalAlone  BY <1>1, <1>4, SoftKeeps DEF Tree!ModeDir
<1> QED  BY <1>1, <1>2, <1>3, <1>5, ReturnKeeps, OnwardKeeps DEF Onward

\* A task that begins finds room in the window.
LEMMA StartFileKeeps == ASSUME Tree!WellFormed, RsyncInv, NEW p \in Paths, Tree!StartFile(p) PROVE RsyncInv' /\ RemovalAlone
<1>1. /\ walks # <<>> /\ Tree!Top.at = "items" /\ stage \in {"first", "second"} /\ Cardinality(DOMAIN tasks) < Concurrency
      /\ UNCHANGED <<stage, dst, changed, before, hasty, Tree!counters>>
  <2>1. Tree!At("items")  BY DEF Tree!StartFile
  <2>3. Cardinality(DOMAIN tasks) < Concurrency  BY SameCount DEF Tree!StartFile
  <2>2. UNCHANGED <<stage, dst, changed, before, hasty, Tree!counters>>  BY DEF Tree!StartFile
  <2> QED  BY <2>1, <2>2, <2>3 DEF Tree!At
<1> USE DEF RsyncInv
<1> DEFINE w == [Tree!Top EXCEPT !.todo = Tree!Top.todo \ {p}]
<1>2. Tree!Set(w)  BY DEF Tree!StartFile
<1>6. IsWalk(w) /\ w.at = Tree!Top.at
  <2>1. IsWalk(Tree!Top)  BY <1>1, TopType
  <2> QED  BY <2>1 DEF w, IsWalk
<1> HIDE DEF w
<1>3. Fits(Tree!Top.at) /\ stage # "second"
  <2>1. Fits(Tree!Top.at)  BY <1>1, TopType DEF Places
  <2> QED  BY <1>1, <2>1 DEF Fits
<1>4. Window'
  <2>1. DOMAIN tasks' = DOMAIN tasks \union {p}  BY DEF Tree!StartFile
  <2>2. IsFiniteSet(DOMAIN tasks') /\ Cardinality(DOMAIN tasks') <= Cardinality(DOMAIN tasks) + 1
    <3>1. IsFiniteSet(DOMAIN tasks) /\ Cardinality(DOMAIN tasks) \in Nat  BY FS_CardinalityType DEF Window
    <3>2. /\ IsFiniteSet(DOMAIN tasks \union {p})
          /\ Cardinality(DOMAIN tasks \union {p}) = IF p \in DOMAIN tasks THEN Cardinality(DOMAIN tasks) ELSE Cardinality(DOMAIN tasks) + 1
      BY <3>1, FS_AddElement
    <3> HIDE DEF RsyncInv
    <3> QED  BY <2>1, <3>1, <3>2
  <2>3. Cardinality(DOMAIN tasks') \in Nat /\ Cardinality(DOMAIN tasks) \in Nat  BY <2>2, FS_CardinalityType DEF Window
  <2> QED  BY <1>1, <2>1, <2>2, <2>3 DEF Tree!WellFormed, Window
<1>5. Counts' /\ Quiescent'  BY <1>1, <1>3 DEF Counts, Quiescent
<1> QED  BY <1>1, <1>2, <1>3, <1>4, <1>5, <1>6, SetKeeps, QuietKeeps


\* The tasks that have ended leave the window.
LEMMA ReapKeeps == ASSUME Tree!WellFormed, RsyncInv, Tree!Reap PROVE RsyncInv' /\ RemovalAlone
<1> USE DEF RsyncInv
<1>1. tasks' = [p \in Tree!Running |-> tasks[p]] /\ UNCHANGED <<dst, changed, before, hasty, Tree!counters>>
  BY DEF Tree!Reap, Tree!Reaped
<1>2. DOMAIN tasks' \subseteq DOMAIN tasks /\ Tree!Running' = Tree!Running  BY <1>1 DEF Tree!Running
<1>3. Window'  BY <1>2, FewerTasks
<1>4. CASE \E why : Tree!Raise(why)
  <2>1. Stack' /\ Places' /\ stage' = "stopping"  BY <1>4, RaiseKeeps
  <2> QED  BY <1>1, <1>3, <2>1, QuietKeeps DEF Counts, Quiescent
<1>5. CASE stage = "reap" /\ stage' = "second" /\ walks' = <<Tree!Walk(Root, "scan")>>
  <2>1. Tree!Running = {}  BY <1>5 DEF Tree!Reap, Tree!Full, Tree!At
  <2>2. Stack' /\ Places'
    <3> DEFINE w == Tree!Walk(Root, "scan")
    <3>1. IsWalk(w) /\ w.at = "scan"  BY WalkType
    <3> HIDE DEF w
    <3>2. walks' \in Seq({w}) /\ Len(walks') = 1 /\ walks'[1] = w  BY <1>5 DEF w
    <3>3. \A v \in {w} : IsWalk(v)  BY <3>1
    <3>4. Stack'  BY <3>2, <3>3 DEF Stack
    <3>5. Places'  BY <1>5, <3>1, <3>2 DEF Places, Fits
    <3> QED  BY <3>4, <3>5
  <2> QED  BY <1>1, <1>2, <1>3, <1>5, <2>1, <2>2, QuietKeeps DEF Counts, Quiescent
<1>6. CASE UNCHANGED <<stage, walks>>
  <2>1. Stack' /\ Places'  BY <1>6 DEF Stack, Places, Fits
  <2> QED  BY <1>1, <1>2, <1>3, <1>6, <2>1, QuietKeeps DEF Counts, Quiescent
<1> QED  BY <1>4, <1>5, <1>6 DEF Tree!Reap, Tree!Reaped

\* A transfer begins when nothing is left of the one before.
LEMMA TransferKeeps == ASSUME Tree!WellFormed, RsyncInv, Tree!Begin PROVE RsyncInv' /\ RemovalAlone
<1> USE DEF RsyncInv
<1>1. Stack' /\ Places'
  <2> DEFINE w == Tree!Walk(Root, "mkdir")
  <2>1. IsWalk(w) /\ w.at = "mkdir"  BY WalkType
  <2> HIDE DEF w
  <2>2. walks' \in Seq({w}) /\ Len(walks') = 1 /\ walks'[1] = w /\ stage' = "first"  BY DEF w, Tree!Begin
  <2>3. \A v \in {w} : IsWalk(v)  BY <2>1
  <2> QED  BY <2>1, <2>2, <2>3 DEF Stack, Places, Fits
<1>2. Window'
  <2>1. DOMAIN tasks' = {}  BY DEF Tree!Begin
  <2> QED  BY <2>1, FS_EmptySet DEF Tree!WellFormed, Window
<1>3. TreeOK' /\ Noticed' /\ RemovalAlone  BY DEF Tree!Begin, TreeOK, Noticed, RemovalAlone
<1>4. Counts' /\ Quiescent'  BY DEF Tree!WellFormed, Tree!Begin, Counts, Quiescent
<1> QED  BY <1>1, <1>2, <1>3, <1>4

\* A call or the transfer fails, is cancelled or has stopped.
LEMMA FailureKeeps ==
    ASSUME Tree!WellFormed, RsyncInv, Tree!Fault \/ Tree!Cancel \/ Tree!CancelAgain \/ Tree!Stopped
    PROVE  RsyncInv' /\ RemovalAlone
<1> USE DEF RsyncInv
<1>1. UNCHANGED <<tasks, dst, changed, before>> /\ Window' /\ Tree!Running' = Tree!Running
  BY DEF Tree!Fault, Tree!Cancel, Tree!CancelAgain, Tree!Stopped, Window, Tree!Running
<1>2. CASE Tree!Fault \/ Tree!Cancel
  <2>1. Stack' /\ Places' /\ stage' = "stopping"  BY <1>2, RaiseKeeps DEF Tree!Fault, Tree!Cancel
  <2>2. Counts'  BY <1>2, <2>1 DEF Tree!WellFormed, Tree!Fault, Tree!Cancel, Counts
  <2> QED  BY <1>1, <2>1, <2>2, QuietKeeps DEF Quiescent
<1>3. CASE Tree!CancelAgain \/ Tree!Stopped
  <2>1. Stack' /\ Places'  BY <1>3 DEF Tree!CancelAgain, Tree!Stopped, Stack, Places, Fits
  <2>2. Counts'  BY <1>3 DEF Tree!WellFormed, Tree!CancelAgain, Tree!Stopped, Counts
  <2>3. Quiescent'  BY <1>1, <1>3 DEF Tree!CancelAgain, Tree!Stopped, Quiescent
  <2> QED  BY <1>1, <2>1, <2>2, <2>3, QuietKeeps
<1> QED  BY <1>2, <1>3

\* A task works, fails or ends.
LEMMA TaskKeeps ==
    ASSUME Tree!WellFormed, RsyncInv, NEW p \in DOMAIN tasks, Tree!Task(p) \/ Tree!EndTask(p) \/ Tree!TaskFault(p)
    PROVE  RsyncInv' /\ RemovalAlone
<1> USE DEF RsyncInv
<1>1. p \in Paths /\ UNCHANGED <<stage, walks, before, hasty, cancels, runs>>  BY DEF Tree!Task, Tree!EndTask, Tree!TaskFault, Window
<1>2. Stack' /\ Places'  BY <1>1 DEF Stack, Places, Fits
<1>3. TreeOK' /\ Noticed' /\ RemovalAlone
  <2>1. CASE UNCHANGED <<dst, changed>>  BY <1>1, <2>1, QuietKeeps
  <2>2. CASE \E entry \in {dst[p], Tree!Synced(p), Tree!Owned(dst[p]), Tree!Moded(p)} : Tree!Put(p, entry)
    <3> PICK entry \in {dst[p], Tree!Synced(p), Tree!Owned(dst[p]), Tree!Moded(p)} : Tree!Put(p, entry)  BY <2>2
    <3>1. Soft(p, entry)  BY EntryTypes
    <3> QED  BY <1>1, <3>1, SoftKeeps
  <2> QED  BY <2>1, <2>2 DEF Tree!Task, Tree!EndTask, Tree!TaskFault, Tree!Sync, Tree!OwnFile, Tree!ModeFile
<1>4. Window'
  <2>1. DOMAIN tasks' \subseteq DOMAIN tasks  BY DEF Tree!Task, Tree!EndTask, Tree!TaskFault, Tree!Sync, Tree!OwnFile, Tree!ModeFile, Tree!Move
  <2> QED  BY <2>1, FewerTasks
<1>5. Quiescent'
  <2>1. CASE Tree!Busy  BY <1>1, <2>1 DEF Tree!Busy, Quiescent
  <2>2. CASE ~Tree!Busy
    <3>1. tasks' = [q \in DOMAIN tasks \ {p} |-> tasks[q]] /\ p \in Tree!Running  BY <2>2 DEF Tree!Task, Tree!EndTask, Tree!TaskFault
    <3> QED  BY <1>1, <3>1 DEF Quiescent
  <2> QED  BY <2>1, <2>2
<1>6. Counts'  BY <1>1 DEF Tree!WellFormed, Tree!Task, Tree!EndTask, Tree!TaskFault, Counts
<1> QED  BY <1>2, <1>3, <1>4, <1>5, <1>6

\* Every step keeps the invariant, and removes nothing while a task runs.
LEMMA RsyncNext == Tree!WellFormed /\ RsyncInv /\ [Tree!Next]_(Tree!vars) => RsyncInv' /\ [RemovalAlone]_(Tree!vars)
<1> SUFFICES ASSUME Tree!WellFormed, RsyncInv, [Tree!Next]_(Tree!vars) PROVE RsyncInv' /\ [RemovalAlone]_(Tree!vars)  OBVIOUS
<1>1. CASE UNCHANGED Tree!vars
  BY <1>1 DEF Tree!vars, RsyncInv, TreeOK, Noticed, Stack, Places, Fits, Window, Quiescent, Counts, Tree!Running
<1>2. CASE Tree!Begin \/ Tree!Fault \/ Tree!Cancel \/ Tree!CancelAgain  BY <1>2, TransferKeeps, FailureKeeps
<1>3. CASE Tree!Coordinate
  BY <1>3, MkDirKeeps, ScanKeeps, ReapKeeps, ItemsDoneKeeps, AscendKeeps, OwnDirKeeps, ModeDirKeeps, FailureKeeps,
     StartFileKeeps, LinkKeeps, OwnLinkKeeps, DescendKeeps, RemoveKeeps DEF Tree!Coordinate
<1>4. CASE \E p \in DOMAIN tasks : Tree!Task(p) \/ Tree!EndTask(p) \/ Tree!TaskFault(p)  BY <1>4, TaskKeeps
<1> QED  BY <1>1, <1>2, <1>3, <1>4 DEF Tree!Next

\* What the invariant says of the window and of the end.
LEMMA RsyncEnd == ASSUME Tree!WellFormed, RsyncInv PROVE Disciplined
<1>1. Tree!TypeOK  BY DEF RsyncInv, TreeOK, IsEntry, Window, Counts, Tree!TypeOK
<1>2. Cardinality(Tree!Running) <= Concurrency
  <2>1. Tree!Running \subseteq DOMAIN tasks /\ IsFiniteSet(DOMAIN tasks) /\ Cardinality(DOMAIN tasks) <= Concurrency
    BY DEF RsyncInv, Window, Tree!Running
  <2>2. Cardinality(Tree!Running) <= Cardinality(DOMAIN tasks) /\ IsFiniteSet(Tree!Running)  BY <2>1, FS_Subset
  <2>3. Cardinality(Tree!Running) \in Nat /\ Cardinality(DOMAIN tasks) \in Nat  BY <2>1, <2>2, FS_CardinalityType
  <2> QED  BY <2>1, <2>2, <2>3 DEF Tree!WellFormed
<1>3. Tree!Settled  BY DEF RsyncInv, Quiescent, Tree!Settled
<1>4. stage = "done" /\ ~changed => dst = before  BY DEF RsyncInv, Noticed
<1> QED  BY <1>1, <1>2, <1>3, <1>4 DEF Disciplined

\* For every tree, case, size of the window and number of failures, cancellations and repetitions: at most
\* concurrency files are under way, none is when the transfer has returned or raised (unless a second
\* cancellation cut the wait short), and a result that says "unchanged" is right (Rsync.transfer).
THEOREM RsyncSettles == Tree!WellFormed /\ Tree!Spec => []Disciplined
<1> SUFFICES ASSUME Tree!WellFormed PROVE Tree!Spec => []Disciplined  OBVIOUS
<1>1. RsyncInv => Disciplined  BY RsyncEnd
<1>2. Tree!Init => RsyncInv  BY RsyncInit
<1>3. RsyncInv /\ [Tree!Next]_(Tree!vars) => RsyncInv'  BY RsyncNext
<1> QED  BY <1>1, <1>2, <1>3, PTL DEF Tree!Spec

\* Deletion never overlaps a transfer of content, in any tree and with any failures, cancellations and
\* repetitions (Rsync.transfer, Rsync.remove).
THEOREM RsyncRemovesAlone == Tree!WellFormed /\ Tree!Spec => Tree!RemovesAlone
<1> SUFFICES ASSUME Tree!WellFormed PROVE Tree!Spec => [][RemovalAlone]_(Tree!vars)
  BY DEF Tree!RemovesAlone, RemovalAlone
<1>1. Tree!Init => RsyncInv  BY RsyncInit
<1>2. RsyncInv /\ [Tree!Next]_(Tree!vars) => RsyncInv' /\ [RemovalAlone]_(Tree!vars)  BY RsyncNext
<1> QED  BY <1>1, <1>2, PTL DEF Tree!Spec
=============================================================================
