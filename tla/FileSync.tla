------------------------------ MODULE FileSync ------------------------------
(***************************************************************************)
(* FileSync of rmote/tools/file_sync.py: one upload or download.  The      *)
(* client steps a sender and a receiver in turn, one of them on the other  *)
(* host; the receiver assembles a temporary file and replaces the          *)
(* destination.                                                            *)
(*                                                                         *)
(* A file is the sequence of its bytes with a version (device, inode, size *)
(* and times).  SHA-256 is taken as injective: the signature of a block is *)
(* a record around its bytes, and the hash over the signatures is their    *)
(* sequence.  A step of a session is its check, its body, and for the last *)
(* step of a receiver the two more checks around fsync; other programs may *)
(* write either file between any two of these.                             *)
(***************************************************************************)
EXTENDS Integers, Sequences, SequencesExt

CONSTANTS
    SourceSizes,        \* bound: the sizes a source may have
    DestSizes,          \* bound: the sizes a destination may have
    BlockSize,
    WINDOW,
    SIGNATURE_BATCH,
    MaxWrites,          \* bound: writes of other programs to the two files
    LinkMayBreak        \* whether the connection can drop

ASSUME FileSyncConstants ==
    /\ SourceSizes \subseteq Nat /\ DestSizes \subseteq Nat /\ MaxWrites \in Nat /\ LinkMayBreak \in BOOLEAN
    /\ BlockSize \in Nat \ {0} /\ WINDOW \in Nat \ {0} /\ SIGNATURE_BATCH \in Nat \ {0}

Missing == <<-1>>      \* stands for no file; no byte is negative
Sides == {"send", "recv"}

VARIABLES
    source,     \* the source file: data and version
    dest,       \* the file at the destination path; data is Missing when there is none
    fd,         \* what the receiver reads through its open descriptor
    far,        \* the side that runs on the other host
    link,       \* the connection is up
    killed,     \* the remote process was killed
    writes,     \* writes of other programs so far
    pc,         \* where run() of the client is
    turn,       \* the session whose step is due
    waiting,    \* the client waits for that step
    message,    \* the message in the hands of the client
    cancelled, finished, outcome,
    life,       \* per side: "none", "open" or "closed"
    registered, \* the token is in _sessions of the remote process
    phase,      \* per side: how far its step is
    initial,    \* per side: the file as the session opened it
    s,          \* the sender
    r,          \* the receiver
    temp,       \* the temporary file exists
    torn,       \* the sender read a file that changed after its last check
    installed   \* what the receiver put at the destination, or Missing

fileVars == <<source, dest, fd, writes>>
clientVars == <<pc, turn, waiting, message, cancelled, finished, outcome>>
sessionVars == <<life, registered, initial>>
vars == <<fileVars, clientVars, sessionVars, far, link, killed, phase, s, r, temp, torn, installed>>

-----------------------------------------------------------------------------
(* Blocks                                                                   *)

Read(data, at, length) == SubSeq(data, at + 1, IF at + length < Len(data) THEN at + length ELSE Len(data))

Total(blocks) == FoldLeft(LAMBDA sum, b : sum + b.length, 0, blocks)

Least(a, b) == IF a < b THEN a ELSE b

Sign(data) == [sha256 |-> data]

NoSender == [size |-> 0, offset |-> 0, sent |-> <<>>, requests |-> <<>>, cache |-> <<>>,
             matching |-> FALSE, chain |-> <<>>]

NoReceiver == [size |-> 0, offset |-> 0, plan |-> <<>>, decided |-> 0, chain |-> <<>>, copying |-> FALSE,
               output |-> <<>>, transferred |-> 0, reused |-> 0, answers |-> <<>>, error |-> "none"]

-----------------------------------------------------------------------------
(* The sender                                                               *)

\* send, the answer to the last signatures: a block that matched is dropped
\* from the cache, another one is asked for.
Answered(m, decisions) ==
    LET matched == {i \in DOMAIN m.sent : decisions[i]}
        dropped == {m.sent[i].at : i \in matched}
        asked == SelectSeq([i \in DOMAIN m.sent |-> [block |-> m.sent[i], wanted |-> i \notin matched]],
                           LAMBDA e : e.wanted)
    IN [m EXCEPT !.requests = @ \o [i \in DOMAIN asked |-> asked[i].block],
                 !.cache = SelectSeq(@, LAMBDA c : c.at \notin dropped),
                 !.matching = IF decisions = <<>> THEN @ ELSE matched = DOMAIN m.sent,
                 !.sent = <<>>]

\* content: how many requested blocks one message takes.
Window(requests) ==
    CHOOSE n \in 0..Len(requests) :
        /\ \A k \in 2..n : Total(SubSeq(requests, 1, k)) <= WINDOW
        /\ n < Len(requests) => n > 0 /\ Total(SubSeq(requests, 1, n + 1)) > WINDOW

\* content: a block of the cache, or the file read again.
Content(m, data) ==
    LET n == Window(m.requests)
        Cached(at) == SelectSeq(m.cache, LAMBDA c : c.at = at)
        Of(b) == IF Cached(b.at) # <<>> THEN Cached(b.at)[1].data ELSE Read(data, b.at, b.length)
    IN [i \in 1..n |-> Of(m.requests[i])]

Taken(m) ==
    LET n == Window(m.requests)
        gone == {m.requests[i].at : i \in 1..n}
    IN [m EXCEPT !.requests = SubSeq(@, n + 1, Len(@)), !.cache = SelectSeq(@, LAMBDA c : c.at \notin gone)]

\* ahead
Ahead(m) ==
    IF m.matching THEN SIGNATURE_BATCH
    ELSE IF WINDOW \div BlockSize > 1 THEN WINDOW \div BlockSize ELSE 1

\* signatures: the next blocks, and whether their content is kept.
Upcoming(m) ==
    LET left == (m.size - m.offset + BlockSize - 1) \div BlockSize
    IN [i \in 1..Least(Ahead(m), left) |->
            LET at == m.offset + (i - 1) * BlockSize
            IN [at |-> at, length |-> Least(BlockSize, m.size - at)]]

Signed(m, data) ==
    LET batch == Upcoming(m)
        kept == [i \in DOMAIN batch |-> [at |-> batch[i].at, data |-> Read(data, batch[i].at, batch[i].length)]]
    IN [m EXCEPT !.sent = batch, !.offset = @ + Total(batch),
                 !.chain = @ \o [i \in DOMAIN kept |-> Sign(kept[i].data)],
                 !.cache = IF m.matching THEN @ ELSE @ \o kept]

Signatures(m, data) ==
    LET batch == Upcoming(m)
    IN [i \in DOMAIN batch |->
            [length |-> batch[i].length, signature |-> Sign(Read(data, batch[i].at, batch[i].length))]]

\* read: the file is too short for a block of its first size.
ShortRead(m, data) ==
    LET n == Window(m.requests)
        cached == {m.cache[i].at : i \in DOMAIN m.cache}
        needed == {m.requests[i] : i \in {k \in 1..n : m.requests[k].at \notin cached}}
                  \union {Upcoming(m)[i] : i \in DOMAIN Upcoming(m)}
    IN \E b \in needed : b.at + b.length > Len(data)

-----------------------------------------------------------------------------
(* The receiver                                                             *)

\* block; a destination that does not exist has no bytes.
Block(data, at, length) == IF data = Missing THEN <<>> ELSE Read(data, at, length)

Fail(m, error) == [m EXCEPT !.error = error]

\* start: the temporary file begins with what already matched.
Started(m, data) == [m EXCEPT !.copying = TRUE, !.output = Block(data, 0, m.offset)]

Append1(m, data, bytes, signature) ==
    LET c == IF m.copying THEN m ELSE Started(m, data)
    IN IF ~m.copying /\ Len(c.output) < m.offset THEN Fail(c, "RuntimeError")
       ELSE [c EXCEPT !.output = @ \o bytes, !.chain = Append(@, signature), !.offset = @ + Len(bytes)]

\* keep
Keep(m, data, planned) ==
    LET own == Block(data, m.offset, planned.length)
    IN IF m.copying /\ Len(own) # planned.length THEN Fail(m, "RuntimeError")
       ELSE [m EXCEPT !.output = IF m.copying THEN @ \o own ELSE @,
                      !.chain = Append(@, planned.signature), !.offset = @ + planned.length]

\* Mutant: matched blocks are taken even when a block before them is missing.
CommitAll(m, data) ==
    FoldLeft(LAMBDA k, planned : IF k.error # "none" THEN k ELSE Keep(k, data, planned),
             [m EXCEPT !.plan = SelectSeq(@, LAMBDA p : ~p.matched)],
             SelectSeq(m.plan, LAMBDA p : p.matched))

\* commit: the matched blocks at the front of the plan.
Commit(m, data) ==
    LET ready == {n \in 0..Len(m.plan) : \A i \in 1..n : m.plan[i].matched}
        n == CHOOSE k \in ready : \A l \in ready : l <= k
    IN FoldLeft(LAMBDA k, planned : IF k.error # "none" THEN k ELSE Keep(k, data, planned),
                [m EXCEPT !.plan = SubSeq(@, n + 1, Len(@))], SubSeq(m.plan, 1, n))

\* write, and the commit behind it.
Write(m, data, bytes) ==
    IF m.error # "none" THEN m
    ELSE IF m.plan = <<>> THEN Fail(m, "ValueError")
    ELSE IF m.plan[1].matched \/ Sign(bytes) # m.plan[1].signature THEN Fail(m, "ValueError")
    ELSE LET w == Append1([m EXCEPT !.plan = Tail(@)], data, bytes, m.plan[1].signature)
         IN IF w.error # "none" THEN w
            ELSE Commit([w EXCEPT !.transferred = @ + Len(bytes)], data)

\* decide
Decide(m, data, sign) ==
    LET own == Block(data, m.decided, sign.length)
        matched == Len(own) = sign.length /\ Sign(own) = sign.signature
    IN IF m.error # "none" THEN m
       ELSE IF sign.length <= 0 \/ sign.length # Least(BlockSize, m.size - m.decided) THEN Fail(m, "ValueError")
       ELSE [m EXCEPT !.plan = Append(@, [length |-> sign.length, signature |-> sign.signature, matched |-> matched]),
                      !.decided = @ + sign.length, !.reused = IF matched THEN @ + sign.length ELSE @,
                      !.answers = Append(@, matched)]

\* receive
Received(m, data, batch) ==
    LET w == FoldLeft(LAMBDA k, bytes : Write(k, data, bytes), [m EXCEPT !.answers = <<>>], batch.blocks)
        d == FoldLeft(LAMBDA k, sign : Decide(k, data, sign), w, batch.signatures)
    IN IF d.error # "none" THEN d ELSE Commit(d, data)

-----------------------------------------------------------------------------
\* Before the transfer: the bytes of the source are numbered, and a block of the
\* destination agrees with the source or differs in its first byte.
OldContents ==
    UNION {{[i \in 1..n |-> IF (i - 1) % BlockSize = 0 /\ (i - 1) \div BlockSize \in differing THEN 0 ELSE i]
            : differing \in SUBSET (0..(n - 1) \div BlockSize)} : n \in DestSizes}

Init ==
    /\ \E n \in SourceSizes : source = [data |-> [i \in 1..n |-> i], version |-> 0]
    /\ \E old \in OldContents \union {Missing} : dest = [data |-> old, version |-> 0]
    /\ fd = dest.data /\ far \in Sides /\ link = TRUE /\ killed = FALSE /\ writes = 0
    /\ pc = "open" /\ turn = "send" /\ waiting = FALSE /\ message = [kind |-> "none"]
    /\ cancelled = FALSE /\ finished = FALSE /\ outcome = "none"
    /\ life = [x \in Sides |-> "none"] /\ registered = FALSE /\ phase = [x \in Sides |-> "idle"]
    /\ initial = [x \in Sides |-> [data |-> Missing, version |-> 0]]
    /\ s = NoSender /\ r = NoReceiver /\ temp = FALSE /\ torn = FALSE /\ installed = Missing

near == IF far = "send" THEN "recv" ELSE "send"

-----------------------------------------------------------------------------
(* Other programs and the connection                                        *)

\* The source is written in place: other bytes, perhaps fewer.
SourceWritten ==
    /\ pc # "returned" /\ writes < MaxWrites /\ writes' = writes + 1
    /\ \E n \in {Len(source.data), Len(source.data) - 1} \ {-1} :
           source' = [data |-> [i \in 1..n |-> 100 + i], version |-> source.version + 1]
    /\ UNCHANGED <<dest, fd, clientVars, sessionVars, far, link, killed, phase, s, r, temp, torn, installed>>

\* The destination is written in place, replaced by another file, or created.
DestWritten ==
    /\ pc # "returned" /\ writes < MaxWrites /\ writes' = writes + 1
    /\ dest' = [data |-> <<200>>, version |-> dest.version + 1]
    /\ \/ dest.data # Missing /\ installed = Missing /\ fd' = <<200>>
       \/ UNCHANGED fd
    /\ UNCHANGED <<source, clientVars, sessionVars, far, link, killed, phase, s, r, temp, torn, installed>>

BreakLink ==
    /\ LinkMayBreak /\ link /\ link' = FALSE
    /\ UNCHANGED <<fileVars, clientVars, sessionVars, far, killed, phase, s, r, temp, torn, installed>>

Busy(x) == phase[x] \in {"check", "body", "finish", "sync", "replace"}

\* Session.close, which also removes the temporary file.
CloseSession(x) ==
    /\ life' = [life EXCEPT ![x] = "closed"]
    /\ temp' = (temp /\ x # "recv")

\* The remote process ends behind a lost connection: _cleanup closes what is
\* registered, after the step that may still run.
RemoteExits ==
    /\ ~link /\ ~killed /\ registered /\ ~Busy(far)
    /\ registered' = FALSE /\ CloseSession(far)
    /\ UNCHANGED <<fileVars, clientVars, initial, far, link, killed, phase, s, r, torn, installed>>

\* The remote process is killed: whatever it was doing stops.
RemoteKilled ==
    /\ ~link /\ ~killed /\ killed' = TRUE
    /\ phase' = [phase EXCEPT ![far] = "idle"] /\ registered' = FALSE
    /\ UNCHANGED <<fileVars, clientVars, life, initial, far, link, s, r, temp, torn, installed>>

-----------------------------------------------------------------------------
(* Opening                                                                  *)

\* Session.__init__: the sender takes its size from the file, the receiver from
\* the sender.
OpenSession(x) ==
    /\ life' = [life EXCEPT ![x] = "open"]
    /\ initial' = [initial EXCEPT ![x] = IF x = "send" THEN source ELSE dest]
    /\ IF x = "send" THEN s' = [NoSender EXCEPT !.size = Len(source.data)] /\ UNCHANGED <<r, fd>>
                     ELSE r' = [NoReceiver EXCEPT !.size = s.size] /\ fd' = dest.data /\ UNCHANGED s

\* Both directions open the sender first.
due == IF life["send"] = "none" THEN "send" ELSE "recv"
Opened == IF due = "recv" THEN "loop" ELSE "open"

OpenLocal ==
    /\ pc = "open" /\ ~waiting /\ due = near
    /\ \/ OpenSession(near) /\ pc' = Opened /\ UNCHANGED outcome
       \/ pc' = "close" /\ outcome' = "error" /\ UNCHANGED <<life, initial, s, r, fd>>
    /\ UNCHANGED <<source, dest, writes, turn, waiting, message, cancelled, finished, registered,
                   far, link, killed, phase, temp, torn, installed>>

\* The client calls _open.
CallOpen ==
    /\ pc = "open" /\ ~waiting /\ due = far
    /\ \/ link /\ waiting' = TRUE /\ phase' = [phase EXCEPT ![far] = "opening"] /\ UNCHANGED <<pc, outcome>>
       \/ ~link /\ pc' = "close" /\ outcome' = "error" /\ UNCHANGED <<waiting, phase>>
    /\ UNCHANGED <<fileVars, turn, message, cancelled, finished, sessionVars,
                   far, link, killed, s, r, temp, torn, installed>>

\* _open, in the remote process.
OpenRemote ==
    /\ phase[far] = "opening"
    /\ \/ OpenSession(far) /\ registered' = TRUE /\ phase' = [phase EXCEPT ![far] = "idle"]
       \/ phase' = [phase EXCEPT ![far] = "failed"] /\ UNCHANGED <<life, initial, s, r, fd, registered>>
    /\ UNCHANGED <<source, dest, writes, clientVars, far, link, killed, temp, torn, installed>>

OpenAnswered ==
    /\ pc = "open" /\ waiting /\ waiting' = FALSE
    /\ \/ link /\ phase[far] = "idle" /\ pc' = (IF far = "recv" THEN "loop" ELSE "open") /\ UNCHANGED outcome
       \/ (~link \/ phase[far] = "failed") /\ pc' = "close" /\ outcome' = "error"
    /\ UNCHANGED <<fileVars, turn, message, cancelled, finished, sessionVars,
                   far, link, killed, phase, s, r, temp, torn, installed>>

-----------------------------------------------------------------------------
(* A step of a session                                                      *)

\* The loop of run(): the next step begins unless the transfer was cancelled.
CallStep ==
    /\ pc = "loop" /\ ~waiting
    /\ \/ /\ ~cancelled /\ (turn = far => link)
          /\ waiting' = TRUE /\ phase' = [phase EXCEPT ![turn] = "check"] /\ UNCHANGED <<pc, outcome>>
       \/ /\ cancelled \/ (turn = far /\ ~link)
          /\ pc' = "close" /\ outcome' = "error" /\ UNCHANGED <<waiting, phase>>
    /\ UNCHANGED <<fileVars, turn, message, cancelled, finished, sessionVars,
                   far, link, killed, s, r, temp, torn, installed>>

\* Mutant: only the source is checked.
UnchangedSource(x) == x = "send" => source = initial[x]

\* check: the path, and the descriptor, are still the file that was opened.
Unchanged(x) ==
    IF x = "send" THEN source = initial[x] ELSE dest = initial[x] /\ fd = dest.data

\* step begins with check; so do the two halves of finish.
Check(x) ==
    /\ phase[x] = "check"
    /\ phase' = [phase EXCEPT ![x] = IF Unchanged(x) THEN "body" ELSE "failed"]
    /\ UNCHANGED <<fileVars, clientVars, sessionVars, far, link, killed, s, r, temp, torn, installed>>

\* _step: the session of the remote side closes itself on its last message.
ClosesItself(x) ==
    IF x = far THEN registered' = FALSE /\ CloseSession(x) ELSE UNCHANGED <<registered, life, temp>>

\* send
SendStep ==
    /\ phase["send"] = "body"
    /\ LET first == message.kind = "none"
           bad == IF first THEN s.sent # <<>> ELSE Len(message.decisions) # Len(s.sent)
           a == IF first \/ bad THEN s ELSE Answered(s, message.decisions)
           c == Taken(a)
           m == Signed(c, source.data)
           last == m.offset = m.size /\ m.requests = <<>> /\ m.sent = <<>>
           reply == [kind |-> "batch", blocks |-> Content(a, source.data), signatures |-> Signatures(c, source.data),
                     last |-> last, digest |-> IF last THEN m.chain ELSE <<>>]
       IN /\ torn' = (torn \/ source # initial["send"])
          /\ IF bad \/ ShortRead(a, source.data)
             THEN phase' = [phase EXCEPT !["send"] = "failed"] /\ UNCHANGED <<s, message, registered, life, temp>>
             ELSE /\ phase' = [phase EXCEPT !["send"] = "done"] /\ s' = m /\ message' = reply
                  /\ IF last THEN ClosesItself("send") ELSE UNCHANGED <<registered, life, temp>>
    /\ UNCHANGED <<fileVars, pc, turn, waiting, cancelled, finished, outcome, initial, far, link, killed, r, installed>>

\* receive; a full disk fails a write.
ReceiveStep ==
    /\ phase["recv"] = "body"
    /\ LET m == Received(r, fd, message)
       IN /\ temp' = (temp \/ m.copying)
          /\ \/ /\ m.error = "none" /\ r' = m
                /\ IF message.last
                   THEN phase' = [phase EXCEPT !["recv"] = "finish"] /\ UNCHANGED message
                   ELSE /\ phase' = [phase EXCEPT !["recv"] = "done"]
                        /\ message' = [kind |-> "decisions", decisions |-> m.answers]
             \/ /\ m.error # "none" \/ m.output # r.output
                /\ r' = [m EXCEPT !.error = IF @ = "none" THEN "OSError" ELSE @]
                /\ phase' = [phase EXCEPT !["recv"] = "failed"] /\ UNCHANGED message
    /\ UNCHANGED <<fileVars, pc, turn, waiting, cancelled, finished, outcome, life, registered, initial,
                   far, link, killed, s, torn, installed>>

\* finish: was the destination created, cut or written?
Changed == initial["recv"].data = Missing \/ Len(initial["recv"].data) # r.size \/ r.transferred > 0

Result(changed) == [kind |-> "result", changed |-> changed, size |-> r.size,
                    transferred |-> r.transferred, reused |-> r.reused]

\* finish, up to the second check: completeness, digest, and the copy of a
\* destination that only has to be cut.
Finish ==
    /\ phase["recv"] = "finish"
    /\ \/ /\ r.offset # r.size \/ r.chain # message.digest
          /\ phase' = [phase EXCEPT !["recv"] = "failed"] /\ r' = Fail(r, "ValueError")
          /\ UNCHANGED <<message, registered, life, temp>>
       \/ /\ r.offset = r.size /\ r.chain = message.digest /\ ~Unchanged("recv")
          /\ phase' = [phase EXCEPT !["recv"] = "failed"] /\ UNCHANGED <<r, message, registered, life, temp>>
       \/ /\ r.offset = r.size /\ r.chain = message.digest /\ Unchanged("recv") /\ ~Changed
          /\ phase' = [phase EXCEPT !["recv"] = "done"] /\ message' = Result(FALSE)
          /\ ClosesItself("recv") /\ UNCHANGED r
       \/ /\ r.offset = r.size /\ r.chain = message.digest /\ Unchanged("recv") /\ Changed
          /\ phase' = [phase EXCEPT !["recv"] = "sync"]
          /\ r' = (IF r.copying THEN r ELSE Started(r, fd)) /\ temp' = TRUE
          /\ UNCHANGED <<message, registered, life>>
    /\ UNCHANGED <<fileVars, pc, turn, waiting, cancelled, finished, outcome, initial,
                   far, link, killed, s, torn, installed>>

\* finish, the owner, the mode and fsync, which may fail, and the last check.
Sync ==
    /\ phase["recv"] = "sync"
    /\ phase' = [phase EXCEPT !["recv"] = IF Unchanged("recv") THEN "replace" ELSE "failed"]
       \/ phase' = [phase EXCEPT !["recv"] = "failed"]
    /\ UNCHANGED <<fileVars, clientVars, sessionVars, far, link, killed, s, r, temp, torn, installed>>

\* finish, os.replace: the temporary file is the destination now.
Replace ==
    /\ phase["recv"] = "replace" /\ phase' = [phase EXCEPT !["recv"] = "done"]
    /\ dest' = [data |-> r.output, version |-> dest.version + 1] /\ installed' = r.output
    /\ temp' = FALSE /\ message' = Result(TRUE)
    /\ IF far = "recv" THEN registered' = FALSE /\ life' = [life EXCEPT !["recv"] = "closed"]
                       ELSE UNCHANGED <<registered, life>>
    /\ UNCHANGED <<source, fd, writes, pc, turn, waiting, cancelled, finished, outcome, initial,
                   far, link, killed, s, r, torn>>

\* The client gets the answer, or the error, of the step it waits for.
StepAnswered ==
    /\ pc = "loop" /\ waiting /\ waiting' = FALSE
    /\ \/ /\ phase[turn] = "done" /\ (turn = far => link)
          /\ phase' = [phase EXCEPT ![turn] = "idle"]
          /\ turn' = (IF turn = "send" THEN "recv" ELSE "send")
          /\ IF message.kind = "result"
             THEN finished' = TRUE /\ outcome' = "result" /\ pc' = "close"
             ELSE UNCHANGED <<finished, outcome, pc>>
       \/ /\ phase[turn] = "failed" \/ (turn = far /\ ~link)
          /\ pc' = "close" /\ outcome' = "error" /\ UNCHANGED <<phase, turn, finished>>
    /\ UNCHANGED <<fileVars, message, cancelled, sessionVars, far, link, killed, s, r, temp, torn, installed>>

-----------------------------------------------------------------------------
(* The end                                                                  *)

\* The caller of upload or download is cancelled; run() is shielded.
Cancel ==
    /\ pc # "returned" /\ ~cancelled /\ cancelled' = TRUE
    /\ UNCHANGED <<fileVars, pc, turn, waiting, message, finished, outcome, sessionVars,
                   far, link, killed, phase, s, r, temp, torn, installed>>

\* The finally clause closes the local session first.
CloseLocal ==
    /\ pc = "close"
    /\ IF life[near] = "open" THEN CloseSession(near) ELSE UNCHANGED <<life, temp>>
    /\ pc' = (IF finished THEN "returned" ELSE "close_remote")
    /\ UNCHANGED <<fileVars, turn, waiting, message, cancelled, finished, outcome, registered, initial,
                   far, link, killed, phase, s, r, torn, installed>>

\* Mutant: the call is repeated until it succeeds.
CloseRemoteInsists ==
    /\ pc = "close_remote" /\ pc' = "returned"
    /\ link /\ ~Busy(far) /\ registered' = FALSE
    /\ IF registered THEN CloseSession(far) ELSE UNCHANGED <<life, temp>>
    /\ UNCHANGED <<fileVars, turn, waiting, message, cancelled, finished, outcome, initial,
                   far, link, killed, phase, s, r, torn, installed>>

\* _close in the remote process, which waits for a step that still runs; an
\* error of the call is only logged.
CloseRemote ==
    /\ pc = "close_remote" /\ pc' = "returned"
    /\ \/ /\ link /\ ~Busy(far) /\ registered' = FALSE
          /\ IF registered THEN CloseSession(far) ELSE UNCHANGED <<life, temp>>
       \/ ~link /\ UNCHANGED <<registered, life, temp>>
    /\ UNCHANGED <<fileVars, turn, waiting, message, cancelled, finished, outcome, initial,
                   far, link, killed, phase, s, r, torn, installed>>

-----------------------------------------------------------------------------
Step(x) == Check(x) \/ (x = "send" /\ SendStep) \/ (x = "recv" /\ (ReceiveStep \/ Finish \/ Sync \/ Replace))

Client == OpenLocal \/ CallOpen \/ OpenAnswered \/ CallStep \/ StepAnswered \/ CloseLocal \/ CloseRemote

Others == SourceWritten \/ DestWritten \/ BreakLink \/ RemoteKilled \/ Cancel

Next == Client \/ OpenRemote \/ RemoteExits \/ Others \/ \E x \in Sides : Step(x)

Spec == Init /\ [][Next]_vars

\* The event loop of the client and the remote process run.  The last conjunct is
\* weak fairness of Step(x), which is enabled exactly while the step is under
\* way, in a form that is cheap to evaluate: reading and writing a file ends.
FairSpec ==
    /\ Spec /\ WF_vars(Client) /\ WF_vars(OpenRemote) /\ WF_vars(RemoteExits)
    /\ \A x \in Sides : []<>~Busy(x)

-----------------------------------------------------------------------------
(* Properties                                                               *)

\* Every variable holds a value of the kind the code keeps there.
TypeOK ==
    /\ pc \in {"open", "loop", "close", "close_remote", "returned"} /\ turn \in Sides /\ far \in Sides
    /\ outcome \in {"none", "result", "error"} /\ writes \in 0..MaxWrites
    /\ life \in [Sides -> {"none", "open", "closed"}]
    /\ phase \in [Sides -> {"idle", "opening", "check", "body", "finish", "sync", "replace", "done", "failed"}]
    /\ {link, killed, waiting, cancelled, finished, registered, temp, torn} \subseteq BOOLEAN
    /\ s.offset <= s.size /\ r.offset <= r.decided /\ r.decided <= r.size

\* What replaces the destination is the whole source as the sender opened it,
\* in spite of writes to either file while blocks were compared, asked for and
\* copied.  The one gap is the one the documentation names: a source that
\* changes behind the last check of the sender.
InstallsTheSource == installed # Missing /\ ~torn => installed = initial["send"].data

\* A result that says "unchanged" is right, and the counts add up: what was
\* transferred is exactly the blocks in which the two files differed.
HonestResult ==
    message.kind = "result" /\ ~torn =>
        LET old == initial["recv"].data
            new == initial["send"].data
            Differs(at) == LET n == Least(BlockSize, Len(new) - at) IN Block(old, at, n) # Read(new, at, n)
            differing == {at \in 0..Len(new) - 1 : at % BlockSize = 0 /\ Differs(at)}
        IN /\ message.changed <=> installed # Missing
           /\ message.changed <=> old # new
           /\ message.transferred + message.reused = message.size
           /\ message.transferred = Total(SetToSeq({[at |-> at, length |-> Least(BlockSize, Len(new) - at)] : at \in differing}))

\* Two ends that run this code never accuse each other: no decision, signature,
\* block or digest is unexpected unless the source was written.
NeverRefused == r.error = "ValueError" => torn

\* No temporary file stays once the transfer has returned and the remote
\* process has noticed, except when that process was killed.
NothingLeft ==
    pc = "returned" /\ ~Busy(far) /\ ~registered /\ ~killed /\ phase[far] # "opening" => ~temp

\* "keeps at most WINDOW bytes of content in memory: a sender holds the blocks
\* it signed ahead" (docstring of Session).
WithinWindow ==
    FoldLeft(LAMBDA sum, c : sum + Len(c.data), 0, s.cache) <= (IF WINDOW > BlockSize THEN WINDOW ELSE BlockSize)

\* A transfer returns, whatever is cancelled, lost or fails.
TransferEnds == <>(pc = "returned")

\* What a transfer leaves behind is the source, and what it says of it is true,
\* however the two sides, their writers and their failures interleave (Session
\* and FileSync.upload, download).
SyncSafe == TypeOK /\ InstallsTheSource /\ HonestResult /\ NothingLeft
=============================================================================
