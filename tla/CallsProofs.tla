----------------------------- MODULE CallsProofs ----------------------------
(***************************************************************************)
(* Theorems about Calls, for any number of calls and for any tools and     *)
(* modules that they share.                                                *)
(*                                                                         *)
(* CallsAnswerTheirOwn rests on AnswerInv: an id that was given to a       *)
(* request is in the table of futures for that request or not at all, and  *)
(* every packet and task carries the id of its request, so a late answer   *)
(* finds nobody.  CallsAreSafe adds SupplyInv, what the peer holds once it *)
(* has read the first i packets, and the queues of the sync locks, by      *)
(* which one call at a time brings a package.                              *)
(***************************************************************************)
EXTENDS Calls, SequenceTheorems, TLAPS

-----------------------------------------------------------------------------
(* Sequences                                                                *)

\* An appended element is all that is new.
LEMMA RangeAppend ==
    ASSUME NEW S, NEW s \in Seq(S), NEW x \in S PROVE Range(Append(s, x)) \subseteq Range(s) \cup {x}
<1>1. Len(Append(s, x)) = Len(s) + 1 /\ Append(s, x)[Len(s) + 1] = x /\ Len(s) \in Nat
  OBVIOUS
<1>2. \A i \in 1..Len(s) : Append(s, x)[i] = s[i]  OBVIOUS
<1>3. DOMAIN Append(s, x) = 1..(Len(s) + 1) /\ DOMAIN s = 1..Len(s)  OBVIOUS
<1> QED  BY <1>1, <1>2, <1>3 DEF Range

\* A packet that was taken off was there, and the others were too.
LEMMA RangeTail ==
    ASSUME NEW S, NEW s \in Seq(S), s # <<>>
    PROVE  Range(Tail(s)) \subseteq Range(s) /\ Head(s) \in Range(s) /\ Head(s) = s[1]
<1>1. Len(s) \in Nat /\ Len(s) > 0 /\ Head(s) = s[1] /\ DOMAIN s = 1..Len(s)  OBVIOUS
<1>2. DOMAIN Tail(s) = 1..(Len(s) - 1) /\ \A i \in 1..(Len(s) - 1) : Tail(s)[i] = s[i + 1] /\ i + 1 \in 1..Len(s)
  BY <1>1
<1> QED  BY <1>1, <1>2 DEF Range

\* A prefix of the wire brings nothing new.
LEMMA RangePrefix ==
    ASSUME NEW S, NEW s \in Seq(S), NEW n \in 0..Len(s) PROVE Range(SubSeq(s, 1, n)) \subseteq Range(s)
<1>1. Len(s) \in Nat /\ DOMAIN s = 1..Len(s)  OBVIOUS
<1>2. DOMAIN SubSeq(s, 1, n) = 1..n /\ \A i \in 1..n : SubSeq(s, 1, n)[i] = s[i] /\ i \in 1..Len(s)  BY <1>1
<1> QED  BY <1>1, <1>2 DEF Range

\* What is in a sequence is of its kind.
LEMMA RangeMember == ASSUME NEW S, NEW s \in Seq(S), NEW x \in Range(s) PROVE x \in S
  BY DEF Range

-----------------------------------------------------------------------------
(* The invariant: whose answer it is                                        *)

UpPacket == [call : Callers, phase : Phases, id : Nat, sources : SUBSET Modules]
DownPacket == [id : Nat, kind : {"result", "error"}, of : Requests]

\* The request of a packet, the requests and the answers that are under way.
Of(packet) == <<packet.call, packet.phase>>
Orders == Range(up)
Answers == Range(down) \cup handling

Active == {"send", "drain", "wait"}

\* What TypeOK leaves out.
Shapes ==
    /\ program \in Program /\ up \in Seq(UpPacket) /\ down \in Seq(DownPacket)
    /\ handling \subseteq DownPacket /\ \A packet \in handling : packet.kind = "result"
    /\ jobId \in [Requests -> Nat] /\ jobCargo \in [Requests -> SUBSET Modules]
    /\ executed \in [Callers -> Nat] /\ sent \in [Modules -> Nat]
    /\ answer \in [Callers -> Requests \cup {<<NoCall, "sync">>}]
    /\ link \in BOOLEAN /\ closed \in BOOLEAN /\ closedP \in BOOLEAN

\* A packet_id is given once; a closed connection waits for none.
Ids ==
    /\ \A c \in Callers : id[c] <= lastId /\ (pc[c] \in Active => id[c] # 0)
    /\ \A c, d \in Callers : id[c] = id[d] /\ id[c] # 0 => c = d
    /\ \A c \in Callers : pc[c] \in {"idle", "lock"} => phase[c] = "sync"
    /\ closed => DOMAIN futures = {}

\* An id that was given to a request is nobody else's.
Mine(n, r) == n \in 1..lastId /\ (n \in DOMAIN futures => r = <<futures[n], phase[futures[n]]>>)

\* Whatever travels or runs for a request carries its id.
Tagged ==
    /\ \A packet \in Orders : Mine(packet.id, Of(packet))
    /\ \A r \in Requests : job[r] # "none" => Mine(jobId[r], r)
    /\ \A packet \in Answers : Mine(packet.id, packet.of)

\* The request has been written, unless the call ended before.
Written(r) ==
    \/ phase[r[1]] = r[2] /\ pc[r[1]] \notin {"idle", "lock", "send"}
    \/ r[2] = "sync" /\ phase[r[1]] = "rpc"

\* A request is on the wire at most once, and before its task.
Once ==
    /\ \A packet \in Orders : Written(Of(packet)) /\ job[Of(packet)] = "none"
    /\ \A i, j \in 1..Len(up) : Of(up[i]) = Of(up[j]) => i = j
    /\ \A r \in Requests : job[r] # "none" => Written(r)
    /\ \A r \in Requests : r[2] = "sync" => job[r] \notin {"scheduled", "run"}
    /\ \A r \in Requests : r[2] = "rpc" => job[r] \notin {"load", "build"}

\* A method that has an outcome was started once.
Ran ==
    /\ \A c \in Callers :
        /\ executed[c] <= 1
        /\ job[<<c, "rpc">>] \in {"none", "scheduled"} => executed[c] = 0
        /\ job[<<c, "rpc">>] \in {"run", "result"} => executed[c] = 1
        /\ fut[c] = "result" /\ phase[c] = "rpc" => executed[c] = 1
    /\ \A packet \in Answers : packet.kind = "result" /\ packet.of[2] = "rpc" => executed[packet.of[1]] = 1

AnswerInv == TypeOK /\ Shapes /\ Ids /\ Tagged /\ Once /\ Ran /\ OwnAnswer

-----------------------------------------------------------------------------
(* The invariant: what the peer holds                                       *)

\* The peer holds a module, or does once the first i packets have arrived.
Holds(m, i) == m \in installed \/ \E j \in 1..i : up[j].phase = "rpc" /\ m \in up[j].sources

Wanted(c) == IF phase[c] = "rpc" THEN Carried[c] ELSE Bundle[Tool[c]]

\* A packet finds what it leaves out.
Complemented(i) ==
    /\ up[i].phase = "rpc" => \A m \in Carried[up[i].call] : Holds(m, i)
    /\ up[i].phase = "sync" => \A m \in Bundle[Tool[up[i].call]] : m \in up[i].sources \/ Holds(m, i)

\* With a module, a bundle holds what the module brings along.
WholeBundles ==
    /\ \A t \in Tools : \A m \in Bundle[t] : program.brings[m] \subseteq Bundle[t]
    /\ \A m \in Modules : \A n \in program.brings[m] : program.brings[n] \subseteq program.brings[m]

\* So does what the peer is known to hold.
KnownWhole == \A m \in known : program.brings[m] \subseteq known

Supplied ==
    /\ WholeBundles /\ KnownWhole
    /\ \A i \in 1..Len(up) : Complemented(i)
    /\ link => \A m \in known : Holds(m, Len(up))
    /\ \A c \in Callers : pc[c] \in Active => Wanted(c) \subseteq cargo[c] \cup known
    /\ \A c \in Callers : pc[c] \in Active => cargo[c] \subseteq Wanted(c)
    /\ link => \A c \in Callers : pc[c] = "drain" /\ phase[c] = "rpc" => \A m \in cargo[c] : Holds(m, Len(up))
    /\ \A r \in Requests : job[r] \in {"load", "build"} => Bundle[Tool[r[1]]] \subseteq installed \cup jobCargo[r]
    /\ closedP => ~link

\* A tool that counts as loaded is, with its bundle.
Loaded ==
    /\ \A t \in loaded : Bundle[t] \subseteq installed
    /\ cached \subseteq loaded
    /\ \A c \in Callers : phase[c] = "rpc" \/ fut[c] = "result" => Tool[c] \in loaded
    /\ \A r \in Requests : r[2] = "sync" /\ job[r] = "result" => Tool[r[1]] \in loaded
    /\ \A packet \in Answers : packet.of[2] = "sync" /\ packet.kind = "result" => Tool[packet.of[1]] \in loaded

-----------------------------------------------------------------------------
(* The invariant: the sync locks                                            *)

Synchronising(c) == phase[c] = "sync" /\ pc[c] \in Active
Queued(c) == pc[c] = "lock" \/ Synchronising(c)

Distinct(s) == \A i, j \in 1..Len(s) : s[i] = s[j] => i = j

\* The queue of a lock holds the calls that need it, the holder first.
Queues ==
    /\ DOMAIN locks = Range(Root)
    /\ \A r \in DOMAIN locks : locks[r] \in Seq(Callers) /\ Distinct(locks[r])
    /\ \A c \in Callers, r \in DOMAIN locks : c \in Range(locks[r]) <=> Queued(c) /\ RootOf(c) = r
    /\ \A c \in Callers : Synchronising(c) => locks[RootOf(c)][1] = c

Calm == \A c \in Callers : pc[c] \notin {"raised", "cancelled"}

\* A private module was not sent, is known, or is with the one call that synchronises.
Single ==
    /\ \A c \in Callers : fut[c] = "lost" => closed
    /\ Calm => \A m \in Private :
        /\ sent[m] <= 1
        /\ sent[m] = 1 => \/ closed \/ m \in known
                          \/ \E c \in Callers : phase[c] = "sync" /\ pc[c] \in {"drain", "wait"} /\ m \in cargo[c]
        /\ ~closed => \A c \in Callers : pc[c] = "send" /\ m \in cargo[c] => sent[m] = 0

-----------------------------------------------------------------------------
(* What a step does to the calls                                            *)

\* Everything but the entry to _call keeps the ids, and only takes futures away.
Shrinks == \A n \in DOMAIN futures' : n \in DOMAIN futures /\ futures'[n] = futures[n]

Advances(c) ==
    \/ pc'[c] = pc[c]
    \/ pc[c] = "idle" /\ pc'[c] = "lock"
    \/ pc[c] = "send" /\ pc'[c] = "drain"
    \/ pc[c] = "drain" /\ pc'[c] = "wait"
    \/ pc[c] \in Active \cup {"lock"} /\ pc'[c] \in Final

\* A call that leaves an await for good is in no future.
Steady ==
    /\ UNCHANGED <<phase, id, lastId, cargo>> /\ Shrinks
    /\ \A c \in Callers : Advances(c)
    /\ \A n \in DOMAIN futures' : pc'[futures'[n]] \in Active
    /\ pc' \in [Callers -> {"idle", "lock", "send", "drain", "wait"} \cup Final]
    /\ closed' => closed \/ DOMAIN futures' = {}

\* The entry to _call of a call that has none, or whose tool was synchronised.
Entering(c) ==
    /\ pc[c] \in {"idle", "lock", "wait"} /\ phase[c] = "sync" /\ UNCHANGED closed
    /\ \E where \in Phases, sources \in SUBSET Modules :
        /\ Enter(c, where, sources)
        /\ where = "sync" => pc[c] = "lock"

USE DEF Put

\* The parts of a program have their types.
LEMMA ProgramParts ==
    ASSUME program \in Program
    PROVE  /\ \A c \in Callers : Tool[c] \in Tools /\ Carried[c] \in SUBSET Modules
           /\ \A t \in Tools : Root[t] \in Modules /\ Bundle[t] \in SUBSET Modules
           /\ \A c \in Callers : \A have : Attached(c, have) \subseteq Carried[c] \ have
<1>1. /\ \A c \in Callers : Tool[c] \in Tools /\ program.values[c] \subseteq Modules
      /\ \A m \in Modules : program.brings[m] \subseteq Modules
      /\ \A t \in Tools : Root[t] \in Modules /\ Bundle[t] \in SUBSET Modules
  BY DEF Program, Tool, Root, Bundle
<1>2. \A c \in Callers : Carried[c] \subseteq Modules  BY <1>1 DEF Carried
<1>3. \A c \in Callers : \A have : Attached(c, have) \subseteq Carried[c] \ have  BY DEF Attached, Carried
<1> QED  BY <1>1, <1>2, <1>3

\* futures.pop of one call.
LEMMA PopShrinks ==
    ASSUME TypeOK, Ids, NEW c \in Callers, futures' = FuturesWithout(c), UNCHANGED <<id>>
    PROVE  Shrinks /\ \A n \in DOMAIN futures' : futures'[n] # c
  BY DEF FuturesWithout, Shrinks, TypeOK

\* An answer takes at most one entry from futures.
LEMMA CompleteShrinks ==
    ASSUME NEW packet, NEW state, Complete(packet, state) PROVE Shrinks
  BY DEF Complete, Shrinks

\* The steps of a call that is under way.
LEMMA CallSteady ==
    ASSUME AnswerInv, NEW c \in Callers,
           \/ Begin(c) /\ Tool[c] \notin cached
           \/ WritePacket(c) \/ Drained(c) \/ Resume(c) \/ SendFails(c) \/ Cancel(c) \/ CancelDrain(c)
    PROVE  Steady
<1> USE DEF AnswerInv
<1>1. UNCHANGED <<phase, id, lastId, cargo>>
  BY DEF Begin, WritePacket, Drained, Resume, SendFails, Cancel, CancelDrain
<1>2. PICK v : /\ pc' = [pc EXCEPT ![c] = v]
               /\ \/ pc[c] = "idle" /\ v = "lock"
                  \/ pc[c] = "send" /\ v = "drain"
                  \/ pc[c] = "drain" /\ v = "wait"
                  \/ pc[c] \in Active \cup {"lock"} /\ v \in Final
  BY DEF Begin, WritePacket, Drained, Resume, End, SendFails, Cancel, CancelDrain, Active, Final
<1>3. pc' \in [Callers -> {"idle", "lock", "send", "drain", "wait"} \cup Final]  BY <1>2 DEF TypeOK
<1>4. \A d \in Callers : Advances(d)  BY <1>2 DEF Advances, TypeOK
<1>5. \/ futures' = futures \/ futures' = FuturesWithout(c) \/ futures' = Forgotten
  BY DEF Begin, WritePacket, Drained, Resume, End, SendFails, Cancel, CancelDrain
<1>6. Shrinks  BY <1>1, <1>5, PopShrinks DEF Shrinks, Forgotten
<1>7. \A n \in DOMAIN futures' : pc'[futures'[n]] \in Active
  <2>1. CASE v \in Active
    BY <1>2, <1>6, <2>1 DEF Shrinks, TypeOK, Active
  <2>2. CASE v \notin Active
    <3>1. \A n \in DOMAIN futures' : futures'[n] # c
      <4>1. CASE futures' = FuturesWithout(c)  BY <1>1, <4>1, PopShrinks
      <4>2. CASE futures' = Forgotten  BY <4>2 DEF Forgotten
      <4>3. CASE futures' = futures /\ pc[c] \in {"idle", "lock"}  BY <4>3 DEF TypeOK
      <4>4. pc[c] \in {"idle", "lock"} \/ futures' = FuturesWithout(c) \/ futures' = Forgotten
        <5>1. CASE Begin(c)  BY <5>1 DEF Begin
        <5>2. CASE WritePacket(c) \/ Drained(c)
          <6>1. pc'[c] \in Active  BY <5>2 DEF WritePacket, Drained, Active, TypeOK
          <6> QED  BY <1>2, <2>2, <6>1 DEF TypeOK
        <5>3. CASE Resume(c)  BY <5>3 DEF Resume, End
        <5>4. CASE Cancel(c)  BY <5>4 DEF Cancel
        <5>5. CASE SendFails(c) \/ CancelDrain(c)  BY <5>5 DEF SendFails, CancelDrain
        <5> QED  BY <5>1, <5>2, <5>3, <5>4, <5>5
      <4> QED  BY <1>5, <4>1, <4>2, <4>3, <4>4
    <3> QED  BY <1>2, <1>6, <3>1 DEF Shrinks, TypeOK, Active
  <2> QED  BY <2>1, <2>2
<1>8. closed' => closed \/ DOMAIN futures' = {}
  BY DEF Begin, WritePacket, Drained, Resume, SendFails, Cancel, CancelDrain, Forgotten
<1> QED  BY <1>1, <1>3, <1>4, <1>6, <1>7, <1>8 DEF Steady

\* The receive loop, the close and the peer leave the calls where they are.
LEMMA OtherSteady ==
    ASSUME AnswerInv,
           \/ ReceiveDown \/ HandleResult \/ Lose \/ Close \/ ReceiveUp \/ RefuseUp \/ LoseP \/ BreakLink
           \/ \E r \in Requests : LoadTool(r) \/ BuildTool(r) \/ StartMethod(r) \/ FinishMethod(r) \/ SendResponse(r)
    PROVE  Steady
<1> USE DEF AnswerInv
<1>1. UNCHANGED <<pc, phase, id, lastId, cargo>> /\ Shrinks /\ (closed' => closed \/ DOMAIN futures' = {})
  <2>1. CASE ReceiveDown \/ HandleResult
    BY <2>1, CompleteShrinks DEF ReceiveDown, HandleResult, Shrinks
  <2>2. CASE Lose \/ Close  BY <2>2 DEF Lose, Close, Shrinks, Forgotten
  <2>3. CASE UNCHANGED localVars  BY <2>3 DEF localVars, callVars, Shrinks
  <2> QED
    BY <2>1, <2>2, <2>3 DEF ReceiveUp, RefuseUp, LoseP, BreakLink, LoadTool, BuildTool, StartMethod, FinishMethod,
       SendResponse
<1>2. \A c \in Callers : Advances(c)  BY <1>1 DEF Advances
<1>3. \A n \in DOMAIN futures' : pc'[futures'[n]] \in Active  BY <1>1 DEF Shrinks, TypeOK, Active
<1> QED  BY <1>1, <1>2, <1>3 DEF Steady, TypeOK

\* A call enters _call when its tool is known, when it has the sync lock or
\* when its tool was synchronised.
LEMMA Enters ==
    ASSUME AnswerInv, NEW c \in Callers, (Begin(c) /\ Tool[c] \in cached) \/ Locked(c) \/ Synced(c)
    PROVE  Entering(c)
<1> USE DEF AnswerInv
<1>1. Carried[c] \in SUBSET Modules /\ Bundle[Tool[c]] \in SUBSET Modules  BY ProgramParts DEF Shapes
<1>2. known \in SUBSET Modules /\ cargo[c] \in SUBSET Modules /\ known \cup cargo[c] \in SUBSET Modules
  BY DEF TypeOK
<1>6. \A have : Attached(c, have) \in SUBSET Modules  BY <1>1, ProgramParts DEF Shapes
<1>7. Missing(Bundle[Tool[c]], known) \in SUBSET Modules  BY <1>1 DEF Missing
<1>3. CASE Begin(c) /\ Tool[c] \in cached
  BY <1>3, <1>6 DEF Begin, Entering, Ids, Phases
<1>4. CASE Locked(c)
  BY <1>4, <1>6, <1>7 DEF Locked, Entering, Ids, Phases
<1>5. CASE Synced(c)
  BY <1>5, <1>6 DEF Synced, Entering, Phases
<1> QED  BY <1>3, <1>4, <1>5

\* Every step is steady for the ids, or one call enters _call.
LEMMA Steps == ASSUME AnswerInv, Next PROVE Steady \/ \E c \in Callers : Entering(c)
  BY CallSteady, OtherSteady, Enters DEF Next

-----------------------------------------------------------------------------
(* Ids                                                                      *)

\* What a call that enters _call finds and leaves.
LEMMA EnterIds ==
    ASSUME AnswerInv, NEW c \in Callers, Entering(c)
    PROVE  \E where \in Phases :
            /\ where = "sync" => pc[c] = "lock"
            /\ pc[c] \in {"idle", "lock", "wait"} /\ phase[c] = "sync" /\ closed' = closed
            /\ phase' = [phase EXCEPT ![c] = where]
            /\ \/ /\ closed /\ pc' = [pc EXCEPT ![c] = "lost"]
                  /\ UNCHANGED <<id, cargo, lastId, futures>> /\ fut' = [fut EXCEPT ![c] = "none"]
               \/ /\ ~closed /\ pc' = [pc EXCEPT ![c] = "send"] /\ fut' = [fut EXCEPT ![c] = "pending"]
                  /\ id' = [id EXCEPT ![c] = lastId + 1] /\ lastId' = lastId + 1
                  /\ DOMAIN futures' = (DOMAIN futures \ {id[c]}) \cup {lastId + 1}
                  /\ futures'[lastId + 1] = c
                  /\ \A n \in DOMAIN futures \ {id[c]} : n # lastId + 1 => futures'[n] = futures[n]
                  /\ \E sources \in SUBSET Modules : cargo' = [cargo EXCEPT ![c] = sources]
<1>1. PICK where \in Phases, sources \in SUBSET Modules :
        Enter(c, where, sources) /\ (where = "sync" => pc[c] = "lock")
  BY DEF Entering
<1>2. CASE closed
  BY <1>1, <1>2 DEF Entering, Enter
<1>3. CASE ~closed
  <2>1. futures' = FuturesWith(c)  BY <1>1, <1>3 DEF Enter
  <2>2. /\ DOMAIN futures' = (DOMAIN futures \ {id[c]}) \cup {lastId + 1}
        /\ futures'[lastId + 1] = c
        /\ \A n \in DOMAIN futures \ {id[c]} : n # lastId + 1 => futures'[n] = futures[n]
    BY <2>1 DEF FuturesWith, GetId
  <2> QED  BY <1>1, <1>3, <2>2 DEF Entering, Enter, GetId
<1> QED  BY <1>2, <1>3

\* Ids stay distinct, and TypeOK keeps what it says of the futures.
LEMMA IdsKeep ==
    ASSUME AnswerInv, Next
    PROVE  /\ Ids' /\ pc' \in [Callers -> {"idle", "lock", "send", "drain", "wait"} \cup Final]
           /\ phase' \in [Callers -> Phases] /\ id' \in [Callers -> Nat] /\ lastId' \in Nat
           /\ cargo' \in [Callers -> SUBSET Modules]
           /\ \A n \in DOMAIN futures' :
                futures'[n] \in Callers /\ id'[futures'[n]] = n /\ pc'[futures'[n]] \in {"send", "drain", "wait"}
<1> USE DEF AnswerInv
<1>1. CASE Steady
  <2>1. Ids'
    <3>1. \A c \in Callers : pc'[c] \in Active => pc[c] \in Active  BY <1>1 DEF Steady, Advances, Active, Final
    <3>2. \A c \in Callers : pc'[c] \in {"idle", "lock"} => pc[c] \in {"idle", "lock"}
      BY <1>1 DEF Steady, Advances, Final
    <3>3. closed' => DOMAIN futures' = {}  BY <1>1 DEF Steady, Shrinks, Ids
    <3> QED  BY <1>1, <3>1, <3>2, <3>3 DEF Steady, Ids
  <2> QED  BY <1>1, <2>1 DEF Steady, Shrinks, TypeOK, Active
<1>2. ASSUME NEW c \in Callers, Entering(c)
      PROVE  /\ Ids' /\ pc' \in [Callers -> {"idle", "lock", "send", "drain", "wait"} \cup Final]
             /\ phase' \in [Callers -> Phases] /\ id' \in [Callers -> Nat] /\ lastId' \in Nat
             /\ cargo' \in [Callers -> SUBSET Modules]
             /\ \A n \in DOMAIN futures' :
                  futures'[n] \in Callers /\ id'[futures'[n]] = n /\ pc'[futures'[n]] \in {"send", "drain", "wait"}
  <2>1. PICK where \in Phases :
            /\ where = "sync" => pc[c] = "lock"
            /\ pc[c] \in {"idle", "lock", "wait"} /\ phase[c] = "sync" /\ closed' = closed
            /\ phase' = [phase EXCEPT ![c] = where]
            /\ \/ /\ closed /\ pc' = [pc EXCEPT ![c] = "lost"]
                  /\ UNCHANGED <<id, cargo, lastId, futures>> /\ fut' = [fut EXCEPT ![c] = "none"]
               \/ /\ ~closed /\ pc' = [pc EXCEPT ![c] = "send"] /\ fut' = [fut EXCEPT ![c] = "pending"]
                  /\ id' = [id EXCEPT ![c] = lastId + 1] /\ lastId' = lastId + 1
                  /\ DOMAIN futures' = (DOMAIN futures \ {id[c]}) \cup {lastId + 1}
                  /\ futures'[lastId + 1] = c
                  /\ \A n \in DOMAIN futures \ {id[c]} : n # lastId + 1 => futures'[n] = futures[n]
                  /\ \E sources \in SUBSET Modules : cargo' = [cargo EXCEPT ![c] = sources]
    BY <1>2, EnterIds
  <2>2. phase' \in [Callers -> Phases]  BY <2>1 DEF TypeOK
  <2>3. CASE closed
    <3>1. UNCHANGED <<id, cargo, lastId, futures>> /\ pc' = [pc EXCEPT ![c] = "lost"] /\ DOMAIN futures = {}
      BY <2>1, <2>3 DEF Ids
    <3>2. pc' \in [Callers -> {"idle", "lock", "send", "drain", "wait"} \cup Final]  BY <3>1 DEF TypeOK, Final
    <3>3. Ids'  BY <2>1, <2>3, <3>1 DEF Ids, TypeOK, Active
    <3> QED  BY <2>2, <3>1, <3>2, <3>3 DEF TypeOK
  <2>4. CASE ~closed
    <3>1. /\ pc' = [pc EXCEPT ![c] = "send"] /\ id' = [id EXCEPT ![c] = lastId + 1] /\ lastId' = lastId + 1
          /\ DOMAIN futures' = (DOMAIN futures \ {id[c]}) \cup {lastId + 1}
          /\ futures'[lastId + 1] = c
          /\ \A n \in DOMAIN futures \ {id[c]} : n # lastId + 1 => futures'[n] = futures[n]
      BY <2>1, <2>4
    <3>2. pc' \in [Callers -> {"idle", "lock", "send", "drain", "wait"} \cup Final]  BY <3>1 DEF TypeOK
    <3>3. lastId \in Nat /\ id \in [Callers -> Nat] /\ lastId' \in Nat /\ id' \in [Callers -> Nat]
      BY <3>1 DEF TypeOK
    <3>4. cargo' \in [Callers -> SUBSET Modules]  BY <2>1, <2>4 DEF TypeOK
    <3>5. Ids'
      <4>1. \A d \in Callers : id'[d] <= lastId' /\ (pc'[d] \in Active => id'[d] # 0)  BY <3>1, <3>3 DEF Ids, TypeOK
      <4>2. \A d, e \in Callers : id'[d] = id'[e] /\ id'[d] # 0 => d = e  BY <3>1, <3>3 DEF Ids
      <4>3. \A d \in Callers : pc'[d] \in {"idle", "lock"} => phase'[d] = "sync"  BY <2>1, <3>1 DEF Ids, TypeOK
      <4> QED  BY <2>1, <2>4, <4>1, <4>2, <4>3 DEF Ids
    <3>6. ASSUME NEW n \in DOMAIN futures'
          PROVE  futures'[n] \in Callers /\ id'[futures'[n]] = n /\ pc'[futures'[n]] \in {"send", "drain", "wait"}
      <4>1. CASE n = lastId + 1  BY <3>1, <3>3, <4>1 DEF TypeOK
      <4>2. CASE n # lastId + 1
        <5>1. n \in DOMAIN futures /\ n # id[c] /\ futures'[n] = futures[n]  BY <3>1, <4>2
        <5>2. futures[n] \in Callers /\ futures[n] # c  BY <5>1 DEF TypeOK
        <5> QED  BY <3>1, <3>3, <5>1, <5>2 DEF TypeOK
      <4> QED  BY <4>1, <4>2
    <3> QED  BY <2>2, <3>2, <3>3, <3>4, <3>5, <3>6
  <2> QED  BY <2>3, <2>4
<1> QED  BY <1>1, <1>2, Steps

\* No step gives away an id.
LEMMA MineStays == ASSUME AnswerInv, Next, NEW n, NEW r, Mine(n, r) PROVE Mine(n, r)'
<1> USE DEF AnswerInv
<1>1. CASE Steady
  <2>1. n \in 1..lastId'  BY <1>1 DEF Steady, Mine
  <2>2. ASSUME n \in DOMAIN futures' PROVE r = <<futures'[n], phase'[futures'[n]]>>
    BY <1>1, <2>2 DEF Steady, Shrinks, Mine
  <2> QED  BY <2>1, <2>2 DEF Mine
<1>2. ASSUME NEW c \in Callers, Entering(c) PROVE Mine(n, r)'
  <2>1. PICK where \in Phases :
            /\ phase' = [phase EXCEPT ![c] = where]
            /\ \/ closed /\ UNCHANGED <<lastId, futures>>
               \/ /\ ~closed /\ lastId' = lastId + 1
                  /\ DOMAIN futures' = (DOMAIN futures \ {id[c]}) \cup {lastId + 1}
                  /\ \A k \in DOMAIN futures \ {id[c]} : k # lastId + 1 => futures'[k] = futures[k]
    BY <1>2, EnterIds
  <2>2. lastId \in Nat /\ n \in 1..lastId  BY DEF TypeOK, Mine
  <2>3. n \in 1..lastId' /\ n # lastId + 1  BY <2>1, <2>2
  <2>4. ASSUME n \in DOMAIN futures' PROVE r = <<futures'[n], phase'[futures'[n]]>>
    <3>1. ~closed /\ n \in DOMAIN futures /\ n # id[c] /\ futures'[n] = futures[n]  BY <2>1, <2>3, <2>4 DEF Ids
    <3>2. futures[n] \in Callers /\ futures[n] # c  BY <3>1 DEF TypeOK
    <3>3. phase'[futures[n]] = phase[futures[n]]  BY <2>1, <3>2 DEF TypeOK
    <3> QED  BY <3>1, <3>3 DEF Mine
  <2> QED  BY <2>3, <2>4 DEF Mine
<1> QED  BY <1>1, <1>2, Steps

\* A request that was written stays written.
LEMMA WrittenStays ==
    ASSUME AnswerInv, Next, NEW r \in Requests, Written(r) PROVE Written(r)'
<1> USE DEF AnswerInv
<1>1. r[1] \in Callers /\ r[2] \in Phases  BY DEF Requests
<1>2. CASE Steady
  BY <1>1, <1>2 DEF Steady, Advances, Written, Active, Final
<1>3. ASSUME NEW c \in Callers, Entering(c) PROVE Written(r)'
  <2>1. PICK where \in Phases :
            /\ where = "sync" => pc[c] = "lock"
            /\ pc[c] \in {"idle", "lock", "wait"} /\ phase[c] = "sync"
            /\ phase' = [phase EXCEPT ![c] = where]
            /\ pc' = [pc EXCEPT ![c] = "lost"] \/ pc' = [pc EXCEPT ![c] = "send"]
    BY <1>3, EnterIds
  <2>2. CASE r[1] = c
    <3>1. r[2] = "sync" /\ pc[c] = "wait"  BY <1>1, <2>1, <2>2 DEF Written, Phases
    <3>2. phase'[c] = "rpc"  BY <2>1, <3>1 DEF TypeOK, Phases
    <3> QED  BY <2>2, <3>1, <3>2 DEF Written
  <2>3. CASE r[1] # c  BY <1>1, <2>1, <2>3 DEF Written, TypeOK
  <2> QED  BY <2>2, <2>3
<1> QED  BY <1>2, <1>3, Steps

-----------------------------------------------------------------------------
(* The wires                                                                *)

CallAction(c) ==
    Begin(c) \/ Locked(c) \/ WritePacket(c) \/ Drained(c) \/ Synced(c) \/ Resume(c) \/ SendFails(c) \/ Cancel(c)
    \/ CancelDrain(c)
JobAction(r) == LoadTool(r) \/ BuildTool(r) \/ StartMethod(r) \/ FinishMethod(r) \/ SendResponse(r)

\* Next, by the actor that takes the step.
LEMMA NextActions ==
    Next <=> \/ \E c \in Callers : CallAction(c)
             \/ \E r \in Requests : JobAction(r)
             \/ ReceiveDown \/ HandleResult \/ Lose \/ Close \/ ReceiveUp \/ RefuseUp \/ LoseP \/ BreakLink
  BY DEF Next, CallAction, JobAction

\* How the requests under way change.
LEMMA UpStep ==
    ASSUME Next
    PROVE  \/ up' = up \/ up' = <<>> \/ (\E n \in 0..Len(up) : up' = SubSeq(up, 1, n))
           \/ ReceiveUp \/ \E c \in Callers : WritePacket(c)
<1>1. ASSUME NEW c \in Callers, CallAction(c)
      PROVE  up' = up \/ (\E n \in 0..Len(up) : up' = SubSeq(up, 1, n)) \/ WritePacket(c)
  BY <1>1 DEF CallAction, Begin, Locked, Drained, Synced, Resume, SendFails, Cancel, CancelDrain
<1>2. ASSUME NEW r \in Requests, JobAction(r) PROVE up' = up
  BY <1>2 DEF JobAction, LoadTool, BuildTool, StartMethod, FinishMethod, SendResponse
<1>3. CASE ReceiveDown \/ HandleResult \/ Lose \/ Close \/ LoseP
  BY <1>3 DEF ReceiveDown, HandleResult, Lose, Close, LoseP
<1>4. CASE RefuseUp \/ BreakLink  BY <1>4 DEF RefuseUp, BreakLink
<1> QED  BY <1>1, <1>2, <1>3, <1>4, NextActions

PacketOf(c) == [call |-> c, phase |-> phase[c], id |-> id[c], sources |-> cargo[c]]

\* The only new request is the packet that a call writes.
LEMMA OrdersStep ==
    ASSUME AnswerInv, Next
    PROVE  /\ up' \in Seq(UpPacket)
           /\ \/ Orders' \subseteq Orders
              \/ \E c \in Callers : WritePacket(c) /\ Orders' \subseteq Orders \cup {PacketOf(c)}
<1>1. up \in Seq(UpPacket) /\ <<>> \in Seq(UpPacket)  BY DEF AnswerInv, Shapes
<1>2. CASE up' = up  BY <1>1, <1>2 DEF Orders
<1>3. CASE up' = <<>>  BY <1>1, <1>3 DEF Orders, Range
<1>4. ASSUME NEW n \in 0..Len(up), up' = SubSeq(up, 1, n) PROVE up' \in Seq(UpPacket) /\ Orders' \subseteq Orders
  <2>1. SubSeq(up, 1, n) \in Seq(UpPacket)  BY <1>1
  <2>2. Range(SubSeq(up, 1, n)) \subseteq Range(up)  BY <1>1, RangePrefix
  <2> QED  BY <1>4, <2>1, <2>2 DEF Orders
<1>5. CASE ReceiveUp
  <2>1. up # <<>> /\ up' = Tail(up)  BY <1>5 DEF ReceiveUp
  <2>2. Tail(up) \in Seq(UpPacket)  BY <1>1, <2>1
  <2> QED  BY <1>1, <2>1, <2>2, RangeTail DEF Orders
<1>6. ASSUME NEW c \in Callers, WritePacket(c)
      PROVE  up' \in Seq(UpPacket) /\ Orders' \subseteq Orders \cup {PacketOf(c)}
  <2>1. PacketOf(c) \in UpPacket  BY DEF PacketOf, UpPacket, AnswerInv, TypeOK
  <2>2. up' = up \/ up' = Append(up, PacketOf(c))  BY <1>6 DEF WritePacket, Write, PacketOf
  <2>3. Append(up, PacketOf(c)) \in Seq(UpPacket)  BY <1>1, <2>1
  <2>4. Range(Append(up, PacketOf(c))) \subseteq Range(up) \cup {PacketOf(c)}  BY <1>1, <2>1, RangeAppend
  <2> QED  BY <1>1, <2>2, <2>3, <2>4 DEF Orders
<1> QED  BY <1>2, <1>3, <1>4, <1>5, <1>6, UpStep

\* How the answers under way change.
LEMMA DownStep ==
    ASSUME Next
    PROVE  \/ UNCHANGED <<down, handling>> \/ ReceiveDown \/ HandleResult \/ Close
           \/ BreakLink \/ \E r \in Requests : SendResponse(r)
<1>1. ASSUME NEW c \in Callers, CallAction(c) PROVE UNCHANGED <<down, handling>>
  BY <1>1 DEF CallAction, Begin, Locked, WritePacket, Drained, Synced, Resume, SendFails, Cancel, CancelDrain
<1>2. ASSUME NEW r \in Requests, JobAction(r) PROVE UNCHANGED <<down, handling>> \/ SendResponse(r)
  BY <1>2 DEF JobAction, LoadTool, BuildTool, StartMethod, FinishMethod, localVars
<1>3. CASE Lose \/ ReceiveUp \/ RefuseUp \/ LoseP
  BY <1>3 DEF Lose, ReceiveUp, RefuseUp, LoseP, localVars
<1> QED  BY <1>1, <1>2, <1>3, NextActions

ResponseOf(r) == [id |-> jobId[r], kind |-> job[r], of |-> r]

\* The only new answer is the response that a job sends.
LEMMA AnswersStep ==
    ASSUME AnswerInv, Next
    PROVE  /\ down' \in Seq(DownPacket) /\ handling' \subseteq DownPacket
           /\ \A packet \in handling' : packet.kind = "result"
           /\ \/ Answers' \subseteq Answers
              \/ \E r \in Requests : SendResponse(r) /\ Answers' \subseteq Answers \cup {ResponseOf(r)}
<1>1. /\ down \in Seq(DownPacket) /\ <<>> \in Seq(DownPacket) /\ handling \subseteq DownPacket
      /\ \A packet \in handling : packet.kind = "result"
  BY DEF AnswerInv, Shapes
<1>2. CASE UNCHANGED <<down, handling>>  BY <1>1, <1>2 DEF Answers
<1>3. CASE ReceiveDown
  <2>1. /\ down # <<>> /\ down' = Tail(down)
        /\ handling' = handling \/ (handling' = handling \cup {Head(down)} /\ Head(down).kind = "result")
    BY <1>3 DEF ReceiveDown
  <2>2. Tail(down) \in Seq(DownPacket) /\ Head(down) \in DownPacket  BY <1>1, <2>1
  <2>3. Range(Tail(down)) \subseteq Range(down) /\ Head(down) \in Range(down)  BY <1>1, <2>1, RangeTail
  <2> QED  BY <1>1, <2>1, <2>2, <2>3 DEF Answers
<1>4. CASE HandleResult
  <2>1. down' = down /\ handling' \subseteq handling  BY <1>4 DEF HandleResult
  <2> QED  BY <1>1, <2>1 DEF Answers
<1>5. CASE Close  BY <1>1, <1>5 DEF Close, Answers, Range
<1>6. CASE BreakLink
  <2>1. PICK n \in 0..Len(down) : down' = SubSeq(down, 1, n)  BY <1>6 DEF BreakLink
  <2>2. handling' = handling  BY <1>6 DEF BreakLink, localVars
  <2>3. SubSeq(down, 1, n) \in Seq(DownPacket)  BY <1>1
  <2>4. Range(SubSeq(down, 1, n)) \subseteq Range(down)  BY <1>1, RangePrefix
  <2> QED  BY <1>1, <2>1, <2>2, <2>3, <2>4 DEF Answers
<1>7. ASSUME NEW r \in Requests, SendResponse(r)
      PROVE  /\ down' \in Seq(DownPacket) /\ handling' = handling
             /\ Answers' \subseteq Answers \cup {ResponseOf(r)}
  <2>1. ResponseOf(r) \in DownPacket
    BY <1>7 DEF ResponseOf, DownPacket, AnswerInv, Shapes, SendResponse
  <2>2. handling' = handling /\ (down' = down \/ down' = Append(down, ResponseOf(r)))
    BY <1>7 DEF SendResponse, Write, ResponseOf, localVars
  <2>3. Append(down, ResponseOf(r)) \in Seq(DownPacket)  BY <1>1, <2>1
  <2>4. Range(Append(down, ResponseOf(r))) \subseteq Range(down) \cup {ResponseOf(r)}  BY <1>1, <2>1, RangeAppend
  <2> QED  BY <1>1, <2>2, <2>3, <2>4 DEF Answers
<1> QED  BY <1>1, <1>2, <1>3, <1>4, <1>5, <1>6, <1>7, DownStep

\* How the tasks of the peer change.
LEMMA JobsStep ==
    ASSUME Next
    PROVE  UNCHANGED <<job, jobId, jobCargo, executed>> \/ ReceiveUp \/ LoseP \/ \E r \in Requests : JobAction(r)
<1>1. ASSUME NEW c \in Callers, CallAction(c) PROVE UNCHANGED peerVars
  BY <1>1 DEF CallAction, Begin, Locked, WritePacket, Drained, Synced, Resume, SendFails, Cancel, CancelDrain
<1>2. CASE ReceiveDown \/ HandleResult \/ Lose \/ Close \/ BreakLink
  BY <1>2 DEF ReceiveDown, HandleResult, Lose, Close, BreakLink, peerVars
<1>3. CASE RefuseUp  BY <1>3 DEF RefuseUp
<1> QED  BY <1>1, <1>2, <1>3, NextActions DEF peerVars

-----------------------------------------------------------------------------
(* Answers                                                                  *)

\* A future that has a result or an error had it before, or was completed by
\* an answer whose id is registered for the call.
CompletedBy(c, packet) ==
    /\ packet.id \in DOMAIN futures /\ futures[packet.id] = c
    /\ answer'[c] = packet.of /\ fut'[c] = packet.kind

\* An answer completes the call that waits under its id, and no other.
LEMMA CompleteStep ==
    ASSUME AnswerInv, NEW packet \in Answers, Complete(packet, packet.kind)
    PROVE  /\ fut' \in [Callers -> {"none", "pending", "result", "error", "lost"}]
           /\ answer' \in [Callers -> Requests \cup {<<NoCall, "sync">>}]
           /\ \A c \in Callers : (fut'[c] = fut[c] /\ answer'[c] = answer[c]) \/ CompletedBy(c, packet)
<1> USE DEF AnswerInv
<1>1. packet \in DownPacket  BY RangeMember DEF Answers, Shapes
<1>2. packet.kind \in {"result", "error"} /\ packet.of \in Requests  BY <1>1 DEF DownPacket
<1>3. fut \in [Callers -> {"none", "pending", "result", "error", "lost"}]
      /\ answer \in [Callers -> Requests \cup {<<NoCall, "sync">>}]
  BY DEF TypeOK, Shapes
<1>4. CASE packet.id \notin DOMAIN futures  BY <1>3, <1>4 DEF Complete
<1>5. CASE packet.id \in DOMAIN futures
  <2>1. futures[packet.id] \in Callers  BY <1>5 DEF TypeOK
  <2>2. \/ UNCHANGED <<fut, answer>>
        \/ /\ fut' = [fut EXCEPT ![futures[packet.id]] = packet.kind]
           /\ answer' = [answer EXCEPT ![futures[packet.id]] = packet.of]
    BY <1>5 DEF Complete
  <2>3. fut' \in [Callers -> {"none", "pending", "result", "error", "lost"}]  BY <1>2, <1>3, <2>1, <2>2
  <2>4. answer' \in [Callers -> Requests \cup {<<NoCall, "sync">>}]  BY <1>2, <1>3, <2>1, <2>2
  <2>5. \A c \in Callers : (fut'[c] = fut[c] /\ answer'[c] = answer[c]) \/ CompletedBy(c, packet)
    BY <1>3, <1>5, <2>1, <2>2 DEF CompletedBy
  <2> QED  BY <2>3, <2>4, <2>5
<1> QED  BY <1>4, <1>5

\* A call is completed by an answer that was under way.
LEMMA FutStep ==
    ASSUME AnswerInv, Next
    PROVE  /\ fut' \in [Callers -> {"none", "pending", "result", "error", "lost"}]
           /\ answer' \in [Callers -> Requests \cup {<<NoCall, "sync">>}]
           /\ \A c \in Callers : fut'[c] \in {"result", "error"} =>
                phase'[c] = phase[c] /\ \/ fut'[c] = fut[c] /\ answer'[c] = answer[c]
                                        \/ \E packet \in Answers : CompletedBy(c, packet)
<1> USE DEF AnswerInv
<1>1. fut \in [Callers -> {"none", "pending", "result", "error", "lost"}]
      /\ answer \in [Callers -> Requests \cup {<<NoCall, "sync">>}]
  BY DEF TypeOK, Shapes
<1>2. CASE ReceiveDown \/ HandleResult
  <2>1. phase' = phase  BY <1>2 DEF ReceiveDown, HandleResult
  <2>2. UNCHANGED <<fut, answer>> \/ \E packet \in Answers : Complete(packet, packet.kind)
    <3>1. CASE ReceiveDown
      <4>1. down # <<>> => Head(down) \in Answers  BY RangeTail DEF Shapes, Answers
      <4> QED  BY <3>1, <4>1 DEF ReceiveDown
    <3>2. CASE HandleResult  BY <3>2 DEF HandleResult, Shapes, Answers
    <3> QED  BY <1>2, <3>1, <3>2
  <2> QED  BY <1>1, <2>1, <2>2, CompleteStep
<1>3. ASSUME NEW c \in Callers, Entering(c), answer' = answer
      PROVE  /\ fut' \in [Callers -> {"none", "pending", "result", "error", "lost"}]
             /\ \A d \in Callers : fut'[d] \in {"result", "error"} => phase'[d] = phase[d] /\ fut'[d] = fut[d]
  <2>1. PICK where \in Phases :
            /\ phase' = [phase EXCEPT ![c] = where]
            /\ fut' = [fut EXCEPT ![c] = "none"] \/ fut' = [fut EXCEPT ![c] = "pending"]
    BY <1>3, EnterIds
  <2> QED  BY <1>1, <2>1 DEF TypeOK
<1>4. CASE Lose \/ Close
  <2>1. fut' = Failed /\ UNCHANGED <<answer, phase>>  BY <1>4 DEF Lose, Close
  <2> QED  BY <1>1, <2>1 DEF Failed
<1>5. ASSUME NEW c \in Callers, WritePacket(c) \/ Drained(c) \/ Resume(c) \/ SendFails(c) \/ Cancel(c) \/ CancelDrain(c)
      PROVE  /\ fut' \in [Callers -> {"none", "pending", "result", "error", "lost"}]
             /\ \A d \in Callers : fut'[d] \in {"result", "error"} => fut'[d] = fut[d]
             /\ UNCHANGED <<answer, phase>>
  <2>1. UNCHANGED <<answer, phase>>  BY <1>5 DEF WritePacket, Drained, Resume, SendFails, Cancel, CancelDrain
  <2>2. fut' = fut \/ fut' = [fut EXCEPT ![c] = "none"] \/ fut' = [Failed EXCEPT ![c] = "none"]
    BY <1>5 DEF WritePacket, Drained, Resume, End, SendFails, Cancel, CancelDrain
  <2>3. Failed \in [Callers -> {"none", "pending", "result", "error", "lost"}]
        /\ \A d \in Callers : Failed[d] = fut[d] \/ Failed[d] = "lost"
    BY <1>1 DEF Failed
  <2> QED  BY <1>1, <2>1, <2>2, <2>3
<1>6. ASSUME NEW c \in Callers, CallAction(c)
      PROVE  answer' = answer /\ \/ UNCHANGED <<fut, phase>> \/ Entering(c)
                                 \/ WritePacket(c) \/ Drained(c) \/ Resume(c) \/ SendFails(c) \/ Cancel(c) \/ CancelDrain(c)
  <2>1. answer' = answer
    BY <1>6 DEF CallAction, Begin, Locked, WritePacket, Drained, Synced, Resume, SendFails, Cancel, CancelDrain
  <2>2. CASE Begin(c) /\ Tool[c] \notin cached  BY <2>1, <2>2 DEF Begin
  <2> QED  BY <1>6, <2>1, <2>2, Enters DEF CallAction
<1>7. ASSUME NEW r \in Requests, JobAction(r) PROVE UNCHANGED <<fut, answer, phase>>
  BY <1>7 DEF JobAction, LoadTool, BuildTool, StartMethod, FinishMethod, SendResponse, localVars, callVars
<1>8. CASE ReceiveUp \/ RefuseUp \/ LoseP \/ BreakLink
  <2>1. UNCHANGED <<fut, answer, phase>>  BY <1>8 DEF ReceiveUp, RefuseUp, LoseP, BreakLink, localVars, callVars
  <2> QED  BY <1>1, <2>1
<1> QED  BY <1>1, <1>2, <1>3, <1>4, <1>5, <1>6, <1>7, <1>8, NextActions

-----------------------------------------------------------------------------
(* Tasks of the peer                                                        *)

JobStates == {"none", "load", "build", "scheduled", "run", "result", "error", "done"}

\* The packet that ReceiveUp takes, and the task that it starts.
LEMMA Received ==
    ASSUME AnswerInv, ReceiveUp
    PROVE  LET packet == Head(up)  r == Of(packet) IN
           /\ packet \in Orders /\ packet \in UpPacket /\ r \in Requests /\ packet = up[1] /\ Len(up) > 0
           /\ job' = [job EXCEPT ![r] = IF packet.phase = "sync" THEN "load" ELSE "scheduled"]
           /\ jobId' = [jobId EXCEPT ![r] = packet.id] /\ up' = Tail(up) /\ UNCHANGED <<localVars, executed>>
           /\ jobCargo' = jobCargo \/ jobCargo' = [jobCargo EXCEPT ![r] = packet.sources]
<1>1. up \in Seq(UpPacket) /\ up # <<>>  BY DEF AnswerInv, Shapes, ReceiveUp
<1>2. Head(up) \in Orders /\ Head(up) = up[1] /\ Len(up) > 0 /\ Head(up) \in UpPacket
  BY <1>1, RangeTail DEF Orders
<1>3. Of(Head(up)) \in Requests  BY <1>2 DEF Of, UpPacket, Requests
<1> QED  BY <1>2, <1>3 DEF ReceiveUp, Of

\* What one task does.
LEMMA JobMoves ==
    ASSUME AnswerInv, NEW r \in Requests, JobAction(r)
    PROVE  /\ UNCHANGED <<jobId, jobCargo, localVars, up>>
           /\ \E v \in JobStates \ {"none"} :
                /\ job' = [job EXCEPT ![r] = v]
                /\ \/ job[r] \in {"load", "build"} /\ v \in {"build", "result", "error"} /\ UNCHANGED executed
                   \/ /\ job[r] = "scheduled" /\ v = "run"
                      /\ executed' = [executed EXCEPT ![r[1]] = @ + 1]
                   \/ job[r] = "scheduled" /\ v = "error" /\ UNCHANGED executed
                   \/ job[r] = "run" /\ v \in {"result", "error"} /\ UNCHANGED executed
                   \/ job[r] \in {"result", "error"} /\ v = "done" /\ UNCHANGED executed
<1>1. UNCHANGED <<jobId, jobCargo, localVars, up>>
  BY DEF JobAction, LoadTool, BuildTool, StartMethod, FinishMethod, SendResponse
<1>2. CASE LoadTool(r)  BY <1>1, <1>2 DEF LoadTool, JobStates
<1>3. CASE BuildTool(r)  BY <1>1, <1>3 DEF BuildTool, JobStates
<1>4. CASE StartMethod(r)  BY <1>1, <1>4 DEF StartMethod, JobStates
<1>5. CASE FinishMethod(r)  BY <1>1, <1>5 DEF FinishMethod, JobStates
<1>6. CASE SendResponse(r)  BY <1>1, <1>6 DEF SendResponse, JobStates
<1> QED  BY <1>2, <1>3, <1>4, <1>5, <1>6 DEF JobAction

\* A task that there is was there before, or is started by a request.
LEMMA JobsFrom ==
    ASSUME AnswerInv, Next
    PROVE  /\ job' \in [Requests -> JobStates] /\ jobId' \in [Requests -> Nat]
           /\ jobCargo' \in [Requests -> SUBSET Modules] /\ executed' \in [Callers -> Nat]
           /\ \A r \in Requests : job[r] # "none" => job'[r] # "none"
           /\ \A r \in Requests : job'[r] # "none" =>
                \/ job[r] # "none" /\ jobId'[r] = jobId[r]
                \/ ReceiveUp /\ r = Of(Head(up)) /\ jobId'[r] = Head(up).id
<1> USE DEF AnswerInv
<1>1. /\ job \in [Requests -> JobStates] /\ jobId \in [Requests -> Nat]
      /\ jobCargo \in [Requests -> SUBSET Modules] /\ executed \in [Callers -> Nat]
  BY DEF TypeOK, Shapes, JobStates
<1>2. CASE UNCHANGED <<job, jobId, jobCargo, executed>>  BY <1>1, <1>2
<1>3. CASE ReceiveUp
  <2> DEFINE packet == Head(up)
             q == Of(packet)
  <2>1. /\ packet \in UpPacket /\ q \in Requests
        /\ job' = [job EXCEPT ![q] = IF packet.phase = "sync" THEN "load" ELSE "scheduled"]
        /\ jobId' = [jobId EXCEPT ![q] = packet.id] /\ UNCHANGED executed
        /\ jobCargo' = jobCargo \/ jobCargo' = [jobCargo EXCEPT ![q] = packet.sources]
    BY <1>3, Received
  <2>2. packet.id \in Nat /\ packet.sources \in SUBSET Modules  BY <2>1 DEF UpPacket
  <2> HIDE DEF packet, q
  <2>3. job' \in [Requests -> JobStates]  BY <1>1, <2>1 DEF JobStates
  <2>4. jobId' \in [Requests -> Nat] /\ jobCargo' \in [Requests -> SUBSET Modules]  BY <1>1, <2>1, <2>2
  <2>5. \A r \in Requests : job[r] # "none" => job'[r] # "none"  BY <1>1, <2>1
  <2>6. \A r \in Requests : r # q => job'[r] = job[r] /\ jobId'[r] = jobId[r]  BY <1>1, <2>1
  <2>7. jobId'[q] = packet.id  BY <1>1, <2>1
  <2> QED  BY <1>1, <1>3, <2>1, <2>3, <2>4, <2>5, <2>6, <2>7 DEF packet, q
<1>4. CASE LoseP
  <2>1. /\ job' = [r \in Requests |-> IF job[r] = "none" THEN "none" ELSE "done"]
        /\ UNCHANGED <<jobId, jobCargo, executed>>
    BY <1>4 DEF LoseP
  <2> QED  BY <1>1, <2>1 DEF JobStates
<1>5. ASSUME NEW q \in Requests, JobAction(q)
      PROVE  /\ job' \in [Requests -> JobStates] /\ UNCHANGED <<jobId, jobCargo>> /\ executed' \in [Callers -> Nat]
             /\ \A r \in Requests : job[r] # "none" <=> job'[r] # "none"
  <2>1. q[1] \in Callers  BY DEF Requests
  <2>2. PICK v \in JobStates \ {"none"} :
          /\ job' = [job EXCEPT ![q] = v] /\ job[q] # "none"
          /\ UNCHANGED executed \/ executed' = [executed EXCEPT ![q[1]] = @ + 1]
    BY <1>5, JobMoves
  <2>3. UNCHANGED <<jobId, jobCargo>>  BY <1>5, JobMoves
  <2>4. executed' \in [Callers -> Nat]  BY <1>1, <2>1, <2>2
  <2> QED  BY <1>1, <2>2, <2>3, <2>4
<1> QED  BY <1>1, <1>2, <1>3, <1>4, <1>5, JobsStep

\* Whatever travels or runs for a request keeps carrying its id.
LEMMA TaggedKeeps == ASSUME AnswerInv, Next PROVE Tagged'
<1> USE DEF AnswerInv
<1>1. ASSUME NEW packet \in Orders' PROVE Mine(packet.id, Of(packet))'
  <2>1. CASE packet \in Orders
    <3>1. Mine(packet.id, Of(packet))  BY <2>1 DEF Tagged
    <3> QED  BY <3>1, MineStays
  <2>2. ASSUME NEW c \in Callers, WritePacket(c), packet = PacketOf(c) PROVE Mine(packet.id, Of(packet))
    <3>1. packet.id = id[c] /\ Of(packet) = <<c, phase[c]>>  BY <2>2 DEF PacketOf, Of
    <3>2. id[c] \in Nat /\ id[c] # 0 /\ id[c] <= lastId /\ lastId \in Nat
      BY <2>2 DEF WritePacket, Ids, TypeOK, Active
    <3>3. ASSUME id[c] \in DOMAIN futures PROVE futures[id[c]] = c
      <4>1. futures[id[c]] \in Callers /\ id[futures[id[c]]] = id[c]  BY <3>3 DEF TypeOK
      <4> QED  BY <3>2, <4>1 DEF Ids
    <3> QED  BY <3>1, <3>2, <3>3 DEF Mine
  <2> QED  BY <2>1, <2>2, OrdersStep, MineStays
<1>2. ASSUME NEW r \in Requests, job'[r] # "none" PROVE Mine(jobId[r], r)'
  <2>1. CASE job[r] # "none" /\ jobId'[r] = jobId[r]
    <3>1. Mine(jobId[r], r)  BY <2>1 DEF Tagged
    <3>2. \A n : Mine(n, r) => n \in 1..lastId' /\ (n \in DOMAIN futures' => r = <<futures'[n], phase'[futures'[n]]>>)
      BY MineStays DEF Mine
    <3> QED  BY <2>1, <3>1, <3>2 DEF Mine
  <2>2. CASE ReceiveUp /\ r = Of(Head(up)) /\ jobId'[r] = Head(up).id
    <3>1. Head(up) \in Orders  BY <2>2, Received
    <3>2. Mine(Head(up).id, r)  BY <2>2, <3>1 DEF Tagged
    <3>3. \A n : Mine(n, r) => n \in 1..lastId' /\ (n \in DOMAIN futures' => r = <<futures'[n], phase'[futures'[n]]>>)
      BY MineStays DEF Mine
    <3> QED  BY <2>2, <3>2, <3>3 DEF Mine
  <2> QED  BY <1>2, <2>1, <2>2, JobsFrom
<1>3. ASSUME NEW packet \in Answers' PROVE Mine(packet.id, packet.of)'
  <2>1. CASE packet \in Answers
    <3>1. Mine(packet.id, packet.of)  BY <2>1 DEF Tagged
    <3> QED  BY <3>1, MineStays
  <2>2. ASSUME NEW r \in Requests, SendResponse(r), packet = ResponseOf(r) PROVE Mine(packet.id, packet.of)
    <3>1. packet.id = jobId[r] /\ packet.of = r  BY <2>2 DEF ResponseOf
    <3>2. job[r] # "none"  BY <2>2 DEF SendResponse
    <3> QED  BY <3>1, <3>2 DEF Tagged
  <2> QED  BY <2>1, <2>2, AnswersStep, MineStays
<1> QED  BY <1>1, <1>2, <1>3 DEF Tagged

\* A call that is about to write has written nothing of this request.
LEMMA NotYetWritten ==
    ASSUME AnswerInv, NEW c \in Callers, pc[c] = "send"
    PROVE  /\ <<c, phase[c]>> \in Requests /\ ~Written(<<c, phase[c]>>) /\ job[<<c, phase[c]>>] = "none"
           /\ \A packet \in Orders : Of(packet) # <<c, phase[c]>>
<1> USE DEF AnswerInv
<1>1. phase[c] \in Phases /\ <<c, phase[c]>> \in Requests  BY DEF TypeOK, Requests
<1>2. ~Written(<<c, phase[c]>>)  BY DEF Written
<1> QED  BY <1>1, <1>2 DEF Once

\* A request is never doubled.
LEMMA OnceKeeps == ASSUME AnswerInv, Next PROVE Once'
<1> USE DEF AnswerInv
<1>1. up \in Seq(UpPacket) /\ \A packet \in Orders : packet \in UpPacket /\ Of(packet) \in Requests
  <2>1. \A packet \in Orders : packet \in UpPacket  BY RangeMember DEF Orders, Shapes
  <2> QED  BY <2>1 DEF Shapes, UpPacket, Of, Requests
<1>2. \A i \in 1..Len(up) : up[i] \in Orders  BY <1>1 DEF Orders, Range
<1>3. \A i, j \in 1..Len(up') : Of(up'[i]) = Of(up'[j]) => i = j
  <2>1. CASE up' = up  BY <2>1 DEF Once
  <2>2. CASE up' = <<>>  BY <2>2
  <2>3. ASSUME NEW n \in 0..Len(up), up' = SubSeq(up, 1, n) PROVE \A i, j \in 1..Len(up') : Of(up'[i]) = Of(up'[j]) => i = j
    <3>1. Len(up') = n /\ \A i \in 1..n : up'[i] = up[i] /\ i \in 1..Len(up)  BY <1>1, <2>3
    <3> QED  BY <3>1 DEF Once
  <2>4. CASE ReceiveUp
    <3>1. up # <<>> /\ up' = Tail(up)  BY <2>4 DEF ReceiveUp
    <3>2. Len(up') = Len(up) - 1 /\ \A i \in 1..Len(up') : up'[i] = up[i + 1] /\ i + 1 \in 1..Len(up)
      BY <1>1, <3>1
    <3>3. \A i, j \in 1..Len(up') : Of(up'[i]) = Of(up'[j]) => i + 1 = j + 1  BY <3>2 DEF Once
    <3> QED  BY <3>3
  <2>5. ASSUME NEW c \in Callers, WritePacket(c) PROVE \A i, j \in 1..Len(up') : Of(up'[i]) = Of(up'[j]) => i = j
    <3>1. up' = up \/ up' = Append(up, PacketOf(c))  BY <2>5 DEF WritePacket, Write, PacketOf
    <3>2. \A packet \in Orders : Of(packet) # Of(PacketOf(c))
      <4>1. Of(PacketOf(c)) = <<c, phase[c]>>  BY DEF Of, PacketOf
      <4> QED  BY <2>5, <4>1, NotYetWritten DEF WritePacket
    <3>3. CASE up' = Append(up, PacketOf(c))
      <4>1. /\ Len(up') = Len(up) + 1 /\ up'[Len(up) + 1] = PacketOf(c) /\ Len(up) \in Nat
            /\ \A i \in 1..Len(up) : up'[i] = up[i]
        BY <1>1, <3>3
      <4>2. ASSUME NEW i \in 1..Len(up'), NEW j \in 1..Len(up'), Of(up'[i]) = Of(up'[j]) PROVE i = j
        <5>1. CASE i \in 1..Len(up) /\ j \in 1..Len(up)  BY <4>1, <4>2, <5>1 DEF Once
        <5>2. CASE i = Len(up) + 1 /\ j \in 1..Len(up)  BY <1>2, <3>2, <4>1, <4>2, <5>2
        <5>3. CASE j = Len(up) + 1 /\ i \in 1..Len(up)  BY <1>2, <3>2, <4>1, <4>2, <5>3
        <5>4. CASE i = Len(up) + 1 /\ j = Len(up) + 1  BY <5>4
        <5> QED  BY <4>1, <5>1, <5>2, <5>3, <5>4
      <4> QED  BY <4>2
    <3> QED  BY <2>1, <3>1, <3>3
  <2> QED  BY <2>1, <2>2, <2>3, <2>4, <2>5, UpStep
<1>4. ASSUME NEW packet \in Orders' PROVE Written(Of(packet))' /\ job'[Of(packet)] = "none"
  <2>1. CASE packet \in Orders
    <3>1. Of(packet) \in Requests /\ Written(Of(packet)) /\ job[Of(packet)] = "none"  BY <1>1, <2>1 DEF Once
    <3>2. Written(Of(packet))'  BY <3>1, WrittenStays
    <3>3. ASSUME ReceiveUp PROVE Of(packet) # Of(Head(up))
      <4>1. up # <<>> /\ up' = Tail(up)  BY <3>3 DEF ReceiveUp
      <4>2. /\ DOMAIN up' = 1..(Len(up) - 1) /\ Head(up) = up[1] /\ 1 \in 1..Len(up)
            /\ \A i \in 1..(Len(up) - 1) : up'[i] = up[i + 1] /\ i + 1 \in 1..Len(up) /\ i + 1 # 1
        BY <1>1, <4>1
      <4>3. PICK i \in 1..(Len(up) - 1) : packet = up[i + 1]  BY <4>2 DEF Orders, Range
      <4> QED  BY <4>2, <4>3 DEF Once
    <3> QED  BY <3>1, <3>2, <3>3, JobsFrom
  <2>2. ASSUME NEW c \in Callers, WritePacket(c), packet = PacketOf(c)
        PROVE  Written(Of(packet))' /\ job'[Of(packet)] = "none"
    <3>1. Of(packet) = <<c, phase[c]>>  BY <2>2 DEF Of, PacketOf
    <3>2. job[Of(packet)] = "none"  BY <2>2, <3>1, NotYetWritten DEF WritePacket
    <3>3. job' = job /\ phase' = phase /\ pc'[c] = "drain"  BY <2>2 DEF WritePacket, peerVars, TypeOK
    <3> QED  BY <3>1, <3>2, <3>3 DEF Written
  <2> QED  BY <2>1, <2>2, OrdersStep
<1>5. ASSUME NEW r \in Requests, job'[r] # "none" PROVE Written(r)'
  <2>1. CASE job[r] # "none"
    <3>1. Written(r)  BY <2>1 DEF Once
    <3> QED  BY <3>1, WrittenStays
  <2>2. CASE ReceiveUp /\ r = Of(Head(up))
    <3>1. Written(r)  BY <2>2, Received DEF Once
    <3> QED  BY <3>1, WrittenStays
  <2> QED  BY <1>5, <2>1, <2>2, JobsFrom
<1>6. ASSUME NEW r \in Requests
      PROVE  /\ r[2] = "sync" => job'[r] \notin {"scheduled", "run"}
             /\ r[2] = "rpc" => job'[r] \notin {"load", "build"}
  <2>1. CASE UNCHANGED <<job, jobId, jobCargo, executed>>  BY <2>1 DEF Once
  <2>2. CASE ReceiveUp
    <3>1. /\ job' = [job EXCEPT ![Of(Head(up))] = IF Head(up).phase = "sync" THEN "load" ELSE "scheduled"]
          /\ Of(Head(up))[2] = Head(up).phase
      BY <2>2, Received DEF Of
    <3> QED  BY <3>1 DEF Once, TypeOK
  <2>3. CASE LoseP  BY <2>3 DEF LoseP
  <2>4. ASSUME NEW q \in Requests, JobAction(q)
        PROVE  /\ r[2] = "sync" => job'[r] \notin {"scheduled", "run"}
               /\ r[2] = "rpc" => job'[r] \notin {"load", "build"}
    <3>1. PICK v : /\ job' = [job EXCEPT ![q] = v]
                   /\ \/ job[q] \in {"load", "build"} /\ v \in {"build", "result", "error"}
                      \/ job[q] = "scheduled" /\ v \in {"run", "error"}
                      \/ v \in {"result", "error", "done"}
      BY <2>4, JobMoves
    <3> QED  BY <3>1 DEF Once, TypeOK
  <2> QED  BY <2>1, <2>2, <2>3, <2>4, JobsStep
<1> QED  BY <1>3, <1>4, <1>5, <1>6 DEF Once

\* The counts of the methods, and the answers that say that one returned.
LEMMA RanKeeps == ASSUME AnswerInv, Next PROVE Ran' /\ \A c \in Callers : executed[c] = 1 => executed'[c] = 1
<1> USE DEF AnswerInv
<1>1. \A c \in Callers : <<c, "rpc">> \in Requests /\ <<c, "rpc">>[1] = c  BY DEF Requests, Phases
<1>2. executed \in [Callers -> Nat] /\ job \in [Requests -> JobStates]  BY DEF Shapes, TypeOK, JobStates
<1>3. ASSUME NEW c \in Callers
      PROVE  /\ executed'[c] <= 1 /\ (executed[c] = 1 => executed'[c] = 1)
             /\ job'[<<c, "rpc">>] \in {"none", "scheduled"} => executed'[c] = 0
             /\ job'[<<c, "rpc">>] \in {"run", "result"} => executed'[c] = 1
  <2> DEFINE q == <<c, "rpc">>
  <2>1. /\ executed[c] <= 1 /\ executed[c] \in Nat
        /\ job[q] \in {"none", "scheduled"} => executed[c] = 0
        /\ job[q] \in {"run", "result"} => executed[c] = 1
    BY <1>2 DEF Ran
  <2>2. CASE UNCHANGED <<job, jobId, jobCargo, executed>>  BY <2>1, <2>2
  <2>3. CASE ReceiveUp
    <3>1. /\ job' = [job EXCEPT ![Of(Head(up))] = IF Head(up).phase = "sync" THEN "load" ELSE "scheduled"]
          /\ Of(Head(up))[2] = Head(up).phase /\ executed' = executed /\ job[Of(Head(up))] = "none"
      BY <2>3, Received DEF Of, Once
    <3> QED  BY <1>1, <1>2, <2>1, <3>1
  <2>4. CASE LoseP
    <3>1. executed' = executed /\ job'[q] = IF job[q] = "none" THEN "none" ELSE "done"  BY <1>1, <2>4 DEF LoseP
    <3> QED  BY <2>1, <3>1
  <2>5. ASSUME NEW r \in Requests, JobAction(r)
        PROVE  /\ executed'[c] <= 1 /\ (executed[c] = 1 => executed'[c] = 1)
               /\ job'[q] \in {"none", "scheduled"} => executed'[c] = 0
               /\ job'[q] \in {"run", "result"} => executed'[c] = 1
    <3>1. PICK v \in JobStates \ {"none"} :
            /\ job' = [job EXCEPT ![r] = v]
            /\ \/ job[r] \in {"load", "build"} /\ v \in {"build", "result", "error"} /\ UNCHANGED executed
               \/ /\ job[r] = "scheduled" /\ v = "run"
                  /\ executed' = [executed EXCEPT ![r[1]] = @ + 1]
               \/ job[r] = "scheduled" /\ v = "error" /\ UNCHANGED executed
               \/ job[r] = "run" /\ v \in {"result", "error"} /\ UNCHANGED executed
               \/ job[r] \in {"result", "error"} /\ v = "done" /\ UNCHANGED executed
      BY <2>5, JobMoves
    <3>2. r[1] \in Callers /\ r[2] \in Phases /\ r = <<r[1], r[2]>>  BY DEF Requests
    <3>3. CASE r = q
      <4>1. r[1] = c /\ r[2] = "rpc" /\ job[q] \notin {"load", "build"} /\ job'[q] = v
        BY <1>1, <1>2, <3>1, <3>3 DEF Once
      <4> QED  BY <1>2, <2>1, <3>1, <3>3, <4>1
    <3>4. CASE r # q
      <4>1. job'[q] = job[q]  BY <1>1, <1>2, <3>1, <3>4
      <4>2. executed'[c] = executed[c]
        <5>1. CASE r[1] = c
          <6>1. r[2] = "sync"  BY <3>2, <3>4, <5>1 DEF Phases
          <6>2. job[r] # "scheduled"  BY <6>1 DEF Once
          <6> QED  BY <3>1, <6>2
        <5>2. CASE r[1] # c  BY <1>2, <3>1, <3>2, <5>2
        <5> QED  BY <5>1, <5>2
      <4> QED  BY <2>1, <4>1, <4>2
    <3> QED  BY <3>3, <3>4
  <2> HIDE DEF q
  <2> QED  BY <2>2, <2>3, <2>4, <2>5, JobsStep DEF q
<1>4. ASSUME NEW packet \in Answers, packet.kind = "result", packet.of[2] = "rpc"
      PROVE  packet.of[1] \in Callers /\ executed[packet.of[1]] = 1 /\ executed'[packet.of[1]] = 1
  <2>1. packet \in DownPacket  BY RangeMember DEF Answers, Shapes
  <2>2. packet.of[1] \in Callers  BY <2>1 DEF DownPacket, Requests
  <2>3. executed[packet.of[1]] = 1  BY <1>4 DEF Ran
  <2> QED  BY <1>3, <2>2, <2>3
<1>5. ASSUME NEW packet \in Answers', packet.kind = "result", packet.of[2] = "rpc" PROVE executed'[packet.of[1]] = 1
  <2>1. CASE packet \in Answers  BY <1>4, <1>5, <2>1
  <2>2. ASSUME NEW r \in Requests, SendResponse(r), packet = ResponseOf(r) PROVE executed'[packet.of[1]] = 1
    <3>1. packet.of = r /\ job[r] = "result" /\ executed' = executed  BY <1>5, <2>2 DEF ResponseOf, SendResponse
    <3>2. r[1] \in Callers /\ r = <<r[1], "rpc">>  BY <1>5, <3>1 DEF Requests
    <3> QED  BY <3>1, <3>2 DEF Ran
  <2> QED  BY <2>1, <2>2, AnswersStep
<1>6. ASSUME NEW c \in Callers, fut'[c] = "result", phase'[c] = "rpc" PROVE executed'[c] = 1
  <2>1. phase[c] = "rpc"  BY <1>6, FutStep
  <2>2. CASE fut[c] = "result"  BY <1>3, <2>1, <2>2 DEF Ran
  <2>3. ASSUME NEW packet \in Answers, CompletedBy(c, packet) PROVE executed'[c] = 1
    <3>1. packet.kind = "result" /\ packet.of = <<c, "rpc">>
      BY <1>6, <2>1, <2>3 DEF CompletedBy, Tagged, Mine
    <3> QED  BY <1>4, <3>1
  <2> QED  BY <1>6, <2>2, <2>3, FutStep
<1> QED  BY <1>3, <1>5, <1>6 DEF Ran

-----------------------------------------------------------------------------
(* A call is answered by its own request                                    *)

\* Only Resume ends a call with a result.
LEMMA Returned ==
    ASSUME AnswerInv, Next, NEW c \in Callers, pc'[c] = "returned"
    PROVE  pc[c] = "returned" \/ (fut[c] = "result" /\ phase[c] = "rpc")
<1> USE DEF AnswerInv
<1>1. ASSUME NEW d \in Callers, Entering(d) PROVE pc'[c] = pc[c]
  <2>1. pc' = [pc EXCEPT ![d] = "lost"] \/ pc' = [pc EXCEPT ![d] = "send"]  BY <1>1, EnterIds
  <2> QED  BY <2>1 DEF TypeOK
<1>2. ASSUME NEW d \in Callers, CallAction(d) PROVE pc'[c] = pc[c] \/ Resume(d)
  <2>1. CASE Begin(d) /\ Tool[d] \in cached  BY <1>1, <2>1, Enters
  <2>2. CASE Locked(d) \/ Synced(d)  BY <1>1, <2>2, Enters
  <2>3. CASE \/ Begin(d) /\ Tool[d] \notin cached
             \/ WritePacket(d) \/ Drained(d) \/ SendFails(d) \/ Cancel(d) \/ CancelDrain(d)
    BY <2>3 DEF Begin, WritePacket, Drained, SendFails, Cancel, CancelDrain, TypeOK
  <2> QED  BY <1>2, <2>1, <2>2, <2>3 DEF CallAction
<1>3. ASSUME NEW d \in Callers, Resume(d) PROVE pc'[c] = pc[c] \/ (fut[c] = "result" /\ phase[c] = "rpc")
  BY <1>3 DEF Resume, End, TypeOK
<1>4. ASSUME NEW r \in Requests, JobAction(r) PROVE pc' = pc
  BY <1>4, JobMoves DEF localVars, callVars
<1>5. CASE ReceiveDown \/ HandleResult \/ Lose \/ Close \/ ReceiveUp \/ RefuseUp \/ LoseP \/ BreakLink
  BY <1>5 DEF ReceiveDown, HandleResult, Lose, Close, ReceiveUp, RefuseUp, LoseP, BreakLink, localVars, callVars
<1> QED  BY <1>2, <1>3, <1>4, <1>5, NextActions

\* A call that is completed got the answer of its own request.
LEMMA OwnAnswerKeeps == ASSUME AnswerInv, Next PROVE OwnAnswer'
<1> USE DEF AnswerInv
<1>1. ASSUME NEW c \in Callers, fut'[c] \in {"result", "error"} PROVE answer'[c] = <<c, phase'[c]>>
  <2>1. phase'[c] = phase[c]  BY <1>1, FutStep
  <2>2. CASE fut'[c] = fut[c] /\ answer'[c] = answer[c]  BY <1>1, <2>1, <2>2 DEF OwnAnswer
  <2>3. ASSUME NEW packet \in Answers, CompletedBy(c, packet) PROVE answer'[c] = <<c, phase'[c]>>
    BY <2>1, <2>3 DEF CompletedBy, Tagged, Mine
  <2> QED  BY <1>1, <2>2, <2>3, FutStep
<1>2. ASSUME NEW c \in Callers, pc'[c] = "returned" PROVE executed'[c] = 1
  <2>1. executed[c] = 1  BY <1>2, Returned DEF OwnAnswer, Ran
  <2> QED  BY <2>1, RanKeeps
<1>3. \A c \in Callers : executed'[c] <= 1  BY RanKeeps DEF Ran
<1> QED  BY <1>1, <1>2, <1>3 DEF OwnAnswer

\* The sets of names that the two sides keep.
LEMMA NamesKeep ==
    ASSUME AnswerInv, Next
    PROVE  /\ known' \subseteq Modules /\ cached' \subseteq Tools
           /\ installed' \subseteq Modules /\ spaces' \subseteq Modules /\ loaded' \subseteq Tools
<1> USE DEF AnswerInv
<1>1. /\ known \subseteq Modules /\ cached \subseteq Tools /\ cargo \in [Callers -> SUBSET Modules]
      /\ installed \subseteq Modules /\ spaces \subseteq Modules /\ loaded \subseteq Tools
      /\ jobCargo \in [Requests -> SUBSET Modules]
  BY DEF TypeOK, Shapes
<1>2. \A c \in Callers : Tool[c] \in Tools  BY ProgramParts DEF Shapes
<1>3. ASSUME NEW sources \in SUBSET Modules, Install(sources)
      PROVE  installed' \subseteq Modules /\ spaces' \subseteq Modules
  BY <1>1, <1>3, CallsConstants DEF Install
<1>4. ASSUME NEW c \in Callers, CallAction(c)
      PROVE  known' \subseteq Modules /\ cached' \subseteq Tools /\ UNCHANGED peerVars
  BY <1>1, <1>2, <1>4
     DEF CallAction, Begin, Locked, WritePacket, Drained, KnownSent, Synced, Resume, SendFails, Cancel, CancelDrain
<1>5. ASSUME NEW r \in Requests, JobAction(r)
      PROVE  /\ UNCHANGED localVars
             /\ installed' \subseteq Modules /\ spaces' \subseteq Modules /\ loaded' \subseteq Tools
  <2>1. r[1] \in Callers /\ jobCargo[r] \in SUBSET Modules  BY <1>1 DEF Requests
  <2>2. UNCHANGED localVars  BY <1>5, JobMoves
  <2>3. CASE BuildTool(r)  BY <1>1, <1>2, <1>3, <2>1, <2>2, <2>3 DEF BuildTool
  <2>4. CASE LoadTool(r) \/ StartMethod(r) \/ FinishMethod(r) \/ SendResponse(r)
    BY <1>1, <2>2, <2>4 DEF LoadTool, StartMethod, FinishMethod, SendResponse
  <2> QED  BY <1>5, <2>3, <2>4 DEF JobAction
<1>6. CASE ReceiveUp
  <2>1. Head(up).sources \in SUBSET Modules  BY <1>6, Received DEF UpPacket
  <2>2. UNCHANGED <<localVars, loaded>> /\ (UNCHANGED <<installed, spaces>> \/ Install(Head(up).sources))
    BY <1>6 DEF ReceiveUp
  <2> QED  BY <1>1, <1>3, <2>1, <2>2 DEF localVars
<1>7. CASE ReceiveDown \/ HandleResult \/ Lose \/ Close \/ RefuseUp \/ LoseP \/ BreakLink
  BY <1>1, <1>7 DEF ReceiveDown, HandleResult, Lose, Close, RefuseUp, LoseP, BreakLink, localVars, peerVars
<1> QED  BY <1>1, <1>4, <1>5, <1>6, <1>7, NextActions DEF localVars, peerVars

\* Every step keeps the types.
LEMMA TypesKeep == ASSUME AnswerInv, Next PROVE TypeOK'
<1>1. job' \in [Requests -> JobStates]  BY JobsFrom
<1>2. fut' \in [Callers -> {"none", "pending", "result", "error", "lost"}]  BY FutStep
<1> QED  BY <1>1, <1>2, IdsKeep, NamesKeep DEF TypeOK, JobStates

\* The calls stay what they are.
LEMMA ProgramStays ==
    ASSUME Next
    PROVE  program' = program /\ Tool' = Tool /\ Carried' = Carried /\ Root' = Root /\ Bundle' = Bundle
<1>1. program' = program
  BY NextActions DEF CallAction, Begin, Locked, WritePacket, Drained, Synced, Resume, SendFails, Cancel, CancelDrain,
     JobAction, LoadTool, BuildTool, StartMethod, FinishMethod, SendResponse,
     ReceiveDown, HandleResult, Lose, Close, ReceiveUp, RefuseUp, LoseP, BreakLink
<1> QED  BY <1>1 DEF Tool, Carried, Root, Bundle

\* Every step keeps the shapes of packets and jobs.
LEMMA ShapesKeep == ASSUME AnswerInv, Next PROVE Shapes'
<1> USE DEF AnswerInv
<1>1. program' = program  BY ProgramStays
<1>2. link \in BOOLEAN /\ closed \in BOOLEAN /\ closedP \in BOOLEAN /\ sent \in [Modules -> Nat]  BY DEF Shapes
<1>3. link' = link \/ link' = FALSE
  BY NextActions DEF CallAction, Begin, Locked, WritePacket, Drained, Synced, Resume, SendFails, Cancel, CancelDrain,
     JobAction, LoadTool, BuildTool, StartMethod, FinishMethod, SendResponse,
     ReceiveDown, HandleResult, Lose, Close, ReceiveUp, RefuseUp, LoseP, BreakLink
<1>4. closed' = closed \/ closed' = TRUE
  BY NextActions DEF CallAction, Begin, Locked, WritePacket, Drained, Synced, Resume, SendFails, Cancel, CancelDrain,
     JobAction, LoadTool, BuildTool, StartMethod, FinishMethod, SendResponse, localVars,
     ReceiveDown, HandleResult, Lose, Close, ReceiveUp, RefuseUp, LoseP, BreakLink
<1>5. closedP' = closedP \/ closedP' = TRUE \/ closedP' = (closedP \/ ~link)
  BY NextActions DEF CallAction, Begin, Locked, WritePacket, Drained, Synced, Resume, SendFails, Cancel, CancelDrain,
     JobAction, LoadTool, BuildTool, StartMethod, FinishMethod, SendResponse, peerVars,
     ReceiveDown, HandleResult, Lose, Close, ReceiveUp, RefuseUp, LoseP, BreakLink
<1>6. sent' = sent \/ \E c \in Callers : sent' = [m \in Modules |-> IF m \in cargo[c] THEN sent[m] + 1 ELSE sent[m]]
  BY NextActions DEF CallAction, Begin, Locked, WritePacket, Drained, Synced, Resume, SendFails, Cancel, CancelDrain,
     JobAction, LoadTool, BuildTool, StartMethod, FinishMethod, SendResponse, localVars,
     ReceiveDown, HandleResult, Lose, Close, ReceiveUp, RefuseUp, LoseP, BreakLink
<1>7. sent' \in [Modules -> Nat]  BY <1>2, <1>6
<1>8. link' \in BOOLEAN /\ closed' \in BOOLEAN /\ closedP' \in BOOLEAN  BY <1>2, <1>3, <1>4, <1>5
<1> QED  BY <1>1, <1>7, <1>8, OrdersStep, AnswersStep, JobsFrom, FutStep DEF Shapes

\* The invariant of the answers is inductive.
LEMMA AnswerInvKeeps == ASSUME AnswerInv, [Next]_vars PROVE AnswerInv'
<1>1. CASE Next  BY <1>1, TypesKeep, ShapesKeep, IdsKeep, TaggedKeeps, OnceKeeps, RanKeeps, OwnAnswerKeeps DEF AnswerInv
<1>2. CASE UNCHANGED vars
  <2> USE <1>2 DEF vars, localVars, callVars, peerVars, AnswerInv
  <2>1. TypeOK'  BY DEF TypeOK
  <2>2. Shapes'  BY DEF Shapes
  <2>3. Ids'  BY DEF Ids
  <2>4. Tagged'  BY DEF Tagged, Mine, Orders, Answers
  <2>5. Once'  BY DEF Once, Orders, Written
  <2>6. Ran'  BY DEF Ran, Answers
  <2>7. OwnAnswer'  BY DEF OwnAnswer
  <2> QED  BY <2>1, <2>2, <2>3, <2>4, <2>5, <2>6, <2>7
<1> QED  BY <1>1, <1>2

\* The invariant of the answers holds at the start.
LEMMA AnswerInvInit == ASSUME Init PROVE AnswerInv
<1> USE DEF Init
<1>1. Orders = {} /\ Answers = {} /\ DOMAIN futures = {}  BY DEF Orders, Answers, Range
<1>2. TypeOK  BY DEF TypeOK, Phases
<1>3. Shapes
  <2>1. program \in Program  BY CallsConstants
  <2>2. up \in Seq(UpPacket) /\ down \in Seq(DownPacket) /\ handling \subseteq DownPacket  OBVIOUS
  <2>3. answer \in [Callers -> Requests \cup {<<NoCall, "sync">>}]  OBVIOUS
  <2>4. jobId \in [Requests -> Nat] /\ jobCargo \in [Requests -> SUBSET Modules]  OBVIOUS
  <2>5. executed \in [Callers -> Nat] /\ sent \in [Modules -> Nat]  OBVIOUS
  <2> QED  BY <2>1, <2>2, <2>3, <2>4, <2>5 DEF Shapes
<1>4. Ids  BY DEF Ids, Active
<1>5. Tagged  BY <1>1 DEF Tagged
<1>6. Once  BY <1>1 DEF Once
<1>7. Ran  BY <1>1 DEF Ran, Requests, Phases
<1>8. OwnAnswer  BY DEF OwnAnswer
<1> QED  BY <1>2, <1>3, <1>4, <1>5, <1>6, <1>7, <1>8 DEF AnswerInv

\* A call is completed by the response of its own request, whatever was
\* cancelled before, and one that returned ran its method once (_call,
\* _handle_rpc_response, _handle_rpc_request).
THEOREM CallsAnswerTheirOwn == Spec => []OwnAnswer
<1>1. Init => AnswerInv  BY AnswerInvInit
<1>2. AnswerInv /\ [Next]_vars => AnswerInv'  BY AnswerInvKeeps
<1>3. AnswerInv => OwnAnswer  BY DEF AnswerInv
<1> QED  BY <1>1, <1>2, <1>3, PTL DEF Spec

-----------------------------------------------------------------------------
(* What the peer holds                                                      *)

SupplyInv == AnswerInv /\ Supplied /\ Loaded

EnterAction(c) == (Begin(c) /\ Tool[c] \in cached) \/ Locked(c) \/ Synced(c)

\* A call keeps its phase and its cargo, or enters _call.
LEMMA CallFrame ==
    ASSUME AnswerInv, Next, NEW c \in Callers
    PROVE  EnterAction(c) \/ (phase'[c] = phase[c] /\ cargo'[c] = cargo[c] /\ Advances(c))
<1>1. CASE Steady  BY <1>1 DEF Steady
<1>2. ASSUME NEW d \in Callers, EnterAction(d), d # c
      PROVE  phase'[c] = phase[c] /\ cargo'[c] = cargo[c] /\ Advances(c)
  <2>1. Entering(d)  BY <1>2, Enters DEF EnterAction
  <2>2. \E where \in Phases :
          /\ phase' = [phase EXCEPT ![d] = where]
          /\ pc' = [pc EXCEPT ![d] = "lost"] \/ pc' = [pc EXCEPT ![d] = "send"]
          /\ cargo' = cargo \/ \E sources \in SUBSET Modules : cargo' = [cargo EXCEPT ![d] = sources]
    BY <2>1, EnterIds
  <2> QED  BY <1>2, <2>2 DEF AnswerInv, TypeOK, Advances
<1>3. Steady \/ \E d \in Callers : EnterAction(d)  BY CallSteady, OtherSteady DEF Next, EnterAction
<1> QED  BY <1>1, <1>2, <1>3

\* What a call that enters _call sends is wanted, and the peer lacks it; a definition sends all of it.
LEMMA EnterWants ==
    ASSUME AnswerInv, NEW c \in Callers, EnterAction(c)
    PROVE  \/ pc'[c] = "lost"
           \/ /\ pc'[c] = "send" /\ cargo'[c] \subseteq Wanted(c)' \ known'
              /\ \/ phase'[c] = "rpc" /\ cargo'[c] = Attached(c, known')
                 \/ phase'[c] = "sync" /\ Wanted(c)' \subseteq cargo'[c] \cup known'
<1> USE DEF AnswerInv, Enter, Missing, Wanted
<1>1. Tool' = Tool /\ Carried' = Carried /\ Bundle' = Bundle
  BY DEF EnterAction, Begin, Locked, Synced, Tool, Carried, Bundle
<1>6. \A have : Attached(c, have) \subseteq Carried[c] \ have  BY ProgramParts DEF Shapes
<1>2. CASE closed
  <2>1. pc' = [pc EXCEPT ![c] = "lost"]  BY <1>2 DEF EnterAction, Begin, Locked, Synced
  <2> QED  BY <2>1 DEF TypeOK
<1>3. CASE ~closed /\ Begin(c) /\ Tool[c] \in cached  BY <1>1, <1>3, <1>6 DEF Begin, TypeOK
<1>4. CASE ~closed /\ Locked(c)  BY <1>1, <1>4, <1>6 DEF Locked, TypeOK
<1>5. CASE ~closed /\ Synced(c)  BY <1>1, <1>5, <1>6 DEF Synced, TypeOK
<1> QED  BY <1>2, <1>3, <1>4, <1>5 DEF EnterAction

\* The peer never loses a source or a tool, and loads a tool with its bundle.
LEMMA PeerGrows ==
    ASSUME AnswerInv, Next
    PROVE  /\ installed \subseteq installed' /\ loaded \subseteq loaded'
           /\ \A t \in loaded' : t \in loaded \/ Bundle[t] \subseteq installed'
<1>1. ASSUME NEW c \in Callers, CallAction(c) PROVE UNCHANGED <<installed, loaded>>
  BY <1>1 DEF CallAction, Begin, Locked, WritePacket, Drained, Synced, Resume, SendFails, Cancel, CancelDrain, peerVars
<1>2. ASSUME NEW r \in Requests, JobAction(r)
      PROVE  /\ installed \subseteq installed' /\ loaded \subseteq loaded'
             /\ \A t \in loaded' : t \in loaded \/ Bundle[t] \subseteq installed'
  <2>1. CASE BuildTool(r)  BY <2>1 DEF BuildTool, Install
  <2>2. CASE LoadTool(r) \/ StartMethod(r) \/ FinishMethod(r) \/ SendResponse(r)
    BY <2>2 DEF LoadTool, StartMethod, FinishMethod, SendResponse
  <2> QED  BY <1>2, <2>1, <2>2 DEF JobAction
<1>3. CASE ReceiveUp  BY <1>3 DEF ReceiveUp, Install
<1>4. CASE ReceiveDown \/ HandleResult \/ Lose \/ Close \/ RefuseUp \/ LoseP \/ BreakLink
  BY <1>4 DEF ReceiveDown, HandleResult, Lose, Close, RefuseUp, LoseP, BreakLink, peerVars
<1> QED  BY <1>1, <1>2, <1>3, <1>4, NextActions

\* The caller forgets nothing of what the peer holds, and learns it from its
\* own completed packets.
LEMMA CacheGrows ==
    ASSUME AnswerInv, Next
    PROVE  /\ known \subseteq known' /\ cached \subseteq cached'
           /\ known' = known \/ \E c \in Callers : Synced(c) \/ Drained(c)
           /\ \A t \in cached' : t \in cached \/ (\E c \in Callers : Synced(c) /\ t = Tool[c])
<1>1. ASSUME NEW c \in Callers, CallAction(c)
      PROVE  /\ known \subseteq known' /\ cached \subseteq cached'
             /\ known' = known \/ Synced(c) \/ Drained(c)
             /\ \A t \in cached' : t \in cached \/ (Synced(c) /\ t = Tool[c])
  <2>1. CASE Synced(c)  BY <2>1 DEF Synced
  <2>2. CASE Drained(c)  BY <2>2 DEF Drained, KnownSent
  <2>3. CASE Begin(c) \/ Locked(c) \/ WritePacket(c) \/ Resume(c) \/ SendFails(c) \/ Cancel(c) \/ CancelDrain(c)
    BY <2>3 DEF Begin, Locked, WritePacket, Resume, SendFails, Cancel, CancelDrain
  <2> QED  BY <1>1, <2>1, <2>2, <2>3 DEF CallAction
<1>2. ASSUME NEW r \in Requests, JobAction(r) PROVE UNCHANGED <<known, cached>>
  BY <1>2, JobMoves DEF localVars
<1>3. CASE ReceiveDown \/ HandleResult \/ Lose \/ Close \/ ReceiveUp \/ RefuseUp \/ LoseP \/ BreakLink
  BY <1>3 DEF ReceiveDown, HandleResult, Lose, Close, ReceiveUp, RefuseUp, LoseP, BreakLink, localVars
<1> QED  BY <1>1, <1>2, <1>3, NextActions

\* A tool that the peer loaded keeps its bundle.
LEMMA LoadedKeeps == ASSUME SupplyInv, Next PROVE Loaded'
<1> USE DEF SupplyInv, AnswerInv
<1>1. Tool' = Tool /\ Bundle' = Bundle  BY ProgramStays
<1>2. \A t \in loaded' : Bundle[t] \subseteq installed'  BY PeerGrows DEF Loaded
<1>3. cached' \subseteq loaded'
  <2>1. \A c \in Callers : Synced(c) => Tool[c] \in loaded  BY DEF Synced, Loaded
  <2> QED  BY <2>1, CacheGrows, PeerGrows DEF Loaded
<1>4. ASSUME NEW c \in Callers, phase'[c] = "rpc" PROVE Tool[c] \in loaded
  <2>1. CASE EnterAction(c)
    <3>1. CASE Tool[c] \in cached  BY <3>1 DEF Loaded
    <3>2. CASE Synced(c)  BY <3>2 DEF Synced, Loaded
    <3>3. CASE Locked(c) /\ Tool[c] \notin cached  BY <1>4, <3>3 DEF Locked, Enter, TypeOK
    <3> QED  BY <2>1, <3>1, <3>2, <3>3 DEF EnterAction
  <2>2. CASE phase'[c] = phase[c]  BY <1>4, <2>2 DEF Loaded
  <2> QED  BY <2>1, <2>2, CallFrame
<1>5. ASSUME NEW c \in Callers, fut'[c] = "result" PROVE Tool[c] \in loaded
  <2>1. CASE fut[c] = "result" \/ phase[c] = "rpc"  BY <2>1 DEF Loaded
  <2>2. ASSUME NEW packet \in Answers, CompletedBy(c, packet), phase[c] = "sync" PROVE Tool[c] \in loaded
    <3>1. packet.kind = "result" /\ packet.of = <<c, "sync">>  BY <1>5, <2>2 DEF CompletedBy, Tagged, Mine
    <3> QED  BY <3>1 DEF Loaded
  <2> QED  BY <1>5, <2>1, <2>2, FutStep DEF TypeOK, Phases
<1>6. ASSUME NEW r \in Requests, r[2] = "sync", job'[r] = "result" PROVE Tool[r[1]] \in loaded'
  <2>1. CASE job[r] = "result"  BY <1>6, <2>1, PeerGrows DEF Loaded
  <2>2. CASE job[r] # "result"
    <3>1. CASE ReceiveUp  BY <1>6, <2>2, <3>1, Received DEF TypeOK
    <3>2. CASE LoseP  BY <1>6, <3>2 DEF LoseP
    <3>3. ASSUME NEW q \in Requests, JobAction(q) PROVE Tool[r[1]] \in loaded'
      <4>1. r = q  BY <1>6, <2>2, <3>3, JobMoves DEF TypeOK
      <4>2. ~StartMethod(r) /\ ~FinishMethod(r)  BY <1>6 DEF Once, StartMethod, FinishMethod
      <4>3. ~SendResponse(r)  BY <1>6 DEF SendResponse, TypeOK
      <4>4. CASE LoadTool(r)  BY <1>6, <4>4 DEF LoadTool, TypeOK
      <4>5. CASE BuildTool(r)  BY <1>6, <4>5 DEF BuildTool, TypeOK
      <4> QED  BY <3>3, <4>1, <4>2, <4>3, <4>4, <4>5 DEF JobAction
    <3> QED  BY <1>6, <2>2, <3>1, <3>2, <3>3, JobsStep
  <2> QED  BY <2>1, <2>2
<1>7. ASSUME NEW packet \in Answers', packet.of[2] = "sync", packet.kind = "result" PROVE Tool[packet.of[1]] \in loaded'
  <2>1. CASE packet \in Answers  BY <1>7, <2>1, PeerGrows DEF Loaded
  <2>2. ASSUME NEW r \in Requests, SendResponse(r), packet = ResponseOf(r) PROVE Tool[packet.of[1]] \in loaded
    <3>1. packet.of = r /\ job[r] = "result"  BY <1>7, <2>2 DEF ResponseOf
    <3> QED  BY <1>7, <3>1 DEF Loaded
  <2> QED  BY <2>1, <2>2, AnswersStep, PeerGrows
<1> QED  BY <1>1, <1>2, <1>3, <1>4, <1>5, <1>6, <1>7, PeerGrows DEF Loaded

\* As long as the connection is up, packets are only added and taken.
LEMMA UpKept ==
    ASSUME Next, link'
    PROVE  /\ link
           /\ \/ up' = up \/ ReceiveUp
              \/ \E c \in Callers : WritePacket(c) /\ up' = Append(up, PacketOf(c))
<1>1. ASSUME NEW c \in Callers, CallAction(c)
      PROVE  link /\ (up' = up \/ (WritePacket(c) /\ up' = Append(up, PacketOf(c))))
  BY <1>1 DEF CallAction, Begin, Locked, WritePacket, Write, PacketOf, Drained, Synced, Resume, SendFails, Cancel,
     CancelDrain
<1>2. ASSUME NEW r \in Requests, JobAction(r) PROVE link /\ up' = up
  BY <1>2 DEF JobAction, LoadTool, BuildTool, StartMethod, FinishMethod, SendResponse
<1>3. CASE ReceiveDown \/ HandleResult \/ Lose \/ Close \/ ReceiveUp \/ RefuseUp \/ LoseP \/ BreakLink
  BY <1>3 DEF ReceiveDown, HandleResult, Lose, Close, ReceiveUp, RefuseUp, LoseP, BreakLink
<1> QED  BY <1>1, <1>2, <1>3, NextActions

\* The packet that arrives leaves its envelope behind.
LEMMA HoldsTail ==
    ASSUME AnswerInv, ReceiveUp, NEW i \in Nat, i < Len(up), NEW m, Holds(m, i + 1)
    PROVE  Holds(m, i)'
<1>1. up \in Seq(UpPacket) /\ up # <<>> /\ up' = Tail(up) /\ Len(up) \in Nat
  BY DEF AnswerInv, Shapes, ReceiveUp
<1>2. Head(up) = up[1]  BY <1>1
<1>3. installed \subseteq installed' /\ (up[1].phase = "rpc" => up[1].sources \subseteq installed')
  BY <1>2 DEF ReceiveUp, Install
<1>4. CASE m \in installed  BY <1>3, <1>4 DEF Holds
<1>5. ASSUME NEW j \in 1..(i + 1), up[j].phase = "rpc", m \in up[j].sources PROVE Holds(m, i)'
  <2>1. CASE j = 1  BY <1>3, <1>5, <2>1 DEF Holds
  <2>2. CASE j # 1
    <3>1. j - 1 \in 1..i /\ j - 1 \in 1..(Len(up) - 1) /\ (j - 1) + 1 = j  BY <1>1, <2>2
    <3>2. up'[j - 1] = up[j]  BY <1>1, <3>1
    <3> QED  BY <1>5, <3>1, <3>2 DEF Holds
  <2> QED  BY <2>1, <2>2
<1> QED  BY <1>4, <1>5 DEF Holds

\* Where a packet is ahead in both, so is what it brings.
LEMMA HoldsSame ==
    ASSUME NEW i \in Nat, \A j \in 1..i : up'[j] = up[j], installed \subseteq installed', NEW m, Holds(m, i)
    PROVE  Holds(m, i)'
  BY DEF Holds

\* What the peer will hold once it has read the whole wire, it will hold after
\* any step.
LEMMA HoldsAll ==
    ASSUME AnswerInv, Next, link', NEW m, Holds(m, Len(up)) PROVE Holds(m, Len(up))'
<1>1. up \in Seq(UpPacket) /\ Len(up) \in Nat  BY DEF AnswerInv, Shapes
<1>2. CASE up' = up
  <2>1. Holds(m, Len(up)) => \/ m \in installed' \/ \E j \in 1..Len(up') : up'[j].phase = "rpc" /\ m \in up'[j].sources
    BY <1>2, PeerGrows DEF Holds
  <2> QED  BY <2>1 DEF Holds
<1>3. CASE ReceiveUp
  <2>1. up # <<>> /\ up' = Tail(up)  BY <1>3 DEF ReceiveUp
  <2>2. Len(up') = Len(up) - 1 /\ Len(up) - 1 \in Nat /\ Len(up) - 1 < Len(up)  BY <1>1, <2>1
  <2>3. \A i \in Nat : i = Len(up) - 1 => Holds(m, i)'
    <3>1. SUFFICES ASSUME NEW i \in Nat, i = Len(up) - 1 PROVE Holds(m, i)'  OBVIOUS
    <3>2. i < Len(up) /\ i + 1 = Len(up)  BY <1>1, <3>1
    <3>3. Holds(m, i + 1)  BY <3>2
    <3> QED  BY <1>3, <3>2, <3>3, HoldsTail
  <2> QED  BY <2>2, <2>3 DEF Holds
<1>4. ASSUME NEW c \in Callers, up' = Append(up, PacketOf(c)) PROVE Holds(m, Len(up))'
  <2>1. Len(up') = Len(up) + 1 /\ \A i \in 1..Len(up) : up'[i] = up[i] /\ i \in 1..Len(up')  BY <1>1, <1>4
  <2> QED  BY <2>1, PeerGrows DEF Holds
<1> QED  BY <1>2, <1>3, <1>4, UpKept

\* Every packet goes on finding what it leaves out.
LEMMA ComplementedKeeps == ASSUME SupplyInv, Next, NEW i \in 1..Len(up') PROVE Complemented(i)'
<1> USE DEF SupplyInv, AnswerInv
<1>1. up \in Seq(UpPacket) /\ Len(up) \in Nat /\ i \in Nat /\ i >= 1  BY OrdersStep DEF Shapes
<1>2. Tool' = Tool /\ Carried' = Carried /\ Bundle' = Bundle /\ installed \subseteq installed'
  BY ProgramStays, PeerGrows
<1>3. ASSUME i \in 1..Len(up), \A j \in 1..i : up'[j] = up[j] PROVE Complemented(i)'
  <2>1. Complemented(i) /\ up'[i] = up[i]  BY <1>1, <1>3 DEF Supplied
  <2>2. \A m : Holds(m, i) => Holds(m, i)'  BY <1>1, <1>2, <1>3, HoldsSame
  <2> QED  BY <1>2, <2>1, <2>2 DEF Complemented
<1>4. CASE up' = up  BY <1>3, <1>4
<1>5. CASE up' = <<>>  BY <1>1, <1>5
<1>6. ASSUME NEW n \in 0..Len(up), up' = SubSeq(up, 1, n) PROVE Complemented(i)'
  <2>1. Len(up') = n /\ i \in 1..Len(up) /\ \A j \in 1..i : up'[j] = up[j]  BY <1>1, <1>6
  <2> QED  BY <1>3, <2>1
<1>7. CASE ReceiveUp
  <2>1. up # <<>> /\ up' = Tail(up)  BY <1>7 DEF ReceiveUp
  <2>2. Len(up') = Len(up) - 1 /\ i < Len(up) /\ i + 1 \in 1..Len(up) /\ up'[i] = up[i + 1]  BY <1>1, <2>1
  <2>3. Complemented(i + 1)  BY <2>2 DEF Supplied
  <2>4. \A m : Holds(m, i + 1) => Holds(m, i)'  BY <1>1, <1>7, <2>2, HoldsTail
  <2> QED  BY <1>2, <2>2, <2>3, <2>4 DEF Complemented
<1>8. ASSUME NEW c \in Callers, WritePacket(c) PROVE Complemented(i)'
  <2>1. CASE up' = up  BY <1>4, <2>1
  <2>2. CASE link /\ up' = Append(up, PacketOf(c))
    <3>1. Len(up') = Len(up) + 1 /\ up'[Len(up) + 1] = PacketOf(c) /\ \A j \in 1..Len(up) : up'[j] = up[j]
      BY <1>1, <2>2
    <3>2. CASE i \in 1..Len(up)
      <4>1. \A j \in 1..i : up'[j] = up[j]  BY <1>1, <3>1, <3>2
      <4> QED  BY <1>3, <3>2, <4>1
    <3>3. CASE i = Len(up) + 1
      <4>1. /\ up'[i].call = c /\ up'[i].phase = phase[c] /\ up'[i].sources = cargo[c]
        BY <3>1, <3>3 DEF PacketOf
      <4>2. Wanted(c) \subseteq cargo[c] \cup known  BY <1>8 DEF WritePacket, Supplied, Active
      <4>3. \A m \in known : Holds(m, i)'
        <5>1. \A m \in known : Holds(m, Len(up))  BY <2>2 DEF Supplied
        <5>2. 1..Len(up) \subseteq 1..i  BY <1>1, <3>3
        <5> QED  BY <1>2, <3>1, <5>1, <5>2 DEF Holds
      <4>4. phase[c] = "rpc" => \A m \in cargo[c] : Holds(m, i)'
        <5>1. i \in 1..i  BY <1>1
        <5> QED  BY <4>1, <5>1 DEF Holds
      <4> QED  BY <1>2, <4>1, <4>2, <4>3, <4>4 DEF Complemented, Wanted
    <3> QED  BY <1>1, <3>1, <3>2, <3>3
  <2> QED  BY <1>8, <2>1, <2>2 DEF WritePacket, Write, PacketOf
<1> QED  BY <1>4, <1>5, <1>6, <1>7, <1>8, UpStep

\* Only the write takes a call from send to drain.
LEMMA SendMoves ==
    ASSUME AnswerInv, Next, NEW c \in Callers, pc[c] = "send", pc'[c] = "drain" PROVE WritePacket(c)
<1> USE DEF AnswerInv
<1>1. ASSUME NEW d \in Callers, EnterAction(d) PROVE FALSE
  <2>1. pc' = [pc EXCEPT ![d] = "lost"] \/ pc' = [pc EXCEPT ![d] = "send"]  BY <1>1, Enters, EnterIds DEF EnterAction
  <2> QED  BY <2>1 DEF TypeOK
<1>2. ASSUME NEW d \in Callers, CallAction(d), ~EnterAction(d) PROVE WritePacket(c)
  BY <1>2 DEF CallAction, EnterAction, Begin, WritePacket, Drained, Resume, End, SendFails, Cancel, CancelDrain, TypeOK
<1>3. ASSUME NEW r \in Requests, JobAction(r) PROVE pc' = pc
  BY <1>3, JobMoves DEF localVars, callVars
<1>4. CASE ReceiveDown \/ HandleResult \/ Lose \/ Close \/ ReceiveUp \/ RefuseUp \/ LoseP \/ BreakLink
  BY <1>4 DEF ReceiveDown, HandleResult, Lose, Close, ReceiveUp, RefuseUp, LoseP, BreakLink, localVars, callVars
<1> QED  BY <1>1, <1>2, <1>3, <1>4, NextActions

\* A definition that is loaded was loaded before, or has arrived.
LEMMA LoadsFrom ==
    ASSUME AnswerInv, Next, NEW r \in Requests, job'[r] \in {"load", "build"}
    PROVE  \/ job[r] \in {"load", "build"} /\ jobCargo'[r] = jobCargo[r]
           \/ ReceiveUp /\ r = Of(Head(up))
<1> USE DEF AnswerInv
<1>1. CASE UNCHANGED <<job, jobId, jobCargo, executed>>  BY <1>1
<1>2. CASE ReceiveUp /\ r # Of(Head(up))  BY <1>2, Received DEF TypeOK, Shapes
<1>3. CASE LoseP  BY <1>3 DEF LoseP
<1>4. ASSUME NEW q \in Requests, JobAction(q) PROVE job[r] \in {"load", "build"} /\ jobCargo'[r] = jobCargo[r]
  <2>1. PICK v : job' = [job EXCEPT ![q] = v] /\ (v = "build" => job[q] \in {"load", "build"}) /\ v # "load"
    BY <1>4, JobMoves
  <2>2. jobCargo' = jobCargo  BY <1>4, JobMoves
  <2> QED  BY <2>1, <2>2 DEF TypeOK
<1> QED  BY <1>1, <1>2, <1>3, <1>4, JobsStep

\* Where all that a known module brings along is known, a request leaves out nothing that it needs.
LEMMA AttachedCompletes ==
    ASSUME NEW c \in Callers, NEW have, \A m \in have : program.brings[m] \subseteq have
    PROVE  Carried[c] \subseteq Attached(c, have) \cup have
  BY DEF Carried, Attached

\* What becomes known with a packet is whole.
LEMMA KnownStaysWhole == ASSUME SupplyInv, Next PROVE KnownWhole'
<1> USE DEF SupplyInv, AnswerInv, Supplied
<1>1. program' = program  BY ProgramStays
<1>2. program \in Program  BY DEF Shapes
<1>3. ASSUME NEW c \in Callers, pc[c] \in Active, known' = known \cup cargo[c], NEW m \in known' PROVE program.brings[m] \subseteq known'
  <2>1. Wanted(c) \subseteq known' /\ cargo[c] \subseteq Wanted(c)  BY <1>3
  <2>2. CASE m \in known  BY <1>3, <2>2 DEF KnownWhole
  <2>3. CASE m \in cargo[c] /\ phase[c] # "rpc"
    <3>1. m \in Bundle[Tool[c]] /\ Tool[c] \in Tools  BY <1>2, <2>1, <2>3, ProgramParts DEF Wanted
    <3> QED  BY <2>1, <2>3, <3>1 DEF WholeBundles, Wanted
  <2>4. CASE m \in cargo[c] /\ phase[c] = "rpc"
    <3>1. PICK v \in program.values[c] : m \in program.brings[v]  BY <2>1, <2>4 DEF Wanted, Carried
    <3>2. v \in Modules  BY <1>2, <3>1 DEF Program
    <3>3. program.brings[m] \subseteq program.brings[v]  BY <3>1, <3>2 DEF WholeBundles
    <3>4. program.brings[v] \subseteq Carried[c]  BY <3>1 DEF Carried
    <3> QED  BY <2>1, <2>4, <3>3, <3>4 DEF Wanted
  <2> QED  BY <1>3, <2>2, <2>3, <2>4
<1>4. CASE known' = known  BY <1>1, <1>4 DEF KnownWhole
<1>5. ASSUME NEW c \in Callers, Synced(c) \/ (Drained(c) /\ phase[c] = "rpc") PROVE KnownWhole'
  <2>1. pc[c] \in Active /\ known' = known \cup cargo[c]  BY <1>5 DEF Synced, Drained, KnownSent, Active
  <2> QED  BY <1>1, <1>3, <2>1 DEF KnownWhole
<1>6. ASSUME NEW c \in Callers, Drained(c), phase[c] # "rpc" PROVE known' = known  BY <1>6 DEF Drained, KnownSent
<1> QED  BY <1>4, <1>5, <1>6, CacheGrows

\* No step leaves a packet without the sources that it relies on.
LEMMA SuppliedKeeps == ASSUME SupplyInv, Next PROVE Supplied'
<1> USE DEF SupplyInv, AnswerInv
<1>1. Tool' = Tool /\ Carried' = Carried /\ Bundle' = Bundle  BY ProgramStays
<1>2. \A i \in 1..Len(up') : Complemented(i)'  BY ComplementedKeeps
<1>3. ASSUME link' PROVE \A m \in known' : Holds(m, Len(up))'
  <2>1. link  BY <1>3, UpKept
  <2>2. \A m \in known' : Holds(m, Len(up))
    <3>1. CASE known' = known  BY <2>1, <3>1 DEF Supplied
    <3>2. ASSUME NEW c \in Callers, Synced(c) PROVE \A m \in known' : Holds(m, Len(up))
      <4>1. cargo[c] \subseteq Bundle[Tool[c]]  BY <3>2 DEF Synced, Supplied, Wanted, Active
      <4>2. Bundle[Tool[c]] \subseteq installed  BY <3>2 DEF Synced, Loaded
      <4>3. known' = known \cup cargo[c]  BY <3>2 DEF Synced
      <4> QED  BY <2>1, <4>1, <4>2, <4>3 DEF Supplied, Holds
    <3>3. ASSUME NEW c \in Callers, Drained(c) PROVE \A m \in known' : Holds(m, Len(up))
      <4>1. phase[c] = "rpc" => \A m \in cargo[c] : Holds(m, Len(up))  BY <2>1, <3>3 DEF Drained, Supplied
      <4> QED  BY <2>1, <3>3, <4>1 DEF Drained, KnownSent, Supplied
    <3> QED  BY <3>1, <3>2, <3>3, CacheGrows
  <2> QED  BY <1>3, <2>2, HoldsAll
<1>9. WholeBundles' /\ KnownWhole'  BY KnownStaysWhole, ProgramStays DEF Supplied, WholeBundles
<1>4. ASSUME NEW c \in Callers, pc'[c] \in Active PROVE Wanted(c)' \subseteq cargo'[c] \cup known'
  <2>1. CASE EnterAction(c)
    <3>1. \A m \in known' : program.brings[m] \subseteq known'  BY <1>9, ProgramStays DEF KnownWhole
    <3>2. Carried[c] \subseteq Attached(c, known') \cup known'  BY <3>1, AttachedCompletes
    <3> QED  BY <1>1, <1>4, <2>1, <3>2, EnterWants DEF Wanted, Active
  <2>2. CASE phase'[c] = phase[c] /\ cargo'[c] = cargo[c] /\ Advances(c)
    <3>1. pc[c] \in Active  BY <1>4, <2>2 DEF Advances, Final, Active
    <3> QED  BY <1>1, <2>2, <3>1, CacheGrows DEF Supplied, Wanted
  <2> QED  BY <2>1, <2>2, CallFrame
<1>5. ASSUME NEW c \in Callers, pc'[c] \in Active PROVE cargo'[c] \subseteq Wanted(c)'
  <2>1. CASE EnterAction(c)  BY <1>5, <2>1, EnterWants DEF Active
  <2>2. CASE phase'[c] = phase[c] /\ cargo'[c] = cargo[c] /\ Advances(c)
    <3>1. pc[c] \in Active  BY <1>5, <2>2 DEF Advances, Final, Active
    <3> QED  BY <1>1, <2>2, <3>1 DEF Supplied, Wanted
  <2> QED  BY <2>1, <2>2, CallFrame
<1>6. ASSUME link', NEW c \in Callers, pc'[c] = "drain", phase'[c] = "rpc" PROVE \A m \in cargo'[c] : Holds(m, Len(up))'
  <2>1. phase'[c] = phase[c] /\ cargo'[c] = cargo[c] /\ (pc[c] = "drain" \/ pc[c] = "send")
    <3>1. ~EnterAction(c)  BY <1>6, EnterWants
    <3> QED  BY <1>6, <3>1, CallFrame DEF Advances, Final
  <2>2. CASE pc[c] = "drain"
    <3>1. \A m \in cargo[c] : Holds(m, Len(up))  BY <1>6, <2>1, <2>2, UpKept DEF Supplied
    <3> QED  BY <1>6, <2>1, <3>1, HoldsAll
  <2>3. CASE pc[c] = "send"
    <3>1. WritePacket(c)  BY <1>6, <2>3, SendMoves
    <3>2. up' = Append(up, PacketOf(c))  BY <1>6, <3>1, UpKept DEF WritePacket, Write, PacketOf
    <3>3. up \in Seq(UpPacket) /\ Len(up) \in Nat  BY DEF Shapes
    <3>4. Len(up') \in 1..Len(up') /\ up'[Len(up')] = PacketOf(c)  BY <3>2, <3>3
    <3> QED  BY <1>6, <2>1, <3>4 DEF Holds, PacketOf
  <2> QED  BY <2>1, <2>2, <2>3
<1>7. ASSUME NEW r \in Requests, job'[r] \in {"load", "build"} PROVE Bundle[Tool[r[1]]] \subseteq installed' \cup jobCargo'[r]
  <2>1. CASE job[r] \in {"load", "build"} /\ jobCargo'[r] = jobCargo[r]  BY <2>1, PeerGrows DEF Supplied
  <2>2. CASE ReceiveUp /\ r = Of(Head(up))
    <3>1. /\ Head(up) = up[1] /\ 1 \in 1..Len(up) /\ Head(up) \in UpPacket
          /\ job' = [job EXCEPT ![r] = IF Head(up).phase = "sync" THEN "load" ELSE "scheduled"]
      <4>1. up \in Seq(UpPacket) /\ Len(up) > 0  BY <2>2, Received DEF Shapes
      <4>2. 1 \in 1..Len(up)  BY <4>1
      <4> QED  BY <2>2, <4>2, Received
    <3>2. up[1].phase = "sync" /\ r[1] = up[1].call
      BY <1>7, <2>2, <3>1 DEF TypeOK, Of
    <3>3. jobCargo'[r] = up[1].sources  BY <2>2, <3>1, <3>2 DEF ReceiveUp, Shapes, Of
    <3>4. \A m : Holds(m, 1) => m \in installed  BY <3>2 DEF Holds
    <3> QED  BY <3>1, <3>2, <3>3, <3>4, PeerGrows DEF Supplied, Complemented
  <2> QED  BY <1>7, <2>1, <2>2, LoadsFrom
<1>8. closedP' => ~link'
  BY NextActions DEF CallAction, Begin, Locked, WritePacket, Drained, Synced, Resume, SendFails, Cancel, CancelDrain,
     JobAction, LoadTool, BuildTool, StartMethod, FinishMethod, SendResponse, peerVars, Supplied,
     ReceiveDown, HandleResult, Lose, Close, ReceiveUp, RefuseUp, LoseP, BreakLink
<1> QED  BY <1>1, <1>2, <1>3, <1>4, <1>5, <1>6, <1>7, <1>8, <1>9 DEF Supplied

-----------------------------------------------------------------------------
(* The sync locks                                                           *)

\* A queue without a call keeps the others in their order.
LEMMA WithoutCall ==
    ASSUME NEW S, NEW s \in Seq(S), Distinct(s), NEW c
    PROVE  /\ Without(s, c) \in Seq(S) /\ Distinct(Without(s, c))
           /\ Range(Without(s, c)) = Range(s) \ {c}
           /\ s # <<>> /\ s[1] # c => Without(s, c)[1] = s[1]
<1>1. CASE c \notin Range(s)  BY <1>1 DEF Without
<1>2. CASE c \in Range(s)
  <2> DEFINE i == CHOOSE k \in DOMAIN s : s[k] = c
             a == SubSeq(s, 1, i - 1)
             b == SubSeq(s, i + 1, Len(s))
             t == a \o b
             at(k) == IF k < i THEN k ELSE k + 1
  <2>1. Len(s) \in Nat /\ DOMAIN s = 1..Len(s) /\ \A k \in 1..Len(s) : s[k] \in S  OBVIOUS
  <2>2. i \in 1..Len(s) /\ s[i] = c  BY <1>2, <2>1 DEF Range
  <2>3. Without(s, c) = t  BY <1>2 DEF Without
  <2> HIDE DEF i
  <2>4. a \in Seq(S) /\ Len(a) = i - 1 /\ \A k \in 1..(i - 1) : a[k] = s[k]
    <3>1. i - 1 \in Int /\ 1 \in Int /\ \A k \in 1..(i - 1) : s[k] \in S  BY <2>1, <2>2
    <3>2. /\ a \in Seq(S) /\ Len(a) = (IF 1 <= i - 1 THEN (i - 1) - 1 + 1 ELSE 0)
          /\ \A k \in 1..((i - 1) - 1 + 1) : a[k] = s[1 + k - 1]
      BY <3>1, SubSeqProperties
    <3> QED  BY <2>1, <2>2, <3>2
  <2>5. b \in Seq(S) /\ Len(b) = Len(s) - i /\ \A k \in 1..(Len(s) - i) : b[k] = s[i + k]
    <3>1. i + 1 \in Int /\ Len(s) \in Int /\ \A k \in (i + 1)..Len(s) : s[k] \in S  BY <2>1, <2>2
    <3>2. /\ b \in Seq(S) /\ Len(b) = (IF i + 1 <= Len(s) THEN Len(s) - (i + 1) + 1 ELSE 0)
          /\ \A k \in 1..(Len(s) - (i + 1) + 1) : b[k] = s[(i + 1) + k - 1]
      BY <3>1, SubSeqProperties
    <3> HIDE DEF b
    <3>3. Len(s) - (i + 1) + 1 = Len(s) - i /\ \A k \in Nat : (i + 1) + k - 1 = i + k  BY <2>1, <2>2
    <3>4. Len(b) = Len(s) - i
      <4>1. CASE i + 1 <= Len(s)  BY <3>2, <3>3, <4>1
      <4>2. CASE ~(i + 1 <= Len(s))
        <5>1. Len(b) = 0  BY <3>2, <4>2
        <5>2. \A n \in Nat : i \in 1..n /\ ~(i + 1 <= n) => n - i = 0  OBVIOUS
        <5> QED  BY <2>1, <2>2, <4>2, <5>1, <5>2
      <4> QED  BY <4>1, <4>2
    <3>5. \A k \in 1..(Len(s) - i) : b[k] = s[i + k]  BY <3>2, <3>3
    <3> QED  BY <3>2, <3>4, <3>5
  <2> HIDE DEF a, b
  <2>6. /\ t \in Seq(S) /\ Len(t) = Len(a) + Len(b)
        /\ \A k \in 1..(Len(a) + Len(b)) : t[k] = IF k <= Len(a) THEN a[k] ELSE b[k - Len(a)]
    BY <2>4, <2>5, ConcatProperties
  <2> HIDE DEF t
  <2>7. Len(t) = Len(s) - 1  BY <2>1, <2>2, <2>4, <2>5, <2>6
  <2>8. \A k \in 1..Len(t) : k < i => t[k] = s[k]  BY <2>1, <2>2, <2>4, <2>5, <2>6
  <2>9. \A k \in 1..Len(t) : at(k) \in 1..Len(s) /\ at(k) # i /\ t[k] = s[at(k)]
    <3>1. SUFFICES ASSUME NEW k \in 1..Len(t), ~(k < i) PROVE k + 1 \in 1..Len(s) /\ k + 1 # i /\ t[k] = s[k + 1]
      BY <2>1, <2>2, <2>7, <2>8
    <3>2. k - (i - 1) \in 1..(Len(s) - i) /\ ~(k <= Len(a)) /\ i + (k - (i - 1)) = k + 1
      BY <2>1, <2>2, <2>4, <2>7, <3>1
    <3>3. t[k] = b[k - (i - 1)]  BY <2>4, <2>6, <3>2
    <3> QED  BY <2>1, <2>2, <2>5, <2>7, <3>1, <3>2, <3>3
  <2>10. \A k \in 1..Len(s) : k # i => \E j \in 1..Len(t) : at(j) = k
    <3>1. SUFFICES ASSUME NEW k \in 1..Len(s), k # i PROVE \E j \in 1..Len(t) : at(j) = k  OBVIOUS
    <3>2. CASE k < i  BY <2>1, <2>2, <2>7, <3>1, <3>2
    <3>3. CASE k > i
      <4>1. k - 1 \in 1..Len(t) /\ at(k - 1) = k  BY <2>1, <2>2, <2>7, <3>1, <3>3
      <4> QED  BY <4>1
    <3> QED  BY <2>1, <2>2, <3>1, <3>2, <3>3
  <2>11. DOMAIN t = 1..Len(t)  BY <2>6
  <2>12. Distinct(t)
    <3>1. \A k, j \in 1..Len(t) : t[k] = t[j] => at(k) = at(j)  BY <2>9 DEF Distinct
    <3>2. \A k, j \in Nat : at(k) = at(j) => k = j  BY <2>2
    <3>3. 1..Len(t) \subseteq Nat  OBVIOUS
    <3> HIDE DEF at
    <3> QED  BY <3>1, <3>2, <3>3 DEF Distinct
  <2>13. Range(t) = Range(s) \ {c}
    <3>1. \A k \in 1..Len(s) : s[k] = c <=> k = i  BY <2>2 DEF Distinct
    <3> HIDE DEF at
    <3>2. Range(t) \subseteq Range(s) \ {c}  BY <2>1, <2>9, <2>11, <3>1 DEF Range
    <3>3. Range(s) \ {c} \subseteq Range(t)  BY <2>1, <2>9, <2>10, <2>11, <3>1 DEF Range
    <3> QED  BY <3>2, <3>3
  <2>14. s[1] # c => t[1] = s[1]
    <3>1. s[1] # c => 1 \in 1..Len(t) /\ 1 < i  BY <2>1, <2>2, <2>7
    <3> QED  BY <2>8, <3>1
  <2> QED  BY <2>3, <2>6, <2>12, <2>13, <2>14
<1> QED  BY <1>1, <1>2

\* Who holds and who waits for a lock only changes with the lock.
LEMMA QueueStep ==
    ASSUME AnswerInv, Next
    PROVE  \/ /\ locks' = locks
              /\ \A d \in Callers : /\ Queued(d)' <=> Queued(d)
                                    /\ Synchronising(d)' => Synchronising(d) \/ Locked(d)
           \/ \E c \in Callers :
              /\ pc[c] = "idle" /\ locks' = [locks EXCEPT ![RootOf(c)] = Append(@, c)]
              /\ Queued(c)' /\ ~Synchronising(c)'
              /\ \A d \in Callers \ {c} : (Queued(d)' <=> Queued(d)) /\ (Synchronising(d)' <=> Synchronising(d))
           \/ \E c \in Callers :
              /\ locks' = Unlocked(c) /\ ~Queued(c)'
              /\ \A d \in Callers \ {c} : (Queued(d)' <=> Queued(d)) /\ (Synchronising(d)' <=> Synchronising(d))
<1> USE DEF AnswerInv, Queued, Synchronising
<1>1. \A c \in Callers : pc[c] \in {"idle", "lock"} => phase[c] = "sync"  BY DEF Ids
<1>2. ASSUME NEW c \in Callers, EnterAction(c)
      PROVE  \/ /\ locks' = locks
                /\ \A d \in Callers : /\ Queued(d)' <=> Queued(d)
                                      /\ Synchronising(d)' => Synchronising(d) \/ Locked(d)
             \/ /\ locks' = Unlocked(c) /\ ~Queued(c)'
                /\ \A d \in Callers \ {c} : (Queued(d)' <=> Queued(d)) /\ (Synchronising(d)' <=> Synchronising(d))
  <2>1. \A d \in Callers \ {c} : phase'[d] = phase[d] /\ pc'[d] = pc[d]
    <3>1. \E where \in Phases :
            /\ phase' = [phase EXCEPT ![c] = where]
            /\ pc' = [pc EXCEPT ![c] = "lost"] \/ pc' = [pc EXCEPT ![c] = "send"]
      BY <1>2, Enters, EnterIds DEF EnterAction
    <3> QED  BY <3>1 DEF TypeOK
  <2>2. CASE closed
    <3>1. locks' = Unlocked(c) /\ pc' = [pc EXCEPT ![c] = "lost"]
      BY <1>2, <2>2 DEF EnterAction, Begin, Locked, Synced, Enter
    <3> QED  BY <2>1, <3>1 DEF TypeOK, Active
  <2>3. CASE ~closed /\ Locked(c) /\ Tool[c] \notin cached
    <3>1. /\ locks' = locks /\ pc' = [pc EXCEPT ![c] = "send"] /\ phase' = [phase EXCEPT ![c] = "sync"]
          /\ pc[c] = "lock"
      BY <2>3 DEF Locked, Enter
    <3> QED  BY <2>1, <2>3, <3>1 DEF TypeOK, Active
  <2>4. CASE ~closed /\ (Synced(c) \/ Tool[c] \in cached)
    <3>1. /\ locks' = Unlocked(c) /\ pc' = [pc EXCEPT ![c] = "send"] /\ phase' = [phase EXCEPT ![c] = "rpc"]
      BY <1>2, <2>4 DEF EnterAction, Begin, Locked, Synced, Enter
    <3> QED  BY <2>1, <3>1 DEF TypeOK, Active
  <2> QED  BY <1>2, <2>2, <2>3, <2>4 DEF EnterAction
<1>3. ASSUME NEW c \in Callers, Begin(c), Tool[c] \notin cached
      PROVE  /\ pc[c] = "idle" /\ locks' = [locks EXCEPT ![RootOf(c)] = Append(@, c)]
             /\ Queued(c)' /\ ~Synchronising(c)'
             /\ \A d \in Callers \ {c} : (Queued(d)' <=> Queued(d)) /\ (Synchronising(d)' <=> Synchronising(d))
  <2>1. /\ pc[c] = "idle" /\ locks' = [locks EXCEPT ![RootOf(c)] = Append(@, c)]
        /\ pc' = [pc EXCEPT ![c] = "lock"] /\ phase' = phase
    BY <1>3 DEF Begin
  <2> QED  BY <2>1 DEF TypeOK, Active
<1>4. ASSUME NEW c \in Callers, WritePacket(c) \/ Drained(c)
      PROVE  /\ locks' = locks
             /\ \A d \in Callers : (Queued(d)' <=> Queued(d)) /\ (Synchronising(d)' => Synchronising(d))
  BY <1>4 DEF WritePacket, Drained, TypeOK, Active
<1>5. ASSUME NEW c \in Callers, Resume(c) \/ SendFails(c) \/ Cancel(c) \/ CancelDrain(c)
      PROVE  /\ locks' = Unlocked(c) /\ ~Queued(c)'
             /\ \A d \in Callers \ {c} : (Queued(d)' <=> Queued(d)) /\ (Synchronising(d)' <=> Synchronising(d))
  <2>1. /\ locks' = Unlocked(c) /\ phase' = phase
        /\ \E v \in Final : pc' = [pc EXCEPT ![c] = v]
    BY <1>5 DEF Resume, End, SendFails, Cancel, CancelDrain, Final
  <2> QED  BY <2>1 DEF TypeOK, Active, Final
<1>6. ASSUME UNCHANGED <<pc, phase, locks>>
      PROVE  /\ locks' = locks
             /\ \A d \in Callers : (Queued(d)' <=> Queued(d)) /\ (Synchronising(d)' => Synchronising(d))
  BY <1>6
<1>7. ASSUME NEW r \in Requests, JobAction(r) PROVE UNCHANGED <<pc, phase, locks>>
  BY <1>7, JobMoves DEF localVars, callVars
<1>8. ASSUME ReceiveDown \/ HandleResult \/ Lose \/ Close \/ ReceiveUp \/ RefuseUp \/ LoseP \/ BreakLink
      PROVE  UNCHANGED <<pc, phase, locks>>
  BY <1>8 DEF ReceiveDown, HandleResult, Lose, Close, ReceiveUp, RefuseUp, LoseP, BreakLink, localVars, callVars
<1> USE DEF EnterAction, CallAction
<1> HIDE DEF Queued, Synchronising, AnswerInv
<1>9. ASSUME NEW c \in Callers, CallAction(c)
      PROVE  \/ EnterAction(c) \/ (Begin(c) /\ Tool[c] \notin cached) \/ WritePacket(c) \/ Drained(c)
             \/ Resume(c) \/ SendFails(c) \/ Cancel(c) \/ CancelDrain(c)
  BY <1>9
<1> HIDE DEF EnterAction, CallAction
<1> QED  BY <1>2, <1>3, <1>4, <1>5, <1>6, <1>7, <1>8, <1>9, NextActions

\* A new waiter is last in the queue, and the first one stays first.
LEMMA RangeAppended ==
    ASSUME NEW S, NEW s \in Seq(S), NEW x \in S
    PROVE  /\ Append(s, x) \in Seq(S) /\ Range(Append(s, x)) = Range(s) \cup {x}
           /\ s # <<>> => Append(s, x)[1] = s[1]
           /\ Distinct(s) /\ x \notin Range(s) => Distinct(Append(s, x))
<1>1. Len(Append(s, x)) = Len(s) + 1 /\ Append(s, x)[Len(s) + 1] = x /\ Len(s) \in Nat  OBVIOUS
<1>2. \A i \in 1..Len(s) : Append(s, x)[i] = s[i]  OBVIOUS
<1>3. DOMAIN Append(s, x) = 1..(Len(s) + 1) /\ DOMAIN s = 1..Len(s)  OBVIOUS
<1>4. Range(Append(s, x)) = Range(s) \cup {x}
  <2>1. 1..Len(s) \subseteq 1..(Len(s) + 1) /\ Len(s) + 1 \in 1..(Len(s) + 1)  BY <1>1
  <2>2. Range(s) \cup {x} \subseteq Range(Append(s, x))  BY <1>1, <1>2, <1>3, <2>1 DEF Range
  <2> QED  BY <2>2, RangeAppend
<1>5. s # <<>> => Append(s, x)[1] = s[1]  OBVIOUS
<1>6. ASSUME Distinct(s), x \notin Range(s) PROVE Distinct(Append(s, x))
  <2>1. \A i \in 1..Len(s) : s[i] # x  BY <1>3, <1>6 DEF Range
  <2>2. ASSUME NEW i \in 1..(Len(s) + 1), NEW j \in 1..(Len(s) + 1), Append(s, x)[i] = Append(s, x)[j] PROVE i = j
    <3>1. CASE i \in 1..Len(s) /\ j \in 1..Len(s)  BY <1>2, <1>6, <2>2, <3>1 DEF Distinct
    <3>2. CASE i = Len(s) + 1 /\ j \in 1..Len(s)  BY <1>1, <1>2, <2>1, <2>2, <3>2
    <3>3. CASE j = Len(s) + 1 /\ i \in 1..Len(s)  BY <1>1, <1>2, <2>1, <2>2, <3>3
    <3>4. CASE i = Len(s) + 1 /\ j = Len(s) + 1  BY <3>4
    <3> QED  BY <1>1, <3>1, <3>2, <3>3, <3>4
  <2> QED  BY <1>1, <2>2 DEF Distinct
<1> QED  BY <1>4, <1>5, <1>6

\* The call that is granted a lock is the first of its queue.
LEMMA LockedFirst == ASSUME AnswerInv, Queues, NEW c \in Callers, Locked(c) PROVE locks[RootOf(c)][1] = c
<1>1. RootOf(c) \in DOMAIN locks
  <2>1. DOMAIN Root = Tools /\ Tool[c] \in Tools  BY ProgramParts DEF AnswerInv, Shapes, Program, Root
  <2> QED  BY <2>1 DEF RootOf, Queues, Range
<1>2. c \in Range(locks[RootOf(c)])  BY <1>1 DEF Queues, Queued, Locked
<1>3. locks[RootOf(c)] # <<>> /\ locks[RootOf(c)] \in Seq(Callers)  BY <1>1, <1>2 DEF Queues, Range
<1> QED  BY <1>3 DEF Locked

\* Every step keeps the queues of the sync locks.
LEMMA QueuesKeep == ASSUME AnswerInv, Queues, Next PROVE Queues'
<1>1. Root' = Root /\ Tool' = Tool /\ \A c \in Callers : RootOf(c)' = RootOf(c)
  BY ProgramStays DEF RootOf
<1>2. \A r \in DOMAIN locks : locks[r] \in Seq(Callers) /\ Distinct(locks[r])  BY DEF Queues
<1>3. \A c \in Callers : RootOf(c) \in DOMAIN locks
  <2>1. DOMAIN Root = Tools /\ \A c \in Callers : Tool[c] \in Tools
    BY ProgramParts DEF AnswerInv, Shapes, Program, Root
  <2> QED  BY <2>1 DEF RootOf, Queues, Range
<1>4. \A c \in Callers : Synchronising(c) => Queued(c) /\ locks[RootOf(c)] # <<>>
  <2>1. ASSUME NEW c \in Callers, Synchronising(c) PROVE locks[RootOf(c)] # <<>>
    <3>1. c \in Range(locks[RootOf(c)])  BY <1>3, <2>1 DEF Queues, Queued
    <3> QED  BY <3>1 DEF Range
  <2> QED  BY <2>1 DEF Queued
<1>5. ASSUME locks' = locks,
             \A d \in Callers : (Queued(d)' <=> Queued(d)) /\ (Synchronising(d)' => Synchronising(d) \/ Locked(d))
      PROVE  Queues'
  <2>1. \A d \in Callers : Locked(d) => locks[RootOf(d)][1] = d  BY LockedFirst
  <2>2. \A d \in Callers : Synchronising(d)' => locks'[RootOf(d)][1] = d  BY <1>5, <2>1 DEF Queues
  <2>3. \A d \in Callers, r \in DOMAIN locks : d \in Range(locks[r]) <=> Queued(d)' /\ RootOf(d) = r
    BY <1>5 DEF Queues
  <2>4. DOMAIN locks = Range(Root)  BY DEF Queues
  <2> QED  BY <1>1, <1>2, <1>5, <2>2, <2>3, <2>4 DEF Queues
<1>6. ASSUME NEW c \in Callers, pc[c] = "idle", locks' = [locks EXCEPT ![RootOf(c)] = Append(@, c)],
             Queued(c)', ~Synchronising(c)',
             \A d \in Callers \ {c} : (Queued(d)' <=> Queued(d)) /\ (Synchronising(d)' <=> Synchronising(d))
      PROVE  Queues'
  <2> DEFINE R == RootOf(c)
  <2>1. R \in DOMAIN locks /\ locks[R] \in Seq(Callers) /\ Distinct(locks[R])  BY <1>2, <1>3
  <2>2. ~Queued(c)  BY <1>6 DEF Queued, Synchronising, Active
  <2>3. \A r \in DOMAIN locks : c \notin Range(locks[r])  BY <2>2 DEF Queues
  <2>4. /\ Append(locks[R], c) \in Seq(Callers) /\ Range(Append(locks[R], c)) = Range(locks[R]) \cup {c}
        /\ locks[R] # <<>> => Append(locks[R], c)[1] = locks[R][1]
        /\ Distinct(Append(locks[R], c))
    BY <2>1, <2>3, RangeAppended
  <2>5. DOMAIN locks' = DOMAIN locks /\ \A r \in DOMAIN locks : locks'[r] = IF r = R THEN Append(locks[R], c) ELSE locks[r]
    BY <1>6
  <2>6. \A r \in DOMAIN locks' : locks'[r] \in Seq(Callers) /\ Distinct(locks'[r])  BY <1>2, <2>4, <2>5
  <2>7. \A d \in Callers, r \in DOMAIN locks : d \in Range(locks'[r]) <=> Queued(d)' /\ RootOf(d) = r
    <3>1. SUFFICES ASSUME NEW d \in Callers, NEW r \in DOMAIN locks
                   PROVE  d \in Range(locks'[r]) <=> Queued(d)' /\ RootOf(d) = r
      OBVIOUS
    <3>2. d \in Range(locks[r]) <=> Queued(d) /\ RootOf(d) = r  BY DEF Queues
    <3>3. CASE d = c  BY <1>6, <2>2, <2>3, <2>4, <2>5, <3>3
    <3>4. CASE d # c  BY <1>6, <2>4, <2>5, <3>2, <3>4
    <3> QED  BY <3>3, <3>4
  <2>8. \A d \in Callers : Synchronising(d)' => locks'[RootOf(d)][1] = d
    <3>1. SUFFICES ASSUME NEW d \in Callers, Synchronising(d)' PROVE locks'[RootOf(d)][1] = d  OBVIOUS
    <3>2. d # c /\ Synchronising(d)  BY <1>6, <3>1
    <3>3. locks[RootOf(d)] # <<>> /\ locks[RootOf(d)][1] = d  BY <1>4, <3>2 DEF Queues
    <3> QED  BY <1>3, <2>4, <2>5, <3>3
  <2>9. DOMAIN locks' = Range(Root)  BY <2>5 DEF Queues
  <2> QED  BY <1>1, <2>5, <2>6, <2>7, <2>8, <2>9 DEF Queues
<1>7. ASSUME NEW c \in Callers, locks' = Unlocked(c), ~Queued(c)',
             \A d \in Callers \ {c} : (Queued(d)' <=> Queued(d)) /\ (Synchronising(d)' <=> Synchronising(d))
      PROVE  Queues'
  <2>1. DOMAIN locks' = DOMAIN locks /\ \A r \in DOMAIN locks : locks'[r] = Without(locks[r], c)  BY <1>7 DEF Unlocked
  <2>2. \A r \in DOMAIN locks :
          /\ locks'[r] \in Seq(Callers) /\ Distinct(locks'[r]) /\ Range(locks'[r]) = Range(locks[r]) \ {c}
          /\ locks[r] # <<>> /\ locks[r][1] # c => locks'[r][1] = locks[r][1]
    BY <1>2, <2>1, WithoutCall
  <2>3. \A d \in Callers, r \in DOMAIN locks : d \in Range(locks'[r]) <=> Queued(d)' /\ RootOf(d) = r
    <3>1. SUFFICES ASSUME NEW d \in Callers, NEW r \in DOMAIN locks
                   PROVE  d \in Range(locks'[r]) <=> Queued(d)' /\ RootOf(d) = r
      OBVIOUS
    <3>2. d \in Range(locks[r]) <=> Queued(d) /\ RootOf(d) = r  BY DEF Queues
    <3>3. CASE d = c  BY <1>7, <2>2, <3>3
    <3>4. CASE d # c  BY <1>7, <2>2, <3>2, <3>4
    <3> QED  BY <3>3, <3>4
  <2>4. \A d \in Callers : Synchronising(d)' => locks'[RootOf(d)][1] = d
    <3>1. SUFFICES ASSUME NEW d \in Callers, Synchronising(d)' PROVE locks'[RootOf(d)][1] = d  OBVIOUS
    <3>2. d # c /\ Synchronising(d)  BY <1>7, <3>1 DEF Queued
    <3>3. locks[RootOf(d)] # <<>> /\ locks[RootOf(d)][1] = d  BY <1>4, <3>2 DEF Queues
    <3> QED  BY <1>3, <2>2, <3>2, <3>3
  <2>5. DOMAIN locks' = Range(Root)  BY <2>1 DEF Queues
  <2> QED  BY <1>1, <2>1, <2>2, <2>3, <2>4, <2>5 DEF Queues
<1> QED  BY <1>5, <1>6, <1>7, QueueStep

-----------------------------------------------------------------------------
(* A package travels once                                                   *)

SafeInv == SupplyInv /\ Queues /\ Single

\* A call that carries a private module brings its own package.
LEMMA PrivateCargo ==
    ASSUME SupplyInv, NEW m \in Private, NEW c \in Callers, pc[c] \in Active, m \in cargo[c]
    PROVE  phase[c] = "sync" /\ m \in Bundle[Tool[c]]
  BY DEF SupplyInv, AnswerInv, Supplied, Wanted, Private, TypeOK, Phases

\* Two calls that bring the same private module are the same call.
LEMMA OneSynchronises ==
    ASSUME SafeInv, NEW m \in Private, NEW c \in Callers, NEW d \in Callers,
           m \in Bundle[Tool[c]], m \in Bundle[Tool[d]], Synchronising(c),
           locks[RootOf(d)][1] = d
    PROVE  c = d
<1>1. Tool[c] \in Tools /\ Tool[d] \in Tools  BY ProgramParts DEF SafeInv, SupplyInv, AnswerInv, Shapes
<1>2. RootOf(c) = RootOf(d)  BY <1>1 DEF Private, RootOf
<1>3. locks[RootOf(c)][1] = c  BY DEF SafeInv, Queues
<1> QED  BY <1>2, <1>3

\* An answer is a result or an error.
LEMMA AnswerKinds == ASSUME AnswerInv, NEW packet \in Answers PROVE packet.kind \in {"result", "error"}
<1>1. packet \in DownPacket  BY RangeMember DEF AnswerInv, Answers, Shapes
<1> QED  BY <1>1 DEF DownPacket

\* A future that is lost belongs to a closed connection, which stays closed.
LEMMA LostKeeps ==
    ASSUME AnswerInv, Next, \A c \in Callers : fut[c] = "lost" => closed
    PROVE  (closed => closed') /\ \A c \in Callers : fut'[c] = "lost" => closed'
<1> USE DEF AnswerInv
<1>1. closed => closed'
  BY NextActions DEF CallAction, Begin, Locked, WritePacket, Drained, Synced, Resume, SendFails, Cancel, CancelDrain,
     JobAction, LoadTool, BuildTool, StartMethod, FinishMethod, SendResponse, localVars,
     ReceiveDown, HandleResult, Lose, Close, ReceiveUp, RefuseUp, LoseP, BreakLink
<1>2. fut \in [Callers -> {"none", "pending", "result", "error", "lost"}]  BY DEF TypeOK
<1>3. ASSUME NEW c \in Callers, CallAction(c) PROVE closed' \/ \A d \in Callers : fut'[d] = "lost" => fut[d] = "lost"
  <2>1. CASE EnterAction(c)
    <3>1. fut' = [fut EXCEPT ![c] = "none"] \/ fut' = [fut EXCEPT ![c] = "pending"]
      BY <2>1, Enters, EnterIds DEF EnterAction
    <3> QED  BY <1>2, <3>1
  <2>2. CASE \/ Begin(c) /\ Tool[c] \notin cached
             \/ WritePacket(c) \/ Drained(c) \/ Resume(c) \/ Cancel(c)
    <3>1. fut' = fut \/ fut' = [fut EXCEPT ![c] = "none"]
      BY <2>2 DEF Begin, WritePacket, Drained, Resume, End, Cancel
    <3> QED  BY <1>2, <3>1
  <2>3. CASE SendFails(c) \/ CancelDrain(c)  BY <2>3 DEF SendFails, CancelDrain
  <2> QED  BY <1>3, <2>1, <2>2, <2>3 DEF CallAction, EnterAction
<1>4. ASSUME NEW r \in Requests, JobAction(r) PROVE fut' = fut
  BY <1>4, JobMoves DEF localVars, callVars
<1>5. CASE Lose \/ Close  BY <1>5 DEF Lose, Close
<1>6. CASE ReceiveDown \/ HandleResult
  <2>1. \A c \in Callers : fut'[c] = fut[c] \/ fut'[c] \in {"result", "error"}
    <3>1. CASE ReceiveDown
      <4>1. down # <<>> => Head(down) \in Answers  BY RangeTail DEF Shapes, Answers
      <4>2. fut' = fut \/ \E packet \in Answers : Complete(packet, packet.kind)  BY <3>1, <4>1 DEF ReceiveDown
      <4> QED  BY <4>2, AnswerKinds, CompleteStep DEF CompletedBy
    <3>2. CASE HandleResult
      <4>1. \E packet \in Answers : Complete(packet, packet.kind)  BY <3>2 DEF HandleResult, Shapes, Answers
      <4> QED  BY <4>1, AnswerKinds, CompleteStep DEF CompletedBy
    <3> QED  BY <1>6, <3>1, <3>2
  <2> QED  BY <1>1, <2>1
<1>7. CASE ReceiveUp \/ RefuseUp \/ LoseP \/ BreakLink
  BY <1>1, <1>7 DEF ReceiveUp, RefuseUp, LoseP, BreakLink, localVars, callVars
<1> QED  BY <1>1, <1>3, <1>4, <1>5, <1>6, <1>7, NextActions

\* A call fails with the connection only when that is closed.
LEMMA LostWhenClosed ==
    ASSUME AnswerInv, Next, \A c \in Callers : fut[c] = "lost" => closed, NEW c \in Callers,
           pc'[c] = "lost", pc[c] # "lost"
    PROVE  closed'
<1> USE DEF AnswerInv
<1>1. ASSUME NEW d \in Callers, CallAction(d) PROVE closed'
  <2>1. d = c
    <3>1. \E v : pc' = [pc EXCEPT ![d] = v]
      BY <1>1 DEF CallAction, Begin, Locked, Synced, Enter, WritePacket, Drained, Resume, End, SendFails, Cancel, CancelDrain
    <3> QED  BY <3>1 DEF TypeOK
  <2>2. CASE EnterAction(c)
    BY <2>2 DEF EnterAction, Begin, Locked, Synced, Enter, TypeOK
  <2>3. CASE \/ Begin(c) /\ Tool[c] \notin cached
             \/ WritePacket(c) \/ Drained(c) \/ Cancel(c)
    BY <2>3 DEF Begin, WritePacket, Drained, Cancel, TypeOK
  <2>4. CASE SendFails(c) \/ CancelDrain(c)  BY <2>4 DEF SendFails, CancelDrain
  <2>5. CASE Resume(c)
    <3>1. fut[c] = "lost"  BY <2>5 DEF Resume, End, TypeOK
    <3> QED  BY <3>1, LostKeeps
  <2> QED  BY <1>1, <2>1, <2>2, <2>3, <2>4, <2>5 DEF CallAction, EnterAction
<1>2. ASSUME NEW r \in Requests, JobAction(r) PROVE pc' = pc
  BY <1>2, JobMoves DEF localVars, callVars
<1>3. CASE ReceiveDown \/ HandleResult \/ Lose \/ Close \/ ReceiveUp \/ RefuseUp \/ LoseP \/ BreakLink
  BY <1>3 DEF ReceiveDown, HandleResult, Lose, Close, ReceiveUp, RefuseUp, LoseP, BreakLink, localVars, callVars
<1> QED  BY <1>1, <1>2, <1>3, NextActions

\* The call that has written the sources waits for the answer until they are known.
LEMMA CarrierKeeps ==
    ASSUME SafeInv, Next, Calm', NEW m, NEW c \in Callers,
           phase[c] = "sync", pc[c] \in {"drain", "wait"}, m \in cargo[c]
    PROVE  \/ closed' \/ m \in known'
           \/ phase'[c] = "sync" /\ pc'[c] \in {"drain", "wait"} /\ m \in cargo'[c]
<1> USE DEF SafeInv, SupplyInv
<1>1. CASE EnterAction(c)
  <2>1. Synced(c)  BY <1>1 DEF EnterAction, Begin, Locked
  <2> QED  BY <2>1 DEF Synced
<1>2. CASE phase'[c] = phase[c] /\ cargo'[c] = cargo[c] /\ Advances(c)
  <2>1. CASE pc'[c] \in {"drain", "wait"}  BY <1>2, <2>1
  <2>2. CASE pc'[c] = "returned"  BY <2>2, Returned
  <2>3. CASE pc'[c] = "lost"  BY <2>3, LostWhenClosed DEF Single
  <2> QED  BY <1>2, <2>1, <2>2, <2>3 DEF Advances, Calm, Final
<1> QED  BY <1>1, <1>2, CallFrame

\* Only a call that writes counts an upload.
LEMMA SentStep ==
    ASSUME Next PROVE sent' = sent \/ \E c \in Callers : WritePacket(c)
  BY NextActions DEF CallAction, Begin, Locked, WritePacket, Drained, Synced, Resume, SendFails, Cancel, CancelDrain,
     JobAction, LoadTool, BuildTool, StartMethod, FinishMethod, SendResponse, localVars,
     ReceiveDown, HandleResult, Lose, Close, ReceiveUp, RefuseUp, LoseP, BreakLink

\* No step uploads a package a second time.
LEMMA SingleKeeps == ASSUME SafeInv, Next PROVE Single'
<1> USE DEF SafeInv, SupplyInv, AnswerInv
<1>1. (closed => closed') /\ \A c \in Callers : fut'[c] = "lost" => closed'  BY LostKeeps DEF Single
<1>2. Calm' => Calm
  <2>1. ASSUME NEW c \in Callers, pc[c] \in {"raised", "cancelled"} PROVE pc'[c] = pc[c]
    <3>1. ~EnterAction(c)  BY <2>1 DEF EnterAction, Begin, Locked, Synced
    <3> QED  BY <2>1, <3>1, CallFrame DEF Advances, Active
  <2> QED  BY <2>1 DEF Calm
<1>3. Private' = Private  BY ProgramStays DEF Private
<1>4. SUFFICES ASSUME Calm', NEW m \in Private
               PROVE  /\ sent'[m] <= 1
                      /\ sent'[m] = 1 => \/ closed' \/ m \in known'
                                         \/ \E c \in Callers : phase'[c] = "sync" /\ pc'[c] \in {"drain", "wait"} /\ m \in cargo'[c]
                      /\ ~closed' => \A c \in Callers : pc'[c] = "send" /\ m \in cargo'[c] => sent'[m] = 0
  BY <1>1, <1>3 DEF Single
<1>5. m \in Modules /\ sent[m] \in Nat  BY DEF Private, Shapes
<1>6. /\ sent[m] <= 1
      /\ sent[m] = 1 => \/ closed \/ m \in known
                        \/ \E c \in Callers : phase[c] = "sync" /\ pc[c] \in {"drain", "wait"} /\ m \in cargo[c]
      /\ ~closed => \A c \in Callers : pc[c] = "send" /\ m \in cargo[c] => sent[m] = 0
  BY <1>2, <1>4 DEF Single
<1>7. sent[m] = 1 => \/ closed' \/ m \in known'
                     \/ \E c \in Callers : phase'[c] = "sync" /\ pc'[c] \in {"drain", "wait"} /\ m \in cargo'[c]
  BY <1>1, <1>4, <1>6, CarrierKeeps, CacheGrows
<1>8. ASSUME sent' = sent, ~closed', NEW c \in Callers, pc'[c] = "send", m \in cargo'[c] PROVE sent[m] = 0
  <2>1. CASE EnterAction(c)
    <3>1. cargo'[c] \subseteq Wanted(c)' \ known'  BY <1>8, <2>1, EnterWants
    <3>2. m \notin known'  BY <1>8, <3>1
    <3>3. phase'[c] # "rpc"
      <4>1. m \notin Carried[c] /\ Carried' = Carried  BY ProgramStays DEF Private
      <4> QED  BY <1>8, <3>1, <4>1 DEF Wanted
    <3>4. Locked(c) /\ m \in Bundle[Tool[c]]
      <4>1. Bundle' = Bundle /\ Tool' = Tool  BY ProgramStays
      <4>2. m \in Bundle[Tool[c]]  BY <1>8, <3>1, <3>3, <4>1 DEF Wanted
      <4>3. ~Synced(c) /\ ~(Begin(c) /\ Tool[c] \in cached)  BY <3>3 DEF Synced, Begin, Enter, TypeOK
      <4> QED  BY <2>1, <4>2, <4>3 DEF EnterAction
    <3>5. ASSUME NEW e \in Callers, phase[e] = "sync", pc[e] \in {"drain", "wait"}, m \in cargo[e] PROVE FALSE
      <4>1. m \in Bundle[Tool[e]] /\ Synchronising(e)  BY <3>5, PrivateCargo DEF Active, Synchronising
      <4>2. locks[RootOf(c)][1] = c  BY <3>4, LockedFirst
      <4>3. e = c  BY <3>4, <4>1, <4>2, OneSynchronises
      <4> QED  BY <3>4, <3>5, <4>3 DEF Locked
    <3>6. ~closed /\ m \notin known  BY <1>1, <1>8, <3>2, CacheGrows
    <3> QED  BY <1>5, <1>6, <3>5, <3>6
  <2>2. CASE phase'[c] = phase[c] /\ cargo'[c] = cargo[c] /\ Advances(c)
    <3>1. pc[c] = "send"  BY <1>8, <2>2 DEF Advances, Final
    <3> QED  BY <1>1, <1>6, <1>8, <2>2, <3>1
  <2> QED  BY <2>1, <2>2, CallFrame
<1>9. CASE sent' = sent  BY <1>6, <1>7, <1>8, <1>9
<1>10. ASSUME NEW c \in Callers, WritePacket(c)
       PROVE  /\ sent'[m] <= 1
              /\ sent'[m] = 1 => \/ closed' \/ m \in known'
                                 \/ \E d \in Callers : phase'[d] = "sync" /\ pc'[d] \in {"drain", "wait"} /\ m \in cargo'[d]
              /\ ~closed' => \A d \in Callers : pc'[d] = "send" /\ m \in cargo'[d] => sent'[m] = 0
  <2>1. /\ pc[c] = "send" /\ ~closed /\ UNCHANGED <<phase, cargo, closed>> /\ pc' = [pc EXCEPT ![c] = "drain"]
        /\ sent'[m] = IF m \in cargo[c] THEN sent[m] + 1 ELSE sent[m]
    BY <1>5, <1>10 DEF WritePacket
  <2>2. CASE m \notin cargo[c]
    <3>1. sent'[m] = sent[m]  BY <2>1, <2>2
    <3>2. \A d \in Callers : pc'[d] = "send" => pc[d] = "send"  BY <2>1 DEF TypeOK
    <3> QED  BY <1>6, <1>7, <2>1, <3>1, <3>2
  <2>3. CASE m \in cargo[c]
    <3>1. sent'[m] = 1  BY <1>6, <2>1, <2>3
    <3>2. phase[c] = "sync" /\ m \in Bundle[Tool[c]]  BY <2>1, <2>3, PrivateCargo DEF Active
    <3>3. pc'[c] = "drain"  BY <2>1 DEF TypeOK
    <3>4. ASSUME NEW d \in Callers, pc'[d] = "send", m \in cargo'[d] PROVE FALSE
      <4>1. d # c /\ pc[d] = "send" /\ m \in cargo[d]  BY <2>1, <3>3, <3>4 DEF TypeOK
      <4>2. phase[d] = "sync" /\ m \in Bundle[Tool[d]]  BY <4>1, PrivateCargo DEF Active
      <4>3. Synchronising(c) /\ Synchronising(d)  BY <2>1, <3>2, <4>1, <4>2 DEF Synchronising, Active
      <4>4. locks[RootOf(d)][1] = d  BY <4>3 DEF Queues
      <4> QED  BY <3>2, <4>1, <4>2, <4>3, <4>4, OneSynchronises
    <3> QED  BY <2>1, <2>3, <3>1, <3>2, <3>3, <3>4
  <2> QED  BY <2>2, <2>3
<1> QED  BY <1>9, <1>10, SentStep

-----------------------------------------------------------------------------
(* The theorems                                                             *)

\* The invariant of the supply is inductive.
LEMMA SafeInvKeeps == ASSUME SafeInv, [Next]_vars PROVE SafeInv'
<1>1. CASE Next
  <2>1. AnswerInv'  BY <1>1, AnswerInvKeeps DEF SafeInv, SupplyInv
  <2>2. Supplied' /\ Loaded'  BY <1>1, SuppliedKeeps, LoadedKeeps DEF SafeInv
  <2>3. Queues'  BY <1>1, QueuesKeep DEF SafeInv, SupplyInv
  <2>4. Single'  BY <1>1, SingleKeeps
  <2> QED  BY <2>1, <2>2, <2>3, <2>4 DEF SafeInv, SupplyInv
<1>2. CASE UNCHANGED vars
  <2>1. AnswerInv'  BY AnswerInvKeeps DEF SafeInv, SupplyInv
  <2> USE <1>2 DEF vars, localVars, callVars, peerVars, SafeInv, SupplyInv, Tool, Carried, Root, Bundle
  <2>2. Supplied'  BY DEF Supplied, WholeBundles, KnownWhole, Complemented, Holds, Wanted
  <2>3. Loaded'  BY DEF Loaded, Answers
  <2>4. Queues'  BY DEF Queues, Queued, Synchronising, RootOf
  <2>5. Single'  BY DEF Single, Calm, Private
  <2> QED  BY <2>1, <2>2, <2>3, <2>4, <2>5
<1> QED  BY <1>1, <1>2

\* The invariant of the supply holds at the start.
LEMMA SafeInvInit == ASSUME Init, BundlesClosed PROVE SafeInv
<1>1. AnswerInv  BY AnswerInvInit
<1> USE DEF Init
<1>2. up = <<>> /\ Len(up) = 0 /\ Answers = {} /\ known = {}  BY DEF Answers, Range
<1>7. WholeBundles /\ KnownWhole  BY <1>2 DEF BundlesClosed, WholeBundles, KnownWhole, Bundle
<1>3. Supplied  BY <1>2, <1>7 DEF Supplied, Active
<1>4. Loaded  BY <1>2 DEF Loaded
<1>5. Queues
  <2>1. \A r \in DOMAIN locks : locks[r] = <<>>  OBVIOUS
  <2>2. \A r \in DOMAIN locks : locks[r] \in Seq(Callers) /\ Distinct(locks[r]) /\ Range(locks[r]) = {}
    BY <2>1 DEF Distinct, Range
  <2>3. \A c \in Callers : ~Queued(c) /\ ~Synchronising(c)  BY DEF Queued, Synchronising, Active
  <2> QED  BY <2>2, <2>3 DEF Queues
<1>6. Single  BY DEF Single, Private
<1> QED  BY <1>1, <1>3, <1>4, <1>5, <1>6 DEF SafeInv, SupplyInv

\* What the invariant says of the packages.
LEMMA SafeInvImplies ==
    ASSUME SafeInv
    PROVE  /\ TypeOK /\ NothingMissing /\ SentOnce
           /\ \A c \in Callers : executed[c] > 0 => Bundle[Tool[c]] \subseteq installed
<1> USE DEF SafeInv, SupplyInv, AnswerInv
<1>1. \A c \in Callers : <<c, "rpc">> \in Requests /\ <<c, "sync">> \in Requests  BY DEF Requests, Phases
<1>2. ASSUME NEW c \in Callers, job[<<c, "rpc">>] # "none" PROVE Tool[c] \in loaded
  <2>1. phase[c] = "rpc"  BY <1>1, <1>2 DEF Once, Written
  <2> QED  BY <2>1 DEF Loaded
<1>3. NothingMissing
  <2>1. ASSUME up # <<>>, Head(up).phase = "rpc" PROVE Carried[Head(up).call] \subseteq installed \cup Head(up).sources
    <3>1. Head(up) = up[1] /\ 1 \in 1..Len(up)  BY <2>1 DEF Shapes
    <3>2. Complemented(1)  BY <3>1 DEF Supplied
    <3>3. \A m : Holds(m, 1) => m \in installed \cup up[1].sources  BY DEF Holds
    <3> QED  BY <2>1, <3>1, <3>2, <3>3 DEF Complemented
  <2>2. \A c \in Callers : job[<<c, "sync">>] = "build" => Bundle[Tool[c]] \subseteq installed \cup jobCargo[<<c, "sync">>]
    BY <1>1 DEF Supplied
  <2> QED  BY <1>2, <2>1, <2>2 DEF NothingMissing
<1>4. SentOnce  BY DEF Single, SentOnce, Calm
<1>5. ASSUME NEW c \in Callers, executed[c] > 0 PROVE Bundle[Tool[c]] \subseteq installed
  <2>1. job[<<c, "rpc">>] # "none"  BY <1>5 DEF Ran
  <2> QED  BY <1>2, <2>1 DEF Loaded
<1> QED  BY <1>3, <1>4, <1>5

\* Whatever fails or is cancelled, the peer holds what a packet leaves out, a
\* package travels once, and requests and futures keep to each other; a method
\* runs only where all that its package refers to is installed, provided that
\* the bundles are closed under reference, as ModuleBundle.expand is to make them
\* (prepare_call, _call, _load_tool, ModuleLoader.install).
THEOREM CallsAreSafe ==
    ASSUME BundlesClosed PROVE Spec => []CallsSafe
<1> DEFINE Closed == \A t \in Tools : program.needed[t] \subseteq program.bundle[t]
<1>1. Init => SafeInv /\ Closed  BY SafeInvInit DEF Init, BundlesClosed
<1>2. SafeInv /\ Closed /\ [Next]_vars => (SafeInv /\ Closed)'
  BY SafeInvKeeps, ProgramStays DEF vars
<1>3. SafeInv /\ Closed => CallsSafe
  <2>1. SUFFICES ASSUME SafeInv, Closed PROVE CallsSafe  OBVIOUS
  <2>2. \A c \in Callers : Tool[c] \in Tools  BY <2>1, ProgramParts DEF SafeInv, SupplyInv, AnswerInv, Shapes
  <2>3. Resolves  BY <2>1, <2>2, SafeInvImplies DEF Resolves, Bundle
  <2> QED  BY <2>1, <2>3, SafeInvImplies DEF CallsSafe
<1> HIDE DEF Closed
<1> QED  BY <1>1, <1>2, <1>3, PTL DEF Spec
=============================================================================
