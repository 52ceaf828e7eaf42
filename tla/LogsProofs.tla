----------------------------- MODULE LogsProofs -----------------------------
(***************************************************************************)
(* Theorems about Logs, for every limit of the deque, every bound of the   *)
(* attached records and any number of records, calls and packets.          *)
(*                                                                         *)
(* A record keeps its place because every place a record can be in lies    *)
(* before the next one: what was handed to the local handlers, what the    *)
(* worker holds, the deque, the batch that deliver stores; and, on the     *)
(* remote side, the wire, the batch in flight, the records that wait.      *)
(* Each step moves records from one place to the place before.             *)
(***************************************************************************)
EXTENDS Logs, TLAPS

-----------------------------------------------------------------------------
(* Sequences of record numbers                                              *)

Ascending(s) == \A i, j \in 1..Len(s) : i < j => s[i] < s[j]

\* All of s comes before all of t.
Below(s, t) == \A i \in 1..Len(s), j \in 1..Len(t) : s[i] < t[j]

\* s holds numbers up to n.
UpTo(s, n) == \A i \in 1..Len(s) : 1 <= s[i] /\ s[i] <= n

\* s holds the numbers from k + 1 on, without a gap.
From(s, k) == \A i \in 1..Len(s) : s[i] = k + i

\* No records are a sequence of records.
LEMMA NoRecords == <<>> \in Seq(Nat)
  OBVIOUS

\* An empty place is in order with every other.
LEMMA EmptyOrder ==
    ASSUME NEW s \in Seq(Nat), NEW n \in Nat
    PROVE  Ascending(<<>>) /\ Below(s, <<>>) /\ Below(<<>>, s) /\ UpTo(<<>>, n) /\ From(<<>>, n)
  BY DEF Ascending, Below, UpTo, From

\* Two sequences that follow each other, joined.
LEMMA JoinOrder ==
    ASSUME NEW s \in Seq(Nat), NEW t \in Seq(Nat), Ascending(s), Ascending(t), Below(s, t)
    PROVE  Ascending(s \o t)
<1> SUFFICES ASSUME NEW i \in 1..Len(s \o t), NEW j \in 1..Len(s \o t), i < j
             PROVE  (s \o t)[i] < (s \o t)[j]
  BY DEF Ascending
<1>1. Len(s \o t) = Len(s) + Len(t) /\ Len(s) \in Nat /\ Len(t) \in Nat  OBVIOUS
<1>2. CASE j <= Len(s)
  <2>1. (s \o t)[i] = s[i] /\ (s \o t)[j] = s[j] /\ i \in 1..Len(s) /\ j \in 1..Len(s)  BY <1>1, <1>2
  <2> QED  BY <2>1 DEF Ascending
<1>3. CASE i <= Len(s) /\ j > Len(s)
  <2>1. (s \o t)[i] = s[i] /\ (s \o t)[j] = t[j - Len(s)] /\ i \in 1..Len(s) /\ j - Len(s) \in 1..Len(t)
    BY <1>1, <1>3
  <2> QED  BY <2>1 DEF Below
<1>4. CASE i > Len(s)
  <2>1. /\ (s \o t)[i] = t[i - Len(s)] /\ (s \o t)[j] = t[j - Len(s)]
        /\ i - Len(s) \in 1..Len(t) /\ j - Len(s) \in 1..Len(t) /\ i - Len(s) < j - Len(s)
    BY <1>1, <1>4
  <2> QED  BY <2>1 DEF Ascending
<1> QED  BY <1>1, <1>2, <1>3, <1>4

\* Two places below a third, joined.
LEMMA JoinBelow ==
    ASSUME NEW s \in Seq(Nat), NEW t \in Seq(Nat), NEW u \in Seq(Nat), Below(s, u), Below(t, u)
    PROVE  Below(s \o t, u)
<1> SUFFICES ASSUME NEW i \in 1..Len(s \o t), NEW j \in 1..Len(u) PROVE (s \o t)[i] < u[j]  BY DEF Below
<1>1. CASE i <= Len(s)  BY <1>1 DEF Below
<1>2. CASE i > Len(s)
  <2>1. (s \o t)[i] = t[i - Len(s)] /\ i - Len(s) \in 1..Len(t)  BY <1>2
  <2> QED  BY <2>1 DEF Below
<1> QED  BY <1>1, <1>2

\* Two places above a third, joined.
LEMMA JoinAbove ==
    ASSUME NEW s \in Seq(Nat), NEW t \in Seq(Nat), NEW u \in Seq(Nat), Below(u, s), Below(u, t)
    PROVE  Below(u, s \o t)
<1> SUFFICES ASSUME NEW i \in 1..Len(u), NEW j \in 1..Len(s \o t) PROVE u[i] < (s \o t)[j]  BY DEF Below
<1>1. CASE j <= Len(s)  BY <1>1 DEF Below
<1>2. CASE j > Len(s)
  <2>1. (s \o t)[j] = t[j - Len(s)] /\ j - Len(s) \in 1..Len(t)  BY <1>2
  <2> QED  BY <2>1 DEF Below
<1> QED  BY <1>1, <1>2

\* Two places of records that were logged, joined.
LEMMA JoinUpTo ==
    ASSUME NEW s \in Seq(Nat), NEW t \in Seq(Nat), NEW n \in Nat, UpTo(s, n), UpTo(t, n)
    PROVE  UpTo(s \o t, n)
<1> SUFFICES ASSUME NEW i \in 1..Len(s \o t) PROVE 1 <= (s \o t)[i] /\ (s \o t)[i] <= n  BY DEF UpTo
<1>1. CASE i <= Len(s)  BY <1>1 DEF UpTo
<1>2. CASE i > Len(s)
  <2>1. (s \o t)[i] = t[i - Len(s)] /\ i - Len(s) \in 1..Len(t)  BY <1>2
  <2> QED  BY <2>1 DEF UpTo
<1> QED  BY <1>1, <1>2

\* Two places without gaps, one after the other, joined.
LEMMA JoinFrom ==
    ASSUME NEW s \in Seq(Nat), NEW t \in Seq(Nat), NEW k \in Nat, From(s, k), From(t, k + Len(s))
    PROVE  From(s \o t, k)
<1> SUFFICES ASSUME NEW i \in 1..Len(s \o t) PROVE (s \o t)[i] = k + i  BY DEF From
<1>1. CASE i <= Len(s)  BY <1>1 DEF From
<1>2. CASE i > Len(s)
  <2>1. (s \o t)[i] = t[i - Len(s)] /\ i - Len(s) \in 1..Len(t)  BY <1>2
  <2> QED  BY <1>2, <2>1 DEF From
<1> QED  BY <1>1, <1>2

\* A sequence that counts from one is the sequence of Accounted.
LEMMA FromOne ==
    ASSUME NEW s \in Seq(Nat), From(s, 0) PROVE s = [n \in 1..Len(s) |-> n]
<1>1. DOMAIN s = 1..Len(s) /\ \A i \in 1..Len(s) : s[i] = i  BY DEF From
<1> QED  BY <1>1

\* A longer count of records.
LEMMA UpToLater ==
    ASSUME NEW s \in Seq(Nat), NEW n \in Nat, NEW m \in Nat, n <= m, UpTo(s, n) PROVE UpTo(s, m)
  BY DEF UpTo

\* The next record goes behind everything that was counted.
LEMMA AppendOrder ==
    ASSUME NEW s \in Seq(Nat), NEW n \in Nat, UpTo(s, n), Ascending(s)
    PROVE  Ascending(Append(s, n + 1)) /\ UpTo(Append(s, n + 1), n + 1)
<1>1. /\ Len(Append(s, n + 1)) = Len(s) + 1 /\ Append(s, n + 1)[Len(s) + 1] = n + 1
      /\ \A i \in 1..Len(s) : Append(s, n + 1)[i] = s[i]
  OBVIOUS
<1>2. Len(s) \in Nat /\ \A i \in 1..Len(s) : s[i] \in Nat  OBVIOUS
<1> QED  BY <1>1, <1>2 DEF Ascending, UpTo

\* A new record is above all that were logged before.
LEMMA AppendBelow ==
    ASSUME NEW s \in Seq(Nat), NEW t \in Seq(Nat), NEW n \in Nat, UpTo(s, n), Below(s, t)
    PROVE  Below(s, Append(t, n + 1))
<1>1. /\ Len(Append(t, n + 1)) = Len(t) + 1 /\ Append(t, n + 1)[Len(t) + 1] = n + 1
      /\ \A i \in 1..Len(t) : Append(t, n + 1)[i] = t[i]
  OBVIOUS
<1>2. Len(t) \in Nat /\ \A i \in 1..Len(s) : s[i] \in Nat  OBVIOUS
<1> QED  BY <1>1, <1>2 DEF Below, UpTo

-----------------------------------------------------------------------------
(* The places of the remote side                                            *)

\* The records w on the wire, f in flight and p that wait, of the n that were
\* logged, follow each other; they are all of them until one was dropped.
Placed(w, f, p, n) ==
    /\ w \in Seq(Nat) /\ f \in Seq(Nat) /\ p \in Seq(Nat) /\ n \in Nat
    /\ Ascending(w) /\ Ascending(f) /\ Ascending(p)
    /\ Below(w, f) /\ Below(w, p) /\ Below(f, p)
    /\ UpTo(w, n) /\ UpTo(f, n) /\ UpTo(p, n)

Complete(w, f, p, n) ==
    From(w, 0) /\ From(f, Len(w)) /\ From(p, Len(w) + Len(f)) /\ n = Len(w) + Len(f) + Len(p)

Kept(w, f, p, n, d) == Placed(w, f, p, n) /\ (~d => Complete(w, f, p, n))

\* A batch is written.
LEMMA KeptWritten ==
    ASSUME NEW w, NEW f, NEW p, NEW n, NEW d, Kept(w, f, p, n, d)
    PROVE  Kept(w \o f, <<>>, p, n, d)
<1>1. Placed(w \o f, <<>>, p, n)
  <2>1. Placed(w, f, p, n)  BY DEF Kept
  <2>2. w \o f \in Seq(Nat) /\ <<>> \in Seq(Nat)  BY <2>1 DEF Placed
  <2>3. Ascending(w \o f)  BY <2>1, JoinOrder DEF Placed
  <2>4. Below(w \o f, p) /\ UpTo(w \o f, n)  BY <2>1, JoinBelow, JoinUpTo DEF Placed
  <2>5. Ascending(<<>>) /\ Below(w \o f, <<>>) /\ Below(<<>>, p) /\ UpTo(<<>>, n)
    BY <2>1, <2>2, EmptyOrder DEF Placed
  <2> QED  BY <2>1, <2>2, <2>3, <2>4, <2>5 DEF Placed
<1>2. ASSUME ~d PROVE Complete(w \o f, <<>>, p, n)
  <2>1. w \in Seq(Nat) /\ f \in Seq(Nat) /\ p \in Seq(Nat) /\ Len(w \o f) = Len(w) + Len(f) /\ Len(w) \in Nat /\ Len(f) \in Nat
    BY DEF Kept, Placed
  <2>2. From(w \o f, 0)  BY <1>2, <2>1, JoinFrom DEF Kept, Complete
  <2>3. From(<<>>, Len(w \o f))  BY DEF From
  <2> QED  BY <1>2, <2>1, <2>2, <2>3 DEF Kept, Complete
<1> QED  BY <1>1, <1>2 DEF Kept

\* The records that wait become the batch in flight.
LEMMA KeptTaken ==
    ASSUME NEW w, NEW p, NEW n, NEW d, Kept(w, <<>>, p, n, d)
    PROVE  Kept(w, p, <<>>, n, d)
<1>1. Placed(w, p, <<>>, n)  BY EmptyOrder DEF Kept, Placed
<1>2. ASSUME ~d PROVE Complete(w, p, <<>>, n)
  <2>1. w \in Seq(Nat) /\ p \in Seq(Nat) /\ Len(w) \in Nat /\ Len(p) \in Nat /\ Len(<<>>) = 0  BY DEF Kept, Placed
  <2>2. From(<<>>, Len(w) + Len(p))  BY DEF From
  <2> QED  BY <1>2, <2>1, <2>2 DEF Kept, Complete
<1> QED  BY <1>1, <1>2 DEF Kept

\* A batch that could not be sent goes back in front of what waits.
LEMMA KeptInPlace ==
    ASSUME NEW w, NEW f, NEW p, NEW n, NEW d, Kept(w, f, p, n, d)
    PROVE  Kept(w, <<>>, f \o p, n, d)
<1>1. Placed(w, <<>>, f \o p, n)
  <2>1. Placed(w, f, p, n)  BY DEF Kept
  <2>2. f \o p \in Seq(Nat) /\ <<>> \in Seq(Nat)  BY <2>1 DEF Placed
  <2>3. Ascending(f \o p)  BY <2>1, JoinOrder DEF Placed
  <2>4. Below(w, f \o p) /\ UpTo(f \o p, n)  BY <2>1, JoinAbove, JoinUpTo DEF Placed
  <2>5. Ascending(<<>>) /\ Below(w, <<>>) /\ Below(<<>>, f \o p) /\ UpTo(<<>>, n)
    BY <2>1, <2>2, EmptyOrder DEF Placed
  <2> QED  BY <2>1, <2>2, <2>3, <2>4, <2>5 DEF Placed
<1>2. ASSUME ~d PROVE Complete(w, <<>>, f \o p, n)
  <2>1. /\ w \in Seq(Nat) /\ f \in Seq(Nat) /\ p \in Seq(Nat) /\ Len(<<>>) = 0
        /\ Len(f \o p) = Len(f) + Len(p) /\ Len(w) \in Nat /\ Len(f) \in Nat /\ Len(p) \in Nat
    BY DEF Kept, Placed
  <2>2. From(f \o p, Len(w))  BY <1>2, <2>1, JoinFrom DEF Kept, Complete
  <2>3. From(<<>>, Len(w))  BY DEF From
  <2> QED  BY <1>2, <2>1, <2>2, <2>3 DEF Kept, Complete
<1> QED  BY <1>1, <1>2 DEF Kept

\* One more record is logged.
LEMMA KeptLogged ==
    ASSUME NEW w, NEW f, NEW p, NEW n, NEW d, Kept(w, f, p, n, d)
    PROVE  Kept(w, f, Append(p, n + 1), n + 1, d)
<1>1. Placed(w, f, Append(p, n + 1), n + 1)  BY AppendOrder, AppendBelow, UpToLater DEF Kept, Placed
<1>2. ASSUME ~d PROVE Complete(w, f, Append(p, n + 1), n + 1)
  <2>1. /\ w \in Seq(Nat) /\ f \in Seq(Nat) /\ p \in Seq(Nat) /\ Len(w) \in Nat /\ Len(f) \in Nat /\ Len(p) \in Nat
        /\ Len(Append(p, n + 1)) = Len(p) + 1 /\ Append(p, n + 1)[Len(p) + 1] = n + 1
        /\ \A i \in 1..Len(p) : Append(p, n + 1)[i] = p[i]
    BY DEF Kept, Placed
  <2>2. Complete(w, f, p, n)  BY <1>2 DEF Kept
  <2>3. From(Append(p, n + 1), Len(w) + Len(f))  BY <2>1, <2>2 DEF From, Complete
  <2> QED  BY <2>1, <2>2, <2>3 DEF Complete
<1> QED  BY <1>1, <1>2 DEF Kept

\* Records are dropped, or there were none.
LEMMA KeptDropped ==
    ASSUME NEW w, NEW f, NEW p, NEW n, NEW d, Kept(w, f, p, n, d)
    PROVE  /\ Kept(w, <<>>, p, n, TRUE) /\ Kept(w, f, <<>>, n, TRUE) /\ Kept(w, f, <<>>, n + 1, TRUE)
           /\ Kept(w, <<>>, <<>>, n, TRUE)
<1>1. Placed(w, f, p, n)  BY DEF Kept
<1>2. <<>> \in Seq(Nat) /\ n \in Nat /\ n + 1 \in Nat /\ n <= n + 1  BY <1>1 DEF Placed
<1>3. /\ Ascending(<<>>) /\ Below(w, <<>>) /\ Below(f, <<>>) /\ Below(<<>>, p) /\ Below(<<>>, <<>>)
      /\ UpTo(<<>>, n) /\ UpTo(<<>>, n + 1)
  BY <1>1, <1>2, EmptyOrder DEF Placed
<1>4. UpTo(w, n + 1) /\ UpTo(f, n + 1)  BY <1>1, <1>2, UpToLater DEF Placed
<1>5. Placed(w, <<>>, p, n) /\ Placed(w, f, <<>>, n) /\ Placed(w, f, <<>>, n + 1) /\ Placed(w, <<>>, <<>>, n)
  BY <1>1, <1>2, <1>3, <1>4 DEF Placed
<1> QED  BY <1>5 DEF Kept

-----------------------------------------------------------------------------
(* The remote side                                                          *)

\* A timer that is set is one that the event loop holds, nothing is in flight
\* without a sender, and a sender says that it sends.
Carried ==
    /\ timer => handles > 0
    /\ carrier = "none" => flight = <<>>
    /\ carrier # "none" => sending

\* As long as records wait, the next one schedules a send, or a batch is on the
\* wire.
Scheduled == (pending # <<>> /\ link) => (draining \/ sending)

\* Whoever said that records are scheduled has somebody due, until a resume
\* strands them; before READY nothing is sent.
Attended ==
    /\ sending /\ ~closed => carrier # "none"
    /\ paused => carrier = "none" /\ drains = 0 /\ handles = 0 /\ running = 0
    /\ paused /\ draining => pending # <<>>
    /\ draining /\ ~closed => Due \/ carrier # "none" \/ stranded \/ paused

RemoteInv == TypeOK /\ Carried /\ Scheduled /\ Kept(wire, flight, pending, logged, dropped)

\* The remote invariant holds at the start.
LEMMA RemoteInit == Init => RemoteInv
<1> SUFFICES ASSUME Init PROVE RemoteInv  OBVIOUS
<1>1. TypeOK
  <2>1. <<>> \in Seq(Nat)  OBVIOUS
  <2> QED  BY <2>1 DEF Init, TypeOK
<1>2. Carried /\ Scheduled  BY DEF Init, Carried, Scheduled
<1>3. Kept(wire, flight, pending, logged, dropped)
  BY DEF Init, Kept, Placed, Complete, Ascending, Below, UpTo, From
<1> QED  BY <1>1, <1>2, <1>3 DEF RemoteInv

\* emit.
LEMMA EmitKeeps == ASSUME RemoteInv, Emit PROVE RemoteInv'
<1> USE DEF RemoteInv, Emit
<1>1. logged \in Nat /\ Append(pending, logged + 1) \in Seq(Nat)  BY DEF TypeOK
<1>2. TypeOK'
  <2>1. starts' = starts \/ starts' = starts + 1  OBVIOUS
  <2>2. starts' \in Nat  BY <2>1 DEF TypeOK
  <2>3. pending' = <<>> \/ pending' = Append(pending, logged + 1)  OBVIOUS
  <2>4. pending' \in Seq(Nat)  BY <1>1, <2>3, NoRecords
  <2>5. logged' \in Nat  BY <1>1
  <2>6. draining' \in BOOLEAN /\ dropped' \in BOOLEAN  BY DEF TypeOK
  <2> QED  BY <2>2, <2>4, <2>5, <2>6 DEF TypeOK
<1>3. Carried' /\ Scheduled'  BY DEF Carried, Scheduled
<1>4. Kept(wire, flight, pending, logged, dropped)'
  <2>1. CASE pending' = Append(pending, logged + 1) /\ dropped' = dropped
    BY <2>1, KeptLogged
  <2>2. CASE pending' = <<>> /\ dropped' = TRUE
    BY <2>2, KeptDropped
  <2> QED  BY <2>1, <2>2
<1> QED  BY <1>2, <1>3, <1>4

\* The choice between a timer and a task of its own keeps the count of timers.
LEMMA ChooseCounts ==
    ASSUME TypeOK, Carried, Choose
    PROVE  timer' \in BOOLEAN /\ handles' \in Nat /\ drains' \in Nat /\ (timer' => handles' > 0)
<1>1. handles \in Nat /\ drains \in Nat  BY DEF TypeOK
<1>2. CASE timer' = TRUE /\ handles' = handles + 1 /\ UNCHANGED drains
  <2>1. handles' \in Nat /\ drains' \in Nat /\ handles' > 0  BY <1>1, <1>2
  <2> QED  BY <1>2, <2>1
<1>3. CASE timer' = FALSE /\ drains' = drains + 1 /\ UNCHANGED handles
  <2>1. handles' \in Nat /\ drains' \in Nat  BY <1>1, <1>3
  <2> QED  BY <1>3, <2>1
<1> QED  BY <1>2, <1>3 DEF Choose

\* start and send_alone, called by the event loop, and the end of the pause.
LEMMA StartKeeps == ASSUME RemoteInv, Start \/ Unpause \/ SendAlone PROVE RemoteInv'
<1> USE DEF RemoteInv
<1>1. UNCHANGED <<logged, flight, carrier, stranded, wire, sending, link, calls, running, plain, closed>>
  BY DEF Start, Unpause, SendAlone
<1>2. timer' \in BOOLEAN /\ handles' \in Nat /\ drains' \in Nat /\ (timer' => handles' > 0)
  <2>1. handles \in Nat /\ drains \in Nat /\ timer \in BOOLEAN /\ (timer => handles > 0)  BY DEF TypeOK, Carried
  <2>2. CASE Choose  BY <2>2, ChooseCounts
  <2>3. CASE UNCHANGED <<timer, handles, drains>>  BY <2>1, <2>3
  <2>4. CASE SendAlone
    <3>1. handles' \in Nat /\ drains' \in Nat  BY <2>1, <2>4 DEF SendAlone
    <3> QED  BY <2>4, <3>1 DEF SendAlone
  <2> QED  BY <2>2, <2>3, <2>4 DEF Start, Unpause
<1>3. starts' \in Nat
  <2>1. starts' = starts \/ (starts > 0 /\ starts' = starts - 1)  BY DEF Start, Unpause, SendAlone
  <2> QED  BY <2>1 DEF TypeOK
<1>4. TypeOK'
  <2>1. pending' = pending \/ pending' = <<>>  BY DEF Start, Unpause, SendAlone
  <2>2. pending' \in Seq(Nat)  BY <2>1, NoRecords DEF TypeOK
  <2>3. draining' \in BOOLEAN /\ paused' \in BOOLEAN /\ dropped' \in BOOLEAN
    BY DEF Start, Unpause, SendAlone, TypeOK
  <2> QED  BY <1>1, <1>2, <1>3, <2>2, <2>3 DEF TypeOK
<1>5. Carried'  BY <1>1, <1>2 DEF Carried
<1>6. (pending' = pending /\ draining' = draining) \/ pending' = <<>>  BY DEF Start, Unpause, SendAlone
<1>7. Scheduled'  BY <1>1, <1>6 DEF Scheduled
<1>8. (pending' = pending /\ dropped' = dropped) \/ (pending' = <<>> /\ dropped' = TRUE)
  BY DEF Start, Unpause, SendAlone, TypeOK
<1>9. Kept(wire, flight, pending, logged, dropped)'  BY <1>1, <1>8, KeptDropped
<1> QED  BY <1>4, <1>5, <1>7, <1>9

\* drain.
LEMMA DrainKeeps == ASSUME RemoteInv, DrainBegin \/ DrainSent \/ DrainFail PROVE RemoteInv'
<1> USE DEF RemoteInv
<1>1. CASE DrainBegin
  <2> USE DEF DrainBegin, TakeBatch
  <2>1. drains' \in Nat /\ pending' \in Seq(Nat) /\ flight' \in Seq(Nat)
    <3>1. drains' \in Nat  BY <1>1 DEF TypeOK
    <3>2. /\ pending' = pending \/ pending' = <<>>
          /\ flight' = flight \/ flight' = pending
      BY <1>1
    <3> QED  BY <3>1, <3>2, NoRecords DEF TypeOK
  <2>2. TypeOK'  BY <1>1, <2>1 DEF TypeOK
  <2>3. Carried' /\ Scheduled'  BY <1>1 DEF Carried, Scheduled
  <2>4. Kept(wire, flight, pending, logged, dropped)'
    <3>1. CASE UNCHANGED <<flight, pending>>  BY <1>1, <3>1
    <3>2. CASE ~sending /\ flight' = pending /\ pending' = <<>>
      <4>1. flight = <<>>  BY <3>2 DEF Carried
      <4> QED  BY <1>1, <3>2, <4>1, KeptTaken
    <3> QED  BY <1>1, <3>1, <3>2
  <2> QED  BY <2>2, <2>3, <2>4
<1>2. CASE DrainSent
  <2> USE DEF DrainSent
  <2>1. pending' \in Seq(Nat) /\ flight' \in Seq(Nat) /\ wire' \in Seq(Nat)  BY <1>2 DEF TypeOK
  <2>2. TypeOK'  BY <1>2, <2>1 DEF TypeOK
  <2>3. Carried' /\ Scheduled'
    <3>1. carrier' = "none" => flight' = <<>>  BY <1>2
    <3>2. carrier' = "none" \/ sending' = sending  BY <1>2
    <3>3. sending  BY <1>2 DEF Carried
    <3>4. carrier' # "none" => sending'  BY <3>2, <3>3
    <3> QED  BY <1>2, <3>1, <3>4 DEF Carried, Scheduled
  <2>4. Kept(wire', <<>>, pending, logged, dropped)  BY <1>2, KeptWritten
  <2>5. Kept(wire, flight, pending, logged, dropped)'  BY <1>2, <2>4, KeptTaken
  <2> QED  BY <2>2, <2>3, <2>5
<1>3. CASE DrainFail
  <2> USE DEF DrainFail
  <2>1. flight' \in Seq(Nat)  BY <1>3
  <2>2. TypeOK'  BY <1>3, <2>1 DEF TypeOK
  <2>3. Carried' /\ Scheduled'  BY <1>3 DEF Carried, Scheduled
  <2>4. Kept(wire, flight, pending, logged, dropped)'  BY <1>3, KeptDropped
  <2> QED  BY <2>2, <2>3, <2>4
<1> QED  BY <1>1, <1>2, <1>3

\* A response takes the records that wait, or none.
LEMMA RespondKeeps == ASSUME RemoteInv, Respond PROVE RemoteInv'
<1> USE DEF RemoteInv, Respond
<1>1. CASE MayAttach /\ flight' = pending /\ pending' = <<>> /\ sending' = TRUE /\ carrier' = "response"
           /\ timer' = FALSE /\ handles' = HandlesLeft /\ UNCHANGED plain
  <2>1. handles' \in Nat  BY <1>1 DEF HandlesLeft, Carried, TypeOK
  <2>2. running' \in Nat /\ pending' \in Seq(Nat)  BY <1>1 DEF TypeOK
  <2>3. TypeOK'  BY <1>1, <2>1, <2>2 DEF TypeOK
  <2>4. Carried' /\ Scheduled'  BY <1>1 DEF Carried, Scheduled
  <2>5. flight = <<>>  BY <1>1 DEF Carried, MayAttach
  <2>6. Kept(wire, flight, pending, logged, dropped)'  BY <1>1, <2>5, KeptTaken
  <2> QED  BY <2>3, <2>4, <2>6
<1>2. CASE plain' = plain + 1 /\ UNCHANGED <<flight, pending, sending, carrier, timer, handles>>
  <2>1. TypeOK'  BY <1>2 DEF TypeOK
  <2>2. Carried' /\ Scheduled'  BY <1>2 DEF Carried, Scheduled
  <2> QED  BY <1>2, <2>1, <2>2
<1> QED  BY <1>1, <1>2

\* resume, with the records that were not sent put back in front.
LEMMA ResumeKeeps ==
    ASSUME RemoteInv, NEW w, NEW back, Resume(back), wire' = w, UNCHANGED <<logged, link>>,
           Kept(w, <<>>, back \o pending, logged, dropped)
    PROVE  /\ Carried' /\ Scheduled' /\ Kept(wire, flight, pending, logged, dropped)'
           /\ pending' \in Seq(Nat) /\ flight' \in Seq(Nat) /\ wire' \in Seq(Nat)
           /\ draining' \in BOOLEAN /\ sending' \in BOOLEAN /\ timer' \in BOOLEAN /\ dropped' \in BOOLEAN
           /\ stranded' \in BOOLEAN /\ handles' \in Nat /\ drains' \in Nat /\ carrier' = "none"
<1> USE DEF RemoteInv
<1>1. sending' = FALSE /\ carrier' = "none" /\ flight' = <<>>  BY DEF Resume
<1>2. \/ /\ ~Again(InPlace(back)) /\ pending' = back \o pending
         /\ draining' = (draining /\ back \o pending # <<>>)
         /\ UNCHANGED <<timer, handles, drains, dropped>>
      \/ pending' = back \o pending /\ draining' = TRUE /\ Choose /\ UNCHANGED dropped
      \/ pending' = <<>> /\ dropped' = TRUE /\ UNCHANGED <<draining, timer, handles, drains>>
  BY DEF Resume, InPlace
<1>3. timer' \in BOOLEAN /\ handles' \in Nat /\ drains' \in Nat /\ (timer' => handles' > 0)
  BY <1>2, ChooseCounts DEF TypeOK, Carried
<1>4. Carried'  BY <1>1, <1>3 DEF Carried
<1>5. Scheduled'  BY <1>2 DEF Scheduled, Again, InPlace
<1>6. Kept(wire, flight, pending, logged, dropped)'  BY <1>1, <1>2, KeptDropped
<1>7. pending' \in Seq(Nat) /\ flight' \in Seq(Nat) /\ wire' \in Seq(Nat)  BY <1>6 DEF Kept, Placed
<1>8. draining' \in BOOLEAN /\ dropped' \in BOOLEAN  BY <1>2 DEF TypeOK
<1>9. stranded' \in BOOLEAN
  <2>1. stranded' = FALSE \/ stranded' = (InPlace(back) # <<>> /\ ~Due)  BY DEF Resume
  <2> QED  BY <2>1
<1> QED  BY <1>1, <1>3, <1>4, <1>5, <1>6, <1>7, <1>8, <1>9

\* A response was written, could not be pickled, or met the loss of the link.
LEMMA ResponseKeeps ==
    ASSUME RemoteInv, ResponseSent \/ ResponseRefused \/ ResponseFail PROVE RemoteInv'
<1> USE DEF RemoteInv
<1>1. CASE ResponseSent
  <2>1. Kept(wire', <<>>, <<>> \o pending, logged, dropped)
    <3>1. <<>> \o pending = pending  BY DEF TypeOK
    <3> QED  BY <1>1, <3>1, KeptWritten DEF ResponseSent
  <2>2. Resume(<<>>) /\ UNCHANGED <<logged, link>>  BY <1>1 DEF ResponseSent
  <2>3. Carried' /\ Scheduled' /\ Kept(wire, flight, pending, logged, dropped)'  BY <2>1, <2>2, ResumeKeeps
  <2>4. TypeOK'  BY <1>1, <2>1, <2>2, ResumeKeeps DEF ResponseSent, TypeOK
  <2> QED  BY <2>3, <2>4
<1>2. CASE ResponseRefused \/ ResponseFail
  <2>1. Kept(wire', <<>>, flight \o pending, logged, dropped)
    BY <1>2, KeptInPlace DEF ResponseRefused, ResponseFail
  <2>2. Resume(flight) /\ UNCHANGED <<logged, link>>  BY <1>2 DEF ResponseRefused, ResponseFail
  <2>3. Carried' /\ Scheduled' /\ Kept(wire, flight, pending, logged, dropped)'  BY <2>1, <2>2, ResumeKeeps
  <2>4. plain' \in Nat /\ closed' \in BOOLEAN
    <3>1. plain' = plain \/ plain' = plain + 1  BY <1>2 DEF ResponseRefused, ResponseFail
    <3>2. plain' \in Nat  BY <3>1 DEF TypeOK
    <3>3. closed' \in BOOLEAN  BY <1>2 DEF ResponseRefused, ResponseFail, TypeOK
    <3> QED  BY <3>2, <3>3
  <2>5. TypeOK'  BY <1>2, <2>1, <2>2, <2>4, ResumeKeeps DEF ResponseRefused, ResponseFail, TypeOK
  <2> QED  BY <2>3, <2>5
<1> QED  BY <1>1, <1>2

\* Calls come and go, the link breaks, the protocol closes and cancels its tasks.
LEMMA ConnectionKeeps ==
    ASSUME RemoteInv, Serve \/ PlainSent \/ BreakLink \/ Close \/ CancelTasks PROVE RemoteInv'
<1> USE DEF RemoteInv
<1>1. CASE Serve \/ PlainSent \/ BreakLink \/ Close
  <2> USE DEF Serve, PlainSent, BreakLink, Close
  <2>1. UNCHANGED <<logged, paused, handlerVars>> /\ (link' => link)  BY <1>1
  <2>2. calls' \in Nat /\ running' \in Nat /\ plain' \in Nat /\ link' \in BOOLEAN /\ closed' \in BOOLEAN
    <3>1. /\ calls' = calls \/ calls' = calls + 1
          /\ running' = running \/ running' = running + 1
          /\ plain' = plain \/ (plain > 0 /\ plain' = plain - 1)
      BY <1>1
    <3>2. calls' \in Nat /\ running' \in Nat /\ plain' \in Nat  BY <3>1 DEF TypeOK
    <3>3. link' \in BOOLEAN /\ closed' \in BOOLEAN  BY <1>1 DEF TypeOK
    <3> QED  BY <3>2, <3>3
  <2>3. TypeOK'  BY <2>1, <2>2 DEF TypeOK, handlerVars
  <2> QED  BY <2>1, <2>3 DEF handlerVars, Carried, Scheduled
<1>2. CASE CancelTasks
  <2> USE DEF CancelTasks
  <2>1. flight' \in Seq(Nat)  BY <1>2
  <2>2. TypeOK'  BY <1>2, <2>1 DEF TypeOK
  <2>3. Carried' /\ Scheduled'  BY <1>2 DEF Carried, Scheduled
  <2>4. (flight = <<>> /\ dropped' = dropped) \/ dropped' = TRUE  BY <1>2 DEF TypeOK
  <2>5. Kept(wire, flight, pending, logged, dropped)'  BY <1>2, <2>4, KeptDropped
  <2> QED  BY <2>2, <2>3, <2>5
<1> QED  BY <1>1, <1>2

\* The remote invariant is inductive.
LEMMA RemoteNextKeeps == ASSUME RemoteInv, Next PROVE RemoteInv'
  BY EmitKeeps, StartKeeps, DrainKeeps, RespondKeeps, ResponseKeeps, ConnectionKeeps DEF Next, LoopStep

\* Every step of the handler leaves somebody due, or strands the records.
LEMMA AttendedKeeps == ASSUME RemoteInv, Attended, Next PROVE Attended'
<1> USE DEF Attended, Due
<1>1. /\ handles \in Nat /\ starts \in Nat /\ drains \in Nat /\ running \in Nat /\ plain \in Nat
      /\ (carrier # "none" => sending) /\ (timer => handles > 0)
  BY DEF RemoteInv, TypeOK, Carried
<1>2. ASSUME Choose PROVE handles' > 0 \/ drains' > 0  BY <1>1, <1>2 DEF Choose
<1>3. CASE Emit
  <2>1. UNCHANGED <<paused, sending, handles, drains, carrier, stranded, running, closed>>  BY <1>3 DEF Emit
  <2>2. \/ pending' # <<>> /\ draining' = TRUE /\ starts' = (IF draining THEN starts ELSE starts + 1)
        \/ closed /\ UNCHANGED draining /\ ~draining
    <3>1. pending \in Seq(Nat) /\ logged + 1 \in Nat  BY DEF RemoteInv, TypeOK
    <3>2. Append(pending, logged + 1) # <<>>  BY ONLY <3>1
    <3> QED  BY <1>3, <3>2 DEF Emit
  <2> QED  BY <1>1, <2>1, <2>2
<1>4. CASE Start
  <2>1. UNCHANGED <<paused, sending, carrier, stranded, running, closed>>  BY <1>4 DEF Start
  <2>2. \/ closed /\ draining' = FALSE /\ UNCHANGED <<handles, drains>>
        \/ ~closed /\ paused /\ UNCHANGED <<draining, pending, handles, drains>>
        \/ ~closed /\ ~paused /\ Choose
    BY <1>4 DEF Start
  <2> QED  BY <1>1, <1>2, <2>1, <2>2
<1>5. CASE Unpause
  <2>1. UNCHANGED <<sending, draining, starts, carrier, stranded, running, closed>> /\ paused /\ ~paused'
        /\ (pending = <<>> \/ Choose)
    BY <1>5 DEF Unpause
  <2> QED  BY <1>1, <1>2, <2>1
<1>6. CASE SendAlone
  <2>1. UNCHANGED <<paused, sending, draining, carrier, stranded, running, closed>> /\ handles > 0 /\ drains' = drains + 1
    BY <1>6 DEF SendAlone
  <2> QED  BY <1>1, <2>1
<1>7. CASE DrainBegin
  <2>1. UNCHANGED <<paused, handles, starts, running, closed>> /\ drains > 0  BY <1>7 DEF DrainBegin
  <2>2. \/ draining' = FALSE /\ UNCHANGED <<sending, carrier>>
        \/ sending' = TRUE /\ carrier' = "drain"
    BY <1>7 DEF DrainBegin, TakeBatch
  <2> QED  BY <1>1, <2>1, <2>2
<1>8. CASE DrainSent \/ DrainFail
  <2>1. UNCHANGED <<paused, handles, drains, starts, running, closed>> /\ carrier = "drain"
    BY <1>8 DEF DrainSent, DrainFail
  <2>2. (sending' = FALSE /\ draining' = FALSE) \/ UNCHANGED <<sending, carrier>>
    BY <1>8 DEF DrainSent, DrainFail
  <2> QED  BY <1>1, <2>1, <2>2
<1>9. CASE Respond
  <2>1. UNCHANGED <<paused, draining, starts, drains, closed>> /\ running > 0  BY <1>9 DEF Respond
  <2>2. carrier' = "response" \/ UNCHANGED <<pending, sending, carrier, stranded, handles>>  BY <1>9 DEF Respond
  <2> QED  BY <1>1, <2>1, <2>2
<1>10. ASSUME NEW back, Resume(back), carrier = "response", UNCHANGED <<paused, starts>>, closed => closed'
       PROVE  Attended'
  <2>1. sending' = FALSE /\ ~paused  BY <1>10 DEF Resume
  <2>2. \/ draining' = (draining /\ InPlace(back) # <<>>) /\ stranded' = (InPlace(back) # <<>> /\ ~Due)
           /\ UNCHANGED <<handles, drains>>
        \/ Choose
        \/ closed
    BY <1>10 DEF Resume
  <2> QED  BY <1>1, <1>2, <1>10, <2>1, <2>2
<1>11. CASE ResponseSent \/ ResponseRefused \/ ResponseFail
  <2>1. PICK back : Resume(back)  BY <1>11 DEF ResponseSent, ResponseRefused, ResponseFail
  <2>2. carrier = "response" /\ UNCHANGED <<paused, starts>> /\ (closed => closed')
    BY <1>11 DEF ResponseSent, ResponseRefused, ResponseFail
  <2> QED  BY <1>10, <2>1, <2>2
<1>12. CASE Serve \/ PlainSent \/ BreakLink \/ Close
  <2>1. UNCHANGED <<paused, handlerVars>> /\ (closed => closed') /\ (running' = running \/ ~paused)
    <3>1. CASE PlainSent  BY <3>1 DEF PlainSent, RemoteInv, TypeOK
    <3>2. CASE Serve \/ BreakLink \/ Close  BY <3>2 DEF Serve, BreakLink, Close
    <3> QED  BY <1>12, <3>1, <3>2
  <2> QED  BY <2>1 DEF handlerVars
<1>13. CASE CancelTasks
  <2>1. closed /\ closed' /\ UNCHANGED <<paused, draining, pending, handles>>
        /\ drains' = 0 /\ carrier' = "none" /\ running' = 0
    BY <1>13 DEF CancelTasks
  <2> QED  BY <2>1
<1> QED  BY <1>3, <1>4, <1>5, <1>6, <1>7, <1>8, <1>9, <1>11, <1>12, <1>13 DEF Next, LoopStep

\* The wire only grows.
LEMMA WireGrows == ASSUME RemoteInv, Next PROVE Len(wire) <= Len(wire')
<1>1. wire \in Seq(Nat) /\ flight \in Seq(Nat)  BY DEF RemoteInv, TypeOK
<1>2. wire' = wire \/ wire' = wire \o flight
  BY DEF Next, LoopStep, Emit, Serve, Respond, ResponseRefused, BreakLink, Close, CancelTasks, Start, SendAlone,
         Unpause, DrainBegin, DrainSent, DrainFail, ResponseSent, ResponseFail, PlainSent, handlerVars
<1> QED  BY <1>1, <1>2

-----------------------------------------------------------------------------
(* The places of the local side                                             *)

\* The record in the hands of the worker.
Held == IF wpc = "emit" THEN <<taken>> ELSE <<>>

\* The records e that were emitted, h in the hands of the worker, r of the
\* deque and b that deliver still stores, of the n that arrived, follow each other.
Line(e, h, r, b, n) ==
    /\ e \in Seq(Nat) /\ h \in Seq(Nat) /\ r \in Seq(Nat) /\ b \in Seq(Nat) /\ n \in Nat
    /\ Ascending(e) /\ Ascending(h) /\ Ascending(r) /\ Ascending(b)
    /\ Below(e, h) /\ Below(e, r) /\ Below(e, b) /\ Below(h, r) /\ Below(h, b) /\ Below(r, b)
    /\ UpTo(e, n) /\ UpTo(h, n) /\ UpTo(r, n) /\ UpTo(b, n)

\* A packet arrives.
LEMMA LineArrives ==
    ASSUME NEW e, NEW h, NEW r, NEW n, Line(e, h, r, <<>>, n), NEW k \in Nat
    PROVE  Line(e, h, r, [i \in 1..k |-> n + i], n + k)
<1> DEFINE b == [i \in 1..k |-> n + i]
<1>1. n \in Nat /\ n + k \in Nat /\ n <= n + k  BY DEF Line
<1>2. b \in Seq(Nat) /\ Len(b) = k /\ \A i \in 1..Len(b) : b[i] = n + i  BY <1>1
<1> HIDE DEF b
<1>3. Ascending(b) /\ UpTo(b, n + k)  BY <1>1, <1>2 DEF Ascending, UpTo
<1>4. ASSUME NEW s \in Seq(Nat), UpTo(s, n) PROVE Below(s, b) /\ UpTo(s, n + k)
  BY <1>1, <1>2, <1>4, SMTT(30) DEF Below, UpTo
<1>5. Line(e, h, r, b, n + k)  BY <1>1, <1>2, <1>3, <1>4 DEF Line
<1> QED  BY <1>5 DEF b

\* The end of a packet is lost.
LEMMA LineCut ==
    ASSUME NEW e, NEW h, NEW r, NEW b, NEW n, Line(e, h, r, b, n), NEW k \in 0..Len(b)
    PROVE  Line(e, h, r, SubSeq(b, 1, k), n)
<1> DEFINE c == SubSeq(b, 1, k)
<1>1. b \in Seq(Nat) /\ e \in Seq(Nat) /\ h \in Seq(Nat) /\ r \in Seq(Nat) /\ n \in Nat  BY DEF Line
<1>2. c \in Seq(Nat) /\ Len(c) = k /\ \A i \in 1..Len(c) : c[i] = b[i] /\ i \in 1..Len(b)  BY <1>1
<1> HIDE DEF c
<1>3. Ascending(c) /\ UpTo(c, n)  BY <1>1, <1>2 DEF Ascending, UpTo, Line
<1>4. Below(e, c) /\ Below(h, c) /\ Below(r, c)  BY <1>1, <1>2 DEF Below, Line
<1>5. Line(e, h, r, c, n)  BY <1>2, <1>3, <1>4 DEF Line
<1> QED  BY <1>5 DEF c

\* A packet is stored.
LEMMA LineStored ==
    ASSUME NEW e, NEW h, NEW r, NEW b, NEW n, Line(e, h, r, b, n)
    PROVE  Line(e, h, r \o b, <<>>, n)
<1>1. r \o b \in Seq(Nat)  BY DEF Line
<1>2. Ascending(r \o b)  BY JoinOrder DEF Line
<1>3. Below(e, r \o b) /\ Below(h, r \o b) /\ UpTo(r \o b, n)  BY JoinAbove, JoinUpTo DEF Line
<1>4. /\ Ascending(<<>>) /\ Below(e, <<>>) /\ Below(h, <<>>) /\ Below(r \o b, <<>>) /\ UpTo(<<>>, n)
  BY <1>1, EmptyOrder DEF Line
<1> QED  BY <1>1, <1>2, <1>3, <1>4, NoRecords DEF Line

\* The worker takes the first record of the deque.
LEMMA LineTaken ==
    ASSUME NEW e, NEW r, NEW b, NEW n, Line(e, <<>>, r, b, n), r # <<>>
    PROVE  Line(e, <<Head(r)>>, Tail(r), b, n)
<1> DEFINE x == Head(r)
           t == Tail(r)
<1>1. b \in Seq(Nat) /\ e \in Seq(Nat) /\ r \in Seq(Nat) /\ n \in Nat  BY DEF Line
<1>2. /\ t \in Seq(Nat) /\ Len(t) = Len(r) - 1 /\ Len(r) \in Nat /\ Len(r) > 0
      /\ \A i \in 1..Len(t) : t[i] = r[i + 1] /\ i + 1 \in 1..Len(r)
  BY <1>1
<1>3. x = r[1] /\ 1 \in 1..Len(r) /\ x \in Nat  BY <1>1, <1>2
<1>4. <<x>> \in Seq(Nat) /\ Len(<<x>>) = 1 /\ <<x>>[1] = x  BY <1>3
<1> HIDE DEF x, t
<1>5. Ascending(t) /\ UpTo(t, n)
  <2>1. ASSUME NEW i \in 1..Len(t), NEW j \in 1..Len(t), i < j PROVE t[i] < t[j]
    <3>1. i + 1 \in 1..Len(r) /\ j + 1 \in 1..Len(r) /\ i + 1 < j + 1  BY <1>2, <2>1
    <3>2. r[i + 1] < r[j + 1]  BY <3>1 DEF Ascending, Line
    <3> QED  BY <1>2, <3>2
  <2>2. UpTo(t, n)  BY <1>1, <1>2 DEF UpTo, Line
  <2> QED  BY <2>1, <2>2 DEF Ascending
<1>6. Below(e, t) /\ Below(t, b)  BY <1>1, <1>2 DEF Below, Line
<1>7. Ascending(<<x>>) /\ UpTo(<<x>>, n)
  <2>1. 1 <= x /\ x <= n  BY <1>3 DEF UpTo, Line
  <2>2. \A i \in 1..Len(<<x>>) : i = 1  BY <1>4
  <2> QED  BY <1>4, <2>1, <2>2 DEF Ascending, UpTo
<1>8. Below(e, <<x>>) /\ Below(<<x>>, b)  BY <1>1, <1>3, <1>4 DEF Below, Line
<1>9. Below(<<x>>, t)
  <2>1. ASSUME NEW j \in 1..Len(t) PROVE x < t[j]
    <3>1. j + 1 \in 1..Len(r) /\ 1 < j + 1  BY <1>2
    <3>2. r[1] < r[j + 1]  BY <1>3, <3>1 DEF Ascending, Line
    <3> QED  BY <1>2, <1>3, <3>2
  <2>2. \A i \in 1..Len(<<x>>) : i = 1  BY <1>4
  <2> QED  BY <1>4, <2>1, <2>2 DEF Below
<1>10. Line(e, <<x>>, t, b, n)  BY <1>2, <1>4, <1>5, <1>6, <1>7, <1>8, <1>9 DEF Line
<1> QED  BY <1>10, Zenon DEF x, t

\* The worker hands its record to the handlers.
LEMMA LineEmitted ==
    ASSUME NEW e, NEW h, NEW r, NEW b, NEW n, Line(e, h, r, b, n)
    PROVE  Line(e \o h, <<>>, r, b, n)
<1>1. e \o h \in Seq(Nat)  BY DEF Line
<1>2. Ascending(e \o h)  BY JoinOrder DEF Line
<1>3. Below(e \o h, r) /\ Below(e \o h, b) /\ UpTo(e \o h, n)  BY JoinBelow, JoinUpTo DEF Line
<1>4. /\ Ascending(<<>>) /\ Below(e \o h, <<>>) /\ Below(<<>>, r) /\ Below(<<>>, b) /\ UpTo(<<>>, n)
  BY <1>1, EmptyOrder DEF Line
<1> QED  BY <1>1, <1>2, <1>3, <1>4, NoRecords DEF Line

-----------------------------------------------------------------------------
(* The local side                                                           *)

\* deliver is the only one that adds to the deque: what it saw of its room, or
\* is about to store, still fits, although the worker runs meanwhile.
Room ==
    /\ dpc = "count" => Len(records) + room <= Limit
    /\ dpc = "store" => Len(records) + Len(batch) <= Limit
    /\ dpc \notin {"count", "store"} => batch = <<>>

\* deliver and stop do not overlap, and until stop there is one worker.
Single ==
    /\ dpc # "ready" => spc = "ready"
    /\ spc = "ready" /\ ~started => wpc = "absent"

Arrived == arrived <= Len(wire)

LocalInv == Local!TypeOK /\ Room /\ Single /\ Local!Counted /\ Line(emitted, Held, records, batch, arrived)

\* The local invariant holds at the start.
LEMMA LocalInit == Local!Init => LocalInv
<1> SUFFICES ASSUME Local!Init PROVE LocalInv  OBVIOUS
<1>1. Local!TypeOK
  <2>1. Len(records) <= Limit /\ 0 \in Nat  BY LogDeliveryConstants DEF Local!Init
  <2> QED  BY <2>1, NoRecords DEF Local!Init, Local!TypeOK
<1>2. Room /\ Single /\ Local!Counted  BY DEF Local!Init, Room, Single, Local!Counted
<1>3. Held = <<>>  BY DEF Held, Local!Init
<1>4. Line(emitted, Held, records, batch, arrived)
  BY <1>3, NoRecords, EmptyOrder DEF Local!Init, Line
<1> QED  BY <1>1, <1>2, <1>4 DEF LocalInv

USE DEF Local!loopVars, Local!workerVars

\* A step that moves no record.
LEMMA QuietKeeps ==
    ASSUME LocalInv, UNCHANGED <<arrived, records, batch, room, lost, emitted>>, Local!TypeOK',
           Held' = Held, wpc' = "emit" <=> wpc = "emit",
           dpc' = dpc \/ (dpc \notin {"count", "store"} /\ dpc' \notin {"count", "store"}), Single'
    PROVE  LocalInv'
<1>1. Room'  BY DEF LocalInv, Room
<1>2. Local!Counted'  BY DEF LocalInv, Local!Counted
<1>3. Line(emitted, Held, records, batch, arrived)'  BY DEF LocalInv
<1> QED  BY <1>1, <1>2, <1>3 DEF LocalInv

\* deliver, which reads the room before it stores.
LEMMA DeliverKeeps == ASSUME LocalInv, Local!Deliver PROVE LocalInv'
<1> USE DEF LocalInv
<1>1. PICK n \in 1..MaxBatch : arrived' = arrived + n /\ batch' = [i \in 1..n |-> arrived + i]
  BY DEF Local!Deliver
<1>2. n \in Nat /\ arrived \in Nat  BY LogDeliveryConstants DEF Local!TypeOK
<1>3. batch = <<>> /\ Len(batch) = 0  BY DEF Local!Deliver, Room
<1>4. Held' = Held  BY DEF Held, Local!Deliver
<1>5. Line(emitted, Held, records, batch, arrived)'
  <2>1. Line(emitted, Held, records, [i \in 1..n |-> arrived + i], arrived + n)  BY <1>2, <1>3, LineArrives
  <2> QED  BY <1>1, <1>4, <2>1 DEF Local!Deliver
<1>6. Len(batch') = n /\ batch' \in Seq(Nat)  BY <1>1, <1>2
<1>7. room' \in Nat /\ Len(records) + room' <= Limit
  <2>1. Len(records) \in Nat /\ Len(records) <= Limit /\ Limit \in Nat  BY LogDeliveryConstants DEF Local!TypeOK
  <2> QED  BY <2>1 DEF Local!Deliver
<1>8. Local!TypeOK'
  <2>1. arrived' \in Nat  BY <1>1, <1>2
  <2> QED  BY <1>6, <1>7, <2>1 DEF Local!TypeOK, Local!Deliver
<1>9. Room' /\ Single'  BY <1>7 DEF Room, Single, Local!Deliver
<1>10. Local!Counted'
  <2>1. Len(emitted) \in Nat /\ Len(records) \in Nat /\ lost \in Nat  BY DEF Local!TypeOK
  <2> QED  BY <1>1, <1>2, <1>3, <1>6, <2>1, SMTT(30) DEF Local!Counted, Local!Deliver
<1> QED  BY <1>5, <1>8, <1>9, <1>10

\* The records without room are counted as lost.
LEMMA CountKeeps == ASSUME LocalInv, Local!CountLost PROVE LocalInv'
<1> USE DEF LocalInv
<1>1. batch \in Seq(Nat) /\ room \in Nat /\ lost \in Nat /\ Len(batch) \in Nat  BY DEF Local!TypeOK
<1>2. PICK k \in 0..Len(batch) : batch' = SubSeq(batch, 1, k) /\ k <= room
  <2>1. CASE room < Len(batch)  BY <1>1, <2>1 DEF Local!CountLost, Local!Fitting
  <2>2. CASE ~(room < Len(batch))
    <3>1. batch' = SubSeq(batch, 1, Len(batch))  BY <1>1, <2>2 DEF Local!CountLost, Local!Fitting
    <3> QED  BY <1>1, <2>2, <3>1
  <2> QED  BY <2>1, <2>2
<1>3. batch' \in Seq(Nat) /\ Len(batch') = k  BY <1>1, <1>2
<1>4. lost' = lost + (Len(batch) - k)  BY <1>3 DEF Local!CountLost, Local!NewlyLost
<1>5. Held' = Held  BY DEF Held, Local!CountLost
<1>6. Line(emitted, Held, records, batch, arrived)'
  <2>1. Line(emitted, Held, records, SubSeq(batch, 1, k), arrived)  BY LineCut
  <2> QED  BY <1>2, <1>5, <2>1 DEF Local!CountLost
<1>7. Local!TypeOK'
  <2>1. lost' \in Nat  BY <1>1, <1>4
  <2> QED  BY <1>3, <2>1 DEF Local!TypeOK, Local!CountLost
<1>8. Room' /\ Single'
  <2>1. Len(records) \in Nat /\ Limit \in Nat  BY LogDeliveryConstants DEF Local!TypeOK
  <2>2. Len(records) + k <= Limit  BY <1>1, <1>2, <2>1 DEF Room, Local!CountLost
  <2> QED  BY <1>3, <2>2 DEF Room, Single, Local!CountLost
<1>9. Local!Counted'
  <2>1. Len(emitted) \in Nat /\ Len(records) \in Nat /\ arrived \in Nat  BY DEF Local!TypeOK
  <2> QED  BY <1>1, <1>3, <1>4, <2>1 DEF Local!Counted, Local!CountLost
<1> QED  BY <1>6, <1>7, <1>8, <1>9

\* The others are stored, in one step.
LEMMA StoreKeeps == ASSUME LocalInv, Local!Store PROVE LocalInv'
<1> USE DEF LocalInv
<1>1. batch \in Seq(Nat) /\ records \in Seq(Nat)  BY DEF Local!TypeOK
<1>2. /\ records' \in Seq(Nat) /\ Len(records') = Len(records) + Len(batch) /\ batch' = <<>> /\ Len(batch') = 0
      /\ Len(batch) \in Nat /\ Len(records) \in Nat
  BY <1>1 DEF Local!Store
<1>3. Held' = Held  BY DEF Held, Local!Store
<1>4. Line(emitted, Held, records, batch, arrived)'  BY <1>3, LineStored DEF Local!Store
<1>5. Local!TypeOK'
  <2>1. Len(records') <= Limit  BY <1>2 DEF Room, Local!Store
  <2> QED  BY <1>2, <2>1, NoRecords DEF Local!TypeOK, Local!Store
<1>6. Room' /\ Single'  BY <1>2 DEF Room, Single, Local!Store
<1>7. Local!Counted'
  <2>1. Len(emitted) \in Nat /\ lost \in Nat /\ arrived \in Nat  BY DEF Local!TypeOK
  <2>2. UNCHANGED <<emitted, lost, arrived, wpc>>  BY DEF Local!Store
  <2>3. /\ Len(batch') = 0 /\ Len(records') = Len(records) + Len(batch)
        /\ Len(batch) \in Nat /\ Len(records) \in Nat
    BY <1>2
  <2>4. PICK k \in {0, 1} : k = (IF wpc = "emit" THEN 1 ELSE 0)  OBVIOUS
  <2>5. Len(emitted) + k + Len(records) + Len(batch) + lost = arrived  BY <2>4 DEF Local!Counted
  <2>6. Len(emitted) + k + Len(records') + Len(batch') + lost = arrived  BY <2>1, <2>3, <2>5
  <2> QED  BY <2>2, <2>4, <2>6 DEF Local!Counted
<1> QED  BY <1>4, <1>5, <1>6, <1>7

\* The worker is woken, or started by the first batch.
LEMMA WakeKeeps == ASSUME LocalInv, Local!Wake \/ Local!Spawn PROVE LocalInv'
<1> USE DEF Local!Wake, Local!Spawn
<1>1. UNCHANGED <<arrived, records, batch, room, lost, emitted, taken, reported, idle, closing, spc>>  OBVIOUS
<1>2. wpc' = wpc \/ (wpc = "absent" /\ wpc' = "pop" /\ started')  BY DEF LocalInv, Single
<1>3. dpc \in {"wake", "spawn"} /\ dpc' \in {"spawn", "ready"}  OBVIOUS
<1>4. Local!TypeOK'
  <2>1. wake' \in BOOLEAN /\ started' \in BOOLEAN  BY DEF LocalInv, Local!TypeOK
  <2> QED  BY <1>1, <1>2, <1>3, <2>1 DEF LocalInv, Local!TypeOK
<1>5. Single'
  <2>1. spc' = "ready"  BY <1>1, <1>3 DEF LocalInv, Single
  <2>2. started' = started \/ started'  OBVIOUS
  <2> QED  BY <1>2, <2>1, <2>2 DEF LocalInv, Single
<1>6. Held' = Held  BY <1>1, <1>2 DEF Held
<1> QED  BY <1>1, <1>2, <1>3, <1>4, <1>5, <1>6, QuietKeeps

\* The worker takes a record.
LEMMA PopKeeps == ASSUME LocalInv, Local!Pop, records # <<>> PROVE LocalInv'
<1> USE DEF LocalInv, Local!Pop
<1>1. records \in Seq(Nat) /\ Len(records) \in Nat /\ Len(records) > 0  BY DEF Local!TypeOK
<1>2. /\ taken' = Head(records) /\ records' = Tail(records) /\ wpc = "pop" /\ wpc' = "emit"
      /\ UNCHANGED <<arrived, batch, room, dpc, reported, emitted, wake, idle, closing, lost, started, spc>>
  OBVIOUS
<1>3. taken' \in Nat /\ records' \in Seq(Nat) /\ Len(records') = Len(records) - 1  BY <1>1, <1>2
<1>4. Held = <<>> /\ Held' = <<Head(records)>>  BY <1>2 DEF Held
<1>5. Line(emitted, Held, records, batch, arrived)'  BY <1>2, <1>4, LineTaken
<1>6. Local!TypeOK'
  <2>1. Len(records') <= Limit  BY <1>1, <1>3, LogDeliveryConstants DEF Local!TypeOK
  <2> QED  BY <1>2, <1>3, <2>1 DEF Local!TypeOK
<1>7. Room'
  <2>1. Len(batch) \in Nat /\ room \in Nat /\ Limit \in Nat  BY LogDeliveryConstants DEF Local!TypeOK
  <2> QED  BY <1>1, <1>2, <1>3, <2>1 DEF Room
<1>8. Single'  BY <1>2 DEF Single
<1>9. Local!Counted'
  <2>1. Len(emitted) \in Nat /\ lost \in Nat /\ arrived \in Nat /\ Len(batch) \in Nat  BY DEF Local!TypeOK
  <2> QED  BY <1>1, <1>2, <1>3, <2>1 DEF Local!Counted
<1> QED  BY <1>5, <1>6, <1>7, <1>8, <1>9

\* The worker hands it to the handlers.
LEMMA HandOverKeeps == ASSUME LocalInv, Local!Emit PROVE LocalInv'
<1> USE DEF LocalInv, Local!Emit
<1>1. emitted \in Seq(Nat) /\ taken \in Nat  BY DEF Local!TypeOK
<1>2. /\ emitted' = Append(emitted, taken) /\ taken' = 0 /\ wpc = "emit" /\ wpc' = "report"
      /\ UNCHANGED <<arrived, batch, room, dpc, reported, records, wake, idle, closing, lost, started, spc>>
  OBVIOUS
<1>3. Held = <<taken>> /\ Held' = <<>>  BY <1>2 DEF Held
<1>4. emitted' = emitted \o Held  BY <1>1, <1>2, <1>3
<1>5. Line(emitted, Held, records, batch, arrived)'  BY <1>2, <1>3, <1>4, LineEmitted
<1>6. emitted' \in Seq(Nat) /\ Len(emitted') = Len(emitted) + 1 /\ Len(emitted) \in Nat /\ taken' \in Nat
  BY <1>1, <1>2
<1>7. Local!TypeOK'  BY <1>2, <1>6 DEF Local!TypeOK
<1>8. Room' /\ Single'  BY <1>2 DEF Room, Single
<1>9. Local!Counted'
  <2>1. Len(records) \in Nat /\ lost \in Nat /\ arrived \in Nat /\ Len(batch) \in Nat  BY DEF Local!TypeOK
  <2> QED  BY <1>2, <1>6, <2>1 DEF Local!Counted
<1> QED  BY <1>5, <1>7, <1>8, <1>9

\* The other steps of the worker, and those of stop, move no record.
LEMMA WorkerKeeps == ASSUME LocalInv, Local!WorkerStep PROVE LocalInv'
<1>1. CASE Local!Pop /\ records # <<>>  BY <1>1, PopKeeps
<1>2. CASE Local!Emit  BY <1>2, HandOverKeeps
<1>3. CASE \/ Local!Pop /\ records = <<>>
           \/ Local!Empty \/ Local!SayIdle \/ Local!LookAgain \/ Local!WakeUp
           \/ Local!Awake \/ Local!Clear \/ Local!ReportLost
  <2> USE DEF Local!Pop, Local!Empty, Local!SayIdle, Local!LookAgain, Local!WakeUp, Local!Awake, Local!Clear,
              Local!ReportLost
  <2>1. UNCHANGED <<arrived, dpc, records, batch, room, lost, emitted, taken, closing, started, spc>>  BY <1>3
  <2>2. /\ wpc \in {"pop", "empty", "idle", "look", "sleep", "awake", "clear", "report"}
        /\ wpc' \in {"empty", "gone", "idle", "look", "sleep", "awake", "clear", "pop"}
    BY <1>3
  <2>3. Local!TypeOK'
    <3>1. wake' \in BOOLEAN /\ idle' \in BOOLEAN  BY <1>3 DEF LocalInv, Local!TypeOK
    <3>2. reported' = reported \/ reported' = lost  BY <1>3
    <3> QED  BY <2>1, <2>2, <3>1, <3>2 DEF LocalInv, Local!TypeOK
  <2>4. Single'  BY <2>1, <2>2 DEF LocalInv, Single
  <2>5. Held' = Held  BY <2>2 DEF Held
  <2> QED  BY <2>1, <2>2, <2>3, <2>4, <2>5, QuietKeeps
<1> QED  BY <1>1, <1>2, <1>3 DEF Local!WorkerStep

\* stop moves no record out of order.
LEMMA StopKeeps == ASSUME LocalInv, Local!StopBegin \/ Local!StopStep PROVE LocalInv'
<1> USE DEF Local!StopBegin, Local!StopStep, Local!StopClosing, Local!StopWake, Local!Join, Local!JoinTimeout
<1>1. UNCHANGED <<arrived, dpc, records, batch, room, lost, wpc, emitted, taken, reported, idle>>  OBVIOUS
<1>2. spc' \in {"closing", "wake", "join", "stopped", "timeout"} /\ (spc # "ready" \/ dpc = "ready")  OBVIOUS
<1>3. Local!TypeOK'
  <2>1. wake' \in BOOLEAN /\ closing' \in BOOLEAN /\ started' \in BOOLEAN  BY DEF LocalInv, Local!TypeOK
  <2> QED  BY <1>1, <1>2, <2>1 DEF LocalInv, Local!TypeOK
<1>4. Single'  BY <1>1, <1>2 DEF LocalInv, Single
<1>5. Held' = Held  BY <1>1 DEF Held
<1> QED  BY <1>1, <1>3, <1>4, <1>5, QuietKeeps

-----------------------------------------------------------------------------
(* Theorems                                                                 *)

LogsInv == RemoteInv /\ Attended /\ LocalInv /\ Arrived

\* The joint invariant holds at the start.
LEMMA LogsInvInit == LogsInit => LogsInv
<1> SUFFICES ASSUME LogsInit PROVE LogsInv  OBVIOUS
<1>1. RemoteInv /\ LocalInv /\ Arrived  BY RemoteInit, LocalInit DEF LogsInit, Arrived, Init, Local!Init
<1>2. Attended  BY DEF LogsInit, Init, Attended
<1> QED  BY <1>1, <1>2 DEF LogsInv

\* The joint invariant is inductive.
LEMMA LogsInvNext == LogsInv /\ [LogsNext]_allVars => LogsInv'
<1> SUFFICES ASSUME LogsInv, [LogsNext]_allVars PROVE LogsInv'  OBVIOUS
<1>1. CASE RemoteNext
  <2>1. RemoteInv'  BY <1>1, RemoteNextKeeps DEF RemoteNext, LogsInv
  <2>4. Attended'  BY <1>1, AttendedKeeps DEF RemoteNext, LogsInv
  <2>2. LocalInv'
    BY <1>1 DEF RemoteNext, LogsInv, localVars, LocalInv, Local!TypeOK, Room, Single, Local!Counted, Held
  <2>3. Arrived'
    <3>1. Len(wire) \in Nat /\ Len(wire') \in Nat /\ arrived \in Nat
      <4>1. wire \in Seq(Nat) /\ wire' \in Seq(Nat)  BY <2>1 DEF LogsInv, RemoteInv, TypeOK
      <4>2. arrived \in Nat  BY DEF LogsInv, LocalInv, Local!TypeOK
      <4> QED  BY <4>1, <4>2
    <3>2. Len(wire) <= Len(wire') /\ arrived' = arrived  BY <1>1, WireGrows DEF RemoteNext, LogsInv, localVars
    <3> QED  BY <3>1, <3>2 DEF LogsInv, Arrived
  <2> QED  BY <2>1, <2>2, <2>3, <2>4 DEF LogsInv
<1>2. CASE LocalNext
  <2>1. LocalInv'
    BY <1>2, DeliverKeeps, CountKeeps, StoreKeeps, WakeKeeps, WorkerKeeps, StopKeeps
    DEF LocalNext, Receive, Local!LoopStep, LogsInv
  <2>2. RemoteInv'
    BY <1>2 DEF LocalNext, LogsInv, vars, handlerVars, RemoteInv, TypeOK, Carried, Scheduled
  <2>3. Arrived'
    <3>1. wire' = wire  BY <1>2 DEF LocalNext, vars, handlerVars
    <3>2. arrived' = arrived \/ arrived' <= Len(wire)
      BY <1>2 DEF LocalNext, Receive, Local!LoopStep, Local!WorkerStep, Local!StopBegin, Local!StopStep,
                  Local!CountLost, Local!Store, Local!Wake, Local!Spawn, Local!Pop, Local!Empty, Local!SayIdle,
                  Local!LookAgain, Local!WakeUp, Local!Awake, Local!Clear, Local!Emit, Local!ReportLost,
                  Local!StopClosing, Local!StopWake, Local!Join, Local!JoinTimeout
    <3> QED  BY <3>1, <3>2 DEF LogsInv, Arrived
  <2>4. Attended'  BY <1>2 DEF LocalNext, LogsInv, vars, handlerVars, Attended, Due
  <2> QED  BY <2>1, <2>2, <2>3, <2>4 DEF LogsInv
<1>3. CASE UNCHANGED allVars
  <2>1. UNCHANGED vars /\ UNCHANGED localVars  BY <1>3 DEF allVars
  <2>2. RemoteInv'  BY <2>1 DEF LogsInv, vars, handlerVars, RemoteInv, TypeOK, Carried, Scheduled
  <2>3. LocalInv'  BY <2>1 DEF LogsInv, localVars, LocalInv, Local!TypeOK, Room, Single, Local!Counted, Held
  <2>4. Arrived'  BY <2>1 DEF LogsInv, vars, handlerVars, localVars, Arrived
  <2>5. Attended'  BY <2>1 DEF LogsInv, vars, handlerVars, Attended, Due
  <2> QED  BY <2>2, <2>3, <2>4, <2>5 DEF LogsInv
<1> QED  BY <1>1, <1>2, <1>3 DEF LogsNext

\* The places lie in order, so what was seen does.
LEMMA LogsSafety == LogsInv => LogsSafe
<1> SUFFICES ASSUME LogsInv PROVE LogsSafe  OBVIOUS
<1>1. TypeOK /\ Local!TypeOK /\ SomeoneDrains
  <2>1. TypeOK /\ Local!TypeOK /\ Scheduled /\ Attended  BY DEF LogsInv, RemoteInv, LocalInv
  <2>2. SomeoneDrains  BY <2>1 DEF Scheduled, Attended, SomeoneDrains
  <2> QED  BY <2>1, <2>2
<1>2. Kept(wire, flight, pending, logged, dropped)  BY DEF LogsInv, RemoteInv
<1>3. wire \in Seq(Nat) /\ flight \in Seq(Nat) /\ pending \in Seq(Nat)  BY <1>2 DEF Kept, Placed
<1>4. Accounted
  <2> SUFFICES ASSUME ~dropped PROVE wire \o flight \o pending = [n \in 1..logged |-> n]  BY DEF Accounted
  <2>1. Complete(wire, flight, pending, logged)  BY <1>2 DEF Kept
  <2>2. wire \o flight \in Seq(Nat) /\ Len(wire \o flight) = Len(wire) + Len(flight)  BY <1>3
  <2>3. From(wire \o flight, 0)  BY <1>3, <2>1, JoinFrom DEF Complete
  <2>4. /\ wire \o flight \o pending \in Seq(Nat)
        /\ Len(wire \o flight \o pending) = Len(wire) + Len(flight) + Len(pending)
    BY <1>3, <2>2
  <2>5. From(wire \o flight \o pending, 0)
    <3>1. From(pending, 0 + Len(wire \o flight))  BY <1>3, <2>1, <2>2 DEF Complete
    <3> QED  BY <1>3, <2>2, <2>3, <3>1, JoinFrom
  <2> QED  BY <2>1, <2>4, <2>5, FromOne DEF Complete
<1>5. SeenInOrder
  <2> SUFFICES ASSUME NEW i \in DOMAIN emitted, NEW j \in DOMAIN emitted, i < j
               PROVE  wire[emitted[i]] < wire[emitted[j]]
    BY DEF SeenInOrder, Seen
  <2>1. Line(emitted, Held, records, batch, arrived)  BY DEF LogsInv, LocalInv
  <2>2. emitted \in Seq(Nat) /\ DOMAIN emitted = 1..Len(emitted) /\ arrived \in Nat  BY <2>1 DEF Line
  <2>3. emitted[i] < emitted[j]  BY <2>1, <2>2 DEF Line, Ascending
  <2>4. /\ 1 <= emitted[i] /\ emitted[i] <= arrived /\ emitted[i] \in Nat
        /\ 1 <= emitted[j] /\ emitted[j] <= arrived /\ emitted[j] \in Nat
    BY <2>1, <2>2 DEF Line, UpTo
  <2>5. arrived <= Len(wire) /\ Len(wire) \in Nat  BY <1>3 DEF LogsInv, Arrived
  <2>6. emitted[i] \in 1..Len(wire) /\ emitted[j] \in 1..Len(wire)  BY <2>2, <2>4, <2>5
  <2> QED  BY <1>2, <2>3, <2>6 DEF Kept, Placed, Ascending
<1>6. EveryRecord
  <2> SUFFICES ASSUME ~dropped
               PROVE  logged = Len(emitted) + (IF wpc = "emit" THEN 1 ELSE 0) + Len(records) + Len(batch) + lost
                               + (Len(wire) - arrived) + Len(flight) + Len(pending)
    BY DEF EveryRecord
  <2>1. logged = Len(wire) + Len(flight) + Len(pending)  BY <1>2 DEF Kept, Complete
  <2>2. Local!Counted  BY DEF LogsInv, LocalInv
  <2>3. /\ Len(wire) \in Nat /\ Len(flight) \in Nat /\ Len(pending) \in Nat /\ Len(emitted) \in Nat
        /\ Len(records) \in Nat /\ Len(batch) \in Nat /\ lost \in Nat /\ arrived \in Nat
    BY <1>1, <1>3 DEF Local!TypeOK
  <2> QED  BY <2>1, <2>2, <2>3 DEF Local!Counted
<1> QED  BY <1>1, <1>4, <1>5, <1>6 DEF LogsSafe

\* For every limit of the deque and every number of records, calls and packets:
\* the deque stays within its limit, until the first drop no record is lost,
\* doubled or reordered on its way, the local handlers see what they see in the
\* order it was logged also after a drop, and no wake-up of the remote handler
\* is lost (RemoteLogHandler, LogDelivery.deliver and run).
THEOREM LogsAreSafe == LogsSpec => []LogsSafe
  BY LogsInvInit, LogsInvNext, LogsSafety, PTL DEF LogsSpec
=============================================================================
