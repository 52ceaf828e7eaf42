--------------------------- MODULE SessionsProofs ---------------------------
(***************************************************************************)
(* Theorems about Sessions, for every number of clients, with terminals or *)
(* pipes, every amount of output, and a connection that is lost or a       *)
(* server that stops at any point.                                         *)
(*                                                                         *)
(* What one session can do to another goes through the wire, which is      *)
(* served in order: a read that was left registered by a close is removed  *)
(* by the release behind it, before a request of another session can get   *)
(* the same descriptor.                                                    *)
(***************************************************************************)
EXTENDS Sessions, FiniteSetTheorems, TLAPS

Methods == {"open", "output", "release", "close"}

\* A client that has not asked for a session; one that has not asked for
\* output; one that has asked for the close of its session, or needs none.
Before == {"none", "hello", "sftp", "lease"}
Early == Before \union {"opening", "collect"}
Ended == {"free", "done"}
Over == Ended \union {"closing"}

\* A read that goes on, or whose task is about to begin.
Active == {"asked", "reading"}

\* The types of the variables of the sessions, and of those of the clients.
VtyTypes ==
    /\ VtyTypeOK
    /\ slave \in [Keys -> BOOLEAN] /\ waits \in [Keys -> Fds \union {0}] /\ stuck \in [Keys -> BOOLEAN]
    /\ made \in [Keys -> Nat] /\ sent \in [Keys -> Nat]

ClientTypes ==
    /\ server \in {"serving", "stopping", "stopped"} /\ answer \in [Keys -> {"none", "ok", "error"}]
    /\ client \in [Keys -> Early \union Over \union {"bridge", "status", "quit", "told", "settle"}]
    /\ got \in [Keys -> Nat] /\ lease \in [Keys -> BOOLEAN] /\ fds \in [Keys -> BOOLEAN]
    /\ hurried \in [Keys -> BOOLEAN] /\ saved \in [Keys -> BOOLEAN] /\ ignored \in [Keys -> BOOLEAN]
    /\ nonblock \in [{Terminal[c] : c \in Keys} -> BOOLEAN]

Types == VtyTypes /\ ClientTypes /\ link \in BOOLEAN /\ wire \in Seq(Methods \X Keys)

\* Two open terminals have two descriptors.
Distinct == \A j, k \in Keys : j # k /\ master[j] # 0 => master[j] # master[k]

\* What each phase of a session has of a terminal, of a child and of a slave.
Phase(k) ==
    /\ vty[k] \in {"starting", "open"} /\ k \in Ttys => master[k] # 0
    /\ vty[k] \in {"none", "releasing", "gone"} \/ k \notin Ttys => master[k] = 0
    /\ vty[k] \in {"none", "starting"} => child[k] = "none" /\ producer[k] # "reading"
    /\ vty[k] = "gone" => ~slave[k] /\ child[k] # "running"
    /\ k \notin Ttys => waits[k] = 0

\* A read waits on the descriptor of its own session.  The one that a close
\* has left behind is the next to be cancelled, and nobody has its number; or
\* its notice was ignored, and nothing will ever remove its registration.
Reading(k) ==
    producer[k] = "reading" =>
        IF vty[k] = "open"
        THEN waits[k] = master[k] /\ (k \in Ttys => reader[master[k]] = k)
        ELSE \/ ignored[k]
             \/ /\ wire # <<>> /\ wire[1] = <<"release", k>>
                /\ waits[k] # 0 => \A j \in Keys : master[j] # waits[k]

\* A close on the wire has the release of its stream beside it, unless there
\* is no stream to release or its release was ignored.
Paired(i, k) ==
    \/ i < Len(wire) /\ wire[i + 1] = <<"release", k>>
    \/ i > 1 /\ wire[i - 1] = <<"release", k>>
    \/ ignored[k]
    \/ producer[k] \notin Active /\ \A j \in 1..i : wire[j] # <<"output", k>>

\* What a request on the wire says about its client and its session.
OpenSent(i, k) ==
    wire[i] = <<"open", k>> =>
        /\ vty[k] = "none" /\ client[k] \notin Before
        /\ client[k] \in Ended => hurried[k]
        /\ \A j \in 1..Len(wire) : i < j => wire[j] # <<"open", k>>

OutputSent(i, k) == wire[i] = <<"output", k>> => client[k] \notin Early

LeaveSent(i, k) ==
    wire[i] \in {<<"release", k>>, <<"close", k>>} =>
        client[k] \in Over /\ \A j \in 1..Len(wire) : i < j => wire[j] # <<"output", k>>

\* A stream is released once.
ReleaseSent(i, k) ==
    wire[i] = <<"release", k>> => ~ignored[k] /\ \A j \in 1..Len(wire) : i < j => wire[j] # <<"release", k>>

CloseSent(i, k) == wire[i] = <<"close", k>> => Paired(i, k)

Wire ==
    \A i \in 1..Len(wire), k \in Keys :
        OpenSent(i, k) /\ OutputSent(i, k) /\ LeaveSent(i, k) /\ ReleaseSent(i, k) /\ CloseSent(i, k)

\* Where a client stands to its session.
Owns(k) ==
    /\ ~link => vty[k] = "gone"
    /\ answer[k] = "error" => vty[k] = "gone"
    /\ link /\ client[k] \in Before => vty[k] = "none"
    /\ client[k] \in Ended /\ ~hurried[k] => vty[k] \in {"none", "gone"}
    /\ link /\ answer[k] = "ok" /\ client[k] \notin Over => vty[k] = "open"
    /\ link /\ client[k] \in {"bridge", "status", "quit", "told", "settle"} => vty[k] = "open"
    /\ link /\ client[k] \in Early => producer[k] = "none"
    /\ ignored[k] => client[k] \in Over

\* Every client has the terminal of its own user.
OwnTerminals == \A c, d \in Keys : Terminal[c] = Terminal[d] => c = d

\* What a client holds beside its session.
Holds(k) ==
    /\ client[k] \in {"none", "hello"} => ~fds[k]
    /\ client[k] = "done" => ~lease[k] /\ ~fds[k]
    /\ OwnTerminals => IF fds[k] THEN ~saved[k] ELSE ~nonblock[Terminal[k]]

\* The end of the output comes after all of it.
Drained(k) ==
    /\ link /\ client[k] = "bridge" /\ producer[k] = "done" => child[k] = "exited" /\ sent[k] = made[k]
    /\ client[k] \in {"status", "told"} => (link => child[k] = "exited") /\ got[k] = made[k]

Cut == ~link => wire = <<>>

IInv ==
    /\ Types /\ Distinct /\ Cut /\ Wire
    /\ \A k \in Keys : Phase(k) /\ Reading(k) /\ Owns(k) /\ Holds(k) /\ Drained(k)

-----------------------------------------------------------------------------
(* The wire                                                                 *)

\* Zero is not the number of a descriptor: it stands for none.
LEMMA NoFd == 0 \notin Fds
<1>1. Cardinality(Ttys) \in Nat
  BY VtyConstants, FS_Subset, FS_CardinalityType
<1> QED  BY <1>1 DEF Fds

\* How a step may change what the requests on the wire say: nobody goes back,
\* and a client that ends with an open on the wire was in a hurry.
Keeps(k) ==
    /\ client[k] \notin Before => client'[k] \notin Before
    /\ client[k] \notin Early => client'[k] \notin Early
    /\ client[k] \in Over => client'[k] \in Over
    /\ hurried[k] => hurried'[k]
    /\ producer[k] \notin Active => producer'[k] \notin Active
    /\ ignored'[k] = ignored[k]
    /\ vty[k] = "none" => vty'[k] = "none"
    /\ client'[k] \in Ended => client[k] \in Ended \union Before \/ hurried'[k] \/ vty[k] # "none"

\* What the wire says still holds when no request comes or goes.
LEMMA WireKept ==
  ASSUME Wire, wire' = wire, \A k \in Keys : Keeps(k)
  PROVE  Wire'
<1> SUFFICES ASSUME NEW i \in 1..Len(wire), NEW k \in Keys
             PROVE  OpenSent(i, k)' /\ OutputSent(i, k)' /\ LeaveSent(i, k)' /\ ReleaseSent(i, k)' /\ CloseSent(i, k)'
  BY DEF Wire
<1>1. OpenSent(i, k) /\ OutputSent(i, k) /\ LeaveSent(i, k) /\ ReleaseSent(i, k) /\ CloseSent(i, k)  BY DEF Wire
<1>2. Keeps(k)  OBVIOUS
<1>3. OpenSent(i, k)'  BY <1>1, <1>2 DEF OpenSent, Keeps, Ended, Before
<1>4. OutputSent(i, k)'  BY <1>1, <1>2 DEF OutputSent, Keeps
<1>5. LeaveSent(i, k)'  BY <1>1, <1>2 DEF LeaveSent, Keeps
<1>6. CloseSent(i, k)'  BY <1>1, <1>2 DEF CloseSent, Paired, Keeps
<1>7. ReleaseSent(i, k)'  BY <1>1, <1>2 DEF ReleaseSent, Keeps
<1> QED  BY <1>3, <1>4, <1>5, <1>6, <1>7

\* Positions of a wire that grows at its end.
LEMMA Grown ==
  ASSUME NEW S, NEW w \in Seq(S), NEW s \in Seq(S), NEW v, v = w \o s
  PROVE  /\ v \in Seq(S) /\ Len(v) = Len(w) + Len(s) /\ Len(w) \in Nat /\ Len(s) \in Nat
         /\ \A i \in 1..Len(w) : v[i] = w[i]
         /\ \A i \in Len(w) + 1 .. Len(v) : v[i] = s[i - Len(w)]
         /\ w # <<>> => v # <<>>
  OBVIOUS

\* What the wire says about the requests on it still holds when others come
\* behind them.
LEMMA WireGrows ==
  ASSUME Wire, wire \in Seq(Methods \X Keys), NEW s \in Seq(Methods \X Keys), wire' = wire \o s,
         \A k \in Keys : Keeps(k),
         \A k \in Keys, j \in 1..Len(s) : /\ s[j] = <<"open", k>> => client[k] \in Before
                                          /\ s[j] = <<"output", k>> => client[k] \notin Over
                                          /\ s[j] = <<"release", k>> => client[k] \notin Over,
         NEW i \in 1..Len(wire), NEW k \in Keys
  PROVE  OpenSent(i, k)' /\ OutputSent(i, k)' /\ LeaveSent(i, k)' /\ ReleaseSent(i, k)' /\ CloseSent(i, k)'
<1> DEFINE n == Len(wire)
<1>1. /\ Len(wire') = n + Len(s) /\ n \in Nat /\ Len(s) \in Nat
      /\ \A j \in 1..n : wire'[j] = wire[j]
      /\ \A j \in n + 1 .. Len(wire') : wire'[j] = s[j - n]
  BY Grown
<1>2. OpenSent(i, k) /\ OutputSent(i, k) /\ LeaveSent(i, k) /\ ReleaseSent(i, k) /\ CloseSent(i, k)  BY DEF Wire
<1>3. Keeps(k)  OBVIOUS
<1>4. wire'[i] = wire[i]  BY <1>1
<1>5. ASSUME NEW j \in 1..Len(wire'), j > n
      PROVE  /\ wire'[j] = <<"open", k>> => client[k] \in Before
             /\ wire'[j] = <<"output", k>> => client[k] \notin Over
             /\ wire'[j] = <<"release", k>> => client[k] \notin Over
  <2>1. wire'[j] = s[j - n] /\ j - n \in 1..Len(s)  BY <1>1, <1>5
  <2> QED  BY <2>1
<1>6. OpenSent(i, k)'
  <2> SUFFICES ASSUME wire'[i] = <<"open", k>>
               PROVE  /\ vty'[k] = "none" /\ client'[k] \notin Before /\ (client'[k] \in Ended => hurried'[k])
                      /\ \A j \in 1..Len(wire') : i < j => wire'[j] # <<"open", k>>
    BY DEF OpenSent
  <2>1. /\ vty[k] = "none" /\ client[k] \notin Before /\ (client[k] \in Ended => hurried[k])
        /\ \A j \in 1..n : i < j => wire[j] # <<"open", k>>
    BY <1>2, <1>4 DEF OpenSent
  <2>2. vty'[k] = "none" /\ client'[k] \notin Before /\ (client'[k] \in Ended => hurried'[k])
    BY <2>1, <1>3 DEF Keeps
  <2>3. ASSUME NEW j \in 1..Len(wire'), i < j PROVE wire'[j] # <<"open", k>>
    <3>1. CASE j <= n  BY <3>1, <1>1, <2>1, <2>3
    <3>2. CASE j > n  BY <3>2, <1>5, <2>1
    <3> QED  BY <3>1, <3>2, <1>1
  <2> QED  BY <2>2, <2>3
<1>7. OutputSent(i, k)'  BY <1>2, <1>3, <1>4 DEF OutputSent, Keeps
<1>8. LeaveSent(i, k)'
  <2> SUFFICES ASSUME wire'[i] \in {<<"release", k>>, <<"close", k>>}
               PROVE  client'[k] \in Over /\ \A j \in 1..Len(wire') : i < j => wire'[j] # <<"output", k>>
    BY DEF LeaveSent
  <2>1. client[k] \in Over /\ \A j \in 1..n : i < j => wire[j] # <<"output", k>>
    BY <1>2, <1>4 DEF LeaveSent
  <2>2. client'[k] \in Over  BY <2>1, <1>3 DEF Keeps
  <2>3. ASSUME NEW j \in 1..Len(wire'), i < j PROVE wire'[j] # <<"output", k>>
    <3>1. CASE j <= n  BY <3>1, <1>1, <2>1, <2>3
    <3>2. CASE j > n  BY <3>2, <1>5, <2>1
    <3> QED  BY <3>1, <3>2, <1>1
  <2> QED  BY <2>2, <2>3
<1>9. CloseSent(i, k)'
  <2> SUFFICES ASSUME wire'[i] = <<"close", k>> PROVE Paired(i, k)'  BY DEF CloseSent
  <2>1. Paired(i, k)  BY <1>2, <1>4 DEF CloseSent
  <2>2. CASE i < n /\ wire[i + 1] = <<"release", k>>
    <3>1. i < Len(wire') /\ wire'[i + 1] = wire[i + 1]  BY <2>2, <1>1
    <3> QED  BY <2>2, <3>1 DEF Paired
  <2>3. CASE i > 1 /\ wire[i - 1] = <<"release", k>>  BY <2>3, <1>1 DEF Paired
  <2>4. CASE producer[k] \notin Active /\ \A j \in 1..i : wire[j] # <<"output", k>>
    <3>1. producer'[k] \notin Active  BY <2>4, <1>3 DEF Keeps
    <3>2. \A j \in 1..i : wire'[j] = wire[j]  BY <1>1
    <3> QED  BY <2>4, <3>1, <3>2 DEF Paired
  <2>5. CASE ignored[k]  BY <2>5, <1>3 DEF Paired, Keeps
  <2> QED  BY <2>1, <2>2, <2>3, <2>4, <2>5 DEF Paired
<1>10. ReleaseSent(i, k)'
  <2> SUFFICES ASSUME wire'[i] = <<"release", k>>
               PROVE  ~ignored'[k] /\ \A j \in 1..Len(wire') : i < j => wire'[j] # <<"release", k>>
    BY DEF ReleaseSent
  <2>1. ~ignored[k] /\ client[k] \in Over /\ \A j \in 1..n : i < j => wire[j] # <<"release", k>>
    BY <1>2, <1>4 DEF LeaveSent, ReleaseSent
  <2>2. ~ignored'[k]  BY <2>1, <1>3 DEF Keeps
  <2>3. ASSUME NEW j \in 1..Len(wire'), i < j PROVE wire'[j] # <<"release", k>>
    <3>1. CASE j <= n  BY <3>1, <1>1, <2>1, <2>3
    <3>2. CASE j > n  BY <3>2, <1>5, <2>1
    <3> QED  BY <3>1, <3>2, <1>1
  <2> QED  BY <2>2, <2>3
<1> QED  BY <1>6, <1>7, <1>8, <1>9, <1>10

\* Positions of a wire whose first request is served.
LEMMA Shifted ==
  ASSUME NEW S, NEW w \in Seq(S), w # <<>>, NEW v, v = Tail(w)
  PROVE  /\ v \in Seq(S) /\ Len(w) \in Nat \ {0} /\ Len(v) = Len(w) - 1 /\ w[1] = Head(w) /\ w[1] \in S
         /\ \A i \in 1..Len(v) : i + 1 \in 1..Len(w) /\ v[i] = w[i + 1]
  OBVIOUS

\* What the wire says still holds when the peer serves its first request.
LEMMA WireServed ==
  ASSUME Wire, wire \in Seq(Methods \X Keys), wire # <<>>, wire' = Tail(wire), UNCHANGED <<client, hurried>>,
         \A k \in Keys : /\ vty[k] = "none" /\ wire[1] # <<"open", k>> => vty'[k] = "none"
                         /\ producer[k] \notin Active /\ wire[1] # <<"output", k>> => producer'[k] \notin Active
                         /\ wire[1] = <<"release", k>> => producer'[k] \notin Active \/ ignored'[k]
                         /\ wire[1] # <<"release", k>> => ignored'[k] = ignored[k]
  PROVE  Wire'
<1>1. /\ Len(wire) \in Nat \ {0} /\ Len(wire') = Len(wire) - 1
      /\ \A j \in 1..Len(wire') : j + 1 \in 1..Len(wire) /\ wire'[j] = wire[j + 1]
  BY Shifted
<1> SUFFICES ASSUME NEW i \in 1..Len(wire'), NEW k \in Keys
             PROVE  OpenSent(i, k)' /\ OutputSent(i, k)' /\ LeaveSent(i, k)' /\ ReleaseSent(i, k)' /\ CloseSent(i, k)'
  BY DEF Wire
<1>2. /\ OpenSent(i + 1, k) /\ OutputSent(i + 1, k) /\ LeaveSent(i + 1, k) /\ CloseSent(i + 1, k)
      /\ ReleaseSent(i + 1, k) /\ OpenSent(1, k) /\ LeaveSent(1, k) /\ ReleaseSent(1, k)
  <2>1. i + 1 \in 1..Len(wire) /\ 1 \in 1..Len(wire)  BY <1>1
  <2> QED  BY <2>1 DEF Wire
<1>3. wire'[i] = wire[i + 1] /\ i + 1 \in 1..Len(wire) /\ i \in Nat  BY <1>1
<1>4. OpenSent(i, k)'
  <2> SUFFICES ASSUME wire[i + 1] = <<"open", k>>
               PROVE  /\ vty'[k] = "none" /\ client[k] \notin Before /\ (client[k] \in Ended => hurried[k])
                      /\ \A j \in 1..Len(wire') : i < j => wire'[j] # <<"open", k>>
    BY <1>3 DEF OpenSent
  <2>1. /\ vty[k] = "none" /\ client[k] \notin Before /\ (client[k] \in Ended => hurried[k])
        /\ \A j \in 1..Len(wire) : i + 1 < j => wire[j] # <<"open", k>>
    <3>1. OpenSent(i + 1, k)  BY <1>2
    <3> QED  BY <3>1 DEF OpenSent
  <2>2. wire[1] # <<"open", k>>
    <3>1. OpenSent(1, k) /\ 1 < i + 1  BY <1>2, <1>3
    <3> QED  BY <3>1, <1>3 DEF OpenSent
  <2>3. vty'[k] = "none"  BY <2>1, <2>2
  <2>4. ASSUME NEW j \in 1..Len(wire'), i < j PROVE wire'[j] # <<"open", k>>
    <3>1. wire'[j] = wire[j + 1] /\ j + 1 \in 1..Len(wire) /\ i + 1 < j + 1  BY <1>1, <2>4
    <3> QED  BY <3>1, <2>1
  <2> QED  BY <2>1, <2>3, <2>4
<1>5. OutputSent(i, k)'  BY <1>2, <1>3 DEF OutputSent
<1>6. LeaveSent(i, k)'
  <2> SUFFICES ASSUME wire[i + 1] \in {<<"release", k>>, <<"close", k>>}
               PROVE  client[k] \in Over /\ \A j \in 1..Len(wire') : i < j => wire'[j] # <<"output", k>>
    BY <1>3 DEF LeaveSent
  <2>1. client[k] \in Over /\ \A j \in 1..Len(wire) : i + 1 < j => wire[j] # <<"output", k>>
    BY <1>2 DEF LeaveSent
  <2>2. ASSUME NEW j \in 1..Len(wire'), i < j PROVE wire'[j] # <<"output", k>>
    <3>1. wire'[j] = wire[j + 1] /\ j + 1 \in 1..Len(wire) /\ i + 1 < j + 1  BY <1>1, <2>2
    <3> QED  BY <3>1, <2>1
  <2> QED  BY <2>1, <2>2
<1>7. CloseSent(i, k)'
  <2> SUFFICES ASSUME wire[i + 1] = <<"close", k>> PROVE Paired(i, k)'  BY <1>3 DEF CloseSent
  <2>1. Paired(i + 1, k)  BY <1>2 DEF CloseSent
  <2>2. CASE i + 1 < Len(wire) /\ wire[i + 2] = <<"release", k>>
    <3>1. i < Len(wire') /\ wire'[i + 1] = wire[i + 2]  BY <2>2, <1>1, <1>3
    <3> QED  BY <2>2, <3>1 DEF Paired
  <2>3. CASE wire[i] = <<"release", k>>
    <3>1. CASE i = 1
      <4>1. producer'[k] \notin Active \/ ignored'[k]  BY <2>3, <3>1
      <4>2. \A j \in 1..Len(wire) : 1 < j => wire[j] # <<"output", k>>  BY <1>2, <2>3, <3>1 DEF LeaveSent
      <4>3. \A j \in 1..i : wire'[j] # <<"output", k>>  BY <4>2, <1>1, <3>1
      <4> QED  BY <4>1, <4>3 DEF Paired
    <3>2. CASE i > 1
      <4>1. wire'[i - 1] = wire[i]  BY <1>1, <3>2
      <4> QED  BY <4>1, <2>3, <3>2 DEF Paired
    <3> QED  BY <3>1, <3>2
  <2>4. CASE producer[k] \notin Active /\ \A j \in 1..i + 1 : wire[j] # <<"output", k>>
    <3>1. producer'[k] \notin Active  BY <2>4, <1>3
    <3>2. ASSUME NEW j \in 1..i PROVE wire'[j] # <<"output", k>>
      <4>1. wire'[j] = wire[j + 1] /\ j + 1 \in 1..i + 1  BY <1>1, <1>3
      <4> QED  BY <4>1, <2>4
    <3> QED  BY <3>1, <3>2 DEF Paired
  <2>5. i + 1 + 1 = i + 2 /\ i + 1 - 1 = i  BY <1>3
  <2>6. \/ i + 1 < Len(wire) /\ wire[i + 1 + 1] = <<"release", k>>
        \/ wire[i + 1 - 1] = <<"release", k>>
        \/ ignored[k]
        \/ producer[k] \notin Active /\ \A j \in 1..i + 1 : wire[j] # <<"output", k>>
    BY <2>1 DEF Paired
  <2>7. CASE ignored[k]
    <3>1. ignored'[k]  BY <1>2, <1>1, <2>7 DEF ReleaseSent
    <3> QED  BY <3>1 DEF Paired
  <2> QED  BY <2>6, <2>2, <2>3, <2>4, <2>5, <2>7
<1>8. ReleaseSent(i, k)'
  <2> SUFFICES ASSUME wire[i + 1] = <<"release", k>>
               PROVE  ~ignored'[k] /\ \A j \in 1..Len(wire') : i < j => wire'[j] # <<"release", k>>
    BY <1>3 DEF ReleaseSent
  <2>1. ~ignored[k] /\ \A j \in 1..Len(wire) : i + 1 < j => wire[j] # <<"release", k>>
    BY <1>2 DEF ReleaseSent
  <2>2. wire[1] # <<"release", k>>  BY <1>2, <1>3 DEF ReleaseSent
  <2>3. ASSUME NEW j \in 1..Len(wire'), i < j PROVE wire'[j] # <<"release", k>>
    <3>1. wire'[j] = wire[j + 1] /\ j + 1 \in 1..Len(wire) /\ i + 1 < j + 1  BY <1>1, <2>3
    <3> QED  BY <3>1, <2>1
  <2> QED  BY <2>1, <2>2, <2>3
<1> QED  BY <1>4, <1>5, <1>6, <1>7, <1>8

-----------------------------------------------------------------------------
(* The steps of the clients                                                 *)

\* A step that leaves the sessions alone, and the first request on the wire.
LEMMA SessionsLeft ==
  ASSUME IInv, UNCHANGED <<vtyVars, ignored>>, wire # <<>> => wire' # <<>> /\ wire'[1] = wire[1]
  PROVE  VtyTypes' /\ Distinct' /\ \A k \in Keys : Phase(k)' /\ Reading(k)'
<1>1. VtyTypes'  BY DEF IInv, Types, VtyTypes, VtyTypeOK, vtyVars
<1>2. Distinct'  BY DEF IInv, Distinct, vtyVars
<1>3. ASSUME NEW k \in Keys PROVE Phase(k)' /\ Reading(k)'
  <2>1. Phase(k) /\ Reading(k)  BY DEF IInv
  <2>2. Phase(k)'  BY <2>1 DEF Phase, vtyVars
  <2>3. Reading(k)'  BY <2>1 DEF Reading, vtyVars
  <2> QED  BY <2>2, <2>3
<1> QED  BY <1>1, <1>2, <1>3

\* The moves of a client that send nothing and take or give back nothing.
Moved(k) ==
    /\ hurried[k] => hurried'[k]
    /\ client'[k] \in {"status", "told"} => got'[k] = got[k]
    /\ \/ client'[k] = client[k]
       \/ client[k] = "none" /\ client'[k] = "hello"
       \/ client[k] \in Before \ {"none"} /\ client'[k] = "free"
       \/ client[k] = "opening" /\ client'[k] = "collect"
       \/ client[k] = "bridge" /\ client'[k] = "quit"
       \/ client[k] \in {"bridge", "status", "quit", "told"} /\ client'[k] = "settle"
       \/ client[k] = "bridge" /\ client'[k] = "status" /\ child[k] = "exited" /\ got[k] = made[k]
       \/ client[k] = "status" /\ client'[k] = "told"
       \/ client[k] \notin Ended /\ client'[k] = "free" /\ (vty[k] = "gone" \/ hurried'[k])

\* They keep the invariant.
LEMMA MovesStep ==
  ASSUME IInv, UNCHANGED <<vtyVars, answer, lease, fds, nonblock, saved, ignored, link, wire>>,
         ClientTypes', \A k \in Keys : Moved(k)
  PROVE  IInv'
<1> USE DEF Before, Early, Ended, Over
<1>1. VtyTypes' /\ Distinct' /\ \A k \in Keys : Phase(k)' /\ Reading(k)'  BY SessionsLeft
<1>2. Types'  BY <1>1 DEF IInv, Types
<1>3. Cut'  BY DEF IInv, Cut
<1>4. ASSUME NEW k \in Keys PROVE Keeps(k)
  <2>1. Moved(k)  OBVIOUS
  <2> QED  BY <2>1 DEF Moved, Keeps, vtyVars
<1>5. Wire'  BY <1>4, WireKept DEF IInv
<1>6. ASSUME NEW k \in Keys PROVE Owns(k)' /\ Holds(k)' /\ Drained(k)'
  <2>1. Moved(k) /\ Owns(k) /\ Holds(k) /\ Drained(k)  BY DEF IInv
  <2>2. Owns(k)'  BY <2>1 DEF Moved, Owns, vtyVars
  <2>3. Holds(k)'  BY <2>1 DEF Moved, Holds
  <2>4. Drained(k)'  BY <2>1 DEF Moved, Drained, vtyVars
  <2> QED  BY <2>2, <2>3, <2>4
<1> QED  BY <1>1, <1>2, <1>3, <1>5, <1>6 DEF IInv

\* Accept, the ends without a session, the steps of bridge and the status.
LEMMA PlainMoves ==
  ASSUME IInv, NEW c \in Keys,
         Accept(c) \/ NoSession(c) \/ Sftp(c) \/ WriteOut(c) \/ BridgeEnds(c) \/ SendStatus(c) \/ Closed(c)
  PROVE  IInv'
<1> USE DEF Before, Early, Ended, Over
<1>1. UNCHANGED <<vtyVars, answer, lease, fds, nonblock, saved, ignored, server, link, wire>>
  BY DEF Accept, NoSession, Sftp, WriteOut, BridgeEnds, SendStatus, Closed
<1>2. ClientTypes
  BY DEF IInv, Types
<1>3. Owns(c) /\ Drained(c) /\ sent[c] \in Nat /\ made[c] \in Nat
  BY DEF IInv, Types, VtyTypes
<1>4. CASE Accept(c) \/ NoSession(c) \/ Sftp(c)
  <2>1. /\ hurried' = hurried /\ got' = got
        /\ \/ client[c] = "none" /\ client' = [client EXCEPT ![c] = "hello"]
           \/ client[c] \in {"hello", "sftp"} /\ client' = [client EXCEPT ![c] = "free"]
    BY <1>4 DEF Accept, NoSession, Sftp, Go
  <2>2. ClientTypes'  BY <1>1, <1>2, <2>1 DEF ClientTypes
  <2>3. \A k \in Keys : Moved(k)  BY <1>2, <2>1 DEF Moved, ClientTypes
  <2> QED  BY <1>1, <2>2, <2>3, MovesStep
<1>5. CASE WriteOut(c)
  <2>1. hurried' = hurried /\ client[c] = "bridge" /\ client' = client /\ got' = [got EXCEPT ![c] = @ + 1]
    BY <1>5 DEF WriteOut
  <2>2. ClientTypes'  BY <1>1, <1>2, <2>1 DEF ClientTypes
  <2>3. \A k \in Keys : Moved(k)  BY <1>2, <2>1 DEF Moved, ClientTypes
  <2> QED  BY <1>1, <2>2, <2>3, MovesStep
<1>6. CASE BridgeEnds(c)
  <2>1. /\ hurried' = hurried /\ got' = got /\ client[c] = "bridge"
        /\ \/ link /\ Result(c) /\ client' = [client EXCEPT ![c] = "status"]
           \/ client' = [client EXCEPT ![c] = "quit"]
           \/ client' = [client EXCEPT ![c] = "settle"]
    BY <1>6 DEF BridgeEnds, Go
  <2>2. link /\ Result(c) => child[c] = "exited" /\ got[c] = made[c]
    BY <1>3, <2>1 DEF Result, Drained
  <2>3. ClientTypes'  BY <1>1, <1>2, <2>1 DEF ClientTypes
  <2>4. \A k \in Keys : Moved(k)  BY <1>2, <2>1, <2>2 DEF Moved, ClientTypes
  <2> QED  BY <1>1, <2>3, <2>4, MovesStep
<1>7. CASE SendStatus(c)
  <2>1. /\ hurried' = hurried /\ got' = got /\ client[c] = "status"
        /\ \/ client' = [client EXCEPT ![c] = "told"]
           \/ client' = [client EXCEPT ![c] = "settle"]
    BY <1>7 DEF SendStatus, Go
  <2>3. ClientTypes'  BY <1>1, <1>2, <2>1 DEF ClientTypes
  <2>4. \A k \in Keys : Moved(k)  BY <1>2, <2>1 DEF Moved, ClientTypes
  <2> QED  BY <1>1, <2>3, <2>4, MovesStep
<1>8. CASE Closed(c)
  <2>1. /\ got' = got /\ client[c] = "closing" /\ client' = [client EXCEPT ![c] = "free"]
        /\ \/ vty[c] = "gone" /\ hurried' = hurried
           \/ hurried' = [hurried EXCEPT ![c] = TRUE]
    BY <1>8, <1>3 DEF Closed, Go, Owns
  <2>3. ClientTypes'  BY <1>1, <1>2, <2>1 DEF ClientTypes
  <2>4. \A k \in Keys : Moved(k)  BY <1>2, <2>1 DEF Moved, ClientTypes
  <2> QED  BY <1>1, <2>3, <2>4, MovesStep
<1> QED  BY <1>4, <1>5, <1>6, <1>7, <1>8

\* The stop of the server cancels every client where it is.
LEMMA StopStep ==
  ASSUME IInv, Stop \/ Stopped
  PROVE  IInv'
<1> USE DEF Before, Early, Ended, Over
<1>1. UNCHANGED <<vtyVars, answer, got, lease, fds, nonblock, saved, ignored, link, wire>> /\ ClientTypes
  BY DEF Stop, Stopped, clientVars, IInv, Types
<1>2. CASE Stop
  <2>1. ASSUME NEW k \in Keys
        PROVE  /\ client'[k] = CASE client[k] = "opening" -> "collect"
                                 [] client[k] \in {"bridge", "status", "quit", "told"} -> "settle"
                                 [] client[k] \in {"hello", "lease", "sftp", "closing"} -> "free"
                                 [] OTHER -> client[k]
               /\ hurried'[k] = (hurried[k] \/ client[k] = "closing")
    BY <1>2 DEF Stop, Clients
  <2>2. ASSUME NEW k \in Keys
        PROVE  Moved(k) /\ client'[k] \in Early \union Over \union {"bridge", "status", "quit", "told", "settle"}
    <3>1. client[k] \in Early \union Over \union {"bridge", "status", "quit", "told", "settle"} /\ hurried[k] \in BOOLEAN
      BY <1>1 DEF ClientTypes
    <3> QED  BY <1>1, <2>1, <3>1 DEF Moved
  <2>3. /\ server' \in {"serving", "stopping", "stopped"} /\ client' = [k \in Keys |-> client'[k]]
        /\ hurried' \in [Keys -> BOOLEAN]
    BY <1>2, <1>1 DEF Stop, Clients, ClientTypes
  <2>4. ClientTypes'  BY <1>1, <2>2, <2>3 DEF ClientTypes
  <2> QED  BY <1>1, <2>2, <2>4, MovesStep
<1>3. CASE Stopped
  <2>1. server' \in {"serving", "stopping", "stopped"} /\ client' = client /\ hurried' = hurried
    BY <1>3 DEF Stopped, clientVars
  <2>2. ClientTypes'  BY <1>1, <2>1 DEF ClientTypes
  <2>3. \A k \in Keys : Moved(k)  BY <1>1, <2>1 DEF Moved
  <2> QED  BY <1>1, <2>2, <2>3, MovesStep
<1> QED  BY <1>2, <1>3

\* NEW_SESSION takes the descriptors of a client, whose flags nobody else has
\* changed.
LEMMA NewSessionStep ==
  ASSUME IInv, NEW c \in Keys, NewSession(c)
  PROVE  IInv'
<1> USE DEF Before, Early, Ended, Over
<1>1. /\ UNCHANGED <<vtyVars, answer, got, lease, hurried, ignored, server, link, wire>> /\ client[c] = "hello"
      /\ fds' = [fds EXCEPT ![c] = TRUE] /\ saved' = [saved EXCEPT ![c] = nonblock[Terminal[c]]]
      /\ nonblock' = [nonblock EXCEPT ![Terminal[c]] = TRUE]
      /\ client' = [client EXCEPT ![c] = "lease"] \/ client' = [client EXCEPT ![c] = "sftp"]
  BY DEF NewSession, Go
<1>2. VtyTypes' /\ Distinct' /\ \A k \in Keys : Phase(k)' /\ Reading(k)'  BY <1>1, SessionsLeft
<1>3. ClientTypes  BY DEF IInv, Types
<1>4. ClientTypes'
  <2>1. nonblock[Terminal[c]] \in BOOLEAN /\ Terminal[c] \in {Terminal[d] : d \in Keys}  BY <1>3 DEF ClientTypes
  <2>2. saved' \in [Keys -> BOOLEAN]  BY <1>1, <1>3, <2>1 DEF ClientTypes
  <2>3. nonblock' \in [{Terminal[d] : d \in Keys} -> BOOLEAN]  BY <1>1, <1>3, <2>1 DEF ClientTypes
  <2> QED  BY <1>1, <1>3, <2>2, <2>3 DEF ClientTypes
<1>5. Types' /\ Cut'  BY <1>1, <1>2, <1>4 DEF IInv, Types, Cut
<1>6. \A k \in Keys : Keeps(k)  BY <1>1, <1>3 DEF Keeps, ClientTypes, vtyVars
<1>7. Wire'  BY <1>1, <1>6, WireKept DEF IInv
<1>8. ASSUME NEW k \in Keys PROVE Owns(k)' /\ Holds(k)' /\ Drained(k)'
  <2>1. Owns(k) /\ Holds(k) /\ Drained(k)  BY DEF IInv
  <2>2. Owns(k)'  BY <1>1, <1>3, <2>1 DEF Owns, vtyVars, ClientTypes
  <2>3. Drained(k)'  BY <1>1, <1>3, <2>1 DEF Drained, vtyVars, ClientTypes
  <2>4. CASE k = c
    <3>1. fds'[k] /\ client'[k] \in {"lease", "sftp"} /\ (OwnTerminals => ~saved'[k])
      BY <1>1, <1>3, <2>1, <2>4 DEF Holds, ClientTypes
    <3> QED  BY <2>2, <2>3, <3>1 DEF Holds
  <2>5. CASE k # c
    <3>1. OwnTerminals => Terminal[k] # Terminal[c]  BY <2>5 DEF OwnTerminals
    <3>2. OwnTerminals => nonblock'[Terminal[k]] = nonblock[Terminal[k]]
      BY <1>1, <1>3, <3>1 DEF ClientTypes
    <3>3. fds'[k] = fds[k] /\ saved'[k] = saved[k] /\ client'[k] = client[k] /\ lease'[k] = lease[k]
      BY <1>1, <1>3, <2>5 DEF ClientTypes
    <3> QED  BY <2>1, <2>2, <2>3, <3>2, <3>3 DEF Holds
  <2> QED  BY <2>4, <2>5
<1> QED  BY <1>2, <1>5, <1>7, <1>8 DEF IInv

\* The end of MuxClient.run gives everything back.
LEMMA FinishStep ==
  ASSUME IInv, NEW c \in Keys, Finish(c)
  PROVE  IInv'
<1> USE DEF Before, Early, Ended, Over
<1>1. /\ UNCHANGED <<vtyVars, got, saved, hurried, ignored, server, link, wire>> /\ client[c] = "free"
      /\ client' = [client EXCEPT ![c] = "done"] /\ lease' = [lease EXCEPT ![c] = FALSE]
      /\ nonblock' = Restore(c) /\ fds' = [fds EXCEPT ![c] = FALSE] /\ answer' = [answer EXCEPT ![c] = "none"]
  BY DEF Finish, Go
<1>2. VtyTypes' /\ Distinct' /\ \A k \in Keys : Phase(k)' /\ Reading(k)'  BY <1>1, SessionsLeft
<1>3. ClientTypes /\ Holds(c)  BY DEF IInv, Types
<1>4. ClientTypes'
  <2>1. saved[c] \in BOOLEAN  BY <1>3 DEF ClientTypes
  <2>2. nonblock' \in [{Terminal[d] : d \in Keys} -> BOOLEAN]  BY <1>1, <1>3, <2>1 DEF ClientTypes, Restore
  <2> QED  BY <1>1, <1>3, <2>2 DEF ClientTypes
<1>5. Types' /\ Cut'  BY <1>1, <1>2, <1>4 DEF IInv, Types, Cut
<1>6. \A k \in Keys : Keeps(k)  BY <1>1, <1>3 DEF Keeps, ClientTypes, vtyVars
<1>7. Wire'  BY <1>1, <1>6, WireKept DEF IInv
<1>8. ASSUME NEW k \in Keys PROVE Owns(k)' /\ Holds(k)' /\ Drained(k)'
  <2>1. Owns(k) /\ Holds(k) /\ Drained(k)  BY DEF IInv
  <2>2. Owns(k)'  BY <1>1, <1>3, <2>1 DEF Owns, vtyVars, ClientTypes
  <2>3. Drained(k)'  BY <1>1, <1>3, <2>1 DEF Drained, vtyVars, ClientTypes
  <2>4. CASE k = c
    <3>1. ~fds'[k] /\ client'[k] = "done" /\ ~lease'[k]
      BY <1>1, <1>3, <2>4 DEF ClientTypes
    <3>2. OwnTerminals => ~nonblock'[Terminal[k]]
      <4> SUFFICES ASSUME OwnTerminals PROVE ~nonblock'[Terminal[k]]  OBVIOUS
      <4>1. CASE fds[c]
        <5>1. nonblock' = [nonblock EXCEPT ![Terminal[c]] = saved[c]] /\ ~saved[c]
          BY <1>1, <1>3, <4>1 DEF Restore, Holds
        <5> QED  BY <5>1, <1>3, <2>4 DEF ClientTypes
      <4>2. CASE ~fds[c]  BY <4>2, <1>1, <1>3, <2>4 DEF Restore, Holds
      <4> QED  BY <4>1, <4>2
    <3> QED  BY <2>2, <2>3, <3>1, <3>2 DEF Holds
  <2>5. CASE k # c
    <3>1. OwnTerminals => Terminal[k] # Terminal[c]  BY <2>5 DEF OwnTerminals
    <3>2. OwnTerminals => nonblock'[Terminal[k]] = nonblock[Terminal[k]]
      BY <1>1, <1>3, <3>1 DEF ClientTypes, Restore
    <3>3. fds'[k] = fds[k] /\ saved'[k] = saved[k] /\ client'[k] = client[k] /\ lease'[k] = lease[k]
      BY <1>1, <1>3, <2>5 DEF ClientTypes
    <3> QED  BY <2>1, <2>2, <2>3, <3>2, <3>3 DEF Holds
  <2> QED  BY <2>4, <2>5
<1> QED  BY <1>2, <1>5, <1>7, <1>8 DEF IInv

\* The other clients keep what they have.
Alone(c, k) == k # c => UNCHANGED <<client[k], answer[k], got[k], lease[k]>>

\* No open, output or release comes behind a request that rules it out.
MaySend(s) ==
    \A k \in Keys, j \in 1..Len(s) : /\ s[j] = <<"open", k>> => client[k] \in Before
                                     /\ s[j] = <<"output", k>> => client[k] \notin Over
                                     /\ s[j] = <<"release", k>> => client[k] \notin Over

\* What the wire must say about the requests that have been sent just now.
Sent ==
    \A i \in Len(wire) + 1 .. Len(wire'), k \in Keys :
        OpenSent(i, k)' /\ OutputSent(i, k)' /\ LeaveSent(i, k)' /\ ReleaseSent(i, k)' /\ CloseSent(i, k)'

\* The moves of a client that send requests: nobody else moves, and each
\* request may be sent by the client where it is.
LEMMA SendsStep ==
  ASSUME IInv, link, NEW c \in Keys, NEW s \in Seq(Methods \X Keys), wire' = wire \o s,
         UNCHANGED <<vtyVars, link, fds, nonblock, saved, hurried, ignored>>, ClientTypes',
         \A k \in Keys : Alone(c, k),
         Keeps(c), Owns(c)', Holds(c)', Drained(c)', MaySend(s), Sent
  PROVE  IInv'
<1>1. wire \in Seq(Methods \X Keys) /\ Wire /\ ClientTypes  BY DEF IInv, Types
<1>2. /\ wire' \in Seq(Methods \X Keys) /\ Len(wire') = Len(wire) + Len(s)
      /\ Len(wire) \in Nat /\ Len(s) \in Nat
      /\ wire # <<>> => wire' # <<>> /\ wire'[1] = wire[1]
  <2>1. /\ wire' \in Seq(Methods \X Keys) /\ Len(wire') = Len(wire) + Len(s)
        /\ Len(wire) \in Nat /\ Len(s) \in Nat /\ (wire # <<>> => wire' # <<>>)
        /\ \A i \in 1..Len(wire) : wire'[i] = wire[i]
    BY <1>1, Grown
  <2>2. wire # <<>> => 1 \in 1..Len(wire)  BY <1>1
  <2> QED  BY <2>1, <2>2
<1>3. VtyTypes' /\ Distinct' /\ \A k \in Keys : Phase(k)' /\ Reading(k)'  BY <1>2, SessionsLeft
<1>4. Types' /\ Cut'  BY <1>2, <1>3 DEF IInv, Types, Cut
<1>5. ASSUME NEW k \in Keys PROVE Keeps(k)
  <2>1. CASE k = c  BY <2>1
  <2>2. CASE k # c  BY <2>2 DEF Keeps, vtyVars, Alone
  <2> QED  BY <2>1, <2>2
<1>6. Wire'
  <2>1. \A i \in 1..Len(wire), k \in Keys :
            OpenSent(i, k)' /\ OutputSent(i, k)' /\ LeaveSent(i, k)' /\ ReleaseSent(i, k)' /\ CloseSent(i, k)'
    BY <1>1, <1>5, WireGrows DEF MaySend
  <2>2. \A i \in 1..Len(wire') : i \in 1..Len(wire) \/ i \in Len(wire) + 1 .. Len(wire')  BY <1>2
  <2> QED  BY <2>1, <2>2 DEF Wire, Sent
<1>7. ASSUME NEW k \in Keys PROVE Owns(k)' /\ Holds(k)' /\ Drained(k)'
  <2>1. CASE k = c  BY <2>1
  <2>2. CASE k # c
    <3>1. Owns(k) /\ Holds(k) /\ Drained(k) /\ UNCHANGED <<client[k], answer[k], got[k], lease[k]>>
      BY <2>2 DEF IInv, Alone
    <3> QED  BY <3>1 DEF Owns, Holds, Drained, vtyVars
  <2> QED  BY <2>1, <2>2
<1> QED  BY <1>3, <1>4, <1>6, <1>7 DEF IInv

\* The position of one request that is appended.
LEMMA Appended ==
  ASSUME wire \in Seq(Methods \X Keys), NEW e \in Methods \X Keys, wire' = Append(wire, e)
  PROVE  /\ <<e>> \in Seq(Methods \X Keys) /\ wire' = wire \o <<e>> /\ Len(<<e>>) = 1 /\ <<e>>[1] = e
         /\ Len(wire) \in Nat /\ Len(wire') = Len(wire) + 1 /\ wire'[Len(wire) + 1] = e
         /\ \A i \in Len(wire) + 1 .. Len(wire') : i = Len(wire) + 1
         /\ \A i \in 1..Len(wire) : wire'[i] = wire[i]
  OBVIOUS

\* session asks for a shell, or finds the connection gone.
LEMMA OpenShellStep ==
  ASSUME IInv, NEW c \in Keys, OpenShell(c)
  PROVE  IInv'
<1> USE DEF Before, Early, Ended, Over
<1>0. ClientTypes /\ wire \in Seq(Methods \X Keys) /\ link \in BOOLEAN /\ Owns(c) /\ Holds(c) /\ Drained(c)
  BY DEF IInv, Types
<1>1. /\ UNCHANGED <<vtyVars, got, fds, nonblock, saved, hurried, ignored, server, link>> /\ client[c] = "lease"
      /\ client' = [client EXCEPT ![c] = "opening"] /\ lease' = [lease EXCEPT ![c] = link]
  BY DEF OpenShell, Go
<1>2. CASE link
  <2>1. wire' = Append(wire, <<"open", c>>) /\ answer' = answer  BY <1>2 DEF OpenShell
  <2>2. ClientTypes'  BY <1>0, <1>1, <2>1 DEF ClientTypes
  <2> DEFINE e == <<"open", c>>
             s == <<e>>
  <2>3. e \in Methods \X Keys  BY DEF Methods
  <2>4. /\ s \in Seq(Methods \X Keys) /\ wire' = wire \o s /\ Len(s) = 1 /\ s[1] = e
        /\ Len(wire) \in Nat /\ Len(wire') = Len(wire) + 1 /\ wire'[Len(wire) + 1] = e
        /\ \A i \in Len(wire) + 1 .. Len(wire') : i = Len(wire) + 1
    BY <1>0, <2>1, <2>3, Appended
  <2>5. Keeps(c) /\ Owns(c)' /\ Holds(c)' /\ Drained(c)'
    BY <1>0, <1>1, <1>2, <2>1 DEF Keeps, Owns, Holds, Drained, vtyVars, ClientTypes
  <2>6. \A k \in Keys : Alone(c, k)
    BY <1>0, <1>1, <2>1 DEF ClientTypes, Alone
  <2>7. MaySend(s)  BY <1>1, <2>4 DEF MaySend
  <2>8. ASSUME NEW i \in Len(wire) + 1 .. Len(wire'), NEW k \in Keys
        PROVE  OpenSent(i, k)' /\ OutputSent(i, k)' /\ LeaveSent(i, k)' /\ ReleaseSent(i, k)' /\ CloseSent(i, k)'
    <3>1. wire'[i] = e /\ i = Len(wire) + 1  BY <2>4
    <3>2. vty[c] = "none" /\ client'[c] = "opening" /\ vty' = vty
      BY <1>0, <1>1, <1>2 DEF Owns, ClientTypes, vtyVars
    <3>3. OpenSent(i, k)'  BY <2>4, <3>1, <3>2 DEF OpenSent
    <3> QED  BY <3>1, <3>3 DEF OutputSent, LeaveSent, ReleaseSent, CloseSent
  <2>9. Sent  BY <2>8 DEF Sent
  <2> HIDE DEF e, s
  <2> QED  BY <1>1, <1>2, <2>2, <2>4, <2>5, <2>6, <2>7, <2>9, SendsStep
<1>3. CASE ~link
  <2>1. wire' = wire /\ answer' = [answer EXCEPT ![c] = "error"]  BY <1>3 DEF OpenShell
  <2>2. ClientTypes'  BY <1>0, <1>1, <2>1 DEF ClientTypes
  <2>3. VtyTypes' /\ Distinct' /\ \A k \in Keys : Phase(k)' /\ Reading(k)'  BY <1>1, <2>1, SessionsLeft
  <2>4. Types' /\ Cut'  BY <1>1, <2>1, <2>2, <2>3 DEF IInv, Types, Cut
  <2>5. \A k \in Keys : Keeps(k)  BY <1>0, <1>1 DEF Keeps, ClientTypes, vtyVars
  <2>6. Wire'  BY <2>1, <2>5, WireKept DEF IInv
  <2>7. ASSUME NEW k \in Keys PROVE Owns(k)' /\ Holds(k)' /\ Drained(k)'
    <3>1. Owns(k) /\ Holds(k) /\ Drained(k)  BY DEF IInv
    <3>2. Owns(k)'  BY <1>0, <1>1, <1>3, <2>1, <3>1 DEF Owns, vtyVars, ClientTypes
    <3>3. Holds(k)' /\ Drained(k)'  BY <1>0, <1>1, <2>1, <3>1 DEF Holds, Drained, vtyVars, ClientTypes
    <3> QED  BY <3>2, <3>3
  <2> QED  BY <2>3, <2>4, <2>6, <2>7 DEF IInv
<1> QED  BY <1>0, <1>2, <1>3

\* A session that was opened for a client that has left is closed again: it
\* has no stream.
LEMMA CloseOnlyStep ==
  ASSUME IInv, link, NEW c \in Keys, client[c] \in {"opening", "collect"}, answer[c] = "ok",
         client' = [client EXCEPT ![c] = "closing"], wire' = Append(wire, <<"close", c>>),
         UNCHANGED <<vtyVars, answer, got, lease, fds, nonblock, saved, hurried, ignored, server, link>>
  PROVE  IInv'
<1> USE DEF Before, Early, Ended, Over
<1>0. ClientTypes /\ wire \in Seq(Methods \X Keys) /\ Owns(c) /\ Holds(c) /\ Drained(c) /\ Wire
  BY DEF IInv, Types
<1>1. ClientTypes'  BY <1>0 DEF ClientTypes
<1> DEFINE e == <<"close", c>>
           s == <<e>>
<1>2. e \in Methods \X Keys  BY DEF Methods
<1>3. /\ s \in Seq(Methods \X Keys) /\ wire' = wire \o s /\ Len(s) = 1 /\ s[1] = e
      /\ Len(wire) \in Nat /\ Len(wire') = Len(wire) + 1 /\ wire'[Len(wire) + 1] = e
      /\ \A i \in Len(wire) + 1 .. Len(wire') : i = Len(wire) + 1
      /\ \A i \in 1..Len(wire) : wire'[i] = wire[i]
  BY <1>0, <1>2, Appended
<1>4. Keeps(c) /\ Owns(c)' /\ Holds(c)' /\ Drained(c)'
  BY <1>0 DEF Keeps, Owns, Holds, Drained, vtyVars, ClientTypes
<1>5. \A k \in Keys : Alone(c, k)  BY <1>0 DEF ClientTypes, Alone
<1>6. MaySend(s)  BY <1>3 DEF MaySend
<1>7. ASSUME NEW i \in Len(wire) + 1 .. Len(wire'), NEW k \in Keys
      PROVE  OpenSent(i, k)' /\ OutputSent(i, k)' /\ LeaveSent(i, k)' /\ ReleaseSent(i, k)' /\ CloseSent(i, k)'
  <2>1. wire'[i] = e /\ i = Len(wire) + 1  BY <1>3
  <2>2. client'[c] = "closing"  BY <1>0 DEF ClientTypes
  <2>3. LeaveSent(i, k)'  BY <1>3, <2>1, <2>2 DEF LeaveSent
  <2>4. CloseSent(i, k)'
    <3> SUFFICES ASSUME k = c PROVE Paired(i, k)'  BY <2>1 DEF CloseSent
    <3>1. producer'[c] \notin Active  BY <1>0 DEF Owns, vtyVars, Active
    <3>2. \A j \in 1..Len(wire) : wire[j] # <<"output", c>>  BY <1>0 DEF Wire, OutputSent
    <3>3. \A j \in 1..i : wire'[j] # <<"output", c>>  BY <3>2, <2>1, <1>3
    <3> QED  BY <3>1, <3>3 DEF Paired
  <2> QED  BY <2>1, <2>3, <2>4 DEF OpenSent, OutputSent, ReleaseSent
<1>8. Sent  BY <1>7 DEF Sent
<1> HIDE DEF e, s
<1> QED  BY <1>1, <1>3, <1>4, <1>5, <1>6, <1>8, SendsStep

\* The bridge asks for the output of its session.
LEMMA OutputStep ==
  ASSUME IInv, link, NEW c \in Keys, client[c] = "opening", answer[c] = "ok",
         client' = [client EXCEPT ![c] = "bridge"], wire' = Append(wire, <<"output", c>>),
         UNCHANGED <<vtyVars, answer, got, lease, fds, nonblock, saved, hurried, ignored, server, link>>
  PROVE  IInv'
<1> USE DEF Before, Early, Ended, Over
<1>0. ClientTypes /\ wire \in Seq(Methods \X Keys) /\ Owns(c) /\ Holds(c) /\ Drained(c)
  BY DEF IInv, Types
<1>1. ClientTypes'  BY <1>0 DEF ClientTypes
<1> DEFINE e == <<"output", c>>
           s == <<e>>
<1>2. e \in Methods \X Keys  BY DEF Methods
<1>3. /\ s \in Seq(Methods \X Keys) /\ wire' = wire \o s /\ Len(s) = 1 /\ s[1] = e
      /\ Len(wire) \in Nat /\ Len(wire') = Len(wire) + 1 /\ wire'[Len(wire) + 1] = e
      /\ \A i \in Len(wire) + 1 .. Len(wire') : i = Len(wire) + 1
  BY <1>0, <1>2, Appended
<1>4. Keeps(c) /\ Owns(c)' /\ Holds(c)' /\ Drained(c)'
  BY <1>0 DEF Keeps, Owns, Holds, Drained, vtyVars, ClientTypes
<1>5. \A k \in Keys : Alone(c, k)  BY <1>0 DEF ClientTypes, Alone
<1>6. MaySend(s)  BY <1>3 DEF MaySend
<1>7. ASSUME NEW i \in Len(wire) + 1 .. Len(wire'), NEW k \in Keys
      PROVE  OpenSent(i, k)' /\ OutputSent(i, k)' /\ LeaveSent(i, k)' /\ ReleaseSent(i, k)' /\ CloseSent(i, k)'
  <2>1. wire'[i] = e  BY <1>3
  <2>2. client'[c] = "bridge"  BY <1>0 DEF ClientTypes
  <2> QED  BY <2>1, <2>2 DEF OpenSent, OutputSent, LeaveSent, ReleaseSent, CloseSent
<1>8. Sent  BY <1>7 DEF Sent
<1> HIDE DEF e, s
<1> QED  BY <1>1, <1>3, <1>4, <1>5, <1>6, <1>8, SendsStep

\* A collected open, and the answer to an open.
LEMMA CollectStep ==
  ASSUME IInv, NEW c \in Keys, Collected(c) \/ Bridge(c)
  PROVE  IInv'
<1> USE DEF Before, Early, Ended, Over
<1>0. ClientTypes /\ Owns(c)  BY DEF IInv, Types
<1>1. /\ UNCHANGED <<vtyVars, answer, got, lease, fds, nonblock, saved, ignored, server, link>>
      /\ client[c] \in {"opening", "collect"}
  BY DEF Collected, Bridge
<1>2. CASE /\ link /\ answer[c] = "ok" /\ hurried' = hurried
           /\ client' = [client EXCEPT ![c] = "closing"] /\ wire' = Append(wire, <<"close", c>>)
  BY <1>1, <1>2, CloseOnlyStep
<1>3. CASE /\ link /\ answer[c] = "ok" /\ hurried' = hurried /\ client[c] = "opening"
           /\ client' = [client EXCEPT ![c] = "bridge"] /\ wire' = Append(wire, <<"output", c>>)
  BY <1>1, <1>3, OutputStep
<1>4. CASE /\ wire' = wire /\ client' = [client EXCEPT ![c] = "free"]
           /\ \/ (answer[c] = "error" \/ ~link) /\ hurried' = hurried
              \/ hurried' = [hurried EXCEPT ![c] = TRUE]
  <2>1. ClientTypes'  BY <1>0, <1>1, <1>4 DEF ClientTypes
  <2>2. \A k \in Keys : Moved(k)  BY <1>0, <1>1, <1>4 DEF Moved, ClientTypes, Owns
  <2> QED  BY <1>1, <1>4, <2>1, <2>2, MovesStep
<1>5. CASE Collected(c)  BY <1>2, <1>4, <1>5 DEF Collected, Collect, Go
<1>6. CASE Bridge(c)  BY <1>2, <1>3, <1>4, <1>6 DEF Bridge, Go
<1> QED  BY <1>5, <1>6

\* Positions of two requests that are appended.
LEMMA AppendedTwo ==
  ASSUME wire \in Seq(Methods \X Keys), NEW d \in Methods \X Keys, NEW e \in Methods \X Keys,
         wire' = wire \o <<d, e>>
  PROVE  /\ <<d, e>> \in Seq(Methods \X Keys) /\ Len(<<d, e>>) = 2 /\ <<d, e>>[1] = d /\ <<d, e>>[2] = e
         /\ Len(wire) \in Nat /\ Len(wire') = Len(wire) + 2
         /\ wire'[Len(wire) + 1] = d /\ wire'[Len(wire) + 2] = e
         /\ \A i \in Len(wire) + 1 .. Len(wire') : i \in {Len(wire) + 1, Len(wire) + 2}
  OBVIOUS

\* The finally of shell_session: the release of the stream and the close go
\* together, in either order.
LEMMA SettleStep ==
  ASSUME IInv, NEW c \in Keys, Settle(c)
  PROVE  IInv'
<1> USE DEF Before, Early, Ended, Over
<1>0. /\ ClientTypes /\ wire \in Seq(Methods \X Keys) /\ link \in BOOLEAN
      /\ Owns(c) /\ Holds(c) /\ Drained(c)
  BY DEF IInv, Types
<1>1. /\ UNCHANGED <<vtyVars, answer, lease, fds, nonblock, saved, hurried, ignored, server, link>>
      /\ client[c] \in {"settle", "told", "quit"} /\ client' = [client EXCEPT ![c] = IF link THEN "closing" ELSE "free"]
      /\ got' = [got EXCEPT ![c] = 0]
  BY DEF Settle, Go
<1>2. ClientTypes'  BY <1>0, <1>1 DEF ClientTypes
<1>3. CASE link
  <2>1. PICK s \in LeaveStream(c) : wire' = wire \o s  BY <1>3 DEF Settle
  <2> DEFINE r == <<"release", c>>
             e == <<"close", c>>
  <2>2. r \in Methods \X Keys /\ e \in Methods \X Keys /\ r # e  BY DEF Methods
  <2>3. s = <<r, e>> \/ s = <<e, r>>  BY <2>1 DEF LeaveStream
  <2>4. /\ s \in Seq(Methods \X Keys) /\ Len(s) = 2
        /\ Len(wire) \in Nat /\ Len(wire') = Len(wire) + 2
        /\ \/ wire'[Len(wire) + 1] = r /\ wire'[Len(wire) + 2] = e /\ s[1] = r /\ s[2] = e
           \/ wire'[Len(wire) + 1] = e /\ wire'[Len(wire) + 2] = r /\ s[1] = e /\ s[2] = r
        /\ \A i \in Len(wire) + 1 .. Len(wire') : i \in {Len(wire) + 1, Len(wire) + 2}
    <3>1. CASE s = <<r, e>>
      <4> HIDE DEF r, e
      <4> QED  BY <1>0, <2>1, <2>2, <3>1, AppendedTwo
    <3>2. CASE s = <<e, r>>
      <4> HIDE DEF r, e
      <4> QED  BY <1>0, <2>1, <2>2, <3>2, AppendedTwo
    <3> QED  BY <2>3, <3>1, <3>2
  <2>5. Keeps(c) /\ Owns(c)' /\ Holds(c)' /\ Drained(c)'
    BY <1>0, <1>1, <1>3 DEF Keeps, Owns, Holds, Drained, vtyVars, ClientTypes
  <2>6. \A k \in Keys : Alone(c, k)  BY <1>0, <1>1 DEF ClientTypes, Alone
  <2>7. MaySend(s)  BY <1>1, <2>4 DEF MaySend
  <2>8. ASSUME NEW i \in Len(wire) + 1 .. Len(wire'), NEW k \in Keys
        PROVE  OpenSent(i, k)' /\ OutputSent(i, k)' /\ LeaveSent(i, k)' /\ ReleaseSent(i, k)' /\ CloseSent(i, k)'
    <3>1. wire'[i] \in {r, e} /\ i \in {Len(wire) + 1, Len(wire) + 2}  BY <2>4
    <3>2. client'[c] = "closing"  BY <1>0, <1>1, <1>3 DEF ClientTypes
    <3>3. OpenSent(i, k)' /\ OutputSent(i, k)'  BY <3>1 DEF OpenSent, OutputSent
    <3>4. LeaveSent(i, k)'
      <4>1. wire'[i] \in {<<"release", k>>, <<"close", k>>} => k = c  BY <3>1
      <4>2. ASSUME NEW j \in 1..Len(wire'), i < j PROVE wire'[j] # <<"output", k>>
        <5>1. j = Len(wire) + 2  BY <4>2, <2>4, <3>1
        <5> QED  BY <5>1, <2>4
      <4> QED  BY <3>2, <4>1, <4>2 DEF LeaveSent
    <3>5. CloseSent(i, k)'
      <4> SUFFICES ASSUME wire'[i] = e, k = c PROVE Paired(i, k)'  BY <3>1 DEF CloseSent
      <4>1. CASE wire'[Len(wire) + 1] = r /\ wire'[Len(wire) + 2] = e
        <5>1. i = Len(wire) + 2 /\ i - 1 = Len(wire) + 1 /\ i > 1  BY <2>2, <2>4, <3>1, <4>1
        <5> QED  BY <4>1, <5>1 DEF Paired
      <4>2. CASE wire'[Len(wire) + 1] = e /\ wire'[Len(wire) + 2] = r
        <5>1. i = Len(wire) + 1 /\ i + 1 = Len(wire) + 2 /\ i < Len(wire')  BY <2>2, <2>4, <3>1, <4>2
        <5> QED  BY <4>2, <5>1 DEF Paired
      <4> QED  BY <2>4, <4>1, <4>2
    <3>6. ReleaseSent(i, k)'
      <4>1. ~ignored'[c]  BY <1>0, <1>1 DEF Owns
      <4>2. ASSUME NEW j \in 1..Len(wire'), i < j, wire'[i] = r PROVE wire'[j] # r
        <5>1. j = Len(wire) + 2 /\ i = Len(wire) + 1  BY <4>2, <2>4, <3>1
        <5> QED  BY <4>2, <5>1, <2>2, <2>4
      <4> QED  BY <3>1, <4>1, <4>2 DEF ReleaseSent
    <3> QED  BY <3>3, <3>4, <3>5, <3>6
  <2>9. Sent  BY <2>8 DEF Sent
  <2> QED  BY <1>1, <1>2, <1>3, <2>1, <2>4, <2>5, <2>6, <2>7, <2>9, SendsStep
<1>4. CASE ~link
  <2>1. wire' = wire  BY <1>4 DEF Settle
  <2>2. \A k \in Keys : Moved(k)  BY <1>0, <1>1, <1>4 DEF Moved, ClientTypes, Owns
  <2> QED  BY <1>1, <1>2, <2>1, <2>2, MovesStep
<1> QED  BY <1>0, <1>3, <1>4

-----------------------------------------------------------------------------
(* The steps of the sessions                                                *)

\* A session leaves the state of another one alone, except for the readers.
Apart(k, j) ==
    j # k => UNCHANGED <<vty[j], child[j], master[j], slave[j], waits[j], producer[j], made[j], sent[j], answer[j],
                          ignored[j]>>

\* A step of one session has to keep what it touches.
LEMMA SessionStep ==
  ASSUME IInv, NEW k \in Keys, \A j \in Keys : Apart(k, j),
         UNCHANGED <<client, got, lease, fds, nonblock, saved, hurried, server, link>>,
         ignored' \in [Keys -> BOOLEAN], VtyTypes', answer' \in [Keys -> {"none", "ok", "error"}], wire' \in Seq(Methods \X Keys), Cut',
         Distinct', Wire', Phase(k)', Owns(k)', Drained(k)', \A j \in Keys : Reading(j)'
  PROVE  IInv'
<1>1. Types'  BY DEF IInv, Types, ClientTypes
<1>2. ASSUME NEW j \in Keys PROVE Phase(j)' /\ Owns(j)' /\ Holds(j)' /\ Drained(j)'
  <2>1. Phase(j) /\ Owns(j) /\ Holds(j) /\ Drained(j)  BY DEF IInv
  <2>2. Holds(j)'  BY <2>1 DEF Holds
  <2>3. CASE j = k  BY <2>2, <2>3
  <2>4. CASE j # k
    <3>1. Apart(k, j)  OBVIOUS
    <3>2. Phase(j)'  BY <2>1, <2>4, <3>1 DEF Phase, Apart
    <3>3. Owns(j)'  BY <2>1, <2>4, <3>1 DEF Owns, Apart
    <3>4. Drained(j)'  BY <2>1, <2>4, <3>1 DEF Drained, Apart
    <3> QED  BY <2>2, <3>2, <3>3, <3>4
  <2> QED  BY <2>3, <2>4
<1> QED  BY <1>1, <1>2 DEF IInv

\* A step that changes neither the registrations nor the descriptors.
LEMMA ReadingLeft ==
  ASSUME IInv, UNCHANGED <<reader, waits, producer, master, ignored, wire>>,
         \A j \in Keys : producer[j] = "reading" => (vty'[j] = "open" <=> vty[j] = "open")
  PROVE  \A j \in Keys : Reading(j)'
<1> SUFFICES ASSUME NEW j \in Keys PROVE Reading(j)'  OBVIOUS
<1>1. Reading(j)  BY DEF IInv
<1> QED  BY <1>1 DEF Reading

\* The child, the write that waits and the watcher of the exit.
LEMMA QuietStep ==
  ASSUME IInv, NEW k \in Keys, Child(k) \/ Unstick(k) \/ Write(k) \/ ExitSeen(k) \/ EndProcess(k),
         UNCHANGED <<clientVars, server, link, wire>>
  PROVE  IInv'
<1>0. VtyTypes /\ Phase(k) /\ Owns(k) /\ Drained(k) /\ ClientTypes /\ wire \in Seq(Methods \X Keys)
  BY DEF IInv, Types
<1>1. UNCHANGED <<vty, master, reader, waits, producer, sent>>
  BY DEF Child, Unstick, Write, ExitSeen, EndProcess
<1>2. /\ \/ child' = child
         \/ child[k] \in {"running", "left"} /\ child' = [child EXCEPT ![k] = "exited"]
         \/ child[k] = "running" /\ child' = [child EXCEPT ![k] = "left"]
      /\ \/ made' = made
         \/ /\ child[k] \in {"running", "left"} /\ vty[k] = "open" /\ made[k] < MaxOut
            /\ made' = [made EXCEPT ![k] = @ + 1]
      /\ slave' = slave \/ slave' = [slave EXCEPT ![k] = FALSE]
      /\ stuck' = stuck \/ stuck' = [stuck EXCEPT ![k] = TRUE] \/ stuck' = [stuck EXCEPT ![k] = FALSE]
  BY DEF Child, Unstick, Write, ExitSeen, EndProcess
<1>3. MaxOut \in Nat  BY VtyConstants
<1>4. VtyTypes'
  <2>1. VtyTypeOK'
    <3>0. /\ made \in [Keys -> Nat] /\ sent \in [Keys -> Nat] /\ child \in [Keys -> {"none", "running", "left", "exited"}]
          /\ \A j \in Keys : sent[j] <= made[j] /\ made[j] <= MaxOut
      BY <1>0 DEF VtyTypes, VtyTypeOK
    <3>1. made' \in [Keys -> Nat] /\ \A j \in Keys : sent'[j] <= made'[j] /\ made'[j] <= MaxOut
      <4>1. CASE made' = made  BY <4>1, <1>1, <3>0
      <4>2. CASE made[k] < MaxOut /\ made' = [made EXCEPT ![k] = @ + 1]
        BY <4>2, <1>1, <1>3, <3>0
      <4> QED  BY <1>2, <4>1, <4>2
    <3>2. child' \in [Keys -> {"none", "running", "left", "exited"}]
      <4>1. CASE child' = child  BY <4>1, <3>0
      <4>2. CASE child' = [child EXCEPT ![k] = "exited"] \/ child' = [child EXCEPT ![k] = "left"]  BY <4>2, <3>0
      <4> QED  BY <1>2, <4>1, <4>2
    <3> QED  BY <1>0, <1>1, <3>1, <3>2 DEF VtyTypes, VtyTypeOK
  <2>2. made' \in [Keys -> Nat]  BY <1>0, <1>2 DEF VtyTypes
  <2> QED  BY <1>0, <1>1, <1>2, <2>1, <2>2 DEF VtyTypes
<1>5. \A j \in Keys : Apart(k, j)
  BY <1>0, <1>1, <1>2 DEF Apart, VtyTypes, VtyTypeOK, clientVars
<1>6. \A j \in Keys : Reading(j)'  BY <1>1, ReadingLeft DEF clientVars
<1>7. Distinct' /\ Cut'  BY <1>1 DEF IInv, Distinct, Cut
<1>8. Wire'
  <2>1. \A j \in Keys : Keeps(j)  BY <1>1 DEF Keeps, clientVars
  <2> QED  BY <2>1, WireKept DEF IInv
<1>9. Phase(k)'  BY <1>0, <1>1, <1>2 DEF Phase, VtyTypes, VtyTypeOK
<1>10. Owns(k)'  BY <1>0, <1>1 DEF Owns, clientVars
<1>11. Drained(k)'
  <2>1. child[k] = "exited" => child'[k] = "exited" /\ made'[k] = made[k]
    BY <1>0, <1>2 DEF VtyTypes, VtyTypeOK
  <2>2. ~link => made'[k] = made[k]  BY <1>0, <1>2 DEF Owns
  <2> QED  BY <1>0, <1>1, <2>1, <2>2 DEF Drained, clientVars
<1>12. /\ answer' \in [Keys -> {"none", "ok", "error"}] /\ wire' \in Seq(Methods \X Keys)
      /\ ignored' \in [Keys -> BOOLEAN]
  BY <1>0 DEF ClientTypes, clientVars
<1> QED  BY <1>4, <1>5, <1>6, <1>7, <1>8, <1>9, <1>10, <1>11, <1>12, SessionStep DEF clientVars

\* The loop forgets a reader that is not the one of an open session.
LEMMA ReaderRemoved ==
  ASSUME IInv, NEW f \in Fds \union {0}, RemoveReader(f), NEW j \in Keys, vty[j] = "open", producer[j] = "reading",
         Reading(j), j \in Ttys, f # 0 => master[j] # f
  PROVE  reader'[master[j]] = j
<1>1. reader[master[j]] = j  BY DEF Reading
<1>2. reader \in [Fds -> Keys \union {Nobody}] /\ master[j] \in Fds
  BY DEF IInv, Types, VtyTypes, VtyTypeOK, Phase
<1> QED  BY <1>1, <1>2 DEF RemoveReader

\* The types of the readers when one is forgotten.
LEMMA ReaderType ==
  ASSUME reader \in [Fds -> Keys \union {Nobody}], NEW f \in Fds \union {0}, RemoveReader(f)
  PROVE  reader' \in [Fds -> Keys \union {Nobody}]
  BY DEF RemoveReader

\* Vty.output yields a chunk, or ends because the other side has closed.
LEMMA ReadStep ==
  ASSUME IInv, NEW k \in Keys, Read(k), UNCHANGED <<clientVars, server, link, wire>>
  PROVE  IInv'
<1>0. VtyTypes /\ Phase(k) /\ Owns(k) /\ Drained(k) /\ ClientTypes /\ wire \in Seq(Methods \X Keys) /\ Distinct
  BY DEF IInv, Types
<1>1. UNCHANGED <<vty, child, master, slave, made, stuck>> /\ producer[k] = "reading" /\ Readable(k)
  BY DEF Read
<1>2. /\ made[k] \in Nat /\ sent[k] \in Nat /\ sent[k] <= made[k]
      /\ k \in Ttys => waits[k] = master[k]
      /\ waits[k] \in Fds \union {0} /\ (k \notin Ttys => waits[k] = 0)
  BY <1>0, <1>1 DEF VtyTypes, VtyTypeOK, Readable, Phase
<1>3. Distinct' /\ Cut'  BY <1>1 DEF IInv, Distinct, Cut
<1>4. /\ answer' \in [Keys -> {"none", "ok", "error"}] /\ wire' \in Seq(Methods \X Keys)
      /\ ignored' \in [Keys -> BOOLEAN]
  BY <1>0 DEF ClientTypes, clientVars
<1>5. CASE made[k] > sent[k]
  <2>1. sent' = [sent EXCEPT ![k] = @ + 1] /\ UNCHANGED <<producer, reader, waits>>  BY <1>5 DEF Read
  <2>2. VtyTypes'
    <3>1. sent' \in [Keys -> Nat] /\ \A j \in Keys : sent'[j] <= made[j]
      BY <1>0, <1>2, <1>5, <2>1 DEF VtyTypes, VtyTypeOK
    <3> QED  BY <1>0, <1>1, <2>1, <3>1 DEF VtyTypes, VtyTypeOK
  <2>3. \A j \in Keys : Apart(k, j)  BY <1>0, <1>1, <2>1 DEF Apart, VtyTypes, clientVars
  <2>4. \A j \in Keys : Reading(j)'  BY <1>1, <2>1, ReadingLeft DEF clientVars
  <2>5. \A j \in Keys : Keeps(j)  BY <1>1, <2>1 DEF Keeps, clientVars
  <2>6. Wire'  BY <2>5, WireKept DEF IInv
  <2>7. Phase(k)'  BY <1>0, <1>1, <2>1 DEF Phase
  <2>8. Owns(k)'  BY <1>0, <1>1, <2>1 DEF Owns, clientVars
  <2>9. Drained(k)'  BY <1>0, <1>1, <2>1 DEF Drained, clientVars
  <2> QED  BY <1>3, <1>4, <2>2, <2>3, <2>4, <2>6, <2>7, <2>8, <2>9, SessionStep DEF clientVars
<1>6. CASE ~(made[k] > sent[k])
  <2>1. /\ producer' = [producer EXCEPT ![k] = "done"] /\ RemoveReader(waits[k])
        /\ waits' = [waits EXCEPT ![k] = 0] /\ sent' = sent
    BY <1>6 DEF Read
  <2>2. VtyTypes'
    <3>1. reader' \in [Fds -> Keys \union {Nobody}]  BY <1>0, <1>2, <2>1, ReaderType DEF VtyTypes, VtyTypeOK
    <3> QED  BY <1>0, <1>1, <2>1, <3>1 DEF VtyTypes, VtyTypeOK
  <2>3. \A j \in Keys : Apart(k, j)  BY <1>0, <1>1, <2>1 DEF Apart, VtyTypes, VtyTypeOK, clientVars
  <2>4. ASSUME NEW j \in Keys PROVE Reading(j)'
    <3>1. CASE j = k  BY <3>1, <1>0, <2>1 DEF Reading, VtyTypes, VtyTypeOK
    <3>2. CASE j # k
      <4>1. Reading(j) /\ Apart(k, j)  BY <2>3 DEF IInv
      <4>2. waits[k] # 0 => waits[k] = master[k] /\ master[j] # waits[k]
        BY <1>0, <1>2, <3>2 DEF Distinct
      <4>3. producer[j] = "reading" /\ vty[j] = "open" /\ j \in Ttys => reader'[master[j]] = j
        BY <1>2, <2>1, <4>1, <4>2, ReaderRemoved
      <4> QED  BY <1>1, <3>2, <4>1, <4>3 DEF Reading, Apart
    <3> QED  BY <3>1, <3>2
  <2>5. \A j \in Keys : Keeps(j)  BY <1>0, <1>1, <2>1 DEF Keeps, clientVars, VtyTypes, VtyTypeOK, Active
  <2>6. Wire'  BY <2>5, WireKept DEF IInv
  <2>7. Phase(k)'  BY <1>0, <1>1, <2>1 DEF Phase, VtyTypes, VtyTypeOK
  <2>8. Owns(k)'  BY <1>0, <1>1, <2>1 DEF Owns, clientVars
  <2>9. Drained(k)'
    <3>1. child[k] = "exited" /\ sent[k] = made[k]  BY <1>1, <1>2, <1>6 DEF Readable
    <3> QED  BY <1>0, <1>1, <2>1, <3>1 DEF Drained, clientVars
  <2> QED  BY <1>3, <1>4, <2>2, <2>3, <2>4, <2>6, <2>7, <2>8, <2>9, SessionStep DEF clientVars
<1> QED  BY <1>5, <1>6

\* The answer to the open of a session, and the end of its close.
LEMMA OpenedStep ==
  ASSUME IInv, NEW k \in Keys,
         \/ Opened(k)
         \/ Released(k) /\ UNCHANGED <<clientVars, server, link, wire>>
  PROVE  IInv'
<1> USE DEF Before, Early, Ended, Over
<1>0. /\ VtyTypes /\ Phase(k) /\ Owns(k) /\ Drained(k) /\ ClientTypes /\ wire \in Seq(Methods \X Keys) /\ Distinct
      /\ vty \in [Keys -> {"none", "starting", "open", "releasing", "gone"}]
      /\ child \in [Keys -> {"none", "running", "left", "exited"}] /\ slave \in [Keys -> BOOLEAN]
      /\ master \in [Keys -> Fds \union {0}] /\ answer \in [Keys -> {"none", "ok", "error"}]
  BY DEF IInv, Types, VtyTypes, VtyTypeOK, ClientTypes
<1>1. UNCHANGED <<reader, waits, producer, made, sent, stuck, client, got, lease, fds, nonblock, saved, hurried,
                  ignored, server, link, wire>>
  BY DEF Opened, Started, StartFails, Released, clientVars
<1>2. \/ /\ vty[k] = "starting" /\ vty' = [vty EXCEPT ![k] = "open"] /\ child' = [child EXCEPT ![k] = "running"]
         /\ answer' = [answer EXCEPT ![k] = "ok"] /\ UNCHANGED <<master, slave>>
      \/ /\ vty[k] = "starting" /\ vty' = [vty EXCEPT ![k] = "gone"] /\ child' = child
         /\ answer' = [answer EXCEPT ![k] = "error"]
         /\ master' = [master EXCEPT ![k] = 0] /\ slave' = [slave EXCEPT ![k] = FALSE]
      \/ /\ vty[k] = "releasing" /\ child[k] \in {"exited", "left"} /\ vty' = [vty EXCEPT ![k] = "gone"] /\ child' = child
         /\ answer' = answer /\ master' = master /\ slave' = [slave EXCEPT ![k] = FALSE]
  BY DEF Opened, Started, StartFails, Released, clientVars
<1>3. /\ vty' \in [Keys -> {"none", "starting", "open", "releasing", "gone"}]
      /\ child' \in [Keys -> {"none", "running", "left", "exited"}] /\ slave' \in [Keys -> BOOLEAN]
      /\ master' \in [Keys -> Fds \union {0}] /\ answer' \in [Keys -> {"none", "ok", "error"}]
      /\ ignored' \in [Keys -> BOOLEAN]
  BY <1>0, <1>1, <1>2 DEF ClientTypes
<1>4. VtyTypes'  BY <1>0, <1>1, <1>3 DEF VtyTypes, VtyTypeOK
<1>5. \A j \in Keys : Apart(k, j)  BY <1>0, <1>1, <1>2 DEF Apart
<1>6. ASSUME NEW j \in Keys PROVE Reading(j)'
  <2>1. Reading(j) /\ Apart(k, j)  BY <1>5 DEF IInv
  <2>2. master' = master \/ master' = [master EXCEPT ![k] = 0]  BY <1>2
  <2>3. CASE j = k
    <3>1. producer[k] = "reading" => vty[k] = "releasing" /\ vty'[k] = "gone" /\ master' = master
      BY <1>0, <1>2 DEF Phase
    <3> QED  BY <2>1, <2>3, <3>1, <1>1 DEF Reading
  <2>4. CASE j # k  BY <2>1, <2>2, <2>4, <1>0, <1>1 DEF Reading, Apart
  <2> QED  BY <2>3, <2>4
<1>7. Distinct'  BY <1>0, <1>2 DEF Distinct
<1>8. Cut'  BY <1>1 DEF IInv, Cut
<1>9. Wire'
  <2>1. \A j \in Keys : Keeps(j)  BY <1>0, <1>1, <1>2 DEF Keeps
  <2> QED  BY <2>1, <1>1, WireKept DEF IInv
<1>10. Phase(k)'  BY <1>0, <1>1, <1>2 DEF Phase
<1>11. Owns(k)'  BY <1>0, <1>1, <1>2 DEF Owns
<1>12. Drained(k)'  BY <1>0, <1>1, <1>2 DEF Drained, Phase
<1> QED  BY <1>0, <1>1, <1>3, <1>4, <1>5, <1>6, <1>7, <1>8, <1>9, <1>10, <1>11, <1>12, SessionStep

\* The connection is lost: the peer ends with all its sessions.
LEMMA LoseLinkStep ==
  ASSUME IInv, LoseLink
  PROVE  IInv'
<1>0. VtyTypes /\ ClientTypes  BY DEF IInv, Types
<1>1. /\ link' = FALSE /\ wire' = <<>> /\ ignored' = [k \in Keys |-> FALSE]
      /\ UNCHANGED <<client, answer, got, lease, fds, nonblock, saved, hurried, server, made, sent>>
      /\ vty' = [k \in Keys |-> "gone"] /\ child' = [k \in Keys |-> "left"]
      /\ master' = [k \in Keys |-> 0] /\ slave' = [k \in Keys |-> FALSE]
      /\ reader' = [f \in Fds |-> Nobody] /\ waits' = [k \in Keys |-> 0]
      /\ producer' = [k \in Keys |-> "done"] /\ stuck' = [k \in Keys |-> FALSE]
  BY DEF LoseLink, RemoteEnds, Clients
<1>2. VtyTypes'  BY <1>0, <1>1 DEF VtyTypes, VtyTypeOK
<1>3. Types'
  <2>1. ClientTypes'  BY <1>0, <1>1 DEF ClientTypes
  <2>2. <<>> \in Seq(Methods \X Keys) /\ FALSE \in BOOLEAN  OBVIOUS
  <2> QED  BY <1>1, <1>2, <2>1, <2>2 DEF Types
<1>4. Distinct' /\ Cut' /\ Wire'  BY <1>1 DEF Distinct, Cut, Wire
<1>5. ASSUME NEW k \in Keys PROVE Phase(k)' /\ Reading(k)' /\ Owns(k)' /\ Holds(k)' /\ Drained(k)'
  <2>1. Holds(k) /\ Drained(k)  BY DEF IInv
  <2>2. Phase(k)' /\ Reading(k)'  BY <1>1 DEF Phase, Reading
  <2>3. Owns(k)'  BY <1>1 DEF Owns
  <2>4. Holds(k)' /\ Drained(k)'  BY <1>1, <2>1 DEF Holds, Drained
  <2> QED  BY <2>2, <2>3, <2>4
<1> QED  BY <1>3, <1>4, <1>5 DEF IInv

-----------------------------------------------------------------------------
(* The requests that the peer serves                                        *)

\* The session whose request is first on the wire.
LEMMA Served ==
  ASSUME IInv, NEW m, Request(m)
  PROVE  /\ wire # <<>> /\ wire' = Tail(wire) /\ wire' \in Seq(Methods \X Keys) /\ link
         /\ Head(wire)[2] \in Keys /\ wire[1] = <<m, Head(wire)[2]>> /\ Len(wire) \in Nat \ {0}
         /\ 1 \in 1..Len(wire)
<1>1. wire \in Seq(Methods \X Keys) /\ wire # <<>> /\ wire' = Tail(wire) /\ Head(wire)[1] = m /\ Cut
      /\ link \in BOOLEAN
  BY DEF Request, IInv, Types
<1>2. wire' \in Seq(Methods \X Keys) /\ Len(wire) \in Nat \ {0} /\ wire[1] = Head(wire) /\ wire[1] \in Methods \X Keys
  BY <1>1, Shifted
<1>3. link  BY <1>1 DEF Cut
<1> QED  BY <1>1, <1>2, <1>3

\* Vty.shell opens a terminal with a descriptor that nobody has.
LEMMA ServeOpen ==
  ASSUME IInv, Request("open"), Open(Head(wire)[2]), UNCHANGED <<clientVars, server, link>>
  PROVE  IInv'
<1> USE DEF Before, Early, Ended, Over
<1>0. PICK k \in Keys : /\ wire[1] = <<"open", k>> /\ wire # <<>> /\ wire' = Tail(wire) /\ link
                        /\ wire' \in Seq(Methods \X Keys) /\ 1 \in 1..Len(wire) /\ k = Head(wire)[2]
  BY Served
<1>a. Open(k)  BY <1>0 DEF Open
<1>1. /\ vty[k] = "none" /\ vty' = [vty EXCEPT ![k] = "starting"]
      /\ UNCHANGED <<child, reader, waits, producer, made, sent, stuck>>
      /\ slave' = [slave EXCEPT ![k] = (k \in Ttys)]
  BY <1>a DEF Open
<1>2. \/ k \in Ttys /\ \E f \in Fds : (\A j \in Keys : master[j] # f) /\ master' = [master EXCEPT ![k] = f]
      \/ k \notin Ttys /\ master' = master
  BY <1>a DEF Open, Free
<1>3. /\ VtyTypes /\ Phase(k) /\ Owns(k) /\ Drained(k) /\ ClientTypes /\ Distinct /\ Wire
      /\ vty \in [Keys -> {"none", "starting", "open", "releasing", "gone"}] /\ wire \in Seq(Methods \X Keys)
      /\ master \in [Keys -> Fds \union {0}] /\ slave \in [Keys -> BOOLEAN]
  BY <1>0 DEF IInv, Types, VtyTypes, VtyTypeOK
<1>4. /\ vty' \in [Keys -> {"none", "starting", "open", "releasing", "gone"}]
      /\ master' \in [Keys -> Fds \union {0}] /\ slave' \in [Keys -> BOOLEAN]
  <2>1. master' \in [Keys -> Fds \union {0}]  BY <1>2, <1>3
  <2>0. (k \in Ttys) \in BOOLEAN  OBVIOUS
  <2>2. slave' \in [Keys -> BOOLEAN]  BY <1>1, <1>3, <2>0
  <2> QED  BY <1>1, <1>3, <2>1, <2>2
<1>5. VtyTypes'  BY <1>1, <1>3, <1>4 DEF VtyTypes, VtyTypeOK
<1>6. \A j \in Keys : Apart(k, j)
  <2>1. \A j \in Keys : j # k => master'[j] = master[j]  BY <1>2, <1>3
  <2> QED  BY <1>1, <1>3, <2>1 DEF Apart, clientVars
<1>7. ASSUME NEW j \in Keys PROVE Reading(j)'
  <2>1. Reading(j) /\ Phase(j) /\ Apart(k, j)  BY <1>6 DEF IInv
  <2>2. producer[j] = "reading" => (vty[j] = "open" \/ ignored[j]) /\ j # k
    BY <1>0, <1>1, <2>1 DEF Reading, Phase
  <2> QED  BY <1>1, <2>1, <2>2 DEF Reading, Apart
<1>8. Distinct'
  <2>1. CASE k \in Ttys
    <3>1. PICK f \in Fds : (\A j \in Keys : master[j] # f) /\ master' = [master EXCEPT ![k] = f]  BY <1>2, <2>1
    <3> QED  BY <1>0, <1>3, <3>1, NoFd DEF Distinct
  <2>2. CASE k \notin Ttys  BY <1>2, <1>3, <2>2 DEF Distinct
  <2> QED  BY <2>1, <2>2
<1>9. Wire'
  <2>1. \A j \in Keys : /\ vty[j] = "none" /\ wire[1] # <<"open", j>> => vty'[j] = "none"
                        /\ producer[j] \notin Active /\ wire[1] # <<"output", j>> => producer'[j] \notin Active
                        /\ wire[1] = <<"release", j>> => producer'[j] \notin Active \/ ignored'[j]
                        /\ wire[1] # <<"release", j>> => ignored'[j] = ignored[j]
    BY <1>0, <1>1, <1>3 DEF clientVars
  <2> QED  BY <1>0, <1>3, <2>1, WireServed DEF clientVars
<1>10. Phase(k)'
  <2>1. k \in Ttys => master'[k] # 0  BY <1>0, <1>2, <1>3, NoFd
  <2>2. k \notin Ttys => master'[k] = 0  BY <1>2, <1>3 DEF Phase
  <2> QED  BY <1>0, <1>1, <1>3, <2>1, <2>2 DEF Phase
<1>11. Owns(k)'
  <2>1. OpenSent(1, k)  BY <1>0, <1>3 DEF Wire
  <2>2. client[k] \notin Before /\ (client[k] \in Ended => hurried[k])  BY <1>0, <2>1 DEF OpenSent
  <2> QED  BY <1>0, <1>1, <1>3, <2>2 DEF Owns, clientVars
<1>12. Drained(k)'  BY <1>1, <1>3 DEF Drained, clientVars
<1>13. Cut' /\ answer' \in [Keys -> {"none", "ok", "error"}] /\ ignored' \in [Keys -> BOOLEAN]
  BY <1>0, <1>3 DEF Cut, ClientTypes, clientVars
<1> QED
  BY <1>0, <1>5, <1>6, <1>7, <1>8, <1>9, <1>10, <1>11, <1>12, <1>13, SessionStep DEF clientVars

\* The receive loop makes the task of the output.
LEMMA ServeOutput ==
  ASSUME IInv, Request("output"), Ask(Head(wire)[2]), UNCHANGED <<clientVars, server, link>>
  PROVE  IInv'
<1> USE DEF Before, Early, Ended, Over
<1>0. PICK k \in Keys : /\ wire[1] = <<"output", k>> /\ wire # <<>> /\ wire' = Tail(wire) /\ link
                        /\ wire' \in Seq(Methods \X Keys) /\ 1 \in 1..Len(wire) /\ k = Head(wire)[2]
  BY Served
<1>1. /\ UNCHANGED <<vty, child, master, slave, reader, waits, made, sent, stuck>> /\ producer[k] = "none"
      /\ producer' = [producer EXCEPT ![k] = "asked"]
  BY <1>0 DEF Ask
<1>2. /\ VtyTypes /\ Phase(k) /\ Owns(k) /\ Drained(k) /\ ClientTypes /\ Distinct /\ Wire
      /\ producer \in [Keys -> {"none", "asked", "reading", "done"}] /\ wire \in Seq(Methods \X Keys)
  BY <1>0 DEF IInv, Types, VtyTypes, VtyTypeOK
<1>3. client[k] \notin Early
  <2>1. OutputSent(1, k)  BY <1>0, <1>2 DEF Wire
  <2> QED  BY <1>0, <2>1 DEF OutputSent
<1>4. VtyTypes'  BY <1>1, <1>2 DEF VtyTypes, VtyTypeOK
<1>5. \A j \in Keys : Apart(k, j)  BY <1>1, <1>2 DEF Apart, clientVars
<1>6. ASSUME NEW j \in Keys PROVE Reading(j)'
  <2>1. Reading(j)  BY DEF IInv
  <2>2. producer'[j] = "reading" => producer[j] = "reading"  BY <1>1, <1>2
  <2>3. producer[j] = "reading" => vty[j] = "open" \/ ignored[j]  BY <1>0, <2>1 DEF Reading
  <2> QED  BY <1>1, <2>1, <2>2, <2>3 DEF Reading, clientVars
<1>7. Distinct'  BY <1>1, <1>2 DEF Distinct
<1>8. Wire'
  <2>1. \A j \in Keys : /\ vty[j] = "none" /\ wire[1] # <<"open", j>> => vty'[j] = "none"
                        /\ producer[j] \notin Active /\ wire[1] # <<"output", j>> => producer'[j] \notin Active
                        /\ wire[1] = <<"release", j>> => producer'[j] \notin Active \/ ignored'[j]
                        /\ wire[1] # <<"release", j>> => ignored'[j] = ignored[j]
    BY <1>0, <1>1, <1>2 DEF clientVars
  <2> QED  BY <1>0, <1>2, <2>1, WireServed DEF clientVars
<1>9. Phase(k)'  BY <1>1, <1>2 DEF Phase
<1>10. Owns(k)'  BY <1>0, <1>1, <1>2, <1>3 DEF Owns, clientVars
<1>11. Drained(k)'  BY <1>1, <1>2 DEF Drained, clientVars
<1>12. Cut' /\ answer' \in [Keys -> {"none", "ok", "error"}] /\ ignored' \in [Keys -> BOOLEAN]
  BY <1>0, <1>2 DEF Cut, ClientTypes, clientVars
<1> QED
  BY <1>0, <1>4, <1>5, <1>6, <1>7, <1>8, <1>9, <1>10, <1>11, <1>12, SessionStep DEF clientVars

\* Vty.output begins: it finds its session, and its read waits on the terminal.
LEMMA OutputBegins ==
  ASSUME IInv, NEW k \in Keys, Output(k), UNCHANGED <<clientVars, server, link, wire>>
  PROVE  IInv'
<1> USE DEF Before, Early, Ended, Over
<1>1. /\ UNCHANGED <<vty, child, master, slave, made, sent, stuck>> /\ producer[k] = "asked"
      /\ IF vty[k] = "open"
         THEN /\ producer' = [producer EXCEPT ![k] = "reading"] /\ waits' = [waits EXCEPT ![k] = master[k]]
              /\ reader' = IF k \in Ttys THEN [reader EXCEPT ![master[k]] = k] ELSE reader
         ELSE producer' = [producer EXCEPT ![k] = "done"] /\ UNCHANGED <<waits, reader>>
  BY DEF Output
<1>2. /\ VtyTypes /\ Phase(k) /\ Owns(k) /\ Drained(k) /\ ClientTypes /\ Distinct /\ Wire
      /\ producer \in [Keys -> {"none", "asked", "reading", "done"}] /\ wire \in Seq(Methods \X Keys)
      /\ master \in [Keys -> Fds \union {0}] /\ waits \in [Keys -> Fds \union {0}]
      /\ reader \in [Fds -> Keys \union {Nobody}] /\ vty[k] \in {"none", "starting", "open", "releasing", "gone"}
  BY DEF IInv, Types, VtyTypes, VtyTypeOK
<1>4. VtyTypes'
  <2>1. reader' \in [Fds -> Keys \union {Nobody}]  BY <1>1, <1>2
  <2>2. waits' \in [Keys -> Fds \union {0}] /\ producer' \in [Keys -> {"none", "asked", "reading", "done"}]  BY <1>1, <1>2
  <2> QED  BY <1>1, <1>2, <2>1, <2>2 DEF VtyTypes, VtyTypeOK
<1>5. \A j \in Keys : Apart(k, j)  BY <1>1, <1>2 DEF Apart, clientVars
<1>6. ASSUME NEW j \in Keys PROVE Reading(j)'
  <2>1. Reading(j) /\ Phase(j) /\ Apart(k, j)  BY <1>5 DEF IInv
  <2>2. CASE j = k
    <3>1. CASE vty[k] = "open"
      <4>1. producer'[k] = "reading" /\ waits'[k] = master[k] /\ vty'[k] = "open" /\ master' = master
        BY <1>1, <1>2, <3>1
      <4>2. k \in Ttys => reader'[master[k]] = k
        BY <1>1, <1>2, <3>1 DEF Phase
      <4> QED  BY <2>2, <4>1, <4>2 DEF Reading
    <3>2. CASE vty[k] # "open"
      <4>1. producer'[k] = "done"  BY <1>1, <1>2, <3>2
      <4> QED  BY <2>2, <4>1 DEF Reading
    <3> QED  BY <3>1, <3>2
  <2>3. CASE j # k
    <3>2. vty[j] = "open" /\ j \in Ttys => master[j] \in Fds /\ master[j] # master[k]
      BY <1>2, <2>1, <2>3 DEF Distinct, Phase
    <3>3. reader' = reader \/ reader' = [reader EXCEPT ![master[k]] = k]  BY <1>1
    <3>4. vty[j] = "open" /\ j \in Ttys => reader'[master[j]] = reader[master[j]]  BY <1>2, <3>2, <3>3
    <3> QED  BY <1>1, <2>1, <2>3, <3>4 DEF Reading, Apart
  <2> QED  BY <2>2, <2>3
<1>7. Distinct'  BY <1>1, <1>2 DEF Distinct
<1>8. Wire'
  <2>1. \A j \in Keys : Keeps(j)  BY <1>1, <1>2 DEF Keeps, clientVars, Active
  <2> QED  BY <2>1, WireKept DEF IInv
<1>9. Phase(k)'
  <2>1. k \notin Ttys => waits'[k] = 0  BY <1>1, <1>2 DEF Phase
  <2>2. vty[k] \in {"none", "starting"} => producer'[k] # "reading"  BY <1>1, <1>2
  <2> QED  BY <1>1, <1>2, <2>1, <2>2 DEF Phase
<1>10. Owns(k)'  BY <1>1, <1>2 DEF Owns, clientVars
<1>11. Drained(k)'
  <2>1. link /\ client[k] = "bridge" => producer'[k] # "done"  BY <1>1, <1>2 DEF Owns
  <2> QED  BY <1>1, <1>2, <2>1 DEF Drained, clientVars
<1>12. /\ answer' \in [Keys -> {"none", "ok", "error"}] /\ wire' \in Seq(Methods \X Keys)
       /\ ignored' \in [Keys -> BOOLEAN] /\ Cut'
  BY <1>2 DEF ClientTypes, clientVars, IInv, Cut
<1> QED
  BY <1>4, <1>5, <1>6, <1>7, <1>8, <1>9, <1>10, <1>11, <1>12, SessionStep DEF clientVars

\* The release of a stream removes the reader of its descriptor: that number
\* is still its own, or nobody's.
LEMMA ServeRelease ==
  ASSUME IInv, NEW k \in Keys, Request("release"), k = Head(wire)[2], CancelOutput(k),
         ignored' = [ignored EXCEPT ![k] = ~Begun(k)],
         UNCHANGED <<client, answer, got, lease, fds, nonblock, saved, hurried, server, link>>
  PROVE  IInv'
<1> USE DEF Before, Early, Ended, Over
<1>0. /\ wire[1] = <<"release", k>> /\ wire # <<>> /\ wire' = Tail(wire) /\ link
      /\ wire' \in Seq(Methods \X Keys) /\ 1 \in 1..Len(wire)
  BY Served
<1>1. /\ UNCHANGED <<vty, child, master, slave, made, sent, stuck>>
      /\ producer' = [producer EXCEPT ![k] = IF @ = "asked" THEN @ ELSE "done"]
      /\ IF producer[k] = "reading"
         THEN RemoveReader(waits[k]) /\ waits' = [waits EXCEPT ![k] = 0]
         ELSE UNCHANGED <<reader, waits>>
  BY DEF CancelOutput
<1>a. ignored' = [ignored EXCEPT ![k] = (producer[k] = "asked")]  BY DEF Begun
<1>2. /\ VtyTypes /\ Phase(k) /\ Owns(k) /\ Drained(k) /\ ClientTypes /\ Distinct /\ Wire /\ Reading(k)
      /\ producer \in [Keys -> {"none", "asked", "reading", "done"}] /\ wire \in Seq(Methods \X Keys)
      /\ master \in [Keys -> Fds \union {0}] /\ waits \in [Keys -> Fds \union {0}]
      /\ reader \in [Fds -> Keys \union {Nobody}] /\ waits[k] \in Fds \union {0}
  BY <1>0 DEF IInv, Types, VtyTypes, VtyTypeOK
<1>3. client[k] \in Over /\ ~ignored[k]
  <2>1. LeaveSent(1, k) /\ ReleaseSent(1, k)  BY <1>0, <1>2 DEF Wire
  <2> QED  BY <1>0, <2>1 DEF LeaveSent, ReleaseSent
<1>4. VtyTypes'
  <2>1. reader' \in [Fds -> Keys \union {Nobody}]  BY <1>1, <1>2, ReaderType
  <2>2. waits' \in [Keys -> Fds \union {0}] /\ producer' \in [Keys -> {"none", "asked", "reading", "done"}]  BY <1>1, <1>2
  <2> QED  BY <1>1, <1>2, <2>1, <2>2 DEF VtyTypes, VtyTypeOK
<1>5. \A j \in Keys : Apart(k, j)  BY <1>1, <1>a, <1>2 DEF Apart, ClientTypes
<1>6. ASSUME NEW j \in Keys PROVE Reading(j)'
  <2>1. Reading(j) /\ Phase(j) /\ Apart(k, j)  BY <1>5 DEF IInv
  <2>2. CASE j = k
    <3>1. producer'[k] \in {"asked", "done"}  BY <1>1, <1>2
    <3> QED  BY <2>2, <3>1 DEF Reading
  <2>3. CASE j # k
    <3>1. producer[j] = "reading" => vty[j] = "open" \/ ignored[j]  BY <1>0, <2>1, <2>3 DEF Reading
    <3>2. producer[k] = "reading" /\ waits[k] # 0 => master[j] # waits[k]
      BY <1>2, <1>3, <2>3 DEF Reading, Distinct
    <3>3. producer[j] = "reading" /\ vty[j] = "open" /\ j \in Ttys => reader'[master[j]] = j
      <4>1. CASE producer[k] = "reading"  BY <1>1, <1>2, <2>1, <3>2, <4>1, ReaderRemoved
      <4>2. CASE producer[k] # "reading"  BY <1>1, <2>1, <4>2 DEF Reading
      <4> QED  BY <4>1, <4>2
    <3> QED  BY <1>1, <2>1, <2>3, <3>1, <3>3 DEF Reading, Apart
  <2> QED  BY <2>2, <2>3
<1>7. Distinct'  BY <1>1, <1>2 DEF Distinct
<1>8. Wire'
  <2>1. \A j \in Keys : /\ vty[j] = "none" /\ wire[1] # <<"open", j>> => vty'[j] = "none"
                        /\ producer[j] \notin Active /\ wire[1] # <<"output", j>> => producer'[j] \notin Active
                        /\ wire[1] = <<"release", j>> => producer'[j] \notin Active \/ ignored'[j]
                        /\ wire[1] # <<"release", j>> => ignored'[j] = ignored[j]
    <3> TAKE j \in Keys
    <3>1. ignored \in [Keys -> BOOLEAN] /\ (wire[1] = <<"release", j>> => j = k)  BY <1>0, <1>2 DEF ClientTypes
    <3>2. CASE j = k
      <4>1. producer'[k] = (IF producer[k] = "asked" THEN "asked" ELSE "done")
            /\ ignored'[k] = (producer[k] = "asked")
        BY <1>1, <1>a, <1>2, <3>1
      <4>2. vty' = vty /\ wire[1] = <<"release", j>> /\ wire[1] # <<"open", j>>  BY <1>0, <1>1, <3>2
      <4>3. producer[k] \notin Active => producer'[k] \notin Active  BY <4>1 DEF Active
      <4>4. producer'[k] \notin Active \/ ignored'[k]  BY <4>1 DEF Active
      <4> QED  BY <3>2, <4>2, <4>3, <4>4
    <3>3. CASE j # k
      <4>1. UNCHANGED <<producer[j], ignored[j], vty[j]>>  BY <1>1, <1>a, <1>2, <3>1, <3>3
      <4> QED  BY <3>1, <3>3, <4>1
    <3> QED  BY <3>2, <3>3
  <2> QED  BY <1>0, <1>2, <2>1, WireServed
<1>9. Phase(k)'  BY <1>1, <1>2 DEF Phase
<1>10. Owns(k)'  BY <1>0, <1>1, <1>2, <1>3 DEF Owns
<1>11. Drained(k)'  BY <1>1, <1>2, <1>3 DEF Drained
<1>12. Cut' /\ answer' \in [Keys -> {"none", "ok", "error"}] /\ ignored' \in [Keys -> BOOLEAN]
  BY <1>0, <1>a, <1>2 DEF Cut, ClientTypes
<1> QED
  BY <1>0, <1>4, <1>5, <1>6, <1>7, <1>8, <1>9, <1>10, <1>11, <1>12, SessionStep

\* Vty.close takes the terminal away, with whatever waits on it.  A read that
\* is left behind has its release next on the wire.
LEMMA ServeClose ==
  ASSUME IInv, Request("close"), Close(Head(wire)[2]), UNCHANGED <<clientVars, server, link>>
  PROVE  IInv'
<1> USE DEF Before, Early, Ended, Over
<1>0. PICK k \in Keys : /\ wire[1] = <<"close", k>> /\ wire # <<>> /\ wire' = Tail(wire) /\ link
                        /\ wire' \in Seq(Methods \X Keys) /\ 1 \in 1..Len(wire) /\ k = Head(wire)[2]
  BY Served
<1>1. /\ UNCHANGED <<child, slave, waits, producer>> /\ stuck' = [stuck EXCEPT ![k] = FALSE]
      /\ IF vty[k] = "open"
         THEN /\ vty' = [vty EXCEPT ![k] = "releasing"] /\ RemoveReader(master[k])
              /\ master' = [master EXCEPT ![k] = 0] /\ Discard(k)
         ELSE UNCHANGED <<vty, master, reader, made, sent>>
  BY <1>0 DEF Close, ReleaseMaster, RemoveReader, Discard
<1>2. /\ VtyTypes /\ Phase(k) /\ Owns(k) /\ Drained(k) /\ ClientTypes /\ Distinct /\ Wire /\ Reading(k)
      /\ vty \in [Keys -> {"none", "starting", "open", "releasing", "gone"}] /\ wire \in Seq(Methods \X Keys)
      /\ master \in [Keys -> Fds \union {0}] /\ master[k] \in Fds \union {0}
      /\ reader \in [Fds -> Keys \union {Nobody}]
      /\ made \in [Keys -> Nat] /\ sent \in [Keys -> Nat] /\ MaxOut \in Nat
      /\ \A j \in Keys : sent[j] <= made[j] /\ made[j] <= MaxOut
  BY <1>0, VtyConstants DEF IInv, Types, VtyTypes, VtyTypeOK
<1>3. client[k] \in Over /\ Paired(1, k)
  <2>1. LeaveSent(1, k) /\ CloseSent(1, k)  BY <1>0, <1>2 DEF Wire
  <2> QED  BY <1>0, <2>1 DEF LeaveSent, CloseSent
<1>4. \/ made' = made /\ sent' = sent
      \/ made' = [made EXCEPT ![k] = 0] /\ sent' = [sent EXCEPT ![k] = 0]
  BY <1>1 DEF Discard
<1>5. VtyTypes'
  <2>1. reader' \in [Fds -> Keys \union {Nobody}]  BY <1>1, <1>2, ReaderType
  <2>2. /\ made' \in [Keys -> Nat] /\ sent' \in [Keys -> Nat]
        /\ \A j \in Keys : sent'[j] <= made'[j] /\ made'[j] <= MaxOut
    <3>1. CASE made' = made /\ sent' = sent  BY <1>2, <3>1
    <3>2. CASE made' = [made EXCEPT ![k] = 0] /\ sent' = [sent EXCEPT ![k] = 0]  BY <1>2, <3>2
    <3> QED  BY <1>4, <3>1, <3>2
  <2>3. /\ vty' \in [Keys -> {"none", "starting", "open", "releasing", "gone"}]
        /\ master' \in [Keys -> Fds \union {0}]
    BY <1>1, <1>2
  <2> QED  BY <1>1, <1>2, <2>1, <2>2, <2>3 DEF VtyTypes, VtyTypeOK
<1>6. \A j \in Keys : Apart(k, j)  BY <1>1, <1>2, <1>4 DEF Apart, clientVars
<1>7. ASSUME NEW j \in Keys PROVE Reading(j)'
  <2>1. Reading(j) /\ Phase(j) /\ Apart(k, j)  BY <1>6 DEF IInv
  <2>2. producer[j] = "reading" => vty[j] = "open" \/ ignored[j]  BY <1>0, <2>1 DEF Reading
  <2>3. CASE j = k
    <3>a. ignored' = ignored /\ producer' = producer /\ waits' = waits  BY <1>1 DEF clientVars
    <3>b. CASE ignored[k]
      <4>1. vty'[k] # "open"  BY <1>1, <1>2
      <4> QED  BY <2>3, <3>a, <3>b, <4>1 DEF Reading
    <3>c. CASE producer[k] # "reading"  BY <2>3, <3>a, <3>c DEF Reading
    <3> SUFFICES ASSUME producer[k] = "reading", ~ignored[k] PROVE Reading(k)'  BY <2>3, <3>b, <3>c
    <3>1. vty[k] = "open" /\ vty'[k] = "releasing" /\ waits'[k] = master[k] /\ master' = [master EXCEPT ![k] = 0]
      BY <1>1, <1>2, <2>1, <2>2, <2>3 DEF Reading
    <3>2. 1 < Len(wire) /\ wire[2] = <<"release", k>>  BY <1>0, <1>3 DEF Paired, Active
    <3>3. wire' # <<>> /\ wire'[1] = <<"release", k>>
      <4>1. /\ Len(wire) \in Nat \ {0} /\ Len(wire') = Len(wire) - 1
            /\ \A i \in 1..Len(wire') : wire'[i] = wire[i + 1]
        BY <1>0, <1>2, Shifted
      <4>2. 1 \in 1..Len(wire')  BY <3>2, <4>1
      <4> QED  BY <3>2, <4>1, <4>2
    <3>4. waits'[k] # 0 => \A i \in Keys : master'[i] # waits'[k]  BY <1>2, <3>1 DEF Distinct
    <3> QED  BY <3>1, <3>3, <3>4 DEF Reading
  <2>4. CASE j # k
    <3>1. master[k] # 0 => master[j] # master[k]  BY <1>2, <2>4 DEF Distinct
    <3>2. producer[j] = "reading" /\ vty[j] = "open" /\ j \in Ttys => reader'[master[j]] = j
      <4>1. CASE vty[k] = "open"  BY <1>1, <1>2, <2>1, <3>1, <4>1, ReaderRemoved
      <4>2. CASE vty[k] # "open"  BY <1>1, <2>1, <4>2 DEF Reading
      <4> QED  BY <4>1, <4>2
    <3> QED  BY <1>1, <2>1, <2>2, <2>4, <3>2 DEF Reading, Apart
  <2> QED  BY <2>3, <2>4
<1>8. Distinct'
  <2>1. \A j \in Keys : master'[j] = master[j] \/ (j = k /\ master'[j] = 0)  BY ONLY <1>1, <1>2
  <2> QED  BY ONLY <2>1, <1>2 DEF Distinct
<1>9. Wire'
  <2>1. \A j \in Keys : /\ vty[j] = "none" /\ wire[1] # <<"open", j>> => vty'[j] = "none"
                        /\ producer[j] \notin Active /\ wire[1] # <<"output", j>> => producer'[j] \notin Active
                        /\ wire[1] = <<"release", j>> => producer'[j] \notin Active \/ ignored'[j]
                        /\ wire[1] # <<"release", j>> => ignored'[j] = ignored[j]
    BY <1>0, <1>1, <1>2 DEF clientVars
  <2> QED  BY <1>0, <1>2, <2>1, WireServed DEF clientVars
<1>10. Phase(k)'  BY <1>1, <1>2 DEF Phase
<1>11. Owns(k)'  BY <1>0, <1>1, <1>2, <1>3 DEF Owns, clientVars
<1>12. Drained(k)'  BY <1>1, <1>2, <1>3 DEF Drained, clientVars
<1>13. Cut' /\ answer' \in [Keys -> {"none", "ok", "error"}] /\ ignored' \in [Keys -> BOOLEAN]
  BY <1>0, <1>2 DEF Cut, ClientTypes, clientVars
<1> QED
  BY <1>0, <1>5, <1>6, <1>7, <1>8, <1>9, <1>10, <1>11, <1>12, <1>13, SessionStep DEF clientVars

-----------------------------------------------------------------------------
(* The theorems                                                             *)

\* Nothing has happened yet.
LEMMA InitInv == Init => IInv
<1> SUFFICES ASSUME Init PROVE IInv  OBVIOUS
<1> USE DEF Init, VtyInit, Clients
<1>0. MaxOut \in Nat  BY VtyConstants
<1>1. VtyTypes  BY <1>0 DEF VtyTypes, VtyTypeOK
<1>2. ClientTypes  BY DEF ClientTypes, Before, Early, Over, Ended
<1>3. link \in BOOLEAN /\ wire \in Seq(Methods \X Keys)  OBVIOUS
<1>4. Distinct /\ Cut /\ Wire  BY DEF Distinct, Cut, Wire
<1>5. ASSUME NEW k \in Keys PROVE Phase(k) /\ Reading(k) /\ Owns(k) /\ Holds(k) /\ Drained(k)
  <2>1. Phase(k) /\ Reading(k)  BY DEF Phase, Reading
  <2>2. Owns(k)  BY DEF Owns, Before, Early, Over, Ended
  <2>3. Holds(k)  BY DEF Holds
  <2>4. Drained(k)  BY DEF Drained
  <2> QED  BY <2>1, <2>2, <2>3, <2>4
<1> QED  BY <1>1, <1>2, <1>3, <1>4, <1>5 DEF IInv, Types

\* Every step keeps the invariant.
LEMMA NextInv == IInv /\ [Next]_vars => IInv'
<1> SUFFICES ASSUME IInv, [Next]_vars PROVE IInv'  OBVIOUS
<1>1. CASE Serve
  <2>1. UNCHANGED <<client, answer, got, lease, fds, nonblock, saved, hurried, server, link>>  BY <1>1 DEF Serve
  <2>2. UNCHANGED ignored => UNCHANGED <<clientVars, server, link>>  BY <2>1 DEF clientVars
  <2> QED  BY <1>1, <2>1, <2>2, ServeOpen, ServeOutput, ServeRelease, ServeClose DEF Serve
<1>2. CASE Stop \/ Stopped  BY <1>2, StopStep
<1>3. CASE LoseLink  BY <1>3, LoseLinkStep
<1>4. ASSUME NEW c \in Keys, Peer(c) \/ Program(c) PROVE IInv'
  BY <1>4, OpenedStep, QuietStep, OutputBegins, ReadStep DEF Peer, Program, Session
<1>5. ASSUME NEW c \in Keys, ClientStep(c) PROVE IInv'
  BY <1>5, CollectStep, PlainMoves, SettleStep, OpenShellStep, FinishStep DEF ClientStep
<1>6. ASSUME NEW c \in Keys, Accept(c) \/ NoSession(c) \/ Sftp(c) \/ BridgeEnds(c) PROVE IInv'
  BY <1>6, PlainMoves
<1>7. ASSUME NEW c \in Keys, NewSession(c) PROVE IInv'  BY <1>7, NewSessionStep
<1>8. ASSUME NEW c \in Keys, Input(c) PROVE IInv'  BY <1>8, QuietStep DEF Input
<1>9. CASE UNCHANGED vars
  <2>1. UNCHANGED <<vtyVars, answer, lease, fds, nonblock, saved, ignored, link, wire, client, hurried, got, server>>
    BY <1>9 DEF vars, clientVars
  <2>2. ClientTypes'  BY <2>1 DEF IInv, Types, ClientTypes
  <2>3. \A k \in Keys : Moved(k)  BY <2>1 DEF Moved
  <2> QED  BY <2>1, <2>2, <2>3, MovesStep
<1> QED  BY <1>1, <1>2, <1>3, <1>4, <1>5, <1>6, <1>7, <1>8, <1>9 DEF Next, Clients

\* What the invariant says of the runs' properties.
LEMMA InvSafe == IInv => (OwnTerminals => SessionsSafe) /\ OutputBeforeExit
<1> SUFFICES ASSUME IInv PROVE (OwnTerminals => SessionsSafe) /\ OutputBeforeExit  OBVIOUS
<1>1. TypeOK
  BY DEF IInv, Types, VtyTypes, ClientTypes, TypeOK, Clients, Before, Early, Over, Ended
<1>2. OwnReader  BY DEF IInv, OwnReader, Reading
<1>3. NoVtyLeft  BY DEF IInv, NoVtyLeft, Phase
<1>4. OwnTerminals => LeavesNothing
  <2> SUFFICES ASSUME OwnTerminals, NEW c \in Keys, client[c] = "done"
               PROVE  /\ ~lease[c] /\ ~fds[c] /\ nonblock[Terminal[c]] = FALSE
                      /\ ~hurried[c] => vty[c] \in {"none", "gone"}
    BY DEF LeavesNothing, Clients
  <2>1. Holds(c) /\ Owns(c)  BY DEF IInv
  <2>2. ~lease[c] /\ ~fds[c] /\ ~nonblock[Terminal[c]]  BY <2>1 DEF Holds
  <2>3. nonblock[Terminal[c]] \in BOOLEAN  BY DEF IInv, Types, ClientTypes
  <2>4. ~hurried[c] => vty[c] \in {"none", "gone"}  BY <2>1 DEF Owns, Ended
  <2> QED  BY <2>2, <2>3, <2>4
<1>5. OutputBeforeExit  BY DEF IInv, OutputBeforeExit, Drained, Clients
<1> QED  BY <1>1, <1>2, <1>3, <1>4, <1>5 DEF SessionsSafe

\* Sessions that share an event loop and a numbering of descriptors never take
\* each other's readers, and leave nothing behind: for every number of clients,
\* each with a terminal of its own user, and whenever a client disconnects, a
\* deadline passes, the server stops or the connection is lost.  A close that
\* has returned has waited for its child, or given it up after SIGKILL.
THEOREM SessionsKeepApart == OwnTerminals /\ Spec => []SessionsSafe
<1> SUFFICES ASSUME OwnTerminals PROVE Spec => []SessionsSafe  OBVIOUS
<1>1. IInv => SessionsSafe  BY InvSafe
<1> QED  BY <1>1, InitInv, NextInv, PTL DEF Spec

\* A client is told the status of its command only when everything that the
\* command wrote has been written to the client, however the end of the stream,
\* the exit of the child and the loss of the connection fall.
THEOREM StatusIsLast == Spec => []OutputBeforeExit
  BY InitInv, NextInv, InvSafe, PTL DEF Spec
=============================================================================
