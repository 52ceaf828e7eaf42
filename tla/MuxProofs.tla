----------------------------- MODULE MuxProofs ------------------------------
(***************************************************************************)
(* Theorems about MuxLaunch, and about the starts of connections in it     *)
(* (Startup): for every number of launchers, with TLS or without, every    *)
(* room of stderr and every number of kept lines.                          *)
(*                                                                         *)
(* The first part looks at one connection at a time, the second at the     *)
(* launchers and servers that share one path.                              *)
(***************************************************************************)
EXTENDS MuxLaunch, SequenceTheorems, FiniteSetTheorems, TLAPS

Locals == {"idle", "handshake", "ask", "stderr", "write", "late", "read", "ready",
           "exit", "flush", "reaping", "failed", "closed", "gone"}
Remotes == {"none", "boot", "prompt", "stdio", "handshake", "write", "read", "served", "stopped", "dead"}

\* The caller has not seen the boundary; it may still learn why; it has left.
Waiting == {"handshake", "ask", "write", "late", "read"}
Learning == Waiting \union {"stderr"}
Leaving == {"exit", "flush", "reaping"}

\* The process has not come as far as our code; it has written its boundary.
Unstarted == {"none", "boot", "prompt", "stdio"}
Announced == {"read", "served", "stopped"}

\* The token is on its way; the last of them.
In(pipe, token) == \E i \in 1..Len(pipe) : pipe[i] = token
LastOf(lines) == lines[Len(lines)]

\* The values of one connection.
Sorts(c) ==
    /\ local[c] \in Locals /\ remote[c] \in Remotes
    /\ up[c] \in Seq(Tokens) /\ down[c] \in Seq(Tokens) /\ err[c] \in Seq(Tokens)
    /\ said[c] \in Seq(Tokens) /\ spoken[c] \in Seq(Tokens)
    /\ Len(said[c]) <= MaxLines /\ Len(spoken[c]) <= MaxLines
    /\ begun[c] \in BOOLEAN /\ hurried[c] \in BOOLEAN
    /\ told[c] \in SUBSET Tokens /\ cause[c] \in {"none", "crash", "reason"}

Maps(f) == f = [c \in Conns |-> f[c]]

StartTypes ==
    /\ Maps(local) /\ Maps(remote) /\ Maps(up) /\ Maps(down) /\ Maps(err) /\ Maps(said)
    /\ Maps(spoken) /\ Maps(begun) /\ Maps(hurried) /\ Maps(told) /\ Maps(cause)
    /\ \A c \in Conns : Sorts(c)

\* A start that has not begun has left no trace.
Unused(c) ==
    local[c] = "idle" => /\ remote[c] = "none" /\ down[c] = <<>> /\ err[c] = <<>>
                         /\ cause[c] = "none" /\ ~begun[c]

\* The process has been reaped.
Childless(c) == local[c] \in {"failed", "closed"} => remote[c] \in {"none", "dead"}

\* A frame of the log is behind the boundary.
Behind(pipe) == \A i \in 1..Len(pipe) : pipe[i] = "log" => \E j \in 1..(i - 1) : pipe[j] = "ready"

\* While the caller waits for the boundary, one that was written is unread.
Plain(c) ==
    local[c] \in Waiting => Behind(down[c]) /\ (remote[c] \in Announced => In(down[c], "ready"))

\* Who has sent a flight of TLS or the boundary has started, and does not fail
\* to start any more.
Past(c) ==
    begun[c] \/ local[c] = "ready" \/ In(down[c], "hello") \/ In(down[c], "ready") =>
        remote[c] \notin Unstarted /\ cause[c] = "none"

\* stderr ends once, with the process.
OneEnd(pipe) == \A i \in 1..Len(pipe) : pipe[i] = "eof" => i = Len(pipe)
ErrEnds(c) == OneEnd(err[c]) /\ (In(err[c], "eof") => remote[c] = "dead")

\* The cause is the last line of stderr, or the last that was kept.
Testified(pipe, lines, why) ==
    /\ Len(pipe) > 0 /\ LastOf(pipe) = "eof"
    /\ Len(pipe) = 1 => Len(lines) > 0 /\ LastOf(lines) = why
    /\ Len(pipe) # 1 => pipe[Len(pipe) - 1] = why
Evidence(c) == cause[c] # "none" /\ local[c] \in Learning => Testified(err[c], spoken[c], cause[c])

\* A caller that left in its own time has left a process that had started, or
\* knows why it had not.
Known(c) ==
    /\ cause[c] # "none" => remote[c] = "dead"
    /\ local[c] \in Leaving /\ ~hurried[c] => remote[c] \notin Unstarted \ {"none"}
    /\ cause[c] # "none" /\ ~hurried[c] /\ local[c] \in Leaving \union {"failed"} => cause[c] \in told[c]

Conn(c) ==
    /\ Unused(c) /\ Childless(c) /\ Plain(c) /\ Past(c) /\ ErrEnds(c) /\ Evidence(c) /\ Known(c)

StartInv == StartTypes /\ \A c \in Conns : Conn(c)

-----------------------------------------------------------------------------
(* Sequences of tokens                                                      *)

\* The positions of a sequence without its head.
LEMMA Rest ==
  ASSUME NEW S, NEW w \in Seq(S), w # <<>>, NEW v, v = Tail(w)
  PROVE  /\ v \in Seq(S) /\ Len(v) = Len(w) - 1 /\ Len(w) \in Nat \ {0}
         /\ \A i \in 1..Len(v) : v[i] = w[i + 1]
         /\ Head(w) = w[1] /\ Head(w) \in S
  OBVIOUS

\* The positions of a sequence with one token more.
LEMMA More ==
  ASSUME NEW S, NEW w \in Seq(S), NEW t \in S, NEW v, v = w \o <<t>>
  PROVE  /\ v \in Seq(S) /\ Len(v) = Len(w) + 1 /\ Len(w) \in Nat
         /\ \A i \in 1..Len(w) : v[i] = w[i]
         /\ v[Len(v)] = t
  OBVIOUS

\* What a pipe holds after one more token.
LEMMA InMore ==
  ASSUME NEW w \in Seq(Tokens), NEW t \in Tokens, NEW v, v = w \o <<t>>, NEW x
  PROVE  In(v, x) <=> In(w, x) \/ t = x
<1>1. /\ v \in Seq(Tokens) /\ Len(v) = Len(w) + 1 /\ Len(w) \in Nat
      /\ \A i \in 1..Len(w) : v[i] = w[i]
      /\ v[Len(v)] = t
  BY More
<1>2. \A i \in 1..Len(v) : i \in 1..Len(w) \/ i = Len(v)  BY <1>1
<1>3. \A i \in 1..Len(w) : i \in 1..Len(v)  BY <1>1
<1>4. Len(v) \in 1..Len(v)  BY <1>1
<1> QED  BY <1>1, <1>2, <1>3, <1>4 DEF In

\* What a pipe holds after its head was taken.
LEMMA InRest ==
  ASSUME NEW w \in Seq(Tokens), w # <<>>, NEW v, v = Tail(w), NEW x
  PROVE  In(w, x) <=> In(v, x) \/ Head(w) = x
<1>1. /\ Len(v) = Len(w) - 1 /\ Len(w) \in Nat \ {0} /\ \A i \in 1..Len(v) : v[i] = w[i + 1]
      /\ Head(w) = w[1]
  BY Rest
<1>2. \A i \in 1..Len(w) : i = 1 \/ (i - 1 \in 1..Len(v) /\ v[i - 1] = w[i])  BY <1>1
<1>3. \A i \in 1..Len(v) : i + 1 \in 1..Len(w) /\ w[i + 1] = v[i]  BY <1>1
<1>4. 1 \in 1..Len(w) /\ w[1] = Head(w)  BY <1>1
<1>5. In(w, x) => In(v, x) \/ Head(w) = x
  <2> SUFFICES ASSUME NEW i \in 1..Len(w), w[i] = x PROVE In(v, x) \/ Head(w) = x  BY DEF In
  <2>1. CASE i = 1  BY <1>4, <2>1
  <2>2. CASE i - 1 \in 1..Len(v) /\ v[i - 1] = w[i]  BY <2>2 DEF In
  <2> QED  BY <1>2, <2>1, <2>2
<1>6. In(v, x) => In(w, x)
  <2> SUFFICES ASSUME NEW i \in 1..Len(v), v[i] = x PROVE In(w, x)  BY DEF In
  <2>1. i + 1 \in 1..Len(w) /\ w[i + 1] = x  BY <1>3
  <2> QED  BY <2>1 DEF In
<1>7. Head(w) = x => In(w, x)  BY <1>4 DEF In
<1> QED  BY <1>5, <1>6, <1>7

\* A frame of the log that comes last has the boundary before it.
LEMMA BehindMore ==
  ASSUME NEW w \in Seq(Tokens), NEW t \in Tokens, NEW v, v = w \o <<t>>, Behind(w), t = "log" => In(w, "ready")
  PROVE  Behind(v)
<1>1. /\ v \in Seq(Tokens) /\ Len(v) = Len(w) + 1 /\ Len(w) \in Nat
      /\ \A i \in 1..Len(w) : v[i] = w[i]
      /\ v[Len(v)] = t
  BY More
<1> SUFFICES ASSUME NEW i \in 1..Len(v), v[i] = "log" PROVE \E j \in 1..(i - 1) : v[j] = "ready"
  BY DEF Behind
<1>2. CASE i \in 1..Len(w)
  <2>1. PICK j \in 1..(i - 1) : w[j] = "ready"  BY <1>1, <1>2 DEF Behind
  <2>2. j \in 1..Len(w)  BY <1>2, <1>1
  <2> QED  BY <2>1, <2>2, <1>1
<1>3. CASE i = Len(v)
  <2>1. PICK j \in 1..Len(w) : w[j] = "ready"  BY <1>1, <1>3 DEF In
  <2> QED  BY <2>1, <1>1, <1>3
<1> QED  BY <1>1, <1>2, <1>3

\* A token that is not the boundary may be taken.
LEMMA BehindRest ==
  ASSUME NEW w \in Seq(Tokens), w # <<>>, NEW v, v = Tail(w), Behind(w), Head(w) # "ready"
  PROVE  Behind(v)
<1>1. /\ Len(v) = Len(w) - 1 /\ Len(w) \in Nat \ {0} /\ \A i \in 1..Len(v) : v[i] = w[i + 1]
      /\ Head(w) = w[1]
  BY Rest
<1> SUFFICES ASSUME NEW i \in 1..Len(v), v[i] = "log" PROVE \E j \in 1..(i - 1) : v[j] = "ready"
  BY DEF Behind
<1>2. i + 1 \in 1..Len(w) /\ w[i + 1] = "log"  BY <1>1
<1>3. PICK j \in 1..((i + 1) - 1) : w[j] = "ready"  BY <1>2 DEF Behind
<1>4. j # 1  BY <1>1, <1>3
<1>5. j - 1 \in 1..(i - 1) /\ j - 1 \in 1..Len(v) /\ (j - 1) + 1 = j  BY <1>1, <1>3, <1>4
<1>6. v[j - 1] = w[(j - 1) + 1]  BY <1>1, <1>5
<1>7. v[j - 1] = "ready"  BY <1>3, <1>5, <1>6
<1> QED  BY <1>5, <1>7

\* The deque keeps the line that came last.
LEMMA KeptLast ==
  ASSUME NEW w \in Seq(Tokens), NEW t \in Tokens, Len(w) <= MaxLines, NEW v, v = Kept(w, t)
  PROVE  /\ v \in Seq(Tokens) /\ Len(v) <= MaxLines /\ Len(v) > 0 /\ LastOf(v) = t
<1> DEFINE all == Append(w, t)
<1>1. /\ all \in Seq(Tokens) /\ Len(all) = Len(w) + 1 /\ Len(w) \in Nat /\ all[Len(all)] = t /\ all # <<>>
  OBVIOUS
<1>2. MaxLines \in Nat \ {0}  BY StartupConstants
<1> HIDE DEF all
<1>3. CASE Len(all) > MaxLines
  <2>1. v = Tail(all)  BY <1>3 DEF Kept, all
  <2>2. v \in Seq(Tokens) /\ Len(v) = Len(all) - 1 /\ \A i \in 1..Len(v) : v[i] = all[i + 1]
    BY <1>1, <2>1, Rest
  <2>3. Len(v) \in 1..Len(v) /\ Len(v) + 1 = Len(all)  BY <1>1, <1>2, <1>3, <2>2
  <2> QED  BY <1>1, <1>2, <1>3, <2>2, <2>3 DEF LastOf
<1>4. CASE ~(Len(all) > MaxLines)
  <2>1. v = all  BY <1>4 DEF Kept, all
  <2> QED  BY <1>1, <1>2, <1>4, <2>1 DEF LastOf
<1> QED  BY <1>3, <1>4

\* The last line of a list is among its lines.
LEMMA LastAmong ==
  ASSUME NEW w \in Seq(Tokens)
  PROVE  /\ Lines_(w) \in SUBSET Tokens
         /\ Len(w) > 0 => LastOf(w) \in Lines_(w)
<1>1. Len(w) \in Nat /\ DOMAIN w = 1..Len(w) /\ \A i \in 1..Len(w) : w[i] \in Tokens  OBVIOUS
<1> QED  BY <1>1 DEF Lines_, LastOf

-----------------------------------------------------------------------------
(* One connection moves                                                     *)

\* Only the value of c may change.
Moved(old, new, c) == new = [old EXCEPT ![c] = new[c]]
Writes(c) ==
    /\ Moved(local, local', c) /\ Moved(remote, remote', c) /\ Moved(up, up', c)
    /\ Moved(down, down', c) /\ Moved(err, err', c) /\ Moved(said, said', c)
    /\ Moved(spoken, spoken', c) /\ Moved(begun, begun', c) /\ Moved(hurried, hurried', c)
    /\ Moved(told, told', c) /\ Moved(cause, cause', c)

\* A function that is left alone, or that changes at one place.
LEMMA MovedOnly ==
  ASSUME NEW f, NEW g, NEW c \in Conns, Maps(f), Moved(f, g, c)
  PROVE  Maps(g) /\ \A d \in Conns \ {c} : g[d] = f[d]
  BY DEF Maps, Moved

\* Nothing has happened to the connection.
Same(d) ==
    /\ local'[d] = local[d] /\ remote'[d] = remote[d] /\ up'[d] = up[d] /\ down'[d] = down[d]
    /\ err'[d] = err[d] /\ said'[d] = said[d] /\ spoken'[d] = spoken[d] /\ begun'[d] = begun[d]
    /\ hurried'[d] = hurried[d] /\ told'[d] = told[d] /\ cause'[d] = cause[d]

\* What held of it still holds.
LEMMA SameKeeps ==
  ASSUME NEW d, Same(d), Sorts(d), Conn(d)
  PROVE  Sorts(d)' /\ Conn(d)'
<1>1. Sorts(d)'  BY DEF Same, Sorts
<1>2. Unused(d)' /\ Childless(d)'  BY DEF Same, Conn, Unused, Childless
<1>3. Plain(d)' /\ Past(d)'  BY DEF Same, Conn, Plain, Past
<1>4. ErrEnds(d)' /\ Evidence(d)' /\ Known(d)'  BY DEF Same, Conn, ErrEnds, Evidence, Known
<1> QED  BY <1>1, <1>2, <1>3, <1>4 DEF Conn

\* A step of connection c is a matter of c alone.
LEMMA StepKeeps ==
  ASSUME StartInv, NEW c \in Conns, Writes(c), Sorts(c)', Conn(c)'
  PROVE  StartInv'
<1>1. ASSUME NEW d \in Conns PROVE Sorts(d)' /\ Conn(d)'
  <2>1. CASE d = c  BY <2>1
  <2>2. CASE d # c
    <3>1. Same(d)  BY <2>2, MovedOnly DEF Same, Writes, StartInv, StartTypes
    <3>2. Sorts(d) /\ Conn(d)  BY DEF StartInv, StartTypes
    <3> QED  BY <3>1, <3>2, SameKeeps
  <2> QED  BY <2>1, <2>2
<1>2. /\ Maps(local)' /\ Maps(remote)' /\ Maps(up)' /\ Maps(down)' /\ Maps(err)' /\ Maps(said)'
      /\ Maps(spoken)' /\ Maps(begun)' /\ Maps(hurried)' /\ Maps(told)' /\ Maps(cause)'
  BY MovedOnly DEF Writes, StartInv, StartTypes, Maps
<1> QED  BY <1>1, <1>2 DEF StartInv, StartTypes

\* A function that is left alone counts as moved, and so does one that is
\* assigned at c.
LEMMA Assigned ==
  ASSUME NEW f, NEW c \in Conns, Maps(f)
  PROVE  /\ Moved(f, f, c)
         /\ \A e : Moved(f, [f EXCEPT ![c] = e], c) /\ [f EXCEPT ![c] = e][c] = e
  BY DEF Maps, Moved

\* The invariant of one connection.
LEMMA OfOne ==
  ASSUME StartInv, NEW c \in Conns
  PROVE  /\ Sorts(c) /\ Unused(c) /\ Childless(c) /\ Plain(c) /\ Past(c) /\ ErrEnds(c)
         /\ Evidence(c) /\ Known(c)
         /\ Maps(local) /\ Maps(remote) /\ Maps(up) /\ Maps(down) /\ Maps(err) /\ Maps(said)
         /\ Maps(spoken) /\ Maps(begun) /\ Maps(hurried) /\ Maps(told) /\ Maps(cause)
  BY DEF StartInv, StartTypes, Conn

-----------------------------------------------------------------------------
(* The process moves                                                        *)

\* What the process leaves alone
Quiet(c) ==
    /\ local'[c] = local[c] /\ said'[c] = said[c] /\ spoken'[c] = spoken[c] /\ begun'[c] = begun[c]
    /\ hurried'[c] = hurried[c] /\ told'[c] = told[c]

\* What a process that lives writes on the protocol stream
Adds(c) ==
    \/ down'[c] = down[c] /\ (local[c] \in Waiting /\ remote'[c] \in Announced => remote[c] \in Announced)
    \/ \E t \in Tokens : /\ down'[c] = down[c] \o <<t>>
                         /\ t = "log" => remote[c] \in Announced
                         /\ t \in {"hello", "ready"} => remote'[c] \notin Unstarted
                         /\ remote'[c] \in Announced => remote[c] \in Announced \/ t = "ready"

Talks(c) ==
    /\ Quiet(c) /\ cause'[c] = cause[c]
    /\ remote[c] \notin {"none", "dead"} /\ remote'[c] \notin {"none", "dead"}
    /\ remote[c] \notin Unstarted => remote'[c] \notin Unstarted
    /\ Adds(c) /\ (err'[c] = err[c] \/ err'[c] = err[c] \o <<"noise">>)

\* A process that goes on and writes keeps the invariant.
LEMMA TalksKeeps ==
  ASSUME StartInv, NEW c \in Conns, Writes(c), Sorts(c)', Talks(c)
  PROVE  StartInv'
<1>1. /\ Sorts(c) /\ Unused(c) /\ Childless(c) /\ Plain(c) /\ Past(c) /\ ErrEnds(c)
      /\ Evidence(c) /\ Known(c)
  BY OfOne
<1>2. cause[c] = "none" /\ cause'[c] = "none"  BY <1>1 DEF Known, Talks
<1>3. Unused(c)' /\ Childless(c)' /\ Evidence(c)'
  BY <1>1, <1>2 DEF Unused, Childless, Evidence, Talks, Quiet
<1>4. Known(c)'  BY <1>1, <1>2 DEF Known, Talks, Quiet, Leaving, Unstarted
<1>5. Plain(c)' /\ Past(c)'
  <2>1. CASE down'[c] = down[c] /\ (local[c] \in Waiting /\ remote'[c] \in Announced => remote[c] \in Announced)
    BY <1>1, <1>2, <2>1 DEF Plain, Past, Talks, Quiet
  <2>2. CASE \E t \in Tokens : /\ down'[c] = down[c] \o <<t>>
                               /\ t = "log" => remote[c] \in Announced
                               /\ t \in {"hello", "ready"} => remote'[c] \notin Unstarted
                               /\ remote'[c] \in Announced => remote[c] \in Announced \/ t = "ready"
    <3>1. PICK t \in Tokens : /\ down'[c] = down[c] \o <<t>>
                              /\ t = "log" => remote[c] \in Announced
                              /\ t \in {"hello", "ready"} => remote'[c] \notin Unstarted
                              /\ remote'[c] \in Announced => remote[c] \in Announced \/ t = "ready"
      BY <2>2
    <3>2. down[c] \in Seq(Tokens)  BY <1>1 DEF Sorts
    <3>3. \A x : In(down'[c], x) <=> In(down[c], x) \/ t = x  BY <3>1, <3>2, InMore
    <3>4. local[c] \in Waiting => Behind(down'[c])
      <4> SUFFICES ASSUME local[c] \in Waiting PROVE Behind(down'[c])  OBVIOUS
      <4>1. Behind(down[c]) /\ (remote[c] \in Announced => In(down[c], "ready"))  BY <1>1 DEF Plain
      <4> QED  BY <3>1, <3>2, <4>1, BehindMore
    <3>5. Plain(c)'  BY <1>1, <3>1, <3>3, <3>4 DEF Plain, Talks, Quiet
    <3>6. Past(c)'  BY <1>1, <1>2, <3>1, <3>3 DEF Past, Talks, Quiet
    <3> QED  BY <3>5, <3>6
  <2> QED  BY <2>1, <2>2 DEF Talks, Adds
<1>6. ErrEnds(c)'
  <2>1. ~In(err[c], "eof")  BY <1>1 DEF ErrEnds, Talks
  <2>2. err[c] \in Seq(Tokens) /\ "noise" \in Tokens  BY <1>1 DEF Sorts, Tokens, Lines
  <2>3. ~In(err'[c], "eof")  BY <2>1, <2>2, InMore DEF Talks
  <2> QED  BY <2>3 DEF ErrEnds, OneEnd, In
<1> QED  BY <1>3, <1>4, <1>5, <1>6, StepKeeps DEF Conn

\* A pipe of the output after a write of the process.
LEMMA OutAt ==
  ASSUME NEW c \in Conns, NEW f, Maps(f), f[c] \in Seq(Tokens), NEW s \in Seq(Tokens), NEW g, g = Out(f, c, s)
  PROVE  /\ Moved(f, g, c) /\ g[c] \in Seq(Tokens)
         /\ g[c] = IF Heard(c) THEN f[c] \o s ELSE f[c]
<1>1. CASE Heard(c)
  <2>1. g = [f EXCEPT ![c] = f[c] \o s]  BY <1>1 DEF Out
  <2>2. f[c] \o s \in Seq(Tokens)  OBVIOUS
  <2>3. Moved(f, g, c) /\ g[c] = f[c] \o s
    <3> DEFINE e == f[c] \o s
    <3>1. g = [f EXCEPT ![c] = e]  BY <2>1
    <3> HIDE DEF e
    <3>2. Moved(f, g, c) /\ g[c] = e  BY <3>1 DEF Moved, Maps
    <3> QED  BY <3>2 DEF e
  <2> QED  BY <1>1, <2>2, <2>3
<1>2. CASE ~Heard(c)  BY <1>2, Assigned DEF Out
<1> QED  BY <1>1, <1>2

\* The same for a single token.
LEMMA OutOne ==
  ASSUME NEW c \in Conns, NEW f, Maps(f), f[c] \in Seq(Tokens), NEW t \in Tokens, NEW g, g = Out(f, c, <<t>>)
  PROVE  /\ Moved(f, g, c) /\ g[c] \in Seq(Tokens)
         /\ g[c] = IF Heard(c) THEN f[c] \o <<t>> ELSE f[c]
<1>1. <<t>> \in Seq(Tokens)  OBVIOUS
<1> QED  BY <1>1, OutAt

\* A caller that waits listens.
LEMMA WaitingHears == ASSUME NEW c, ~Heard(c) PROVE local[c] \notin Learning
  BY DEF Heard, Learning, Waiting

\* The process gets one token further in its start, and writes one token or none.
Goes(c, to, t, wrote) ==
    /\ remote' = [remote EXCEPT ![c] = to]
    /\ down' = IF wrote THEN Out(down, c, <<t>>) ELSE down
    /\ up' = up \/ (up[c] # <<>> /\ up' = [up EXCEPT ![c] = Tail(@)])
    /\ err' = err \/ err' = Out(err, c, <<"noise">>)
    /\ UNCHANGED <<local, evidence, cause>>

\* Such a step keeps the invariant if the token is one that may be sent there.
LEMMA GoesKeeps ==
  ASSUME StartInv, NEW c \in Conns, NEW to \in Remotes \ {"none", "dead"}, NEW t \in Tokens, NEW wrote \in BOOLEAN,
         Goes(c, to, t, wrote), remote[c] \notin {"none", "dead"},
         remote[c] \notin Unstarted => to \notin Unstarted,
         wrote /\ t = "log" => remote[c] \in Announced,
         wrote /\ t \in {"hello", "ready"} => to \notin Unstarted,
         to \in Announced => remote[c] \in Announced \/ (wrote /\ t = "ready")
  PROVE  StartInv'
<1>1. /\ Sorts(c)
      /\ Maps(local) /\ Maps(remote) /\ Maps(up) /\ Maps(down) /\ Maps(err) /\ Maps(said)
      /\ Maps(spoken) /\ Maps(begun) /\ Maps(hurried) /\ Maps(told) /\ Maps(cause)
  BY OfOne
<1>2. up[c] \in Seq(Tokens) /\ down[c] \in Seq(Tokens) /\ err[c] \in Seq(Tokens)  BY <1>1 DEF Sorts
<1>3. "noise" \in Tokens  BY DEF Tokens, Lines
<1>4. /\ Moved(err, err', c) /\ err'[c] \in Seq(Tokens)
      /\ err'[c] = err[c] \/ err'[c] = err[c] \o <<"noise">>
  <2>1. CASE err' = err  BY <1>1, <1>2, <2>1, Assigned
  <2>2. CASE err' = Out(err, c, <<"noise">>)  BY <1>1, <1>2, <1>3, <2>2, OutOne
  <2> QED  BY <2>1, <2>2 DEF Goes
<1>5. Moved(up, up', c) /\ up'[c] \in Seq(Tokens)
  <2>1. CASE up' = up  BY <1>1, <1>2, <2>1, Assigned
  <2>2. CASE up[c] # <<>> /\ up' = [up EXCEPT ![c] = Tail(@)]
    <3>0. Tail(up[c]) \in Seq(Tokens)  BY <1>2, <2>2
    <3>1. PICK r \in Seq(Tokens) : r = Tail(up[c])  BY <3>0
    <3>2. up' = [up EXCEPT ![c] = r]  BY <2>2, <3>1
    <3> QED  BY <1>1, <3>1, <3>2 DEF Moved, Maps
  <2> QED  BY <2>1, <2>2 DEF Goes
<1>6. /\ Moved(down, down', c) /\ down'[c] \in Seq(Tokens)
      /\ down'[c] = IF wrote /\ Heard(c) THEN down[c] \o <<t>> ELSE down[c]
  <2>1. CASE wrote
    <3>1. down' = Out(down, c, <<t>>)  BY <2>1 DEF Goes
    <3> QED  BY <1>1, <1>2, <2>1, <3>1, OutOne
  <2>2. CASE ~wrote  BY <1>1, <1>2, <2>2, Assigned DEF Goes
  <2> QED  BY <2>1, <2>2
<1>7. Moved(remote, remote', c) /\ remote'[c] = to  BY <1>1, Assigned DEF Goes
<1>8. /\ Moved(local, local', c) /\ Moved(said, said', c) /\ Moved(spoken, spoken', c) /\ Moved(begun, begun', c)
      /\ Moved(hurried, hurried', c) /\ Moved(told, told', c) /\ Moved(cause, cause', c)
      /\ Quiet(c) /\ cause'[c] = cause[c]
  BY <1>1, Assigned DEF Goes, evidence, Quiet
<1>9. Writes(c)  BY <1>4, <1>5, <1>6, <1>7, <1>8 DEF Writes
<1>10. Sorts(c)'  BY <1>1, <1>4, <1>5, <1>6, <1>7, <1>8 DEF Sorts, Quiet
<1>11. Adds(c)
  <2>1. CASE wrote /\ Heard(c)  BY <1>6, <1>7, <2>1 DEF Adds
  <2>2. CASE ~wrote  BY <1>6, <1>7, <2>2 DEF Adds
  <2>3. CASE ~Heard(c)  BY <1>6, <1>7, <2>3, WaitingHears DEF Adds, Learning
  <2> QED  BY <2>1, <2>2, <2>3
<1>12. Talks(c)  BY <1>4, <1>7, <1>8, <1>11 DEF Talks
<1> QED  BY <1>9, <1>10, <1>12, TalksKeeps

\* The steps of a process that starts and serves.
LEMMA ProcessGoes ==
  ASSUME StartInv, NEW c \in Conns,
         \/ Boot(c) \/ RunCode(c) \/ FromStdio(c) \/ LogRecord(c) \/ WriteBoundaryR(c) \/ ReadBoundaryR(c)
         \/ Stops(c)
  PROVE  StartInv'
<1> USE DEF Unstarted, Announced, Remotes
<1>0. "banner" \in Tokens /\ "hello" \in Tokens /\ "log" \in Tokens /\ "ready" \in Tokens /\ "noise" \in Tokens
  BY DEF Tokens, Lines
<1>1. CASE Boot(c)
  <2>1. PICK wrote \in BOOLEAN : Goes(c, "prompt", "banner", wrote)
    <3>1. CASE UNCHANGED down
      <4>1. Goes(c, "prompt", "banner", FALSE)  BY <1>1, <3>1 DEF Boot, Goes
      <4> QED  BY <4>1
    <3>2. CASE down' = Out(down, c, <<"banner">>)
      <4>1. Goes(c, "prompt", "banner", TRUE)  BY <1>1, <3>2 DEF Boot, Goes
      <4> QED  BY <4>1
    <3> QED  BY <1>1, <3>1, <3>2 DEF Boot
  <2>2. remote[c] = "boot"  BY <1>1 DEF Boot
  <2> QED  BY <1>0, <2>1, <2>2, GoesKeeps
<1>2. CASE RunCode(c)
  <2>1. Goes(c, "stdio", "noise", FALSE)  BY <1>2 DEF RunCode, Goes
  <2>2. remote[c] = "prompt"  BY <1>2 DEF RunCode
  <2> QED  BY <1>0, <2>1, <2>2, GoesKeeps
<1>3. CASE FromStdio(c)
  <2>1. remote[c] = "stdio"  BY <1>3 DEF FromStdio
  <2>2. CASE c \in Secure
    <3>1. Goes(c, "handshake", "hello", TRUE)  BY <1>3, <2>2 DEF FromStdio, Goes
    <3> QED  BY <1>0, <2>1, <3>1, GoesKeeps
  <2>3. CASE c \notin Secure
    <3>1. Goes(c, "write", "hello", FALSE)  BY <1>3, <2>3 DEF FromStdio, Goes
    <3> QED  BY <1>0, <2>1, <3>1, GoesKeeps
  <2> QED  BY <2>2, <2>3
<1>4. CASE LogRecord(c)
  <2>1. remote[c] \in {"handshake", "write", "read", "served"}  BY <1>4 DEF LogRecord
  <2>2. remote' = [remote EXCEPT ![c] = remote[c]]  BY <1>4, OfOne DEF LogRecord, Maps
  <2>3. CASE Emits(c)
    <3>1. Goes(c, remote[c], "log", TRUE)  BY <1>4, <2>2, <2>3 DEF LogRecord, Goes
    <3>2. remote[c] = "served"  BY <2>3 DEF Emits
    <3>3. Goes(c, "served", "log", TRUE)  BY <3>1, <3>2
    <3> QED  BY <1>0, <3>2, <3>3, GoesKeeps
  <2>4. CASE ~Emits(c)
    <3>1. Goes(c, remote[c], "log", FALSE)  BY <1>4, <2>2, <2>4 DEF LogRecord, Goes
    <3>2. PICK r \in {"handshake", "write", "read", "served"} : remote[c] = r  BY <2>1
    <3>3. Goes(c, r, "log", FALSE)  BY <3>1, <3>2
    <3> QED  BY <1>0, <3>2, <3>3, GoesKeeps
  <2> QED  BY <2>3, <2>4
<1>5. CASE WriteBoundaryR(c)
  <2>1. Goes(c, "read", "ready", TRUE)  BY <1>5 DEF WriteBoundaryR, Goes
  <2>2. remote[c] = "write"  BY <1>5 DEF WriteBoundaryR
  <2> QED  BY <1>0, <2>1, <2>2, GoesKeeps
<1>6. CASE ReadBoundaryR(c)
  <2>1. PICK wrote \in BOOLEAN : Goes(c, "served", "log", wrote)
    <3>1. CASE record[c] = "pending"
      <4>1. Goes(c, "served", "log", TRUE)  BY <1>6, <3>1 DEF ReadBoundaryR, Goes
      <4> QED  BY <4>1
    <3>2. CASE record[c] # "pending"
      <4>1. Goes(c, "served", "log", FALSE)  BY <1>6, <3>2 DEF ReadBoundaryR, Goes
      <4> QED  BY <4>1
    <3> QED  BY <3>1, <3>2
  <2>2. remote[c] = "read"  BY <1>6 DEF ReadBoundaryR
  <2> QED  BY <1>0, <2>1, <2>2, GoesKeeps
<1>7. CASE Stops(c)
  <2>1. Goes(c, "stopped", "noise", FALSE)  BY <1>7 DEF Stops, Goes, pipes
  <2>2. remote[c] = "served"  BY <1>7 DEF Stops
  <2> QED  BY <1>0, <2>1, <2>2, GoesKeeps
<1> QED  BY <1>1, <1>2, <1>3, <1>4, <1>5, <1>6, <1>7

\* A line of stderr, and then its end, behind what it held.
LEMMA LineAndEnd ==
  ASSUME NEW w \in Seq(Tokens), NEW why \in Tokens, NEW u, u = w \o <<why>>, NEW v, v = u \o <<"eof">>
  PROVE  /\ Len(v) = Len(w) + 2 /\ Len(w) \in Nat /\ \A i \in 1..Len(w) : v[i] = w[i]
         /\ v[Len(v) - 1] = why /\ v[Len(v)] = "eof"
<1>0. "eof" \in Tokens  BY DEF Tokens
<1>1. /\ u \in Seq(Tokens) /\ Len(u) = Len(w) + 1 /\ Len(w) \in Nat
      /\ (\A i \in 1..Len(w) : u[i] = w[i]) /\ u[Len(u)] = why
  BY More
<1>2. Len(v) = Len(u) + 1 /\ (\A i \in 1..Len(u) : v[i] = u[i]) /\ v[Len(v)] = "eof"  BY <1>0, <1>1, More
<1>3. Len(u) \in 1..Len(u) /\ Len(v) - 1 = Len(u) /\ \A i \in 1..Len(w) : i \in 1..Len(u)  BY <1>1, <1>2
<1> QED  BY <1>1, <1>2, <1>3

\* One end, and the line, if there is one, is the last.
LEMMA ErrClosed ==
  ASSUME NEW w \in Seq(Tokens), ~In(w, "eof"), NEW s, NEW why \in Tokens \ {"eof"}, NEW v, v = w \o (s \o <<"eof">>),
         s = <<>> \/ s = <<why>>, NEW kept
  PROVE  OneEnd(v) /\ (s = <<why>> => Testified(v, kept, why))
<1>0. "eof" \in Tokens  BY DEF Tokens
<1>1. CASE s = <<>>
  <2>1. v = w \o <<"eof">>  BY <1>1
  <2>2. /\ Len(v) = Len(w) + 1 /\ Len(w) \in Nat /\ \A i \in 1..Len(w) : v[i] = w[i]
    BY <2>1, <1>0, More
  <2>3. \A i \in 1..Len(v) : i \in 1..Len(w) \/ i = Len(v)  BY <2>2
  <2> QED  BY <1>1, <2>2, <2>3 DEF OneEnd, In
<1>2. CASE s = <<why>>
  <2>1. PICK u : u = w \o <<why>>  OBVIOUS
  <2>2. v = u \o <<"eof">>  BY <1>0, <1>2, <2>1
  <2>3. /\ Len(v) = Len(w) + 2 /\ Len(w) \in Nat /\ \A i \in 1..Len(w) : v[i] = w[i]
        /\ v[Len(v) - 1] = why /\ v[Len(v)] = "eof"
    BY <2>1, <2>2, LineAndEnd
  <2>4. \A i \in 1..Len(v) : i \in 1..Len(w) \/ i = Len(v) - 1 \/ i = Len(v)  BY <2>3
  <2>5. OneEnd(v)  BY <2>3, <2>4 DEF OneEnd, In
  <2>6. Testified(v, kept, why)  BY <2>3 DEF Testified, LastOf
  <2> QED  BY <2>5, <2>6
<1> QED  BY <1>1, <1>2

\* The end of the protocol stream, perhaps behind a line or an alert.
LEMMA DownClosed ==
  ASSUME NEW w \in Seq(Tokens), NEW s, NEW t \in Tokens \ {"hello", "ready", "log"}, NEW v, v = w \o (s \o <<"eof">>),
         s = <<>> \/ s = <<t>>
  PROVE  /\ Behind(w) => Behind(v)
         /\ \A x \in {"hello", "ready"} : In(v, x) => In(w, x)
<1>0. "eof" \in Tokens  BY DEF Tokens
<1>1. CASE s = <<>>
  <2>1. v = w \o <<"eof">>  BY <1>1
  <2> QED  BY <1>0, <2>1, InMore, BehindMore
<1>2. CASE s = <<t>>
  <2> DEFINE u == w \o <<t>>
  <2>1. v = u \o <<"eof">> /\ u \in Seq(Tokens)  BY <1>0, <1>2
  <2>2. Behind(w) => Behind(u)  BY BehindMore
  <2>3. \A x \in {"hello", "ready"} : In(u, x) => In(w, x)  BY InMore
  <2> HIDE DEF u
  <2>4. Behind(u) => Behind(v)  BY <1>0, <2>1, BehindMore
  <2>5. \A x \in {"hello", "ready"} : In(v, x) => In(u, x)  BY <1>0, <2>1, InMore
  <2> QED  BY <2>2, <2>3, <2>4, <2>5
<1> QED  BY <1>1, <1>2

\* A process that ends keeps the invariant: either without a cause, or before
\* our code ran, with the cause as its last words.
LEMMA EndsKeeps ==
  ASSUME StartInv, NEW c \in Conns, NEW out, NEW lines, NEW why \in {"none", "crash", "reason"},
         Ends(c, out, lines, why), Alive(c),
         out = <<>> \/ out = <<"reason">> \/ out = <<"alert">>,
         why = "none" => lines = <<>>,
         why # "none" => lines = <<why>> /\ remote[c] \in Unstarted
  PROVE  StartInv'
<1>1. /\ Sorts(c) /\ Unused(c) /\ Childless(c) /\ Plain(c) /\ Past(c) /\ ErrEnds(c)
      /\ Evidence(c) /\ Known(c)
      /\ Maps(local) /\ Maps(remote) /\ Maps(up) /\ Maps(down) /\ Maps(err) /\ Maps(said)
      /\ Maps(spoken) /\ Maps(begun) /\ Maps(hurried) /\ Maps(told) /\ Maps(cause)
  BY OfOne
<1>2. up[c] \in Seq(Tokens) /\ down[c] \in Seq(Tokens) /\ err[c] \in Seq(Tokens)  BY <1>1 DEF Sorts
<1>3. remote[c] \notin {"none", "dead"}  BY DEF Alive
<1>4. {"crash", "reason", "alert", "eof", "noise"} \subseteq Tokens  BY DEF Tokens, Lines
<1>5. out \o <<"eof">> \in Seq(Tokens) /\ lines \o <<"eof">> \in Seq(Tokens)
  <2>1. \A t \in {"crash", "reason", "alert", "eof", "noise"} : <<t>> \in Seq(Tokens)  BY <1>4
  <2>2. <<>> \in Seq(Tokens)  OBVIOUS
  <2>3. out \in Seq(Tokens) /\ lines \in Seq(Tokens) /\ <<"eof">> \in Seq(Tokens)  BY <2>1, <2>2
  <2> QED  BY <2>3
<1>6. PICK s \in Seq(Tokens), e \in Seq(Tokens) : s = out \o <<"eof">> /\ e = lines \o <<"eof">>  BY <1>5
<1>7. /\ Moved(down, down', c) /\ down'[c] \in Seq(Tokens)
      /\ down'[c] = IF Heard(c) THEN down[c] \o s ELSE down[c]
  <2>1. down' = Out(down, c, s)  BY <1>6 DEF Ends
  <2> QED  BY <1>1, <1>2, <2>1, OutAt
<1>8. /\ Moved(err, err', c) /\ err'[c] \in Seq(Tokens)
      /\ err'[c] = IF Heard(c) THEN err[c] \o e ELSE err[c]
  <2>1. err' = Out(err, c, e)  BY <1>6 DEF Ends
  <2> QED  BY <1>1, <1>2, <2>1, OutAt
<1>9. /\ Moved(remote, remote', c) /\ remote'[c] = "dead" /\ Moved(up, up', c) /\ up'[c] = <<>>
      /\ Moved(cause, cause', c) /\ cause'[c] = why
  BY <1>1 DEF Ends, Moved, Maps
<1>10. /\ Moved(local, local', c) /\ Moved(said, said', c) /\ Moved(spoken, spoken', c) /\ Moved(begun, begun', c)
       /\ Moved(hurried, hurried', c) /\ Moved(told, told', c) /\ Quiet(c)
  BY <1>1, Assigned DEF Ends, evidence, Quiet
<1>11. Writes(c)  BY <1>7, <1>8, <1>9, <1>10 DEF Writes
<1>12. Sorts(c)'
  <2>1. <<>> \in Seq(Tokens)  OBVIOUS
  <2> QED  BY <1>1, <1>7, <1>8, <1>9, <1>10, <2>1 DEF Sorts, Quiet, Remotes
<1>13. Unused(c)' /\ Childless(c)'  BY <1>1, <1>3, <1>9, <1>10 DEF Unused, Childless, Quiet
<1>14. /\ Behind(down[c]) => Behind(down'[c])
       /\ \A x \in {"hello", "ready"} : In(down'[c], x) => In(down[c], x)
  <2>1. CASE Heard(c)
    <3>1. down'[c] = down[c] \o (out \o <<"eof">>)  BY <1>6, <1>7, <2>1
    <3>2. PICK t \in {"reason", "alert"} : out = <<>> \/ out = <<t>>  OBVIOUS
    <3> QED  BY <1>2, <1>4, <3>1, <3>2, DownClosed
  <2>2. CASE ~Heard(c)  BY <1>7, <2>2
  <2> QED  BY <2>1, <2>2
<1>15. Plain(c)'  BY <1>1, <1>9, <1>10, <1>14 DEF Plain, Quiet, Announced
<1>16. Past(c)'  BY <1>1, <1>3, <1>9, <1>10, <1>14 DEF Past, Quiet, Unstarted
<1>17. ~In(err[c], "eof")  BY <1>1, <1>3 DEF ErrEnds
<1>18. OneEnd(err'[c]) /\ (Heard(c) /\ why # "none" => Testified(err'[c], spoken'[c], why))
  <2>1. CASE Heard(c)
    <3>1. err'[c] = err[c] \o (lines \o <<"eof">>)  BY <1>6, <1>8, <2>1
    <3>2. PICK t \in {"crash", "reason"} : (why # "none" => t = why) /\ (lines = <<>> \/ lines = <<t>>)  OBVIOUS
    <3> QED  BY <1>2, <1>4, <1>17, <3>1, <3>2, ErrClosed
  <2>2. CASE ~Heard(c)  BY <1>1, <1>8, <2>2 DEF ErrEnds
  <2> QED  BY <2>1, <2>2
<1>19. ErrEnds(c)' /\ Evidence(c)'  BY <1>9, <1>10, <1>18, WaitingHears DEF ErrEnds, Evidence, Quiet
<1>20. Known(c)'  BY <1>1, <1>3, <1>9, <1>10 DEF Known, Quiet, Unstarted, Childless
<1> QED  BY <1>11, <1>12, <1>13, <1>15, <1>16, <1>19, <1>20, StepKeeps DEF Conn

\* The ways in which a process ends, and the step of the handshake that may be
\* one of them.
LEMMA ProcessEnds ==
  ASSUME StartInv, NEW c \in Conns, Crash(c) \/ StdioFails(c) \/ Verify(c) \/ InputEnds(c) \/ Dies(c)
  PROVE  StartInv'
<1>1. CASE Crash(c)
  <2>1. Ends(c, <<>>, <<"crash">>, "crash") /\ remote[c] \in {"boot", "prompt"}  BY <1>1 DEF Crash
  <2>2. Alive(c) /\ remote[c] \in Unstarted  BY <2>1 DEF Alive, Unstarted
  <2> QED  BY <2>1, <2>2, EndsKeeps
<1>2. CASE StdioFails(c)
  <2>1. Ends(c, <<"reason">>, <<"reason">>, "reason") /\ remote[c] = "stdio"  BY <1>2 DEF StdioFails
  <2>2. Alive(c) /\ remote[c] \in Unstarted  BY <2>1 DEF Alive, Unstarted
  <2> QED  BY <2>1, <2>2, EndsKeeps
<1>3. CASE Verify(c)
  <2>1. remote[c] = "handshake" /\ Alive(c)  BY <1>3 DEF Verify, Alive
  <2>2. CASE Ends(c, <<"alert">>, <<>>, "none")  BY <2>1, <2>2, EndsKeeps
  <2>3. CASE ~Ends(c, <<"alert">>, <<>>, "none")
    <3>1. Goes(c, "write", "finish", TRUE)  BY <1>3, <2>3 DEF Verify, Goes
    <3>2. "finish" \in Tokens  BY DEF Tokens
    <3> QED  BY <2>1, <3>1, <3>2, GoesKeeps DEF Remotes, Unstarted, Announced
  <2> QED  BY <2>2, <2>3
<1>4. CASE InputEnds(c)
  <2>1. Ends(c, <<>>, <<>>, "none") /\ Alive(c)  BY <1>4 DEF InputEnds, Alive
  <2> QED  BY <2>1, EndsKeeps
<1>5. CASE Dies(c)  BY <1>5, EndsKeeps DEF Dies
<1> QED  BY <1>1, <1>2, <1>3, <1>4, <1>5

-----------------------------------------------------------------------------
(* The caller moves                                                         *)

\* What the caller leaves alone
Listens(c) == remote'[c] = remote[c] /\ cause'[c] = cause[c] /\ spoken'[c] = spoken[c]

\* The caller may be at its end: the process had started, or its cause is told.
Settles(c) ==
    local'[c] \in Leaving \union {"failed"} /\ ~hurried'[c] =>
        remote[c] \notin Unstarted \ {"none"} /\ (cause[c] # "none" => cause[c] \in told'[c])

\* The caller goes on without taking anything from the protocol stream.
Walks(c) ==
    /\ Listens(c) /\ begun'[c] = begun[c]
    /\ \/ down'[c] = down[c] /\ err'[c] = err[c]
       \/ down'[c] = <<>> /\ err'[c] = <<>> /\ local'[c] \notin Learning
    /\ local'[c] \notin {"idle", "ready"}
    /\ local'[c] \in Waiting => local[c] \in Waiting
    /\ local'[c] \in Learning => local[c] \in Learning
    /\ local'[c] \in {"failed", "closed"} => remote[c] \in {"none", "dead"}
    /\ Settles(c)

\* An empty pipe holds nothing.
LEMMA Empty == ASSUME NEW v, v = <<>> PROVE OneEnd(v) /\ Behind(v) /\ \A x : ~In(v, x)
  BY DEF OneEnd, Behind, In

\* Such a step keeps the invariant.
LEMMA WalksKeeps ==
  ASSUME StartInv, NEW c \in Conns, Writes(c), Sorts(c)', Walks(c)
  PROVE  StartInv'
<1>1. /\ Sorts(c) /\ Unused(c) /\ Childless(c) /\ Plain(c) /\ Past(c) /\ ErrEnds(c)
      /\ Evidence(c) /\ Known(c)
  BY OfOne
<1>2. Waiting \subseteq Learning  BY DEF Learning
<1>3. Unused(c)' /\ Childless(c)'  BY <1>1 DEF Unused, Childless, Walks, Listens
<1>4. Plain(c)'  BY <1>1, <1>2, Empty DEF Plain, Walks, Listens
<1>5. Past(c)'  BY <1>1, Empty DEF Past, Walks, Listens
<1>6. ErrEnds(c)'  BY <1>1, Empty DEF ErrEnds, Walks, Listens
<1>7. Evidence(c)'  BY <1>1 DEF Evidence, Walks, Listens
<1>8. Known(c)'  BY <1>1 DEF Known, Walks, Listens, Settles
<1> QED  BY <1>3, <1>4, <1>5, <1>6, <1>7, <1>8, StepKeeps DEF Conn

\* The caller takes a token of the protocol stream.
Takes(c) ==
    /\ Listens(c) /\ err'[c] = err[c] /\ down[c] # <<>> /\ down'[c] = Tail(down[c])
    /\ local'[c] \notin {"idle", "failed", "closed"}
    /\ local'[c] \in Waiting => local[c] \in Waiting /\ Head(down[c]) # "ready"
    /\ local'[c] \in Learning => local[c] \in Learning
    /\ local'[c] = "ready" => local[c] = "ready" \/ Head(down[c]) = "ready"
    /\ begun'[c] => begun[c] \/ Head(down[c]) = "hello"
    /\ local'[c] \in Leaving => begun[c] \/ Head(down[c]) = "ready"

\* Such a step keeps the invariant.
LEMMA TakesKeeps ==
  ASSUME StartInv, NEW c \in Conns, Writes(c), Sorts(c)', Takes(c)
  PROVE  StartInv'
<1>1. /\ Sorts(c) /\ Unused(c) /\ Childless(c) /\ Plain(c) /\ Past(c) /\ ErrEnds(c)
      /\ Evidence(c) /\ Known(c)
  BY OfOne
<1>2. down[c] \in Seq(Tokens) /\ down[c] # <<>>  BY <1>1 DEF Sorts, Takes
<1>3. \A x : In(down[c], x) <=> In(down'[c], x) \/ Head(down[c]) = x  BY <1>2, InRest DEF Takes
<1>4. Unused(c)' /\ Childless(c)'  BY <1>1 DEF Unused, Childless, Takes, Listens
<1>5. Plain(c)'
  <2> SUFFICES ASSUME local'[c] \in Waiting
               PROVE  Behind(down'[c]) /\ (remote'[c] \in Announced => In(down'[c], "ready"))
    BY DEF Plain
  <2>1. Head(down[c]) # "ready" /\ Behind(down[c]) /\ (remote[c] \in Announced => In(down[c], "ready"))
    BY <1>1 DEF Plain, Takes
  <2>2. Behind(down'[c])  BY <1>2, <2>1, BehindRest DEF Takes
  <2> QED  BY <1>3, <2>1, <2>2 DEF Takes, Listens
<1>6. Past(c)'  BY <1>1, <1>3 DEF Past, Takes, Listens
<1>7. ErrEnds(c)' /\ Evidence(c)'  BY <1>1 DEF ErrEnds, Evidence, Takes, Listens
<1>8. Known(c)'
  <2>1. local'[c] \in Leaving => remote[c] \notin Unstarted /\ cause[c] = "none"
    BY <1>1, <1>3 DEF Past, Takes
  <2> QED  BY <1>1, <2>1 DEF Known, Takes, Listens
<1> QED  BY <1>4, <1>5, <1>6, <1>7, <1>8, StepKeeps DEF Conn

\* The head of a pipe is a token, and the rest a pipe.
LEMMA Taken ==
  ASSUME NEW w \in Seq(Tokens), w # <<>>
  PROVE  Head(w) \in Tokens /\ Tail(w) \in Seq(Tokens)
  OBVIOUS

\* The input of the process after a write of the caller.
LEMMA ToAt ==
  ASSUME NEW c \in Conns, NEW f, Maps(f), f[c] \in Seq(Tokens), NEW t \in Tokens, NEW g, g = To(f, c, t)
  PROVE  Moved(f, g, c) /\ g[c] \in Seq(Tokens)
<1>1. CASE Alive(c)
  <2>1. PICK e : e = Append(f[c], t)  OBVIOUS
  <2>2. e \in Seq(Tokens)  BY <2>1
  <2>3. g = [f EXCEPT ![c] = e]  BY <1>1, <2>1 DEF To
  <2> QED  BY <2>2, <2>3 DEF Maps, Moved
<1>2. CASE ~Alive(c)  BY <1>2, Assigned DEF To
<1> QED  BY <1>1, <1>2

\* The command is run, or does not start.
LEMMA SpawnKeeps ==
  ASSUME StartInv, NEW c \in Conns, Spawn(c) \/ SpawnFails(c)
  PROVE  StartInv'
<1>1. /\ Sorts(c) /\ Unused(c) /\ Childless(c) /\ Plain(c) /\ Past(c) /\ ErrEnds(c)
      /\ Evidence(c) /\ Known(c)
      /\ Maps(local) /\ Maps(remote) /\ Maps(up) /\ Maps(down) /\ Maps(err) /\ Maps(said)
      /\ Maps(spoken) /\ Maps(begun) /\ Maps(hurried) /\ Maps(told) /\ Maps(cause)
  BY OfOne
<1>2. local[c] = "idle"  BY DEF Spawn, SpawnFails
<1>3. remote[c] = "none" /\ down[c] = <<>> /\ err[c] = <<>> /\ cause[c] = "none" /\ ~begun[c]
  BY <1>1, <1>2 DEF Unused
<1>4. /\ UNCHANGED <<down, err, said, spoken, begun, told, hurried, cause>>
  BY DEF Spawn, SpawnFails, pipes, evidence
<1>5. \/ local'[c] \in {"handshake", "write"} /\ remote'[c] = "boot"
      \/ local'[c] = "failed" /\ remote'[c] \in {"none", "dead"}
  BY <1>1, <1>3 DEF Spawn, SpawnFails, Maps
<1>6. Moved(local, local', c) /\ Moved(remote, remote', c)
  <2>1. CASE Spawn(c)
    <3>1. PICK e : local' = [local EXCEPT ![c] = e]  BY <2>1 DEF Spawn
    <3> QED  BY <1>1, <2>1, <3>1 DEF Spawn, Moved, Maps
  <2>2. CASE SpawnFails(c)  BY <1>1, <2>2 DEF SpawnFails, Moved, Maps
  <2> QED  BY <2>1, <2>2
<1>7. Moved(up, up', c) /\ up'[c] \in Seq(Tokens)
  <2>1. CASE Spawn(c)
    <3>1. "code" \in Tokens  BY DEF Tokens
    <3>2. PICK e \in Seq(Tokens) : e = <<"code">>
      <4>1. <<"code">> \in Seq(Tokens)  BY <3>1
      <4> QED  BY <4>1
    <3>3. up' = [up EXCEPT ![c] = e]  BY <2>1, <3>2 DEF Spawn
    <3> QED  BY <1>1, <3>2, <3>3 DEF Moved, Maps
  <2>2. CASE SpawnFails(c)  BY <1>1, <2>2, Assigned DEF SpawnFails, Sorts, pipes
  <2> QED  BY <2>1, <2>2
<1>8. Writes(c)  BY <1>1, <1>4, <1>6, <1>7, Assigned DEF Writes
<1>9. Sorts(c)'  BY <1>1, <1>4, <1>5, <1>7 DEF Sorts, Locals, Remotes
<1>10. Unused(c)' /\ Childless(c)' /\ Evidence(c)' /\ Known(c)'
  BY <1>3, <1>4, <1>5 DEF Unused, Childless, Evidence, Known, Leaving
<1>11. Plain(c)' /\ Past(c)' /\ ErrEnds(c)'
  BY <1>3, <1>4, <1>5, Empty DEF Plain, Past, ErrEnds, Announced, Waiting
<1> QED  BY <1>8, <1>9, <1>10, <1>11, StepKeeps DEF Conn

\* A line of stderr is kept: the last but the end is the cause.
LEMMA CollectKeeps ==
  ASSUME StartInv, NEW c \in Conns, CollectStderr(c)
  PROVE  StartInv'
<1>1. /\ Sorts(c) /\ Unused(c) /\ Childless(c) /\ Plain(c) /\ Past(c) /\ ErrEnds(c)
      /\ Evidence(c) /\ Known(c)
      /\ Maps(local) /\ Maps(remote) /\ Maps(up) /\ Maps(down) /\ Maps(err) /\ Maps(said)
      /\ Maps(spoken) /\ Maps(begun) /\ Maps(hurried) /\ Maps(told) /\ Maps(cause)
  BY OfOne
<1>2. PICK w \in Seq(Tokens), h \in Tokens, r \in Seq(Tokens) : err[c] = w /\ w # <<>> /\ h = Head(w) /\ r = Tail(w) /\ h # "eof"
  BY <1>1, Taken DEF Sorts, CollectStderr
<1>3. PICK k : k = Kept(spoken[c], h)  OBVIOUS
<1>4. k \in Seq(Tokens) /\ Len(k) <= MaxLines /\ Len(k) > 0 /\ LastOf(k) = h
  BY <1>1, <1>2, <1>3, KeptLast DEF Sorts
<1>5. Moved(err, err', c) /\ err'[c] = r
  <2>1. err' = [err EXCEPT ![c] = r]  BY <1>2 DEF CollectStderr
  <2> QED  BY <1>1, <2>1 DEF Moved, Maps
<1>6. Moved(spoken, spoken', c) /\ spoken'[c] = k
  <2>1. spoken' = [spoken EXCEPT ![c] = k]  BY <1>2, <1>3 DEF CollectStderr
  <2> QED  BY <1>1, <2>1 DEF Moved, Maps
<1>7. UNCHANGED <<local, remote, up, down, said, begun, told, hurried, cause>>  BY DEF CollectStderr
<1>8. Writes(c)  BY <1>1, <1>5, <1>6, <1>7, Assigned DEF Writes
<1>9. Sorts(c)'  BY <1>1, <1>2, <1>4, <1>5, <1>6, <1>7 DEF Sorts
<1>10. /\ Len(r) = Len(w) - 1 /\ Len(w) \in Nat \ {0} /\ \A i \in 1..Len(r) : r[i] = w[i + 1]
       /\ h = w[1]
  BY <1>2, Rest
<1>11. \A x : In(r, x) => In(w, x)  BY <1>2, InRest
<1>12. OneEnd(r)
  <2>1. OneEnd(w)  BY <1>1, <1>2 DEF ErrEnds
  <2>2. \A i \in 1..Len(r) : i + 1 \in 1..Len(w)  BY <1>10
  <2>3. ASSUME NEW i \in 1..Len(r), r[i] = "eof" PROVE i = Len(r)
    <3>1. i + 1 \in 1..Len(w) /\ w[i + 1] = "eof"  BY <1>10, <2>2, <2>3
    <3>2. i + 1 = Len(w)  BY <2>1, <3>1 DEF OneEnd
    <3> QED  BY <1>10, <3>2
  <2> QED  BY <2>3 DEF OneEnd
<1>13. ErrEnds(c)'  BY <1>1, <1>2, <1>5, <1>7, <1>11, <1>12 DEF ErrEnds
<1>14. Evidence(c)'
  <2> SUFFICES ASSUME cause[c] # "none", local[c] \in Learning PROVE Testified(r, k, cause[c])
    BY <1>5, <1>6, <1>7 DEF Evidence
  <2>1. Testified(w, spoken[c], cause[c])  BY <1>1, <1>2 DEF Evidence
  <2>2. Len(w) >= 2  BY <1>2, <1>10, <2>1 DEF Testified, LastOf
  <2>3. Len(r) > 0 /\ LastOf(r) = "eof"
    <3>1. Len(r) \in 1..Len(r) /\ Len(r) + 1 = Len(w)  BY <1>10, <2>2
    <3> QED  BY <1>10, <2>1, <3>1 DEF Testified, LastOf
  <2>4. w[Len(w) - 1] = cause[c]  BY <1>10, <2>1, <2>2 DEF Testified
  <2>5. Len(r) = 1 => LastOf(k) = cause[c]
    <3>1. Len(r) = 1 => Len(w) - 1 = 1  BY <1>10
    <3> QED  BY <1>4, <1>10, <2>4, <3>1
  <2>6. Len(r) # 1 => r[Len(r) - 1] = cause[c]
    <3> SUFFICES ASSUME Len(r) # 1 PROVE r[Len(r) - 1] = cause[c]  OBVIOUS
    <3>1. Len(r) - 1 \in 1..Len(r) /\ (Len(r) - 1) + 1 = Len(w) - 1  BY <1>10, <2>2
    <3> QED  BY <1>10, <2>4, <3>1
  <2> QED  BY <1>4, <2>3, <2>5, <2>6 DEF Testified
<1>15. Unused(c)' /\ Childless(c)' /\ Known(c)'
  BY <1>1, <1>7 DEF Unused, Childless, Known, CollectStderr
<1>16. Plain(c)' /\ Past(c)'  BY <1>1, <1>7 DEF Plain, Past
<1> QED  BY <1>8, <1>9, <1>13, <1>14, <1>15, <1>16, StepKeeps DEF Conn

\* The steps of the caller that take nothing from the protocol stream.
LEMMA CallerWalks ==
  ASSUME StartInv, NEW c \in Conns,
         \/ HandshakeTimeout(c) \/ AwaitStderr(c) \/ WriteBoundary(c) \/ LateTimeout(c)
         \/ CancelStart(c) \/ CloseWriter(c) \/ WriterClosed(c) \/ Reaped(c)
  PROVE  StartInv'
<1>1. /\ Sorts(c) /\ Unused(c) /\ Childless(c) /\ Plain(c) /\ Past(c) /\ ErrEnds(c)
      /\ Evidence(c) /\ Known(c)
      /\ Maps(local) /\ Maps(remote) /\ Maps(up) /\ Maps(down) /\ Maps(err) /\ Maps(said)
      /\ Maps(spoken) /\ Maps(begun) /\ Maps(hurried) /\ Maps(told) /\ Maps(cause)
  BY OfOne
<1>2. {"garbled", "ready", "eof"} \subseteq Tokens  BY DEF Tokens, Lines
<1>3. CASE HandshakeTimeout(c)
  <2>1. PICK e \in {"stderr", "ask"} : local' = [local EXCEPT ![c] = e]  BY <1>3 DEF HandshakeTimeout
  <2>2. PICK k : said' = [said EXCEPT ![c] = k] /\ (k = said[c] \/ k = Kept(said[c], "garbled"))
    BY <1>3 DEF HandshakeTimeout
  <2>3. k \in Seq(Tokens) /\ Len(k) <= MaxLines
    <3>1. "garbled" \in Tokens /\ said[c] \in Seq(Tokens) /\ Len(said[c]) <= MaxLines  BY <1>1, <1>2 DEF Sorts
    <3>2. CASE k = said[c]  BY <3>1, <3>2
    <3>3. CASE k = Kept(said[c], "garbled")  BY <3>1, <3>3, KeptLast
    <3> QED  BY <2>2, <3>2, <3>3
  <2>4. hurried' = [hurried EXCEPT ![c] = TRUE]  BY <1>3 DEF HandshakeTimeout
  <2>5. UNCHANGED <<remote, up, down, err, spoken, begun, told, cause>>  BY <1>3 DEF HandshakeTimeout, pipes
  <2>6. Moved(local, local', c) /\ local'[c] = e /\ Moved(said, said', c) /\ said'[c] = k
    BY <1>1, <2>1, <2>2 DEF Moved, Maps
  <2>7. Moved(hurried, hurried', c) /\ hurried'[c] = TRUE  BY <1>1, <2>4 DEF Moved, Maps
  <2>8. Writes(c)  BY <1>1, <2>5, <2>6, <2>7, Assigned DEF Writes
  <2>9. Sorts(c)'  BY <1>1, <2>1, <2>3, <2>5, <2>6, <2>7 DEF Sorts, Locals
  <2>10. local[c] = "handshake"  BY <1>3 DEF HandshakeTimeout
  <2>11. Walks(c)
    BY <2>1, <2>5, <2>6, <2>7, <2>10 DEF Walks, Listens, Settles, Waiting, Learning, Leaving
  <2> QED  BY <2>8, <2>9, <2>11, WalksKeeps
<1>4. CASE AwaitStderr(c)
  <2>1. PICK t \in SUBSET Tokens : t = Lines_(said[c]) \union Lines_(spoken[c])
    <3>1. Lines_(said[c]) \in SUBSET Tokens /\ Lines_(spoken[c]) \in SUBSET Tokens  BY <1>1, LastAmong DEF Sorts
    <3> QED  BY <3>1
  <2>2. /\ local' = [local EXCEPT ![c] = "exit"] /\ told' = [told EXCEPT ![c] = t]
        /\ UNCHANGED <<remote, up, down, err, said, spoken, begun, cause>> /\ local[c] = "stderr"
    BY <1>4, <2>1 DEF AwaitStderr, Raise, pipes
  <2>3. Moved(local, local', c) /\ local'[c] = "exit" /\ Moved(told, told', c) /\ told'[c] = t
    BY <1>1, <2>2 DEF Moved, Maps
  <2>4. Moved(hurried, hurried', c) /\ (hurried'[c] = hurried[c] \/ hurried'[c] = TRUE)
        /\ (~hurried'[c] => StderrRead(c))
    <3>1. CASE StderrRead(c) /\ hurried' = hurried  BY <1>1, <3>1, Assigned
    <3>2. CASE ~StderrRead(c) /\ hurried' = [hurried EXCEPT ![c] = TRUE]  BY <1>1, <3>2 DEF Moved, Maps
    <3> QED  BY <1>4, <3>1, <3>2 DEF AwaitStderr
  <2>5. Writes(c)  BY <1>1, <2>2, <2>3, <2>4, Assigned DEF Writes
  <2>6. Sorts(c)'  BY <1>1, <2>2, <2>3, <2>4 DEF Sorts, Locals
  <2>7. StderrRead(c) => Len(err[c]) = 1 /\ remote[c] = "dead"
    <3> SUFFICES ASSUME err[c] # <<>>, Head(err[c]) = "eof" PROVE Len(err[c]) = 1 /\ remote[c] = "dead"
      BY DEF StderrRead
    <3>1. err[c] \in Seq(Tokens)  BY <1>1 DEF Sorts
    <3>2. Len(err[c]) \in Nat \ {0} /\ Head(err[c]) = err[c][1]  BY <3>1
    <3>3. 1 \in 1..Len(err[c]) /\ err[c][1] = "eof"  BY <3>2
    <3> QED  BY <1>1, <3>3 DEF ErrEnds, OneEnd, In
  <2>8. StderrRead(c) /\ cause[c] # "none" => cause[c] \in t
    <3> SUFFICES ASSUME StderrRead(c), cause[c] # "none" PROVE cause[c] \in t  OBVIOUS
    <3>1. Testified(err[c], spoken[c], cause[c])  BY <1>1, <2>2 DEF Evidence, Learning
    <3>2. Len(spoken[c]) > 0 /\ LastOf(spoken[c]) = cause[c]  BY <2>7, <3>1 DEF Testified
    <3>3. LastOf(spoken[c]) \in Lines_(spoken[c])  BY <1>1, <3>2, LastAmong DEF Sorts
    <3> QED  BY <2>1, <3>2, <3>3
  <2>9. Settles(c)  BY <2>3, <2>4, <2>7, <2>8 DEF Settles, Unstarted
  <2>10. Walks(c)  BY <2>2, <2>3, <2>9 DEF Walks, Listens, Learning, Waiting
  <2> QED  BY <2>5, <2>6, <2>10, WalksKeeps
<1>5. CASE WriteBoundary(c)
  <2>1. PICK e \in {"read", "late"} : local' = [local EXCEPT ![c] = e]  BY <1>5 DEF WriteBoundary
  <2>2. Moved(up, up', c) /\ up'[c] \in Seq(Tokens)
    <3>1. up[c] \in Seq(Tokens) /\ "ready" \in Tokens  BY <1>1, <1>2 DEF Sorts
    <3>2. CASE up' = To(up, c, "ready")  BY <1>1, <3>1, <3>2, ToAt
    <3>3. CASE up' = up  BY <1>1, <3>1, <3>3, Assigned
    <3> QED  BY <1>5, <3>2, <3>3 DEF WriteBoundary
  <2>3. UNCHANGED <<remote, down, err, said, spoken, begun, told, hurried, cause>> /\ local[c] = "write"
    BY <1>5 DEF WriteBoundary, evidence
  <2>4. Moved(local, local', c) /\ local'[c] = e  BY <1>1, <2>1 DEF Moved, Maps
  <2>5. Writes(c)  BY <1>1, <2>2, <2>3, <2>4, Assigned DEF Writes
  <2>6. Sorts(c)'  BY <1>1, <2>1, <2>2, <2>3, <2>4 DEF Sorts, Locals
  <2>7. Walks(c)  BY <2>1, <2>3, <2>4 DEF Walks, Listens, Settles, Waiting, Learning, Leaving
  <2> QED  BY <2>5, <2>6, <2>7, WalksKeeps
<1>6. CASE LateTimeout(c)
  <2>1. PICK t \in SUBSET Tokens : t = {} \union Lines_(spoken[c])
    <3>1. Lines_(spoken[c]) \in SUBSET Tokens  BY <1>1, LastAmong DEF Sorts
    <3> QED  BY <3>1
  <2>2. /\ local' = [local EXCEPT ![c] = "exit"] /\ told' = [told EXCEPT ![c] = t]
        /\ hurried' = [hurried EXCEPT ![c] = TRUE]
        /\ UNCHANGED <<remote, up, down, err, said, spoken, begun, cause>>
    BY <1>6, <2>1 DEF LateTimeout, Raise, pipes
  <2>3. /\ Moved(local, local', c) /\ local'[c] = "exit" /\ Moved(told, told', c) /\ told'[c] = t
        /\ Moved(hurried, hurried', c) /\ hurried'[c] = TRUE
    BY <1>1, <2>2 DEF Moved, Maps
  <2>4. Writes(c)  BY <1>1, <2>2, <2>3, Assigned DEF Writes
  <2>5. Sorts(c)'  BY <1>1, <2>2, <2>3 DEF Sorts, Locals
  <2>6. Walks(c)  BY <2>2, <2>3 DEF Walks, Listens, Settles, Waiting, Learning
  <2> QED  BY <2>4, <2>5, <2>6, WalksKeeps
<1>7. CASE CancelStart(c)
  <2>1. /\ local' = [local EXCEPT ![c] = "exit"] /\ hurried' = [hurried EXCEPT ![c] = TRUE]
        /\ UNCHANGED <<remote, up, down, err, said, spoken, begun, told, cause>>
    BY <1>7 DEF CancelStart, pipes
  <2>2. /\ Moved(local, local', c) /\ local'[c] = "exit" /\ Moved(hurried, hurried', c) /\ hurried'[c] = TRUE
    BY <1>1, <2>1 DEF Moved, Maps
  <2>3. Writes(c)  BY <1>1, <2>1, <2>2, Assigned DEF Writes
  <2>4. Sorts(c)'  BY <1>1, <2>1, <2>2 DEF Sorts, Locals
  <2>5. Walks(c)  BY <2>1, <2>2 DEF Walks, Listens, Settles, Waiting, Learning
  <2> QED  BY <2>3, <2>4, <2>5, WalksKeeps
<1>8. CASE CloseWriter(c)
  <2>1. /\ local' = [local EXCEPT ![c] = "flush"] /\ up' = To(up, c, "eof") /\ local[c] = "exit"
        /\ UNCHANGED <<remote, down, err, said, spoken, begun, told, hurried, cause>>
    BY <1>8 DEF CloseWriter, evidence
  <2>2. Moved(local, local', c) /\ local'[c] = "flush"  BY <1>1, <2>1 DEF Moved, Maps
  <2>3. Moved(up, up', c) /\ up'[c] \in Seq(Tokens)
    <3>1. up[c] \in Seq(Tokens) /\ "eof" \in Tokens  BY <1>1, <1>2 DEF Sorts
    <3> QED  BY <1>1, <2>1, <3>1, ToAt
  <2>4. Writes(c)  BY <1>1, <2>1, <2>2, <2>3, Assigned DEF Writes
  <2>5. Sorts(c)'  BY <1>1, <2>1, <2>2, <2>3 DEF Sorts, Locals
  <2>6. Walks(c)  BY <1>1, <2>1, <2>2 DEF Walks, Listens, Settles, Waiting, Learning, Leaving, Known
  <2> QED  BY <2>4, <2>5, <2>6, WalksKeeps
<1>9. CASE WriterClosed(c)
  <2>1. /\ local' = [local EXCEPT ![c] = "reaping"] /\ local[c] = "flush"
        /\ down' = [down EXCEPT ![c] = <<>>] /\ err' = [err EXCEPT ![c] = <<>>]
        /\ UNCHANGED <<remote, up, said, spoken, begun, told, hurried, cause>>
    BY <1>9 DEF WriterClosed, Terminate, evidence
  <2>2. /\ Moved(local, local', c) /\ local'[c] = "reaping" /\ Moved(down, down', c) /\ down'[c] = <<>>
        /\ Moved(err, err', c) /\ err'[c] = <<>>
    BY <1>1, <2>1 DEF Moved, Maps
  <2>3. Writes(c)  BY <1>1, <2>1, <2>2, Assigned DEF Writes
  <2>4. <<>> \in Seq(Tokens)  OBVIOUS
  <2>5. Sorts(c)'  BY <1>1, <2>1, <2>2, <2>4 DEF Sorts, Locals
  <2>6. Walks(c)  BY <1>1, <2>1, <2>2 DEF Walks, Listens, Settles, Waiting, Learning, Leaving, Known
  <2> QED  BY <2>3, <2>5, <2>6, WalksKeeps
<1>10. CASE Reaped(c)
  <2>1. PICK e \in {"closed", "failed"} : local' = [local EXCEPT ![c] = e]  BY <1>10 DEF Reaped
  <2>2. /\ UNCHANGED <<remote, up, down, err, said, spoken, begun, told, hurried, cause>>
        /\ local[c] = "reaping" /\ remote[c] \in {"none", "dead"}
    BY <1>10 DEF Reaped, pipes, evidence, Alive
  <2>3. Moved(local, local', c) /\ local'[c] = e  BY <1>1, <2>1 DEF Moved, Maps
  <2>4. Writes(c)  BY <1>1, <2>2, <2>3, Assigned DEF Writes
  <2>5. Sorts(c)'  BY <1>1, <2>1, <2>2, <2>3 DEF Sorts, Locals
  <2>6. Walks(c)  BY <1>1, <2>1, <2>2, <2>3 DEF Walks, Listens, Settles, Waiting, Learning, Leaving, Known
  <2> QED  BY <2>4, <2>5, <2>6, WalksKeeps
<1> QED  BY <1>3, <1>4, <1>5, <1>6, <1>7, <1>8, <1>9, <1>10

\* The steps of the caller that take a token of the protocol stream, or give
\* up waiting for one.
LEMMA CallerTakes ==
  ASSUME StartInv, NEW c \in Conns, Handshake(c) \/ Ask(c) \/ ReadLine(c) \/ ReceiveLog(c)
  PROVE  StartInv'
<1>1. /\ Sorts(c)
      /\ Maps(local) /\ Maps(remote) /\ Maps(up) /\ Maps(down) /\ Maps(err) /\ Maps(said)
      /\ Maps(spoken) /\ Maps(begun) /\ Maps(hurried) /\ Maps(told) /\ Maps(cause)
  BY OfOne
<1>2. UNCHANGED <<remote, err, spoken, cause>>
  BY DEF Handshake, Ask, ReadLine, ReceiveLog, evidence
<1>3. ASSUME Take(c)
      PROVE  /\ Moved(down, down', c) /\ down[c] # <<>> /\ down'[c] = Tail(down[c])
             /\ down'[c] \in Seq(Tokens) /\ Head(down[c]) \in Tokens
  <2>1. PICK w \in Seq(Tokens), r \in Seq(Tokens) : down[c] = w /\ w # <<>> /\ r = Tail(w)
    BY <1>1, <1>3, Taken DEF Sorts, Take
  <2>2. down' = [down EXCEPT ![c] = r]  BY <1>3, <2>1 DEF Take
  <2>3. Moved(down, down', c) /\ down'[c] = r  BY <1>1, <2>2 DEF Moved, Maps
  <2> QED  BY <2>1, <2>3, Taken
<1>4. ASSUME NEW line \in Tokens, NEW k, k = Kept(said[c], line)
      PROVE  k \in Seq(Tokens) /\ Len(k) <= MaxLines
  BY <1>1, <1>4, KeptLast DEF Sorts
<1>5. ASSUME NEW lines \in SUBSET Tokens, Raise(c, lines)
      PROVE  /\ Moved(local, local', c) /\ local'[c] = "exit"
             /\ Moved(told, told', c) /\ told'[c] \in SUBSET Tokens
  <2>1. Lines_(spoken[c]) \in SUBSET Tokens  BY <1>1, LastAmong DEF Sorts
  <2>2. PICK t \in SUBSET Tokens : t = lines \union Lines_(spoken[c])  BY <2>1
  <2>3. local' = [local EXCEPT ![c] = "exit"] /\ told' = [told EXCEPT ![c] = t]  BY <1>5, <2>2 DEF Raise
  <2> QED  BY <1>1, <2>2, <2>3 DEF Moved, Maps
<1>6. "hello" \in Tokens /\ {"alert"} \in SUBSET Tokens /\ {} \in SUBSET Tokens  BY DEF Tokens, Lines
<1>7. CASE Handshake(c)
  <2>1. /\ Moved(down, down', c) /\ down[c] # <<>> /\ down'[c] = Tail(down[c])
        /\ down'[c] \in Seq(Tokens) /\ Head(down[c]) \in Tokens
    BY <1>3, <1>7 DEF Handshake
  <2>2. PICK token \in Tokens : token = Head(down[c])  BY <2>1
  <2>3. local[c] = "handshake" /\ hurried' = hurried  BY <1>7 DEF Handshake
  <2>4. CASE token = "hello" /\ begun' = [begun EXCEPT ![c] = TRUE] /\ up' = To(up, c, "hello")
             /\ UNCHANGED <<local, said, told>>
    <3>1. Moved(begun, begun', c) /\ begun'[c] = TRUE  BY <1>1, <2>4 DEF Moved, Maps
    <3>2. Moved(up, up', c) /\ up'[c] \in Seq(Tokens)  BY <1>1, <1>6, <2>4, ToAt DEF Sorts
    <3>3. Writes(c)  BY <1>1, <1>2, <2>1, <2>3, <2>4, <3>1, <3>2, Assigned DEF Writes
    <3>4. Sorts(c)'  BY <1>1, <1>2, <2>1, <2>3, <2>4, <3>1, <3>2 DEF Sorts
    <3>5. Takes(c)
      BY <1>2, <2>1, <2>2, <2>3, <2>4 DEF Takes, Listens, Waiting, Learning, Leaving
    <3> QED  BY <3>3, <3>4, <3>5, TakesKeeps
  <2>5. CASE token = "finish" /\ local' = [local EXCEPT ![c] = "write"] /\ UNCHANGED <<up, said, begun, told>>
    <3>1. Moved(local, local', c) /\ local'[c] = "write"  BY <1>1, <2>5 DEF Moved, Maps
    <3>2. Writes(c)  BY <1>1, <1>2, <2>1, <2>3, <2>5, <3>1, Assigned DEF Writes
    <3>3. Sorts(c)'  BY <1>1, <1>2, <2>1, <2>3, <2>5, <3>1 DEF Sorts, Locals
    <3>4. Takes(c)
      BY <1>2, <2>1, <2>2, <2>3, <2>5, <3>1 DEF Takes, Listens, Waiting, Learning, Leaving
    <3> QED  BY <3>2, <3>3, <3>4, TakesKeeps
  <2>6. CASE token \in {"alert", "eof"} /\ begun[c] /\ Raise(c, {"alert"}) /\ UNCHANGED <<up, said, begun>>
    <3>1. /\ Moved(local, local', c) /\ local'[c] = "exit" /\ Moved(told, told', c) /\ told'[c] \in SUBSET Tokens
      BY <1>5, <1>6, <2>6
    <3>2. Writes(c)  BY <1>1, <1>2, <2>1, <2>3, <2>6, <3>1, Assigned DEF Writes
    <3>3. Sorts(c)'  BY <1>1, <1>2, <2>1, <2>3, <2>6, <3>1 DEF Sorts, Locals
    <3>4. Takes(c)
      BY <1>2, <2>1, <2>2, <2>3, <2>6, <3>1 DEF Takes, Listens, Waiting, Learning, Leaving
    <3> QED  BY <3>2, <3>3, <3>4, TakesKeeps
  <2>7. CASE token = "eof" /\ local' = [local EXCEPT ![c] = "stderr"] /\ UNCHANGED <<up, said, begun, told>>
    <3>1. Moved(local, local', c) /\ local'[c] = "stderr"  BY <1>1, <2>7 DEF Moved, Maps
    <3>2. Writes(c)  BY <1>1, <1>2, <2>1, <2>3, <2>7, <3>1, Assigned DEF Writes
    <3>3. Sorts(c)'  BY <1>1, <1>2, <2>1, <2>3, <2>7, <3>1 DEF Sorts, Locals
    <3>4. Takes(c)
      BY <1>2, <2>1, <2>2, <2>3, <2>7, <3>1 DEF Takes, Listens, Waiting, Learning, Leaving
    <3> QED  BY <3>2, <3>3, <3>4, TakesKeeps
  <2>8. CASE /\ token \in {"banner", "reason", "log"} /\ local' = [local EXCEPT ![c] = "stderr"]
             /\ said' = [said EXCEPT ![c] = Kept(@, token)] /\ UNCHANGED <<up, begun, told>>
    <3>1. PICK k : k = Kept(said[c], token)  OBVIOUS
    <3>2. said' = [said EXCEPT ![c] = k]  BY <2>8, <3>1
    <3>3. /\ Moved(local, local', c) /\ local'[c] = "stderr" /\ Moved(said, said', c) /\ said'[c] = k
      BY <1>1, <2>8, <3>2 DEF Moved, Maps
    <3>4. k \in Seq(Tokens) /\ Len(k) <= MaxLines  BY <1>4, <3>1
    <3>5. Writes(c)  BY <1>1, <1>2, <2>1, <2>3, <2>8, <3>3, Assigned DEF Writes
    <3>6. Sorts(c)'  BY <1>1, <1>2, <2>1, <2>3, <2>8, <3>3, <3>4 DEF Sorts, Locals
    <3>7. Takes(c)
      BY <1>2, <2>1, <2>2, <2>3, <2>8, <3>3 DEF Takes, Listens, Waiting, Learning, Leaving
    <3> QED  BY <3>5, <3>6, <3>7, TakesKeeps
  <2> QED  BY <1>7, <2>2, <2>4, <2>5, <2>6, <2>7, <2>8 DEF Handshake
<1>8. CASE Ask(c)
  <2>1. /\ local[c] = "ask" /\ local' = [local EXCEPT ![c] = "stderr"] /\ UNCHANGED <<up, begun, told>>
    BY <1>8 DEF Ask
  <2>2. Moved(local, local', c) /\ local'[c] = "stderr"  BY <1>1, <2>1 DEF Moved, Maps
  <2>3. CASE /\ Take(c) /\ said' = [said EXCEPT ![c] = IF Head(down[c]) = "eof" THEN @ ELSE Kept(@, Head(down[c]))]
             /\ UNCHANGED hurried
    <3>1. /\ Moved(down, down', c) /\ down[c] # <<>> /\ down'[c] = Tail(down[c])
          /\ down'[c] \in Seq(Tokens) /\ Head(down[c]) \in Tokens
      BY <1>3, <2>3
    <3>2. PICK token \in Tokens : token = Head(down[c])  BY <3>1
    <3>3. PICK k : k = IF token = "eof" THEN said[c] ELSE Kept(said[c], token)  OBVIOUS
    <3>4. said' = [said EXCEPT ![c] = k]  BY <2>3, <3>2, <3>3
    <3>5. Moved(said, said', c) /\ said'[c] = k  BY <1>1, <3>4 DEF Moved, Maps
    <3>6. k \in Seq(Tokens) /\ Len(k) <= MaxLines
      <4>1. CASE token = "eof"  BY <1>1, <3>3, <4>1 DEF Sorts
      <4>2. CASE token # "eof"  BY <1>4, <3>3, <4>2
      <4> QED  BY <4>1, <4>2
    <3>7. Writes(c)  BY <1>1, <1>2, <2>1, <2>2, <2>3, <3>1, <3>5, Assigned DEF Writes
    <3>8. Sorts(c)'  BY <1>1, <1>2, <2>1, <2>2, <2>3, <3>1, <3>5, <3>6 DEF Sorts, Locals
    <3>9. Takes(c)
      BY <1>2, <2>1, <2>2, <3>1 DEF Takes, Listens, Waiting, Learning, Leaving
    <3> QED  BY <3>7, <3>8, <3>9, TakesKeeps
  <2>4. CASE hurried' = [hurried EXCEPT ![c] = TRUE] /\ UNCHANGED <<down, said>>
    <3>1. Moved(hurried, hurried', c) /\ hurried'[c] = TRUE  BY <1>1, <2>4 DEF Moved, Maps
    <3>2. Writes(c)  BY <1>1, <1>2, <2>1, <2>2, <2>4, <3>1, Assigned DEF Writes
    <3>3. Sorts(c)'  BY <1>1, <1>2, <2>1, <2>2, <2>4, <3>1 DEF Sorts, Locals
    <3>4. Walks(c)
      BY <1>2, <2>1, <2>2, <2>4 DEF Walks, Listens, Settles, Waiting, Learning, Leaving
    <3> QED  BY <3>2, <3>3, <3>4, WalksKeeps
  <2> QED  BY <1>8, <2>3, <2>4 DEF Ask
<1>9. CASE ReadLine(c)
  <2>1. /\ Moved(down, down', c) /\ down[c] # <<>> /\ down'[c] = Tail(down[c])
        /\ down'[c] \in Seq(Tokens) /\ Head(down[c]) \in Tokens
    BY <1>3, <1>9 DEF ReadLine
  <2>2. PICK line \in Tokens : line = Head(down[c])  BY <2>1
  <2>3. local[c] \in {"read", "late"} /\ UNCHANGED <<up, begun, hurried>>  BY <1>9 DEF ReadLine
  <2>4. CASE line = "ready" /\ local' = [local EXCEPT ![c] = "ready"] /\ UNCHANGED <<said, told>>
    <3>1. Moved(local, local', c) /\ local'[c] = "ready"  BY <1>1, <2>4 DEF Moved, Maps
    <3>2. Writes(c)  BY <1>1, <1>2, <2>1, <2>3, <2>4, <3>1, Assigned DEF Writes
    <3>3. Sorts(c)'  BY <1>1, <1>2, <2>1, <2>3, <2>4, <3>1 DEF Sorts, Locals
    <3>4. Takes(c)
      BY <1>2, <2>1, <2>2, <2>3, <2>4, <3>1 DEF Takes, Listens, Waiting, Learning, Leaving
    <3> QED  BY <3>2, <3>3, <3>4, TakesKeeps
  <2>5. CASE line = "ready" /\ Raise(c, {}) /\ UNCHANGED said
    <3>1. /\ Moved(local, local', c) /\ local'[c] = "exit" /\ Moved(told, told', c) /\ told'[c] \in SUBSET Tokens
      BY <1>5, <1>6, <2>5
    <3>2. Writes(c)  BY <1>1, <1>2, <2>1, <2>3, <2>5, <3>1, Assigned DEF Writes
    <3>3. Sorts(c)'  BY <1>1, <1>2, <2>1, <2>3, <2>5, <3>1 DEF Sorts, Locals
    <3>4. Takes(c)
      BY <1>2, <2>1, <2>2, <2>3, <2>5, <3>1 DEF Takes, Listens, Waiting, Learning, Leaving
    <3> QED  BY <3>2, <3>3, <3>4, TakesKeeps
  <2>6. CASE line = "eof" /\ local' = [local EXCEPT ![c] = "stderr"] /\ UNCHANGED <<said, told>>
    <3>1. Moved(local, local', c) /\ local'[c] = "stderr"  BY <1>1, <2>6 DEF Moved, Maps
    <3>2. Writes(c)  BY <1>1, <1>2, <2>1, <2>3, <2>6, <3>1, Assigned DEF Writes
    <3>3. Sorts(c)'  BY <1>1, <1>2, <2>1, <2>3, <2>6, <3>1 DEF Sorts, Locals
    <3>4. Takes(c)
      BY <1>2, <2>1, <2>2, <2>3, <2>6, <3>1 DEF Takes, Listens, Waiting, Learning, Leaving
    <3> QED  BY <3>2, <3>3, <3>4, TakesKeeps
  <2>7. CASE line \notin {"ready", "eof"} /\ said' = [said EXCEPT ![c] = Kept(@, line)] /\ UNCHANGED <<local, told>>
    <3>1. PICK k : k = Kept(said[c], line)  OBVIOUS
    <3>2. said' = [said EXCEPT ![c] = k]  BY <2>7, <3>1
    <3>3. Moved(said, said', c) /\ said'[c] = k  BY <1>1, <3>2 DEF Moved, Maps
    <3>4. k \in Seq(Tokens) /\ Len(k) <= MaxLines  BY <1>4, <3>1
    <3>5. Writes(c)  BY <1>1, <1>2, <2>1, <2>3, <2>7, <3>3, Assigned DEF Writes
    <3>6. Sorts(c)'  BY <1>1, <1>2, <2>1, <2>3, <2>7, <3>3, <3>4 DEF Sorts
    <3>7. Takes(c)
      BY <1>2, <2>1, <2>2, <2>3, <2>7 DEF Takes, Listens, Waiting, Learning, Leaving
    <3> QED  BY <3>5, <3>6, <3>7, TakesKeeps
  <2> QED  BY <1>9, <2>2, <2>4, <2>5, <2>6, <2>7 DEF ReadLine
<1>10. CASE ReceiveLog(c)
  <2>1. /\ Moved(down, down', c) /\ down[c] # <<>> /\ down'[c] = Tail(down[c])
        /\ down'[c] \in Seq(Tokens) /\ Head(down[c]) \in Tokens
    BY <1>3, <1>10 DEF ReceiveLog
  <2>2. local[c] = "ready" /\ UNCHANGED <<local, up, said, begun, told, hurried>>  BY <1>10 DEF ReceiveLog, evidence
  <2>3. Writes(c)  BY <1>1, <1>2, <2>1, <2>2, Assigned DEF Writes
  <2>4. Sorts(c)'  BY <1>1, <1>2, <2>1, <2>2 DEF Sorts
  <2>5. Takes(c)  BY <1>2, <2>1, <2>2 DEF Takes, Listens, Waiting, Learning, Leaving
  <2> QED  BY <2>3, <2>4, <2>5, TakesKeeps
<1> QED  BY <1>7, <1>8, <1>9, <1>10

\* A connection that was ready is left.
LEMMA LeaveKeeps ==
  ASSUME StartInv, NEW c \in Conns, Leave(c), UNCHANGED <<remote, pipes, evidence, cause>>
  PROVE  StartInv'
<1>1. /\ Sorts(c) /\ Past(c)
      /\ Maps(local) /\ Maps(remote) /\ Maps(up) /\ Maps(down) /\ Maps(err) /\ Maps(said)
      /\ Maps(spoken) /\ Maps(begun) /\ Maps(hurried) /\ Maps(told) /\ Maps(cause)
  BY OfOne
<1>2. /\ local[c] = "ready" /\ UNCHANGED <<remote, up, down, err, said, spoken, begun, told, hurried, cause>>
  BY DEF Leave, pipes, evidence
<1>3. Moved(local, local', c) /\ local'[c] = "exit"  BY <1>1 DEF Leave, Moved, Maps
<1>4. Writes(c)  BY <1>1, <1>2, <1>3, Assigned DEF Writes
<1>5. Sorts(c)'  BY <1>1, <1>2, <1>3 DEF Sorts, Locals
<1>6. remote[c] \notin Unstarted /\ cause[c] = "none"  BY <1>1, <1>2 DEF Past
<1>7. Walks(c)  BY <1>2, <1>3, <1>6 DEF Walks, Listens, Settles, Waiting, Learning
<1> QED  BY <1>4, <1>5, <1>7, WalksKeeps

\* What is left of the connection of a server whose process is gone.
Blank(c) ==
    /\ down[c] = <<>> /\ err[c] = <<>> /\ said[c] = <<>> /\ spoken[c] = <<>> /\ ~begun[c] /\ ~hurried[c]
    /\ told[c] = {} /\ cause[c] = "none"

\* A server whose process ends, or is killed, forgets its connection.
LEMMA ForgottenKeeps ==
  ASSUME StartInv, NEW c \in Conns, Forgotten(c), Moved(local, local', c), Moved(remote, remote', c), Moved(up, up', c),
         remote'[c] \in Remotes, up'[c] \in Seq(Tokens),
         local'[c] = "gone" \/ (local'[c] \in {"failed", "closed"} /\ remote'[c] \in {"none", "dead"})
  PROVE  StartInv'
<1>1. /\ Sorts(c)
      /\ Maps(local) /\ Maps(remote) /\ Maps(up) /\ Maps(down) /\ Maps(err) /\ Maps(said)
      /\ Maps(spoken) /\ Maps(begun) /\ Maps(hurried) /\ Maps(told) /\ Maps(cause)
  BY OfOne
<1>2. Moved(down, down', c) /\ Moved(err, err', c) /\ Moved(said, said', c) /\ Moved(spoken, spoken', c)
  BY <1>1 DEF Forgotten, Moved, Maps
<1>3. Moved(begun, begun', c) /\ Moved(hurried, hurried', c) /\ Moved(told, told', c) /\ Moved(cause, cause', c)
  BY <1>1 DEF Forgotten, Moved, Maps
<1>4. Blank(c)'
  <2>1. down'[c] = <<>> /\ err'[c] = <<>> /\ said'[c] = <<>> /\ spoken'[c] = <<>>  BY <1>1 DEF Forgotten, Maps
  <2>2. ~begun'[c] /\ ~hurried'[c] /\ told'[c] = {} /\ cause'[c] = "none"  BY <1>1 DEF Forgotten, Maps
  <2> QED  BY <2>1, <2>2 DEF Blank
<1>5. Writes(c)  BY <1>2, <1>3 DEF Writes
<1>6. Sorts(c)'
  <2>1. begun'[c] \in BOOLEAN /\ hurried'[c] \in BOOLEAN  BY <1>1 DEF Forgotten, Maps
  <2>2. <<>> \in Seq(Tokens) /\ Len(<<>>) <= MaxLines  BY StartupConstants
  <2> QED  BY <1>4, <2>1, <2>2 DEF Sorts, Blank, Locals
<1>7. Unused(c)' /\ Childless(c)' /\ Evidence(c)' /\ Known(c)'
  BY <1>4 DEF Unused, Childless, Evidence, Known, Blank, Leaving
<1>8. Plain(c)' /\ Past(c)' /\ ErrEnds(c)'
  BY <1>4, Empty DEF Plain, Past, ErrEnds, Blank, Waiting
<1> QED  BY <1>5, <1>6, <1>7, <1>8, StepKeeps DEF Conn

-----------------------------------------------------------------------------
(* Every step keeps the invariant of the connections                        *)

\* A step of a launcher does not touch them.
LEMMA StartStutters ==
  ASSUME StartInv, UNCHANGED startVars
  PROVE  StartInv'
<1>1. UNCHANGED <<local, remote, up, down, err, said, spoken, begun, told, hurried, cause>>
  BY DEF startVars, pipes, evidence
<1>2. ASSUME NEW d \in Conns PROVE Sorts(d)' /\ Conn(d)'
  <2>1. Same(d)  BY <1>1 DEF Same
  <2>2. Sorts(d) /\ Conn(d)  BY DEF StartInv, StartTypes
  <2> QED  BY <2>1, <2>2, SameKeeps
<1>3. /\ Maps(local)' /\ Maps(remote)' /\ Maps(up)' /\ Maps(down)' /\ Maps(err)' /\ Maps(said)'
      /\ Maps(spoken)' /\ Maps(begun)' /\ Maps(hurried)' /\ Maps(told)' /\ Maps(cause)'
  BY <1>1 DEF StartInv, StartTypes, Maps
<1> QED  BY <1>2, <1>3 DEF StartInv, StartTypes

\* A process group is killed.
LEMMA KillGroupKeeps ==
  ASSUME StartInv, NEW c \in Conns, KillGroup(c)
  PROVE  StartInv'
<1>1. CASE server[c] = "forked"  BY <1>1, StartStutters DEF KillGroup
<1>2. CASE server[c] # "forked"
  <2>1. Sorts(c) /\ Maps(local) /\ Maps(remote) /\ Maps(up)  BY OfOne
  <2>2. /\ Forgotten(c) /\ local' = [local EXCEPT ![c] = "gone"] /\ up' = [up EXCEPT ![c] = <<>>]
        /\ remote' = [remote EXCEPT ![c] = IF @ = "none" THEN @ ELSE "dead"]
    BY <1>2 DEF KillGroup, Killed
  <2>3. Moved(local, local', c) /\ local'[c] = "gone" /\ Moved(up, up', c) /\ up'[c] = <<>>
    BY <2>1, <2>2 DEF Moved, Maps
  <2>4. Moved(remote, remote', c) /\ remote'[c] \in {"none", "dead"}  BY <2>1, <2>2 DEF Moved, Maps
  <2>5. <<>> \in Seq(Tokens)  OBVIOUS
  <2> QED  BY <2>2, <2>3, <2>4, <2>5, ForgottenKeeps DEF Remotes
<1> QED  BY <1>1, <1>2

\* A server is killed, or its process ends.
LEMMA ServerEndsKeeps ==
  ASSUME StartInv, NEW c \in Conns, CrashServer(c) \/ Gone(c)
  PROVE  StartInv'
<1>1. Sorts(c) /\ Childless(c) /\ Maps(local) /\ Maps(remote) /\ Maps(up)  BY OfOne
<1>2. CASE CrashServer(c)
  <2>1. /\ Forgotten(c) /\ local' = [local EXCEPT ![c] = "gone"] /\ up' = To(up, c, "eof") /\ remote' = remote
    BY <1>2 DEF CrashServer, Killed
  <2>2. Moved(local, local', c) /\ local'[c] = "gone"  BY <1>1, <2>1 DEF Moved, Maps
  <2>3. "eof" \in Tokens  BY DEF Tokens
  <2>4. Moved(up, up', c) /\ up'[c] \in Seq(Tokens)  BY <1>1, <2>1, <2>3, ToAt DEF Sorts
  <2>5. Moved(remote, remote', c) /\ remote'[c] \in Remotes  BY <1>1, <2>1, Assigned DEF Sorts
  <2> QED  BY <2>1, <2>2, <2>4, <2>5, ForgottenKeeps
<1>3. CASE Gone(c)
  <2>1. Forgotten(c) /\ UNCHANGED <<local, remote, up>> /\ local[c] \in {"failed", "closed"}  BY <1>3 DEF Gone
  <2>2. Moved(local, local', c) /\ Moved(remote, remote', c) /\ Moved(up, up', c)  BY <1>1, <2>1, Assigned
  <2>3. /\ remote'[c] \in Remotes /\ up'[c] \in Seq(Tokens) /\ local'[c] \in {"failed", "closed"}
        /\ remote'[c] \in {"none", "dead"}
    BY <1>1, <2>1 DEF Sorts, Childless
  <2> QED  BY <2>1, <2>2, <2>3, ForgottenKeeps
<1> QED  BY <1>2, <1>3

\* The invariant of the connections is inductive.
LEMMA NextStart == StartInv /\ [Next]_vars => StartInv'
<1> SUFFICES ASSUME StartInv, [Next]_vars PROVE StartInv'  OBVIOUS
<1>1. CASE UNCHANGED vars  BY <1>1, StartStutters DEF vars
<1>2. ASSUME NEW c \in Conns, Begin(c) \/ Launch(c) PROVE StartInv'
  <2>1. CASE GiveUp(c)  BY <2>1, KillGroupKeeps DEF GiveUp
  <2>2. CASE ~GiveUp(c)
    <3>1. UNCHANGED startVars
      BY <1>2, <2>2 DEF Begin, Launch, TakeLock, LockTimeout, Inspect, Probe, Alive_, ProbeFails, RemoveStale, Fork, Told, TimedOut
    <3> QED  BY <3>1, StartStutters
  <2> QED  BY <2>1, <2>2
<1>3. ASSUME NEW c \in Conns, Connecting(c) PROVE StartInv'
  <2>1. CASE Spawn(c) \/ SpawnFails(c)  BY <2>1, SpawnKeeps
  <2>2. CASE CollectStderr(c)  BY <2>2, CollectKeeps
  <2>3. CASE Handshake(c) \/ Ask(c) \/ ReadLine(c) \/ ReceiveLog(c)  BY <2>3, CallerTakes
  <2>4. CASE \/ HandshakeTimeout(c) \/ AwaitStderr(c) \/ WriteBoundary(c) \/ LateTimeout(c)
             \/ CancelStart(c) \/ CloseWriter(c) \/ WriterClosed(c) \/ Reaped(c)
    BY <2>4, CallerWalks
  <2>5. CASE Signalled(c)  BY <2>5, ProcessEnds DEF Signalled
  <2> QED  BY <1>3, <2>1, <2>2, <2>3, <2>4, <2>5 DEF Connecting
<1>4. ASSUME NEW c \in Conns, Bind(c) PROVE StartInv'
  <2>1. CASE file # 0  BY <1>4, <2>1, LeaveKeeps DEF Bind
  <2>2. CASE file = 0
    <3>1. UNCHANGED startVars  BY <1>4, <2>2 DEF Bind, startVars
    <3> QED  BY <3>1, StartStutters
  <2> QED  BY <2>1, <2>2
<1>5. ASSUME NEW c \in Conns, Unlink(c) PROVE StartInv'
  <2>1. CASE Leave(c)  BY <1>5, <2>1, LeaveKeeps DEF Unlink
  <2>2. CASE ~Leave(c)
    <3>1. UNCHANGED startVars  BY <1>5, <2>2 DEF Unlink, startVars
    <3> QED  BY <3>1, StartStutters
  <2> QED  BY <2>1, <2>2
<1>6. ASSUME NEW c \in Conns, Detach(c) \/ Listen(c) \/ Ready(c) \/ ClientsEnd(c) \/ Stop(c) PROVE StartInv'
  <2>1. UNCHANGED startVars  BY <1>6 DEF Detach, Listen, Ready, ClientsEnd, Stop
  <2> QED  BY <2>1, StartStutters
<1>7. ASSUME NEW c \in Conns, Remote(c) \/ RemoteFails(c) PROVE StartInv'
  <2>1. CASE \/ Boot(c) \/ RunCode(c) \/ FromStdio(c) \/ LogRecord(c) \/ WriteBoundaryR(c) \/ ReadBoundaryR(c)
             \/ Stops(c)
    BY <2>1, ProcessGoes
  <2>2. CASE Crash(c) \/ StdioFails(c) \/ Verify(c) \/ InputEnds(c) \/ Dies(c)  BY <2>2, ProcessEnds
  <2> QED  BY <1>7, <2>1, <2>2 DEF Remote, RemoteFails
<1> QED
  BY <1>1, <1>2, <1>3, <1>4, <1>5, <1>6, <1>7, ServerEndsKeeps DEF Next, Serve, Surroundings

\* Nothing has been started.
LEMMA InitStart == Init => StartInv
<1> SUFFICES ASSUME StartInit PROVE StartInv  BY DEF Init
<1>1. /\ Maps(local) /\ Maps(remote) /\ Maps(up) /\ Maps(down) /\ Maps(err) /\ Maps(said)
      /\ Maps(spoken) /\ Maps(begun) /\ Maps(hurried) /\ Maps(told) /\ Maps(cause)
  BY DEF StartInit, Maps
<1>2. ASSUME NEW c \in Conns PROVE Sorts(c) /\ Conn(c)
  <2>1. /\ local[c] = "idle" /\ remote[c] = "none" /\ up[c] = <<>> /\ down[c] = <<>> /\ err[c] = <<>>
        /\ said[c] = <<>> /\ spoken[c] = <<>>
    BY DEF StartInit
  <2>2. begun[c] = FALSE /\ hurried[c] = FALSE /\ told[c] = {} /\ cause[c] = "none"  BY DEF StartInit
  <2>3. <<>> \in Seq(Tokens) /\ Len(<<>>) <= MaxLines  BY StartupConstants
  <2>4. Sorts(c)  BY <2>1, <2>2, <2>3 DEF Sorts, Locals, Remotes
  <2>5. Unused(c) /\ Childless(c) /\ Evidence(c) /\ Known(c)
    BY <2>1, <2>2 DEF Unused, Childless, Evidence, Known, Leaving
  <2>6. Plain(c) /\ Past(c) /\ ErrEnds(c)  BY <2>1, <2>2, Empty DEF Plain, Past, ErrEnds, Waiting
  <2> QED  BY <2>4, <2>5, <2>6 DEF Conn
<1> QED  BY <1>1, <1>2 DEF StartInv, StartTypes

\* What the invariant says about connections.
LEMMA StartSafe == StartInv => StartTypeOK /\ NoChild /\ PlainUntilReady /\ ToldWhy
<1> SUFFICES ASSUME StartInv PROVE StartTypeOK /\ NoChild /\ PlainUntilReady /\ ToldWhy  OBVIOUS
<1>1. StartTypeOK
  <2>1. \A c \in Conns : Sorts(c)  BY DEF StartInv, StartTypes
  <2>2. Maps(local) /\ Maps(remote)  BY DEF StartInv, StartTypes
  <2>3. local \in [Conns -> Locals] /\ remote \in [Conns -> Remotes]  BY <2>1, <2>2 DEF Maps, Sorts
  <2>4. ASSUME NEW c \in Conns
        PROVE  /\ Lines_(up[c]) \subseteq Tokens /\ Lines_(down[c]) \subseteq Tokens
               /\ Len(said[c]) <= MaxLines /\ Len(spoken[c]) <= MaxLines
    BY <2>1, LastAmong DEF Sorts
  <2> QED  BY <2>3, <2>4 DEF StartTypeOK, Locals, Remotes
<1>2. NoChild  BY DEF StartInv, Conn, Childless, NoChild, Alive
<1>3. PlainUntilReady
  <2> SUFFICES ASSUME NEW c \in Conns, local[c] \in {"handshake", "ask", "write", "late", "read"},
                      NEW i \in DOMAIN down[c], down[c][i] = "log"
               PROVE  \E j \in 1..(i - 1) : down[c][j] = "ready"
    BY DEF PlainUntilReady
  <2>1. Sorts(c) /\ Plain(c)  BY OfOne
  <2>2. i \in 1..Len(down[c])  BY <2>1 DEF Sorts
  <2> QED  BY <2>1, <2>2 DEF Plain, Waiting, Behind
<1>4. ToldWhy  BY DEF StartInv, Conn, Known, ToldWhy
<1> QED  BY <1>1, <1>2, <1>3, <1>4

\* However the surroundings behave: a caller of Protocol whose start failed, and
\* that had the time to look, has an error that names why the peer could not
\* start, although the reason may have come on stderr only and although both
\* streams are read by different tasks (Protocol.__aenter__, start_failure,
\* collect_stderr).  It says nothing of what a launcher prints.
THEOREM FailuresAreTold == Spec => []ToldWhy
<1>1. Spec => []StartInv  BY InitStart, NextStart, PTL DEF Spec
<1> QED  BY <1>1, StartSafe, PTL

\* However the surroundings behave, with servers in the foreground whose start
\* is cancelled too: a start that failed and a connection that was left have
\* reaped their process, and no log frame comes before READY
\* (Protocol.__aenter__, Protocol.__aexit__, RemoteLogHandler.paused).
THEOREM StartsAreClean == Spec => [](NoChild /\ PlainUntilReady)
<1>1. Spec => []StartInv  BY InitStart, NextStart, PTL DEF Spec
<1> QED  BY <1>1, StartSafe, PTL

-----------------------------------------------------------------------------
(* A launcher that failed                                                   *)

\* The launcher has not forked.
Unforked == {"idle", "locking", "inspecting", "probing", "refused", "forking"}

\* A server begins with its launcher, and its pipe closes with it.
Bereft(l) ==
    /\ launcher[l] \in Unforked => server[l] = "none"
    /\ ready[l] = "closed" => server[l] = "gone"
    /\ launcher[l] = "failed" => server[l] \in {"none", "gone"}

BereftInv ==
    /\ Maps(launcher) /\ Maps(server) /\ ready \in [Conns -> {"open", "written", "closed"}]
    /\ \A l \in Conns : Bereft(l)

\* Only launcher c and its server move.
LEMMA BereftKeeps ==
  ASSUME BereftInv, NEW c \in Conns, Moved(launcher, launcher', c), Moved(server, server', c),
         Moved(ready, ready', c), ready'[c] \in {"open", "written", "closed"}, Bereft(c)'
  PROVE  BereftInv'
<1>1. Maps(ready) /\ Maps(launcher) /\ Maps(server)  BY DEF BereftInv, Maps
<1>2. Maps(launcher') /\ Maps(server') /\ Maps(ready')  BY <1>1, MovedOnly
<1>3. ASSUME NEW d \in Conns, d # c
      PROVE  launcher'[d] = launcher[d] /\ server'[d] = server[d] /\ ready'[d] = ready[d]
  BY <1>1, <1>3, MovedOnly
<1>4. ASSUME NEW d \in Conns PROVE Bereft(d)' /\ ready'[d] \in {"open", "written", "closed"}
  BY <1>3 DEF BereftInv, Bereft
<1>5. ready' \in [Conns -> {"open", "written", "closed"}]  BY <1>2, <1>4 DEF Maps
<1> QED  BY <1>2, <1>4, <1>5 DEF BereftInv, Maps

\* A launcher goes from one place to another, and leaves the servers alone.
LEMMA LauncherBereft ==
  ASSUME BereftInv, NEW c \in Conns, NEW to, launcher' = [launcher EXCEPT ![c] = to], UNCHANGED <<server, ready>>,
         to \in Unforked => launcher[c] \in Unforked,
         to = "failed" => launcher[c] \in Unforked \/ ready[c] = "closed"
  PROVE  BereftInv'
<1>1. Maps(ready) /\ Maps(launcher) /\ Maps(server) /\ Bereft(c)  BY DEF BereftInv, Maps
<1>2. Moved(launcher, launcher', c) /\ launcher'[c] = to  BY <1>1, Assigned
<1>3. Moved(server, server', c) /\ Moved(ready, ready', c)  BY <1>1, Assigned
<1>4. Bereft(c)'  BY <1>1, <1>2 DEF Bereft
<1>5. ready'[c] \in {"open", "written", "closed"}  BY DEF BereftInv
<1> QED  BY <1>2, <1>3, <1>4, <1>5, BereftKeeps

\* A server that is there goes on, or ends with its pipe.
LEMMA ServerBereft ==
  ASSUME BereftInv, NEW c \in Conns, NEW to, server' = [server EXCEPT ![c] = to], UNCHANGED launcher,
         server[c] # "none", to = "gone" \/ server[c] # "gone",
         \/ ready' = ready
         \/ ready' = [ready EXCEPT ![c] = "written"]
         \/ ready' = [ready EXCEPT ![c] = IF @ = "open" THEN "closed" ELSE @] /\ to = "gone"
  PROVE  BereftInv'
<1>1. Maps(ready) /\ Maps(launcher) /\ Maps(server) /\ Bereft(c)  BY DEF BereftInv, Maps
<1>2. Moved(server, server', c) /\ server'[c] = to  BY <1>1, Assigned
<1>3. Moved(launcher, launcher', c)  BY <1>1, Assigned
<1>4. ready[c] \in {"open", "written", "closed"}  BY DEF BereftInv
<1>5. /\ Moved(ready, ready', c) /\ ready'[c] \in {"open", "written", "closed"}
      /\ ready'[c] = "closed" => ready[c] = "closed" \/ to = "gone"
  <2>1. CASE ready' = ready  BY <1>1, <1>4, <2>1, Assigned
  <2>2. CASE ready' = [ready EXCEPT ![c] = "written"]  BY <1>1, <2>2 DEF Moved, Maps
  <2>3. CASE ready' = [ready EXCEPT ![c] = IF @ = "open" THEN "closed" ELSE @] /\ to = "gone"
    BY <1>1, <1>4, <2>3 DEF Moved, Maps
  <2> QED  BY <2>1, <2>2, <2>3
<1>6. Bereft(c)'  BY <1>1, <1>2, <1>5 DEF Bereft
<1> QED  BY <1>2, <1>3, <1>5, <1>6, BereftKeeps

\* The steps of the launchers.
LEMMA LaunchBereft ==
  ASSUME "late lock" \notin Upsets, BereftInv, NEW c \in Conns, Begin(c) \/ Launch(c)
  PROVE  BereftInv'
<1>1. Maps(ready) /\ Maps(launcher) /\ Maps(server) /\ Bereft(c)  BY DEF BereftInv, Maps
<1>2. CASE Begin(c)
  <2>1. CASE c \in Foreground
    <3>1. /\ launcher' = [launcher EXCEPT ![c] = "none"] /\ server' = [server EXCEPT ![c] = "starting"]
          /\ ready' = ready /\ launcher[c] = "idle"
      BY <1>2, <2>1 DEF Begin
    <3>2. Moved(launcher, launcher', c) /\ launcher'[c] = "none"  BY <1>1, <3>1 DEF Moved, Maps
    <3>3. Moved(server, server', c) /\ server'[c] = "starting"  BY <1>1, <3>1 DEF Moved, Maps
    <3>4. Moved(ready, ready', c)  BY <1>1, <3>1, Assigned
    <3>5. Bereft(c)'  BY <1>1, <3>1, <3>2, <3>3 DEF Bereft, Unforked
    <3>6. ready'[c] \in {"open", "written", "closed"}  BY <3>1 DEF BereftInv
    <3> QED  BY <3>2, <3>3, <3>4, <3>5, <3>6, BereftKeeps
  <2>2. CASE c \notin Foreground
    <3>1. launcher' = [launcher EXCEPT ![c] = "locking"] /\ UNCHANGED <<server, ready>> /\ launcher[c] = "idle"
      BY <1>2, <2>2 DEF Begin
    <3> QED  BY <3>1, LauncherBereft DEF Unforked
  <2> QED  BY <2>1, <2>2
<1>3. CASE TakeLock(c) \/ Inspect(c)
  <2>1. PICK to \in {"inspecting", "probing"} : launcher' = [launcher EXCEPT ![c] = to]
    BY <1>3 DEF TakeLock, Inspect
  <2>2. launcher[c] \in Unforked /\ UNCHANGED <<server, ready>>
    BY <1>3 DEF TakeLock, Inspect, serverVars, Unforked
  <2> QED  BY <2>1, <2>2, LauncherBereft
<1>4. CASE Probe(c)
  <2>1. launcher[c] \in Unforked /\ UNCHANGED <<server, ready>>  BY <1>4 DEF Probe, serverVars, Unforked
  <2>2. CASE launcher' = [launcher EXCEPT ![c] = "refused"]  BY <2>1, <2>2, LauncherBereft
  <2>3. CASE UNCHANGED launcher
    <3>1. launcher' = [launcher EXCEPT ![c] = launcher[c]]  BY <1>1, <2>3 DEF Maps
    <3>2. launcher[c] # "failed"  BY <2>1 DEF Unforked
    <3> QED  BY <2>1, <3>1, <3>2, LauncherBereft
  <2> QED  BY <1>4, <2>2, <2>3 DEF Probe
<1>5. CASE LockTimeout(c) \/ Alive_(c) \/ ProbeFails(c) \/ RemoveStale(c)
  <2>1. launcher[c] \in Unforked /\ UNCHANGED <<server, ready>>
    BY <1>5 DEF LockTimeout, Alive_, ProbeFails, RemoveStale, serverVars, Unforked
  <2>2. PICK to : launcher' = [launcher EXCEPT ![c] = to]
    BY <1>5 DEF LockTimeout, Alive_, ProbeFails, RemoveStale, Ended
  <2> QED  BY <2>1, <2>2, LauncherBereft
<1>6. CASE Fork(c)
  <2>1. /\ launcher' = [launcher EXCEPT ![c] = "waiting"] /\ server' = [server EXCEPT ![c] = "forked"]
        /\ ready' = ready /\ launcher[c] = "forking"
    BY <1>6 DEF Fork
  <2>2. Moved(launcher, launcher', c) /\ launcher'[c] = "waiting"  BY <1>1, <2>1 DEF Moved, Maps
  <2>3. Moved(server, server', c) /\ server'[c] = "forked"  BY <1>1, <2>1 DEF Moved, Maps
  <2>4. Moved(ready, ready', c)  BY <1>1, <2>1, Assigned
  <2>5. Bereft(c)'  BY <1>1, <2>1, <2>2, <2>3 DEF Bereft, Unforked
  <2>6. ready'[c] \in {"open", "written", "closed"}  BY <2>1 DEF BereftInv
  <2> QED  BY <2>2, <2>3, <2>4, <2>5, <2>6, BereftKeeps
<1>7. CASE Told(c)
  <2>1. PICK to \in {"ok", "failed"} : launcher' = [launcher EXCEPT ![c] = to] /\ (to = "failed" => ready[c] # "written")
    BY <1>7 DEF Told, Ended
  <2>2. UNCHANGED <<server, ready>> /\ ready[c] # "open"  BY <1>7 DEF Told, serverVars
  <2>3. ready[c] \in {"open", "written", "closed"}  BY DEF BereftInv
  <2> QED  BY <2>1, <2>2, <2>3, LauncherBereft DEF Unforked
<1>8. CASE TimedOut(c)
  <2>1. launcher' = [launcher EXCEPT ![c] = "killing"] /\ UNCHANGED <<server, ready>>
    BY <1>8 DEF TimedOut, serverVars
  <2> QED  BY <2>1, LauncherBereft DEF Unforked
<1>9. CASE GiveUp(c)
  <2>1. /\ launcher' = [launcher EXCEPT ![c] = "failed"] /\ server' = [server EXCEPT ![c] = "gone"]
        /\ ready' = [ready EXCEPT ![c] = IF @ = "open" THEN "closed" ELSE @]
    BY <1>9 DEF GiveUp, KillGroup, Killed, Ended
  <2>2. Moved(launcher, launcher', c) /\ launcher'[c] = "failed"  BY <1>1, <2>1 DEF Moved, Maps
  <2>3. Moved(server, server', c) /\ server'[c] = "gone"  BY <1>1, <2>1 DEF Moved, Maps
  <2>4. ready[c] \in {"open", "written", "closed"}  BY DEF BereftInv
  <2>5. Moved(ready, ready', c) /\ ready'[c] \in {"open", "written", "closed"}  BY <1>1, <2>1, <2>4 DEF Moved, Maps
  <2>6. Bereft(c)'  BY <2>2, <2>3 DEF Bereft, Unforked
  <2> QED  BY <2>2, <2>3, <2>5, <2>6, BereftKeeps
<1> QED  BY <1>2, <1>3, <1>4, <1>5, <1>6, <1>7, <1>8, <1>9 DEF Launch

\* Steps that touch neither launchers nor servers.
LEMMA StuttersBereft ==
  ASSUME BereftInv, UNCHANGED <<launcher, server, ready>>
  PROVE  BereftInv'
  BY DEF BereftInv, Bereft, Maps

\* The steps of the servers, and of those who stop or kill one.
LEMMA ServeBereft ==
  ASSUME BereftInv, NEW c \in Conns, Serve(c) \/ Surroundings(c)
  PROVE  BereftInv'
<1>1. CASE Connecting(c) \/ Remote(c) \/ RemoteFails(c)
  <2>1. UNCHANGED <<launcher, server, ready>>  BY <1>1 DEF Connecting, Remote, RemoteFails, launchVars, serverVars
  <2> QED  BY <2>1, StuttersBereft
<1>2. CASE Detach(c) \/ Listen(c) \/ ClientsEnd(c) \/ Stop(c)
  <2>1. PICK to : server' = [server EXCEPT ![c] = to]  BY <1>2 DEF Detach, Listen, ClientsEnd, Stop
  <2>2. UNCHANGED <<launcher, ready>> /\ server[c] \notin {"none", "gone"}
    BY <1>2 DEF Detach, Listen, ClientsEnd, Stop, launchVars
  <2> QED  BY <2>1, <2>2, ServerBereft
<1>3. CASE Ready(c)
  <2>1. /\ server' = [server EXCEPT ![c] = "serving"] /\ ready' = [ready EXCEPT ![c] = "written"]
        /\ UNCHANGED launcher /\ server[c] = "listening"
    BY <1>3 DEF Ready, launchVars
  <2> QED  BY <2>1, ServerBereft
<1>4. CASE Bind(c) \/ Unlink(c)
  <2>1. PICK to \in {"leaving", "bound", "removing"} : server' = [server EXCEPT ![c] = to]  BY <1>4 DEF Bind, Unlink
  <2>2. UNCHANGED <<launcher, ready>> /\ server[c] \notin {"none", "gone"}  BY <1>4 DEF Bind, Unlink, launchVars
  <2> QED  BY <2>1, <2>2, ServerBereft
<1>5. CASE Gone(c) \/ CrashServer(c)
  <2>1. /\ server' = [server EXCEPT ![c] = "gone"] /\ UNCHANGED launcher /\ server[c] # "none"
        /\ ready' = [ready EXCEPT ![c] = IF @ = "open" THEN "closed" ELSE @]
    BY <1>5 DEF Gone, CrashServer, Killed, launchVars
  <2> QED  BY <2>1, ServerBereft
<1> QED  BY <1>1, <1>2, <1>3, <1>4, <1>5 DEF Serve, Surroundings

\* A launcher that reports a failure has left no server behind
\* (ensure_running): for every number of launchers and of servers in the
\* foreground, whatever happens to the path and to the inodes on it, also when
\* the server becomes ready between the deadline and the kill.  Only a child
\* that is killed before it has made its process group escapes.
THEOREM NoServerLeft == "late lock" \notin Upsets /\ Spec => []NoOrphan
<1>1. CASE "late lock" \in Upsets  BY <1>1
<1>2. CASE "late lock" \notin Upsets
  <2>1. Init => BereftInv  BY DEF Init, BereftInv, Bereft, Maps
  <2>2. BereftInv /\ [Next]_vars => BereftInv'
    <3> SUFFICES ASSUME BereftInv, [Next]_vars PROVE BereftInv'  OBVIOUS
    <3>1. CASE UNCHANGED vars  BY <3>1, StuttersBereft DEF vars, launchVars, serverVars
    <3>2. CASE Next  BY <1>2, <3>2, LaunchBereft, ServeBereft DEF Next
    <3> QED  BY <3>1, <3>2
  <2>3. BereftInv => NoOrphan  BY DEF BereftInv, Bereft, NoOrphan
  <2>4. Spec => []NoOrphan  BY <2>1, <2>2, <2>3, PTL DEF Spec
  <2> QED  BY <2>4
<1> QED  BY <1>1, <1>2

-----------------------------------------------------------------------------
(* The launchers and their servers                                          *)

\* What the last theorem takes for granted: the servers are started by
\* launchers, and none of what Upsets names happens, except that a peer stops.
\* Each of these breaks Reachable: a launcher takes a socket that is bound and
\* not yet listening for a stale one, if its server is in the foreground or an
\* orphan of a late lock, and a server that leaves removes a later socket, if
\* that got its inode or was made between its lstat and its unlink.
Settled == Foreground = {} /\ Upsets \subseteq {"stopped peer"}

\* The launcher holds the lock; the server has a socket.
Locked == {"inspecting", "probing", "refused", "forking", "waiting", "killing"}
Bound == {"bound", "listening", "serving"}

LaunchTypes ==
    /\ lock \in Conns \union {Free} /\ file \in 0..Cardinality(Conns)
    /\ launcher \in [Conns -> Locked \union {"idle", "locking", "ok", "failed"}]
    /\ server \in [Conns -> Bound \union {"none", "forked", "starting", "closing", "unlinking", "leaving", "gone"}]
    /\ inode \in [Conns -> 0..Cardinality(Conns)] /\ ready \in [Conns -> {"open", "written", "closed"}]

\* How a launcher stands to the lock and to its server.  A server that is not
\* ready has a launcher that waits for it.
Pair(l) ==
    /\ launcher[l] \in Locked <=> lock = l
    /\ launcher[l] \in Unforked => server[l] = "none"
    /\ server[l] \in {"forked", "starting", "bound", "listening"} => launcher[l] \in {"waiting", "killing"} /\ ready[l] = "open"
    /\ server[l] = "none" => ready[l] = "open"
    /\ ready[l] = "closed" => server[l] = "gone"
    /\ launcher[l] = "failed" => server[l] \in {"none", "gone"}

\* A server that listens, or is about to, is on the path.
OnPath(s) ==
    /\ server[s] \in {"none", "forked", "starting"} => inode[s] = 0
    /\ server[s] \in Bound \union {"closing", "unlinking"} => inode[s] # 0
    /\ server[s] \in Bound => file = inode[s]

\* Every socket has an inode of its own.
OwnInodes == \A s, t \in Conns : s # t /\ inode[s] # 0 => inode[s] # inode[t]

\* Whom a launcher was refused by is nobody: it may remove what is on the path.
Refused == \A l \in Conns : launcher[l] = "refused" => \A s \in Conns : server[s] \notin Bound

LaunchInv == LaunchTypes /\ OwnInodes /\ Refused /\ \A c \in Conns : Pair(c) /\ OnPath(c)

\* Only launcher c and its server move.
Apart(c) ==
    /\ \A d \in Conns \ {c} : /\ launcher'[d] = launcher[d] /\ server'[d] = server[d] /\ inode'[d] = inode[d]
                              /\ ready'[d] = ready[d] /\ (lock' = d <=> lock = d)

\* The path changes only while no other server is on it, and a socket that is
\* made has an inode of its own.
Files(c) ==
    /\ file' = file \/ \A d \in Conns \ {c} : server[d] \notin Bound
    /\ inode'[c] = inode[c] \/ (inode'[c] # 0 /\ \A d \in Conns : inode[d] # inode'[c])

\* Such a step is a matter of launcher c and of its server.
LEMMA LaunchKeeps ==
  ASSUME LaunchInv, NEW c \in Conns, LaunchTypes', Apart(c), Files(c), Refused', Pair(c)', OnPath(c)'
  PROVE  LaunchInv'
<1>1. ASSUME NEW d \in Conns PROVE Pair(d)' /\ OnPath(d)'
  <2>1. CASE d = c  BY <2>1
  <2>2. CASE d # c
    <3>1. Pair(d) /\ OnPath(d)  BY DEF LaunchInv
    <3>2. /\ launcher'[d] = launcher[d] /\ server'[d] = server[d] /\ inode'[d] = inode[d]
          /\ ready'[d] = ready[d] /\ (lock' = d <=> lock = d)
      BY <2>2 DEF Apart
    <3>3. Pair(d)'  BY <3>1, <3>2 DEF Pair
    <3>4. server[d] \in Bound => file' = file  BY <2>2 DEF Files
    <3>5. OnPath(d)'  BY <3>1, <3>2, <3>4 DEF OnPath
    <3> QED  BY <3>3, <3>5
  <2> QED  BY <2>1, <2>2
<1>2. OwnInodes'
  <2> SUFFICES ASSUME NEW s \in Conns, NEW t \in Conns, s # t, inode'[s] # 0 PROVE inode'[s] # inode'[t]
    BY DEF OwnInodes
  <2>1. inode[s] # 0 => inode[s] # inode[t]  BY DEF LaunchInv, OwnInodes
  <2>2. inode[t] # 0 => inode[t] # inode[s]  BY DEF LaunchInv, OwnInodes
  <2>3. CASE s = c  BY <2>1, <2>2, <2>3 DEF Apart, Files
  <2>4. CASE t = c  BY <2>1, <2>2, <2>4 DEF Apart, Files
  <2>5. CASE s # c /\ t # c  BY <2>1, <2>5 DEF Apart
  <2> QED  BY <2>3, <2>4, <2>5
<1> QED  BY <1>1, <1>2 DEF LaunchInv

\* Nobody is refused by, or comes to listen behind the back of, a launcher that
\* was refused.
LEMMA RefusedKept ==
  ASSUME LaunchInv, NEW c \in Conns, Apart(c), launcher'[c] # "refused", server'[c] \in Bound => server[c] \in Bound
  PROVE  Refused'
<1> SUFFICES ASSUME NEW l \in Conns, launcher'[l] = "refused", NEW s \in Conns PROVE server'[s] \notin Bound
  BY DEF Refused
<1>1. l # c  OBVIOUS
<1>2. launcher[l] = "refused"  BY <1>1 DEF Apart
<1>3. server[s] \notin Bound  BY <1>2 DEF LaunchInv, Refused
<1> QED  BY <1>3 DEF Apart

\* The lock and the descriptors of a launcher that ends.
LEMMA EndedApart ==
  ASSUME NEW c \in Conns, NEW result, LaunchTypes, Ended(c, result)
  PROVE  /\ launcher' = [launcher EXCEPT ![c] = result] /\ lock' \in Conns \union {Free} /\ lock' # c
         /\ \A d \in Conns \ {c} : lock' = d <=> lock = d
  BY LaunchConstants DEF Ended, LaunchTypes

\* The parts of the invariant of the launchers.
LEMMA OfLaunch ==
  ASSUME LaunchInv, NEW c \in Conns
  PROVE  LaunchTypes /\ Pair(c) /\ OnPath(c)
  BY DEF LaunchInv

\* The steps of a launcher that leave the servers and the path alone.
LEMMA LauncherMoves ==
  ASSUME Settled, LaunchInv, NEW c \in Conns,
         \/ Begin(c) \/ TakeLock(c) \/ LockTimeout(c) \/ Inspect(c) \/ Alive_(c) \/ ProbeFails(c) \/ Told(c)
         \/ TimedOut(c)
  PROVE  LaunchInv'
<1>1. LaunchTypes /\ Pair(c) /\ OnPath(c)  BY OfLaunch
<1>2. UNCHANGED <<file, server, inode, ready>>
  BY DEF Begin, TakeLock, LockTimeout, Inspect, Alive_, ProbeFails, Told, TimedOut, serverVars, Settled
<1>3. /\ launcher' = [launcher EXCEPT ![c] = launcher'[c]] /\ lock' \in Conns \union {Free}
      /\ \A d \in Conns \ {c} : lock' = d <=> lock = d
      /\ launcher'[c] \in Locked \union {"idle", "locking", "ok", "failed"} /\ launcher'[c] # "refused"
      /\ Pair(c)'
  <2>1. CASE Begin(c)
    <3>1. launcher[c] = "idle" /\ launcher' = [launcher EXCEPT ![c] = "locking"] /\ lock' = lock
      BY <2>1 DEF Begin, Settled
    <3>2. launcher'[c] = "locking"  BY <1>1, <3>1 DEF LaunchTypes
    <3>3. Pair(c)'  BY <1>1, <1>2, <3>1, <3>2 DEF Pair, Locked, Unforked
    <3> QED  BY <1>1, <3>1, <3>2, <3>3 DEF LaunchTypes
  <2>2. CASE TakeLock(c)
    <3>1. launcher[c] = "locking" /\ launcher' = [launcher EXCEPT ![c] = "inspecting"] /\ lock' = c /\ lock = Free
      BY <2>2 DEF TakeLock, LockFree
    <3>2. launcher'[c] = "inspecting"  BY <1>1, <3>1 DEF LaunchTypes
    <3>3. Pair(c)'  BY <1>1, <1>2, <3>1, <3>2 DEF Pair, Locked, Unforked
    <3>4. \A d \in Conns \ {c} : lock' = d <=> lock = d  BY <3>1, LaunchConstants
    <3> QED  BY <1>1, <3>1, <3>2, <3>3, <3>4 DEF Locked
  <2>3. CASE Inspect(c)
    <3>1. launcher[c] = "inspecting" /\ launcher' = [launcher EXCEPT ![c] = "probing"] /\ lock' = lock
      BY <2>3 DEF Inspect
    <3>2. launcher'[c] = "probing"  BY <1>1, <3>1 DEF LaunchTypes
    <3>3. Pair(c)'  BY <1>1, <1>2, <3>1, <3>2 DEF Pair, Locked, Unforked
    <3> QED  BY <1>1, <3>1, <3>2, <3>3 DEF LaunchTypes, Locked
  <2>4. CASE LockTimeout(c) \/ ProbeFails(c) \/ Alive_(c) \/ Told(c)
    <3>1. PICK result \in {"ok", "failed"} : Ended(c, result)
      BY <2>4 DEF LockTimeout, ProbeFails, Alive_, Told
    <3>2. /\ launcher' = [launcher EXCEPT ![c] = result] /\ lock' \in Conns \union {Free} /\ lock' # c
          /\ \A d \in Conns \ {c} : lock' = d <=> lock = d
      BY <1>1, <3>1, EndedApart
    <3>3. launcher'[c] = result  BY <1>1, <3>2 DEF LaunchTypes
    <3>4. server[c] \notin {"forked", "starting", "bound", "listening"}
      <4>1. CASE LockTimeout(c) \/ ProbeFails(c) \/ Alive_(c)
        BY <1>1, <4>1 DEF LockTimeout, ProbeFails, Alive_, Pair
      <4>2. CASE Told(c)  BY <1>1, <4>2 DEF Told, Pair
      <4> QED  BY <2>4, <4>1, <4>2
    <3>5. result = "failed" => server[c] \in {"none", "gone"}
      <4>1. CASE LockTimeout(c) \/ ProbeFails(c) \/ Alive_(c)
        BY <1>1, <4>1 DEF LockTimeout, ProbeFails, Alive_, Pair, Unforked
      <4>2. CASE Told(c)
        <5>1. launcher' = [launcher EXCEPT ![c] = IF ready[c] = "written" THEN "ok" ELSE "failed"] /\ ready[c] # "open"
          BY <4>2 DEF Told, Ended
        <5>2. launcher'[c] = IF ready[c] = "written" THEN "ok" ELSE "failed"  BY <1>1, <5>1 DEF LaunchTypes
        <5>3. ready[c] \in {"open", "written", "closed"}  BY <1>1 DEF LaunchTypes
        <5> QED  BY <1>1, <3>3, <5>1, <5>2, <5>3 DEF Pair
      <4> QED  BY <2>4, <4>1, <4>2
    <3>6. Pair(c)'  BY <1>1, <1>2, <3>2, <3>3, <3>4, <3>5 DEF Pair, Locked, Unforked
    <3> QED  BY <3>2, <3>3, <3>6
  <2>5. CASE TimedOut(c)
    <3>1. launcher[c] = "waiting" /\ launcher' = [launcher EXCEPT ![c] = "killing"] /\ lock' = lock
      BY <2>5 DEF TimedOut
    <3>2. launcher'[c] = "killing"  BY <1>1, <3>1 DEF LaunchTypes
    <3>3. Pair(c)'  BY <1>1, <1>2, <3>1, <3>2 DEF Pair, Locked, Unforked
    <3> QED  BY <1>1, <3>1, <3>2, <3>3 DEF LaunchTypes, Locked
  <2> QED  BY <2>1, <2>2, <2>3, <2>4, <2>5
<1>4. Apart(c)  BY <1>1, <1>2, <1>3 DEF Apart, LaunchTypes
<1>5. LaunchTypes'  BY <1>1, <1>2, <1>3 DEF LaunchTypes
<1>6. Files(c) /\ OnPath(c)'  BY <1>1, <1>2 DEF Files, OnPath
<1>7. Refused'  BY <1>2, <1>3, <1>4, RefusedKept
<1> QED  BY <1>3, <1>4, <1>5, <1>6, <1>7, LaunchKeeps

\* Who holds the lock is alone with it: no server is between its fork and READY
\* but the one of a launcher that waits for it.
LEMMA AloneLocked ==
  ASSUME LaunchInv, NEW l \in Conns, launcher[l] \in Locked, NEW s \in Conns,
         server[s] \in {"forked", "starting", "bound", "listening"}
  PROVE  s = l /\ launcher[l] \in {"waiting", "killing"}
<1>1. lock = l  BY DEF LaunchInv, Pair
<1>2. launcher[s] \in {"waiting", "killing"} /\ (launcher[s] \in Locked => lock = s)  BY DEF LaunchInv, Pair
<1> QED  BY <1>1, <1>2 DEF Locked

\* The health check: a refusal means that no server is on the path.
LEMMA ProbeMoves ==
  ASSUME Settled, LaunchInv, NEW c \in Conns, Probe(c)
  PROVE  LaunchInv'
<1>1. LaunchTypes /\ Pair(c) /\ OnPath(c)  BY OfLaunch
<1>2. UNCHANGED <<lock, file, server, inode, ready>> /\ launcher[c] = "probing"  BY DEF Probe, serverVars
<1>3. CASE UNCHANGED launcher
  <2>1. Apart(c) /\ Files(c)  BY <1>2, <1>3 DEF Apart, Files
  <2>2. LaunchTypes' /\ Pair(c)' /\ OnPath(c)'  BY <1>1, <1>2, <1>3 DEF LaunchTypes, Pair, OnPath
  <2>3. Refused'  BY <1>2, <1>3, <2>1, RefusedKept
  <2> QED  BY <2>1, <2>2, <2>3, LaunchKeeps
<1>4. CASE /\ ~\E s \in Conns : Listening(s) /\ inode[s] = file
           /\ launcher' = [launcher EXCEPT ![c] = "refused"]
  <2>1. launcher'[c] = "refused"  BY <1>1, <1>4 DEF LaunchTypes
  <2>2. ASSUME NEW s \in Conns PROVE server[s] \notin Bound
    <3>1. CASE server[s] = "bound"  BY <1>2, <3>1, AloneLocked DEF Locked
    <3>2. CASE server[s] \in {"listening", "serving"}  BY <1>4, <3>2 DEF Listening, LaunchInv, OnPath, Bound
    <3> QED  BY <3>1, <3>2 DEF Bound
  <2>3. Refused'  BY <1>2, <2>2 DEF Refused
  <2>4. Apart(c) /\ Files(c)  BY <1>1, <1>2, <1>4 DEF Apart, Files, LaunchTypes
  <2>5. LaunchTypes'  BY <1>1, <1>2, <1>4 DEF LaunchTypes, Locked
  <2>6. Pair(c)' /\ OnPath(c)'  BY <1>1, <1>2, <2>1 DEF Pair, OnPath, Locked, Unforked
  <2> QED  BY <2>3, <2>4, <2>5, <2>6, LaunchKeeps
<1> QED  BY <1>3, <1>4 DEF Probe

\* The stale socket is removed: nobody is on the path.
LEMMA RemoveMoves ==
  ASSUME Settled, LaunchInv, NEW c \in Conns, RemoveStale(c)
  PROVE  LaunchInv'
<1>1. LaunchTypes /\ Pair(c) /\ OnPath(c)  BY OfLaunch
<1>2. UNCHANGED <<server, inode, ready>> /\ launcher[c] = "refused"  BY DEF RemoveStale, serverVars
<1>3. \A s \in Conns : server[s] \notin Bound  BY <1>2 DEF LaunchInv, Refused
<1>4. server[c] = "none" /\ lock = c  BY <1>1, <1>2 DEF Pair, Unforked, Locked
<1>5. Refused'  BY <1>2, <1>3 DEF Refused
<1>6. Files(c)  BY <1>2, <1>3 DEF Files
<1>7. CASE Ended(c, "failed") /\ UNCHANGED file
  <2>1. /\ launcher' = [launcher EXCEPT ![c] = "failed"] /\ lock' \in Conns \union {Free} /\ lock' # c
        /\ \A d \in Conns \ {c} : lock' = d <=> lock = d
    BY <1>1, <1>7, EndedApart
  <2>2. launcher'[c] = "failed"  BY <1>1, <2>1 DEF LaunchTypes
  <2>3. Apart(c)  BY <1>1, <1>2, <2>1 DEF Apart, LaunchTypes
  <2>4. LaunchTypes'  BY <1>1, <1>2, <1>7, <2>1 DEF LaunchTypes
  <2>5. Pair(c)' /\ OnPath(c)'  BY <1>1, <1>2, <1>4, <1>7, <2>1, <2>2 DEF Pair, OnPath, Locked, Unforked
  <2> QED  BY <1>5, <1>6, <2>3, <2>4, <2>5, LaunchKeeps
<1>8. CASE /\ launcher' = [launcher EXCEPT ![c] = "forking"] /\ UNCHANGED lock
           /\ file' = IF seen[c] # 0 THEN 0 ELSE file
  <2>1. launcher'[c] = "forking"  BY <1>1, <1>8 DEF LaunchTypes
  <2>2. Apart(c)  BY <1>1, <1>2, <1>8 DEF Apart, LaunchTypes
  <2>3. file' \in 0..Cardinality(Conns)
    <3>1. file \in 0..Cardinality(Conns)  BY <1>1 DEF LaunchTypes
    <3> QED  BY <1>8, <3>1, LaunchConstants, FS_CardinalityType
  <2>4. LaunchTypes'  BY <1>1, <1>2, <1>8, <2>3 DEF LaunchTypes, Locked
  <2>5. Pair(c)' /\ OnPath(c)'  BY <1>1, <1>2, <1>4, <1>8, <2>1 DEF Pair, OnPath, Locked, Unforked, Bound
  <2> QED  BY <1>5, <1>6, <2>2, <2>4, <2>5, LaunchKeeps
<1> QED  BY <1>7, <1>8 DEF RemoveStale

\* The server is forked.
LEMMA ForkMoves ==
  ASSUME Settled, LaunchInv, NEW c \in Conns, Fork(c)
  PROVE  LaunchInv'
<1>1. LaunchTypes /\ Pair(c) /\ OnPath(c)  BY OfLaunch
<1>2. /\ launcher[c] = "forking" /\ launcher' = [launcher EXCEPT ![c] = "waiting"]
      /\ server' = [server EXCEPT ![c] = "forked"] /\ UNCHANGED <<lock, file, inode, ready>>
  BY DEF Fork
<1>3. launcher'[c] = "waiting" /\ server'[c] = "forked"  BY <1>1, <1>2 DEF LaunchTypes
<1>4. Apart(c) /\ Files(c)  BY <1>1, <1>2 DEF Apart, Files, LaunchTypes
<1>5. LaunchTypes'  BY <1>1, <1>2 DEF LaunchTypes, Locked
<1>6. Pair(c)' /\ OnPath(c)'  BY <1>1, <1>2, <1>3 DEF Pair, OnPath, Locked, Unforked, Bound
<1>7. Refused'  BY <1>3, <1>4, RefusedKept DEF Bound
<1> QED  BY <1>4, <1>5, <1>6, <1>7, LaunchKeeps

\* A server goes on, without having touched the path.
Advances(c, from, to) ==
    /\ server[c] \in from /\ server' = [server EXCEPT ![c] = to] /\ UNCHANGED <<launcher, lock, file, inode>>
    /\ \/ UNCHANGED ready
       \/ ready' = [ready EXCEPT ![c] = "written"]
       \/ ready' = [ready EXCEPT ![c] = IF @ = "open" THEN "closed" ELSE @]

\* The steps of a server that leave the path and the launchers alone.
LEMMA AdvancesKeeps ==
  ASSUME LaunchInv, NEW c \in Conns, NEW from, NEW to, Advances(c, from, to),
         \/ from = {"forked"} /\ to = "starting" /\ ready' = ready
         \/ from = {"bound"} /\ to = "listening" /\ ready' = ready
         \/ from = {"listening"} /\ to = "serving" /\ ready' = [ready EXCEPT ![c] = "written"]
         \/ from = {"serving"} /\ to = "closing" /\ ready' = ready
         \/ from = {"closing"} /\ to = "unlinking" /\ ready' = ready
         \/ from = {"starting"} /\ to = "leaving" /\ ready' = ready
         \/ "none" \notin from /\ to = "gone" /\ ready' = [ready EXCEPT ![c] = IF @ = "open" THEN "closed" ELSE @]
  PROVE  LaunchInv'
<1>1. LaunchTypes /\ Pair(c) /\ OnPath(c)  BY OfLaunch
<1>2. server'[c] = to /\ UNCHANGED <<launcher, lock, file, inode>> /\ server[c] \in from
  BY <1>1 DEF Advances, LaunchTypes
<1>3. /\ ready' \in [Conns -> {"open", "written", "closed"}]
      /\ \A d \in Conns \ {c} : ready'[d] = ready[d]
      /\ ready' = [ready EXCEPT ![c] = "written"] => ready'[c] = "written"
      /\ ready' = [ready EXCEPT ![c] = IF @ = "open" THEN "closed" ELSE @] => ready'[c] # "open"
  <2>1. ready \in [Conns -> {"open", "written", "closed"}]  BY <1>1 DEF LaunchTypes
  <2>2. CASE UNCHANGED ready  BY <2>1, <2>2
  <2>3. CASE ready' = [ready EXCEPT ![c] = "written"]  BY <2>1, <2>3
  <2>4. CASE ready' = [ready EXCEPT ![c] = IF @ = "open" THEN "closed" ELSE @]  BY <2>1, <2>4
  <2> QED  BY <2>2, <2>3, <2>4 DEF Advances
<1>4. Apart(c) /\ Files(c)  BY <1>1, <1>2, <1>3 DEF Apart, Files, Advances, LaunchTypes
<1>5. LaunchTypes'  BY <1>1, <1>2, <1>3 DEF LaunchTypes, Advances, Bound
<1>6. Pair(c)'
  <2>1. CASE to = "gone"
    <3>1. launcher[c] \notin Unforked  BY <1>1, <1>2, <2>1 DEF Pair
    <3>2. ready'[c] \in {"open", "written", "closed"}  BY <1>3
    <3> QED  BY <1>1, <1>2, <2>1, <3>1 DEF Pair
  <2>2. CASE to # "gone"  BY <1>1, <1>2, <1>3, <2>2 DEF Pair, Unforked
  <2> QED  BY <2>1, <2>2
<1>7. OnPath(c)'  BY <1>1, <1>2 DEF OnPath, Bound
<1>8. Refused'
  <2>1. server'[c] \in Bound => server[c] \in Bound  BY <1>2 DEF Bound
  <2>2. launcher'[c] # "refused"  BY <1>1, <1>2 DEF Pair, Unforked
  <2> QED  BY <1>4, <2>1, <2>2, RefusedKept
<1> QED  BY <1>4, <1>5, <1>6, <1>7, <1>8, LaunchKeeps

\* The deadline of a launcher: the server goes with its process group.
LEMMA GiveUpMoves ==
  ASSUME Settled, LaunchInv, NEW c \in Conns, GiveUp(c)
  PROVE  LaunchInv'
<1>1. LaunchTypes /\ Pair(c) /\ OnPath(c)  BY OfLaunch
<1>2. server[c] # "forked"  BY DEF GiveUp, Settled
<1>3. /\ launcher[c] = "killing" /\ Ended(c, "failed") /\ UNCHANGED <<file, inode>>
      /\ server' = [server EXCEPT ![c] = "gone"] /\ ready' = [ready EXCEPT ![c] = IF @ = "open" THEN "closed" ELSE @]
  BY <1>2 DEF GiveUp, KillGroup, Killed
<1>4. /\ launcher' = [launcher EXCEPT ![c] = "failed"] /\ lock' \in Conns \union {Free} /\ lock' # c
      /\ \A d \in Conns \ {c} : lock' = d <=> lock = d
  BY <1>1, <1>3, EndedApart
<1>5. launcher'[c] = "failed" /\ server'[c] = "gone"  BY <1>1, <1>3, <1>4 DEF LaunchTypes
<1>6. Apart(c) /\ Files(c)  BY <1>1, <1>3, <1>4 DEF Apart, Files, LaunchTypes
<1>7. LaunchTypes'  BY <1>1, <1>3, <1>4 DEF LaunchTypes
<1>8. Pair(c)' /\ OnPath(c)'  BY <1>1, <1>4, <1>5 DEF Pair, OnPath, Locked, Unforked, Bound
<1>9. Refused'  BY <1>5, <1>6, RefusedKept DEF Bound
<1> QED  BY <1>6, <1>7, <1>8, <1>9, LaunchKeeps

\* A socket is made on a path that nobody is on, or the server leaves.
LEMMA BindMoves ==
  ASSUME Settled, LaunchInv, NEW c \in Conns, Bind(c)
  PROVE  LaunchInv'
<1>1. LaunchTypes /\ Pair(c) /\ OnPath(c)  BY OfLaunch
<1>2. server[c] = "starting" /\ UNCHANGED <<launcher, lock, ready>>  BY DEF Bind, launchVars
<1>3. CASE file # 0
  <2>1. Advances(c, {"starting"}, "leaving") /\ ready' = ready  BY <1>2, <1>3 DEF Bind, Advances
  <2> QED  BY <2>1, AdvancesKeeps
<1>4. CASE file = 0
  <2>1. PICK i \in NewInodes : file' = i /\ inode' = [inode EXCEPT ![c] = i] /\ server' = [server EXCEPT ![c] = "bound"]
    BY <1>4 DEF Bind
  <2>2. i \in 1..Cardinality(Conns) /\ \A s \in Conns : inode[s] # i
    <3>1. "inode reuse" \notin Upsets  BY DEF Settled
    <3> QED  BY <2>1, <3>1 DEF NewInodes
  <2>3. i # 0 /\ i \in 0..Cardinality(Conns)  BY <2>2, LaunchConstants, FS_CardinalityType
  <2>4. server'[c] = "bound" /\ inode'[c] = i  BY <1>1, <2>1 DEF LaunchTypes
  <2>5. ASSUME NEW d \in Conns PROVE server[d] \notin Bound
    <3>1. OnPath(d)  BY OfLaunch
    <3> QED  BY <1>4, <3>1 DEF OnPath
  <2>6. Apart(c)  BY <1>1, <1>2, <2>1 DEF Apart, LaunchTypes
  <2>7. Files(c)  BY <2>2, <2>3, <2>4, <2>5 DEF Files
  <2>8. LaunchTypes'  BY <1>1, <1>2, <2>1, <2>3 DEF LaunchTypes, Bound
  <2>9. Pair(c)' /\ OnPath(c)'  BY <1>1, <1>2, <2>1, <2>3, <2>4 DEF Pair, OnPath, Unforked, Bound
  <2>10. Refused'
    <3> SUFFICES ASSUME NEW l \in Conns, launcher'[l] = "refused" PROVE FALSE  BY DEF Refused
    <3>1. launcher[l] = "refused" /\ launcher[l] \in Locked  BY <1>2 DEF Locked
    <3> QED  BY <1>2, <3>1, AloneLocked
  <2> QED  BY <2>6, <2>7, <2>8, <2>9, <2>10, LaunchKeeps
<1> QED  BY <1>3, <1>4

\* A server that leaves removes its own socket and no other.
LEMMA UnlinkMoves ==
  ASSUME Settled, LaunchInv, NEW c \in Conns, Unlink(c)
  PROVE  LaunchInv'
<1>1. LaunchTypes /\ Pair(c) /\ OnPath(c)  BY OfLaunch
<1>2. server[c] = "unlinking"
  <2>1. server[c] # "removing"  BY <1>1 DEF LaunchTypes, Bound
  <2> QED  BY <2>1 DEF Unlink
<1>3. /\ server' = [server EXCEPT ![c] = "leaving"] /\ file' = IF Owns(c) THEN 0 ELSE file
      /\ UNCHANGED <<launcher, lock, inode, ready>>
  <2>1. "slow unlink" \notin Upsets  BY DEF Settled
  <2> QED  BY <1>2, <2>1 DEF Unlink, launchVars
<1>4. server'[c] = "leaving"  BY <1>1, <1>3 DEF LaunchTypes
<1>5. Apart(c)  BY <1>1, <1>3 DEF Apart, LaunchTypes
<1>6. Files(c)
  <2>1. CASE ~Owns(c)  BY <1>3, <2>1 DEF Files
  <2>2. CASE Owns(c)
    <3>1. file = inode[c] /\ inode[c] # 0  BY <1>1, <1>2, <2>2 DEF Owns, OnPath
    <3>2. ASSUME NEW d \in Conns \ {c} PROVE server[d] \notin Bound
      <4>1. inode[d] # inode[c]  BY <3>1 DEF LaunchInv, OwnInodes
      <4>2. OnPath(d)  BY OfLaunch
      <4> QED  BY <3>1, <4>1, <4>2 DEF OnPath
    <3> QED  BY <1>3, <3>2 DEF Files
  <2> QED  BY <2>1, <2>2
<1>7. LaunchTypes'
  <2>1. file' \in 0..Cardinality(Conns)
    <3>1. file \in 0..Cardinality(Conns)  BY <1>1 DEF LaunchTypes
    <3> QED  BY <1>3, <3>1, LaunchConstants, FS_CardinalityType
  <2> QED  BY <1>1, <1>3, <2>1 DEF LaunchTypes
<1>8. Pair(c)' /\ OnPath(c)'  BY <1>1, <1>2, <1>3, <1>4 DEF Pair, OnPath, Unforked, Bound
<1>9. Refused'
  <2>1. launcher'[c] # "refused"  BY <1>1, <1>2, <1>3 DEF Pair, Unforked
  <2> QED  BY <1>4, <1>5, <2>1, RefusedKept DEF Bound
<1> QED  BY <1>5, <1>6, <1>7, <1>8, <1>9, LaunchKeeps

\* The steps of a server and of its connection that leave the path alone.
LEMMA ServerMoves ==
  ASSUME LaunchInv, NEW c \in Conns,
         Detach(c) \/ Listen(c) \/ Ready(c) \/ ClientsEnd(c) \/ Stop(c) \/ Gone(c) \/ CrashServer(c)
  PROVE  LaunchInv'
<1>1. CASE Detach(c)
  <2>1. Advances(c, {"forked"}, "starting") /\ ready' = ready  BY <1>1 DEF Detach, Advances, launchVars
  <2> QED  BY <2>1, AdvancesKeeps
<1>2. CASE Listen(c)
  <2>1. Advances(c, {"bound"}, "listening") /\ ready' = ready  BY <1>2 DEF Listen, Advances, launchVars
  <2> QED  BY <2>1, AdvancesKeeps
<1>3. CASE Ready(c)
  <2>1. Advances(c, {"listening"}, "serving") /\ ready' = [ready EXCEPT ![c] = "written"]
    BY <1>3 DEF Ready, Advances, launchVars
  <2> QED  BY <2>1, AdvancesKeeps
<1>4. CASE ClientsEnd(c)
  <2>1. Advances(c, {"closing"}, "unlinking") /\ ready' = ready  BY <1>4 DEF ClientsEnd, Advances, launchVars
  <2> QED  BY <2>1, AdvancesKeeps
<1>5. CASE Stop(c)
  <2>1. Advances(c, {"serving"}, "closing") /\ ready' = ready  BY <1>5 DEF Stop, Advances, launchVars
  <2> QED  BY <2>1, AdvancesKeeps
<1>6. CASE Gone(c)
  <2>1. /\ Advances(c, {"starting", "leaving"}, "gone")
        /\ ready' = [ready EXCEPT ![c] = IF @ = "open" THEN "closed" ELSE @]
    BY <1>6 DEF Gone, Advances, launchVars
  <2> QED  BY <2>1, AdvancesKeeps
<1>7. CASE CrashServer(c)
  <2>1. PICK from : from = {server[c]}  OBVIOUS
  <2>2. /\ Advances(c, from, "gone") /\ "none" \notin from
        /\ ready' = [ready EXCEPT ![c] = IF @ = "open" THEN "closed" ELSE @]
    BY <1>7, <2>1 DEF CrashServer, Killed, Advances, launchVars
  <2> QED  BY <2>2, AdvancesKeeps
<1> QED  BY <1>1, <1>2, <1>3, <1>4, <1>5, <1>6, <1>7

\* A step of a connection does not touch launchers and servers.
LEMMA LaunchStutters ==
  ASSUME LaunchInv, UNCHANGED <<launchVars, file, serverVars>>
  PROVE  LaunchInv'
<1>1. UNCHANGED <<launcher, lock, file, server, inode, ready>>  BY DEF launchVars, serverVars
<1>2. LaunchTypes' /\ OwnInodes' /\ Refused'  BY <1>1 DEF LaunchInv, LaunchTypes, OwnInodes, Refused
<1>3. \A c \in Conns : Pair(c)' /\ OnPath(c)'  BY <1>1 DEF LaunchInv, Pair, OnPath
<1> QED  BY <1>2, <1>3 DEF LaunchInv

\* The invariant of the launchers is inductive.
LEMMA NextLaunch == Settled /\ LaunchInv /\ [Next]_vars => LaunchInv'
<1> SUFFICES ASSUME Settled, LaunchInv, [Next]_vars PROVE LaunchInv'  OBVIOUS
<1>1. CASE UNCHANGED vars  BY <1>1, LaunchStutters DEF vars
<1>2. ASSUME NEW c \in Conns, Begin(c) \/ Launch(c) PROVE LaunchInv'
  BY <1>2, LauncherMoves, ProbeMoves, RemoveMoves, ForkMoves, GiveUpMoves DEF Launch
<1>3. ASSUME NEW c \in Conns, Connecting(c) \/ Remote(c) \/ RemoteFails(c) PROVE LaunchInv'
  <2>1. UNCHANGED <<launchVars, file, serverVars>>  BY <1>3 DEF Connecting, Remote, RemoteFails
  <2> QED  BY <2>1, LaunchStutters
<1>4. ASSUME NEW c \in Conns, Serve(c) \/ Surroundings(c) PROVE LaunchInv'
  BY <1>3, <1>4, BindMoves, UnlinkMoves, ServerMoves DEF Serve, Surroundings
<1> QED  BY <1>1, <1>2, <1>4 DEF Next

\* Nobody has begun.
LEMMA InitLaunch == Init => LaunchInv
<1> SUFFICES ASSUME Init PROVE LaunchInv  OBVIOUS
<1>1. 0 \in 0..Cardinality(Conns)  BY LaunchConstants, FS_CardinalityType
<1>2. LaunchTypes  BY <1>1 DEF Init, LaunchTypes
<1>3. OwnInodes /\ Refused  BY DEF Init, OwnInodes, Refused, Bound
<1>4. ASSUME NEW c \in Conns PROVE Pair(c) /\ OnPath(c)
  BY LaunchConstants DEF Init, Pair, OnPath, Locked, Unforked, Bound
<1> QED  BY <1>2, <1>3, <1>4 DEF LaunchInv

\* One path has one server, which is reachable, if all servers are started by
\* launchers and Settled (ensure_running, MuxServer.run): for every number of
\* launchers that race for the path, of servers that are killed and leave their
\* socket, and of peers that fail, stop or vanish at any point of their start.
THEOREM OneServer == Settled /\ Spec => []MuxSafe
<1>1. Spec => []StartInv  BY InitStart, NextStart, PTL DEF Spec
<1>2. Settled /\ Spec => []LaunchInv
  <2>1. CASE Settled
    <3>1. LaunchInv /\ [Next]_vars => LaunchInv'  BY <2>1, NextLaunch
    <3>2. Spec => []LaunchInv  BY <3>1, InitLaunch, PTL DEF Spec
    <3> QED  BY <3>2
  <2>2. CASE ~Settled  BY <2>2
  <2> QED  BY <2>1, <2>2
<1>3. StartInv /\ LaunchInv => MuxSafe
  <2> SUFFICES ASSUME StartInv, LaunchInv PROVE MuxSafe  OBVIOUS
  <2>1. StartTypeOK /\ NoChild /\ PlainUntilReady  BY StartSafe
  <2>2. TypeOK  BY <2>1 DEF TypeOK, LaunchInv, LaunchTypes, Locked, Bound
  <2>3. Reachable  BY DEF Reachable, Listening, LaunchInv, OnPath, Bound
  <2>4. NoOrphan  BY DEF NoOrphan, LaunchInv, Pair
  <2> QED  BY <2>1, <2>2, <2>3, <2>4 DEF MuxSafe
<1> QED  BY <1>1, <1>2, <1>3, PTL
=============================================================================
