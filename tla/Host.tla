-------------------------------- MODULE Host --------------------------------
(***************************************************************************)
(* A host that several callers configure with the tools of HostTools.  The *)
(* methods of a tool run in threads or as tasks, so that the steps of      *)
(* several calls interleave; a step may fail, which ends its call with an  *)
(* exception and leaves the steps before it done; a query may fail without *)
(* the call noticing; and the host may crash, after which it runs with     *)
(* what was persisted.                                                     *)
(*                                                                         *)
(* The calls of a behaviour are about one subject (a file, the name of the *)
(* host, a package, ...): calls about different ones share no state.       *)
(***************************************************************************)
EXTENDS HostTools

CONSTANTS
    Callers,
    Subjects,    \* subject -> [hosts |-> the states it starts in, jobs |-> name -> call]
    Params,      \* kernel parameters
    MaxCalls,    \* bound: calls of a behaviour
    MaxFaults    \* bound: steps and queries that fail, and crashes

ASSUME HostConstants == MaxCalls \in Nat /\ MaxFaults \in Nat

VARIABLES
    subject,
    host,     \* the parts of the subject
    call,     \* the call that each caller makes
    calls,    \* calls made so far
    faults,   \* faults so far
    upset     \* a call has failed half-way, or two calls have run at the same time

vars == <<subject, host, call, calls, faults, upset>>

\* toRead: what is still to be read; misled: a query has failed unnoticed; alone: no other call ran at
\* the same time; before: the host at its start.
Idle == [phase |-> "idle", job |-> "", toRead |-> <<>>, seen |-> <<>>, steps |-> <<>>, changed |-> FALSE,
         misled |-> FALSE, alone |-> TRUE, before |-> <<>>]

Init ==
    /\ subject \in DOMAIN Subjects /\ host \in Subjects[subject].hosts
    /\ call = [c \in Callers |-> Idle] /\ calls = 0 /\ faults = 0 /\ upset = FALSE

Jobs == Subjects[subject].jobs

\* What a call reads, in this order.  Sysctl.converge applies a parameter before it reads the next one;
\* here it reads them first, which only a call at the same time could tell apart.
Reads(j) ==
    CASE j.tool \in {"write", "directory", "symlink", "absent", "line_in_file", "repository", "repository_absent"} -> <<j.at>>
      [] j.tool = "hostname" -> <<"kernel">>
      [] j.tool = "hosts_entry" -> <<"hosts">>
      [] j.tool = "sysctl_present" -> <<"conf", j.key>>
      [] j.tool = "sysctl" -> <<"conf">> \o SetToSeq(DOMAIN j.params)
      [] j.tool = "sysctl_absent" -> <<"conf">>
      [] j.tool = "service" -> (IF j.active = "any" THEN <<>> ELSE <<"active">>)
                               \o (IF j.enabled = "any" THEN <<>> ELSE <<"enabled">>)
      [] j.tool = "restart" -> <<"enabled">>   \* for the report
      [] j.tool = "package" -> IF j.state = "LATEST" THEN <<"package", "candidate">> ELSE <<"package">>
      [] j.tool = "update" -> <<"stamp">>
      [] j.tool \in {"pacman", "pacman_absent"} -> <<"pacman">>
      [] j.tool \in {"user", "user_absent"} -> <<"user">>
      [] j.tool \in {"group", "group_absent"} -> <<"group">>
      [] j.tool = "authorized_key" -> <<"ssh", "keys">>
      [] j.tool = "sudoer" -> <<"sudoers">>

Plan(j, s) ==
    CASE j.tool = "write" -> FsWrite(j, s)
      [] j.tool = "directory" -> FsDirectory(j, s)
      [] j.tool = "symlink" -> FsSymlink(j, s)
      [] j.tool = "absent" -> FsAbsent(j, s)
      [] j.tool = "line_in_file" -> FsLineInFile(j, s)
      [] j.tool = "repository" -> RepositoryFile(j, s)
      [] j.tool = "repository_absent" -> RepositoryAbsent(j, s)
      [] j.tool = "hostname" -> HostnameSet(j, s)
      [] j.tool = "hosts_entry" -> HostnameHosts(j, s)
      [] j.tool = "sysctl_present" -> SysctlPresent(j, s)
      [] j.tool = "sysctl" -> SysctlConverge(j, s)
      [] j.tool = "sysctl_absent" -> SysctlAbsent(j, s)
      [] j.tool = "service" -> ServiceConverge(j, s)
      [] j.tool = "restart" -> ServiceRestart(j, s)
      [] j.tool = "package" -> Package(j, s)
      [] j.tool = "update" -> PackageUpdate(j, s)
      [] j.tool = "pacman" -> PacmanPresent(j, s)
      [] j.tool = "pacman_absent" -> PacmanAbsent(j, s)
      [] j.tool = "user" -> UserPresent(j, s)
      [] j.tool = "user_absent" -> UserAbsent(j, s)
      [] j.tool = "group" -> GroupPresent(j, s)
      [] j.tool = "group_absent" -> GroupAbsent(j, s)
      [] j.tool = "authorized_key" -> AuthorizedKey(j, s)
      [] j.tool = "sudoer" -> Sudoer(j, s)

-----------------------------------------------------------------------------
(* What the system calls and the commands do                                *)

\* The kernel refuses the others.
CanDo(h, w) ==
    CASE w.do \in {"open", "append", "touch"} -> h[w.at].kind # "dir"
      [] w.do \in {"mkdir", "symlink"} -> h[w.at].kind = "absent"
      [] w.do \in {"fill", "unlink"} -> h[w.at].kind \in {"file", "link"}
      [] w.do \in {"chmod", "chown"} -> Exists(h[w.at])
      [] w.do = "rmdir" -> h[w.at].kind = "dir" /\ h[w.at].data = <<>>
      [] w.do = "rmtree" -> h[w.at].kind = "dir"
      [] w.do = "install" -> h["package"].status = "held" => h["package"].version = h["candidate"]
      [] w.do \in {"set", "remove", "useradd", "usermod"} -> TRUE

\* A file that is made belongs to root, with the mode that the umask leaves.
Made(f) == IF Exists(f) THEN f ELSE File("file", <<>>, "umask", "root")

\* chown of anything but a directory takes the setuid bit away.
Given(f, owner) ==
    [f EXCEPT !.owner = owner, !.mode = IF f.kind # "dir" /\ @ = "4755" THEN "755" ELSE @]

Do(h, w) ==
    LET now == h[w.at]
    IN  [h EXCEPT ![w.at] =
            CASE w.do = "open" -> [Made(now) EXCEPT !.data = <<>>]
              [] w.do = "touch" -> Made(now)
              [] w.do = "append" -> [Made(now) EXCEPT !.data = Append(@, w.arg)]
              [] w.do = "fill" -> [now EXCEPT !.data = w.arg]
              [] w.do = "chmod" -> [now EXCEPT !.mode = w.arg]
              [] w.do = "chown" -> Given(now, w.arg)
              [] w.do = "mkdir" -> File("dir", <<>>, w.arg, "root")
              [] w.do = "symlink" -> File("link", w.arg, "", "root")
              [] w.do \in {"unlink", "rmdir", "rmtree"} -> NoFile
              [] w.do = "set" -> w.arg
              [] w.do = "install" -> Pack(h["candidate"], IF now.status = "held" THEN "held" ELSE "ok")
              [] w.do = "remove" -> Pack(0, "ok")
              [] w.do = "useradd" -> [exists |-> TRUE, shell |-> w.arg.shell, groups |-> w.arg.groups]
              [] w.do = "usermod" ->
                     [exists |-> TRUE, shell |-> IF w.arg.shell = "" THEN now.shell ELSE w.arg.shell,
                      groups |-> IF ~w.arg.given THEN now.groups
                                 ELSE IF w.arg.append THEN now.groups \union w.arg.groups ELSE w.arg.groups]]

\* What a step that fails may leave: nothing done, all done, or a package that dpkg has not finished.
Halfway(h, w) ==
    {h, Do(h, w)} \union
        CASE w.do = "install" /\ w.arg = "apt" -> {[h EXCEPT !["package"] = Pack(h["candidate"], "half")]}
          [] w.do = "remove" /\ w.arg = "apt" -> {[h EXCEPT !["package"].status = "half"]}
          [] OTHER -> {}

-----------------------------------------------------------------------------
Busy(c) == call[c].phase = "busy"

\* A call starts.  The calls that have ended are forgotten, and the others are no longer alone.
Start(c, n) ==
    /\ ~Busy(c) /\ calls < MaxCalls /\ calls' = calls + 1
    /\ call' = [d \in Callers |->
           IF d = c THEN [Idle EXCEPT !.phase = "busy", !.job = n, !.toRead = Reads(Jobs[n]), !.before = host,
                                      !.alone = ~\E e \in Callers \ {c} : Busy(e)]
           ELSE IF Busy(d) THEN [call[d] EXCEPT !.alone = FALSE] ELSE Idle]
    /\ upset' = (upset \/ \E e \in Callers \ {c} : Busy(e))
    /\ UNCHANGED <<subject, host, faults>>

\* The call k takes the next part for value; after the last one, it knows what it has to do.
Learnt(k, value) ==
    LET seen == k.seen @@ (Head(k.toRead) :> value)
        plan == Plan(Jobs[k.job], seen)
    IN  IF Len(k.toRead) > 1 THEN [k EXCEPT !.seen = seen, !.toRead = Tail(@)]
        ELSE [k EXCEPT !.seen = <<>>, !.toRead = <<>>, !.steps = plan.steps, !.changed = plan.changed,
                       !.phase = IF plan.raises THEN "failed" ELSE IF plan.steps = <<>> THEN "done" ELSE "busy"]

\* A part is read.
Read(c) ==
    /\ Busy(c) /\ call[c].toRead # <<>>
    /\ call' = [call EXCEPT ![c] = Learnt(@, host[Head(@.toRead)])]
    /\ UNCHANGED <<subject, host, calls, faults, upset>>

\* What a query whose exit status is no error says when it fails: the unit is not active or enabled,
\* pacman does not have the package, there is nothing to upgrade.
SaysNo(j, part, seen) ==
    CASE part \in {"active", "enabled"} -> {"no"}
      [] part = "package" /\ j.by = "pacman" -> {Pack(0, "ok")}
      [] part = "candidate" -> {seen["package"].version}
      [] OTHER -> {}

\* A query fails, and the call takes it for an answer.
Misread(c) ==
    /\ Busy(c) /\ call[c].toRead # <<>>
    /\ faults < MaxFaults /\ faults' = faults + 1
    /\ \E no \in SaysNo(Jobs[call[c].job], Head(call[c].toRead), call[c].seen) :
           /\ no # host[Head(call[c].toRead)]
           /\ call' = [call EXCEPT ![c] = [Learnt(@, no) EXCEPT !.misled = TRUE]]
    /\ UNCHANGED <<subject, host, calls, upset>>

Ready(c) == Busy(c) /\ call[c].toRead = <<>> /\ call[c].steps # <<>>

\* The next step; after the last one the call returns.
Work(c) ==
    /\ Ready(c)
    /\ LET w == Head(call[c].steps)
       IN  IF CanDo(host, w)
           THEN /\ host' = Do(host, w)
                /\ call' = [call EXCEPT ![c].steps = Tail(@),
                                        ![c].phase = IF Len(call[c].steps) = 1 THEN "done" ELSE "busy"]
           ELSE call' = [call EXCEPT ![c].phase = "failed", ![c].steps = <<>>] /\ UNCHANGED host
    /\ UNCHANGED <<subject, calls, faults, upset>>

\* A step fails, or a command is killed; it may have done its work.
Fault(c) ==
    /\ Ready(c) /\ CanDo(host, Head(call[c].steps))
    /\ faults < MaxFaults /\ faults' = faults + 1 /\ upset' = TRUE
    /\ host' \in Halfway(host, Head(call[c].steps))
    /\ call' = [call EXCEPT ![c].phase = "failed", ![c].steps = <<>>]
    /\ UNCHANGED <<subject, calls>>

\* What runs after a boot is what was persisted.
Booted(h) ==
    [p \in DOMAIN h |->
        CASE p = "kernel" -> IF h["hostname"].data = <<>> THEN "localhost" ELSE h["hostname"].data[1]
          [] p \in Params /\ h[p] # "none" ->
                 IF p \in DOMAIN ReadConf(h["conf"].data) THEN ReadConf(h["conf"].data)[p] ELSE "default"
          [] OTHER -> h[p]]

Crash ==
    /\ faults < MaxFaults /\ faults' = faults + 1 /\ upset' = TRUE
    /\ host' = Booted(host)
    /\ call' = [c \in Callers |-> IF Busy(c) THEN [call[c] EXCEPT !.phase = "failed", !.toRead = <<>>, !.steps = <<>>] ELSE Idle]
    /\ UNCHANGED <<subject, calls>>

\* Time passes: the package lists are old.
Age ==
    /\ "stamp" \in DOMAIN host /\ \A c \in Callers : ~Busy(c)
    /\ host' = [host EXCEPT !["stamp"] = IF @ = "none" THEN "none" ELSE "old", !["index"] = "old"]
    /\ host' # host /\ call' = [c \in Callers |-> Idle]
    /\ UNCHANGED <<subject, calls, faults, upset>>

Next ==
    \/ \E c \in Callers : (\E n \in DOMAIN Jobs : Start(c, n)) \/ Read(c) \/ Misread(c) \/ Work(c) \/ Fault(c)
    \/ Crash \/ Age

Spec == Init /\ [][Next]_vars

-----------------------------------------------------------------------------
(* Properties                                                               *)

\* What a call asks for holds.
Met(j, h) ==
    CASE j.tool = "write" -> h[j.at] = File("file", j.data, j.mode, IF j.owner = "" THEN h[j.at].owner ELSE j.owner)
      [] j.tool = "directory" -> h[j.at].kind = "dir" /\ h[j.at].mode = j.mode /\ j.owner \in {"", h[j.at].owner}
      [] j.tool = "symlink" -> h[j.at].kind = "link" /\ h[j.at].data = j.data
      [] j.tool \in {"absent", "repository_absent"} -> h[j.at].kind = "absent"
      [] j.tool = "line_in_file" -> \E i \in DOMAIN h[j.at].data : h[j.at].data[i] \in j.same
      [] j.tool = "repository" -> h[j.at].data = j.data
      [] j.tool = "hostname" -> h["kernel"] = j.data[1] /\ h["hostname"].data = j.data
      [] j.tool = "hosts_entry" -> \E i \in DOMAIN h["hosts"].data : h["hosts"].data[i] = <<j.ip, j.names>>
      [] j.tool = "sysctl_present" -> h[j.key] \in {"none", j.value} /\ Persisted(ReadConf(h["conf"].data), j.key) = j.value
      [] j.tool = "sysctl" -> \A k \in DOMAIN j.params : /\ h[k] \in {"none", j.params[k]}
                                                         /\ Persisted(ReadConf(h["conf"].data), k) = j.params[k]
      [] j.tool = "sysctl_absent" -> Persisted(ReadConf(h["conf"].data), j.key) = "none"
      [] j.tool = "service" -> j.active \in {"any", h["active"]} /\ j.enabled \in {"any", h["enabled"]}
      [] j.tool = "restart" -> h["active"] = "yes"
      [] j.tool = "package" -> /\ (h["package"].version = 0) = (j.state = "ABSENT")
                               /\ j.state # "ABSENT" => h["package"].status # "half"
                               /\ j.state = "LATEST" => h["package"].version = h["candidate"]
      [] j.tool = "update" -> h["index"] = "fresh"
      [] j.tool = "pacman" -> /\ SectionStarts(h["pacman"].data, j.data[1]) # {}
                              /\ Section(h["pacman"].data, j.headers, j.data[1]) = j.data
      [] j.tool = "pacman_absent" -> SectionStarts(h["pacman"].data, j.data[1]) = {}
      [] j.tool = "user" -> h["user"].exists /\ j.shell \in {"", h["user"].shell} /\ GroupsMatch(j, h["user"].groups)
      [] j.tool = "user_absent" -> ~h["user"].exists
      [] j.tool = "group" -> h["group"] # 0
      [] j.tool = "group_absent" -> h["group"] = 0
      [] j.tool = "authorized_key" -> /\ h["keys"].mode = "600" /\ h["keys"].owner = "user"
                                      /\ IF j.exclusive THEN h["keys"].data = <<j.line>> ELSE Contains(h["keys"].data, j.line)
      [] j.tool = "sudoer" -> IF j.data = <<>> THEN h["sudoers"].kind = "absent"
                              ELSE h["sudoers"].data = j.data /\ h["sudoers"].mode = "440"

\* The keys of a sysctl file and the running values, but for keys; of the file nothing else is looked at:
\* its comments, and its lines without "=", are lost when it is written.
OtherKeys(h, keys) ==
    LET conf == ReadConf(h["conf"].data)
    IN  [file |-> {<<k, conf[k]>> : k \in DOMAIN conf \ keys}, running |-> [k \in Params \ keys |-> h[k]]]

\* The other sections of pacman.conf, and what stands in front of the first one, up to blank lines.
\* The lines between a section and the next header are the section's, a comment on the next one too.
OtherSections(lines, headers, header) ==
    LET others == {x \in headers \ {header} : SectionStarts(lines, x) # {}}
        top == {i \in DOMAIN lines : \A h \in Headers(lines, headers) : i < h}
    IN  [sections |-> {Stripped(Section(lines, headers, x)) : x \in others},
         top |-> SelectSeq(SubSeq(lines, 1, Cardinality(top)), LAMBDA l : l # "")]

\* What is not the business of a call, of the file, unit or account that it is about
Rest(j, h) ==
    CASE j.tool = "directory" -> h[j.at].data
      [] j.tool = "hosts_entry" -> SelectSeq(h["hosts"].data, LAMBDA l : l[1] # j.ip)
      [] j.tool = "sysctl" -> OtherKeys(h, DOMAIN j.params)
      [] j.tool = "sysctl_present" -> OtherKeys(h, {j.key})
      [] j.tool = "sysctl_absent" -> <<OtherKeys(h, {j.key}), h[j.key]>>
      [] j.tool \in {"pacman", "pacman_absent"} -> OtherSections(h["pacman"].data, j.headers, j.data[1])
      [] j.tool = "line_in_file" -> SelectSeq(h[j.at].data, LAMBDA l : l \notin j.regexp \union j.same)
      [] j.tool = "authorized_key" /\ ~j.exclusive -> SelectSeq(h["keys"].data, LAMBDA l : l # j.line)
      [] j.tool = "service" -> <<IF j.active = "any" THEN h["active"] ELSE "", IF j.enabled = "any" THEN h["enabled"] ELSE "">>
      [] j.tool = "restart" -> h["enabled"]
      [] j.tool = "user" -> [shell |-> IF j.shell = "" THEN h["user"].shell ELSE "",
                             groups |-> CASE ~j.given -> h["user"].groups
                                          [] j.given /\ j.append -> h["user"].groups \ j.groups
                                          [] OTHER -> {}]
      [] OTHER -> {}

Returned(c) == call[c].phase = "done"

\* A call that no other call disturbed
Undisturbed(c) == Returned(c) /\ call[c].alone

\* These compare less than they set: see Converges.
Partial == {"hostname", "authorized_key", "sudoer"}

\* Calls that do not bring about what they ask for, whatever happened before them: write with an owner
\* and a mode that chown changes again (fs.py:227), directory on something that is not a directory
\* (fs.py:262), and ABSENT of a package that dpkg holds or has not finished (apt.py:191).
Blind(j, before) ==
    \/ j.tool = "write" /\ j.mode = "4755" /\ j.owner # ""
    \/ j.tool = "directory" /\ before[j.at].kind = "file"
    \/ j.tool = "package" /\ j.by = "apt" /\ j.state = "ABSENT" /\ before["package"].status # "ok"

\* Calls that report a change each time: write as above, and apt-get install of a package on hold
ChangesAgain(j, h) ==
    \/ j.tool = "write" /\ j.mode = "4755" /\ j.owner # ""
    \/ j.tool = "package" /\ j.by = "apt" /\ h["package"].status = "held"

\* line_in_file, when the regexp matches more lines and not the new one, replaces the next one each time.
ReplacesNext(j) == j.tool = "line_in_file" /\ ~j.all /\ j.line \notin j.regexp

\* The types of the variables.
TypeOK ==
    /\ calls \in 0..MaxCalls /\ faults \in 0..MaxFaults
    /\ \A c \in Callers : call[c].phase \in {"idle", "busy", "done", "failed"} /\ call[c].changed \in BOOLEAN

\* A call leaves alone what it was not asked to change, in the same file, unit or account as well.
KeepsTheRest ==
    \A c \in Callers : Undisturbed(c) => Rest(Jobs[call[c].job], host) = Rest(Jobs[call[c].job], call[c].before)

\* The tools that change a part of a file, of a unit or of an account keep the rest of it, as far as Rest
\* says (FileSystem, Hostname, Sysctl, Service, PacmanRepository, User): not the comments of a sysctl file,
\* and not a comment of pacman.conf that follows the section that is replaced.
HostSafe == TypeOK /\ KeepsTheRest

\* A call that returns has brought the host to what it asked for, whatever calls that failed, raced or
\* died half-way left behind; the tools in Partial only if nothing of the kind has happened, and not a
\* call in Blind, nor one with a query that failed unnoticed.
Converges ==
    \A c \in Callers :
        LET j == Jobs[call[c].job]
        IN  Undisturbed(c) /\ ~call[c].misled /\ ~Blind(j, call[c].before) /\ (j.tool \in Partial => ~upset)
            => Met(j, host)

\* A call that returns has brought the host to what it asked for, as the docstrings of the tools say
\* (FileSystem.write, FileSystem.directory, Apt.package, User.sudoer): as Converges, without exceptions.
AlwaysConverges == \A c \in Callers : Undisturbed(c) => Met(Jobs[call[c].job], host)

\* What the report of a call is about: authorized_key reports on the file, not on its directory.
Reported(j, h) == IF j.tool = "authorized_key" THEN h["keys"] ELSE h

\* A call tells its caller whether it changed anything, and a second call would change nothing; not
\* the calls in ChangesAgain nor one with a query that failed unnoticed, and as to the second call not
\* line_in_file when it has more lines to replace.
HonestReport ==
    \A c \in Callers :
        LET j == Jobs[call[c].job]
        IN  Undisturbed(c) /\ ~call[c].misled /\ j.tool \notin {"restart", "update"} /\ ~ChangesAgain(j, host) =>
                /\ call[c].changed = (Reported(j, host) # Reported(j, call[c].before))
                /\ ReplacesNext(j) \/ ~Plan(j, host).changed

\* A second call would change nothing: line_in_file ensures its line "idempotently" (fs.py:111).
Idempotent ==
    \A c \in Callers : Undisturbed(c) /\ Jobs[call[c].job].tool = "line_in_file" => ~Plan(Jobs[call[c].job], host).changed

\* A call whose package manager failed does not return: Apt.package and Pacman.package raise a
\* RuntimeError "if the underlying invocation fails".
FailuresRaise == \A c \in Callers : call[c].misled /\ Jobs[call[c].job].tool = "package" => ~Returned(c)
=============================================================================
