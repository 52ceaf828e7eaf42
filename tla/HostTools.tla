----------------------------- MODULE HostTools ------------------------------
(***************************************************************************)
(* The tools that configure a host (rmote/tools: fs, hostname, sysctl,     *)
(* service, apt, pacman, apt_repository, pacman_repository and user).      *)
(*                                                                         *)
(* A call of a tool reads some parts of the host, compares them with what  *)
(* it is asked for, and changes what differs, one system call or command   *)
(* after the other.  What a call does with what it has seen is its plan:   *)
(* it raises, it has nothing to do, or it has steps to take.  A part is a  *)
(* file, a kernel parameter, a unit, a package, an account, ...            *)
(*                                                                         *)
(* write_text opens the file, which empties it, and then fills it.  Links  *)
(* are not followed: a path that is made a link is used by no call that    *)
(* would follow it.                                                        *)
(***************************************************************************)
EXTENDS ConfText

\* A path: "absent", "file", "dir" or "link"; its lines, entries or target; its mode and owner.
File(kind, data, mode, owner) == [kind |-> kind, data |-> data, mode |-> mode, owner |-> owner]

NoFile == File("absent", <<>>, "", "")

Exists(f) == f.kind \in {"file", "dir"}

\* One step of a plan
Step(do, at, arg) == [do |-> do, at |-> at, arg |-> arg]

Raises == [raises |-> TRUE, steps |-> <<>>, changed |-> FALSE]
Nothing == [raises |-> FALSE, steps |-> <<>>, changed |-> FALSE]
Change(steps) == [raises |-> FALSE, steps |-> steps, changed |-> TRUE]

WriteText(at, lines) == <<Step("open", at, <<>>), Step("fill", at, lines)>>
Chmod(at, mode) == <<Step("chmod", at, mode)>>
Chown(at, owner) == IF owner = "" THEN <<>> ELSE <<Step("chown", at, owner)>>

-----------------------------------------------------------------------------
(* FileSystem                                                               *)

\* Mutant: the mode is not compared.
FsWriteContent(j, s) ==
    IF s[j.at].kind = "file" /\ s[j.at].data = j.data THEN Nothing
    ELSE Change(WriteText(j.at, j.data) \o Chmod(j.at, j.mode) \o Chown(j.at, j.owner))

FsWrite(j, s) ==
    LET f == s[j.at]
    IN  CASE f.kind = "dir" -> Raises
          [] f.kind = "file" /\ f.data = j.data /\ f.mode = j.mode /\ j.owner \in {"", f.owner} -> Nothing
          [] OTHER -> Change(WriteText(j.at, j.data) \o Chmod(j.at, j.mode) \o Chown(j.at, j.owner))

\* Mutant: a new owner is not reported.
FsDirectorySilent(j, s) ==
    LET f == s[j.at]
    IN  [raises |-> FALSE,
         changed |-> ~Exists(f) \/ f.mode # j.mode,
         steps |-> (IF ~Exists(f) THEN <<Step("mkdir", j.at, "umask")>> \o Chmod(j.at, j.mode)
                    ELSE IF f.mode # j.mode THEN Chmod(j.at, j.mode) ELSE <<>>) \o Chown(j.at, j.owner)]

\* The owner is set even when it does not differ.
FsDirectory(j, s) ==
    LET f == s[j.at]
    IN  [raises |-> FALSE,
         changed |-> ~Exists(f) \/ f.mode # j.mode \/ j.owner \notin {"", f.owner},
         steps |-> (IF ~Exists(f) THEN <<Step("mkdir", j.at, "umask")>> \o Chmod(j.at, j.mode)
                    ELSE IF f.mode # j.mode THEN Chmod(j.at, j.mode) ELSE <<>>) \o Chown(j.at, j.owner)]

FsSymlink(j, s) ==
    LET f == s[j.at]
    IN  IF f.kind = "link" /\ f.data = j.data THEN Nothing
        ELSE Change((IF f.kind = "absent" THEN <<>> ELSE <<Step("unlink", j.at, "")>>) \o <<Step("symlink", j.at, j.data)>>)

FsAbsent(j, s) ==
    LET f == s[j.at]
    IN  CASE f.kind = "absent" -> Nothing
          [] f.kind \in {"file", "link"} -> Change(<<Step("unlink", j.at, "")>>)
          [] f.kind = "dir" -> Change(<<Step(IF j.recursive THEN "rmtree" ELSE "rmdir", j.at, "")>>)

\* A file that is missing is made, empty, if the caller allows it.
FsLineInFile(j, s) ==
    LET f == s[j.at]
        lines == LineInFile(f.data, j.line, j.regexp, j.all, j.same)
    IN  CASE f.kind = "dir" \/ (f.kind = "absent" /\ ~j.create) -> Raises
          [] f.kind = "file" /\ lines = f.data -> Nothing
          [] OTHER -> Change((IF f.kind = "absent" THEN <<Step("touch", j.at, "")>> ELSE <<>>) \o WriteText(j.at, lines))

-----------------------------------------------------------------------------
(* Hostname and Sysctl                                                      *)

\* Only the running name is compared.
HostnameSet(j, s) ==
    IF s["kernel"] = j.data[1] THEN Nothing
    ELSE Change(<<Step("set", "kernel", j.data[1])>> \o WriteText("hostname", j.data))

HostnameHosts(j, s) ==
    LET lines == HostsEntry(s["hosts"].data, j.ip, j.names)
    IN  IF lines = s["hosts"].data THEN Nothing ELSE Change(WriteText("hosts", lines))

\* Kernel parameters that this kernel does not have read as "none" and are not applied.
Differs(s, key, value) == s[key] \notin {"none", value}

Persisted(conf, key) == IF key \in DOMAIN conf THEN conf[key] ELSE "none"

\* Mutant: the file is written from the arguments alone.
PersistForgets(params, conf) == params

\* conf.update: what the file has beside the parameters stays.
Persist(params, conf) == params @@ conf

\* The values that differ are applied, then the file is written once.
SysctlApply(params, s) ==
    LET conf == ReadConf(s["conf"].data)
        toApply == SetToSeq({k \in DOMAIN params : Differs(s, k, params[k])})
        stale == \E k \in DOMAIN params : Persisted(conf, k) # params[k]
        apply == [i \in DOMAIN toApply |-> Step("set", toApply[i], params[toApply[i]])]
    IN  IF apply = <<>> /\ ~stale THEN Nothing
        ELSE Change(apply \o IF stale THEN WriteText("conf", WriteConf(Persist(params, conf))) ELSE <<>>)

SysctlPresent(j, s) == SysctlApply(j.key :> j.value, s)

SysctlConverge(j, s) == SysctlApply(j.params, s)

\* The running value stays.
SysctlAbsent(j, s) ==
    LET conf == ReadConf(s["conf"].data)
    IN  IF j.key \notin DOMAIN conf THEN Nothing
        ELSE Change(WriteText("conf", WriteConf([k \in DOMAIN conf \ {j.key} |-> conf[k]])))

-----------------------------------------------------------------------------
(* Service, Apt and Pacman                                                  *)

Turn(part, want, s) == IF want = "any" \/ want = s[part] THEN <<>> ELSE <<Step("set", part, want)>>

\* start and stop leave enabled alone, enable and disable leave active alone, converge wants both.
ServiceConverge(j, s) ==
    LET steps == Turn("enabled", j.enabled, s) \o Turn("active", j.active, s)
    IN  IF steps = <<>> THEN Nothing ELSE Change(steps)

\* restart, whatever the unit does
ServiceRestart(j, s) == Change(<<Step("set", "active", "yes")>>)

\* A package; version 0: not there.  A status of dpkg other than "ok" is that of a package that an
\* installation or a removal left half-way, or of one that is on hold.
Pack(version, status) == [version |-> version, status |-> status]

\* pacman -Q, or the status file of dpkg, where only "install ok installed" counts
Installed(j, s) == s["package"].version # 0 /\ (j.by = "apt" => s["package"].status = "ok")

\* install of apt-get and -S of pacman
Install(j) == Change(<<Step("install", "package", j.by)>>)

PackagePresent(j, s) == IF Installed(j, s) THEN Nothing ELSE Install(j)

PackageAbsent(j, s) == IF Installed(j, s) THEN Change(<<Step("remove", "package", j.by)>>) ELSE Nothing

\* LATEST asks the package manager what it would upgrade.
PackageLatest(j, s) ==
    IF Installed(j, s) /\ s["package"].version = s["candidate"] THEN Nothing ELSE Install(j)

\* Pacman.package and Apt.package decide alike.
Package(j, s) ==
    CASE j.state = "PRESENT" -> PackagePresent(j, s)
      [] j.state = "ABSENT" -> PackageAbsent(j, s)
      [] j.state = "LATEST" -> PackageLatest(j, s)

\* The stamp of the last successful update is younger than the caller asks for.
Fresh(j, s) == j.ttl /\ s["stamp"] = "fresh"

\* update of either: the lists first, then the stamp
PackageUpdate(j, s) ==
    IF Fresh(j, s) THEN Nothing ELSE Change(<<Step("set", "index", "fresh"), Step("set", "stamp", "fresh")>>)

-----------------------------------------------------------------------------
(* AptRepository and PacmanRepository                                       *)

\* key and present: the bytes are compared, and the file is written.
RepositoryFile(j, s) ==
    IF s[j.at].kind = "file" /\ s[j.at].data = j.data THEN Nothing ELSE Change(WriteText(j.at, j.data))

RepositoryAbsent(j, s) == IF Exists(s[j.at]) THEN Change(<<Step("unlink", j.at, "")>>) ELSE Nothing

PacmanPresent(j, s) ==
    LET lines == SectionPresent(s["pacman"].data, j.headers, j.data)
    IN  CASE ~Exists(s["pacman"]) -> Raises
          [] Exists(s["pacman"]) /\ lines = s["pacman"].data -> Nothing
          [] OTHER -> Change(WriteText("pacman", lines))

PacmanAbsent(j, s) ==
    LET lines == SectionAbsent(s["pacman"].data, j.headers, j.data[1])
    IN  CASE ~Exists(s["pacman"]) -> Raises
          [] Exists(s["pacman"]) /\ SectionStarts(s["pacman"].data, j.data[1]) = {} -> Nothing
          [] OTHER -> Change(WriteText("pacman", lines))

-----------------------------------------------------------------------------
(* User                                                                     *)

NoUser == [exists |-> FALSE, shell |-> "", groups |-> {}]

\* groups=None asks for nothing; otherwise for these groups at least, or for exactly these.
GroupsMatch(j, now) == ~j.given \/ IF j.append THEN j.groups \subseteq now ELSE j.groups = now

\* useradd, or usermod with what differs.  The shell stands for each attribute that is one value.
UserPresent(j, s) ==
    LET u == s["user"]
    IN  CASE ~u.exists -> Change(<<Step("useradd", "user", j)>>)
          [] u.exists /\ j.shell \in {"", u.shell} /\ GroupsMatch(j, u.groups) -> Nothing
          [] OTHER -> Change(<<Step("usermod", "user", j)>>)

UserAbsent(j, s) == IF ~s["user"].exists THEN Nothing ELSE Change(<<Step("set", "user", NoUser)>>)

\* The number of a group that exists is not compared.
GroupPresent(j, s) == IF s["group"] # 0 THEN Nothing ELSE Change(<<Step("set", "group", j.gid)>>)

GroupAbsent(j, s) == IF s["group"] = 0 THEN Nothing ELSE Change(<<Step("set", "group", 0)>>)

\* The directory is made and given away in any case; of the file, only the lines are compared.
AuthorizedKey(j, s) ==
    LET f == s["keys"]
        dir == (IF Exists(s["ssh"]) THEN <<>> ELSE <<Step("mkdir", "ssh", "700")>>) \o Chown("ssh", "user")
        file == IF j.exclusive THEN WriteText("keys", <<j.line>>) ELSE <<Step("append", "keys", j.line)>>
        done == IF j.exclusive THEN f.kind = "file" /\ f.data = <<j.line>> ELSE \E i \in DOMAIN f.data : f.data[i] = j.line
    IN  IF done THEN [Nothing EXCEPT !.steps = dir]
        ELSE Change(dir \o file \o Chmod("keys", "600") \o Chown("keys", "user"))

Sudoer(j, s) ==
    LET f == s["sudoers"]
    IN  CASE j.data = <<>> -> IF ~Exists(f) THEN Nothing ELSE Change(<<Step("unlink", "sudoers", "")>>)
          [] j.data # <<>> /\ f.kind = "file" /\ f.data = j.data -> Nothing
          [] OTHER -> Change(WriteText("sudoers", j.data) \o Chmod("sudoers", "440"))
=============================================================================
