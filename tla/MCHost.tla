------------------------------- MODULE MCHost -------------------------------
(* Host with small sets of calls for each subject.                          *)
EXTENDS Host

Symmetric == Permutations(Callers)

Root(lines, mode) == File("file", lines, mode, "root")

Write(lines, mode, owner) == [tool |-> "write", at |-> "p", data |-> lines, mode |-> mode, owner |-> owner]
Directory(mode, owner) == [tool |-> "directory", at |-> "p", mode |-> mode, owner |-> owner]
Symlink(target) == [tool |-> "symlink", at |-> "p", data |-> <<target>>]
Absent(recursive) == [tool |-> "absent", at |-> "p", recursive |-> recursive]

\* The line x, where the regexp may match x, y and z
Line(regexp, all, create) ==
    [tool |-> "line_in_file", at |-> "p", line |-> "x", regexp |-> regexp, all |-> all, create |-> create, same |-> {"x", " x"}]

Hosts(ip, names) == [tool |-> "hosts_entry", ip |-> ip, names |-> names]
Sysctl(params) == [tool |-> "sysctl", params |-> params]
Service(active, enabled) == [tool |-> "service", active |-> active, enabled |-> enabled]
Pkg(by, state) == [tool |-> "package", by |-> by, state |-> state]

Names == {"[options]", "[a]", "[b]"}
Repo(header, server) == [tool |-> "pacman", headers |-> Names, data |-> <<header, server>>]
NoRepo(header) == [tool |-> "pacman_absent", headers |-> Names, data |-> <<header>>]

Account(shell, given, groups, append) ==
    [tool |-> "user", shell |-> shell, given |-> given, groups |-> groups, append |-> append]
Key(line, exclusive) == [tool |-> "authorized_key", line |-> line, exclusive |-> exclusive]
Rule(lines) == [tool |-> "sudoer", data |-> lines]

AllSubjects == [
    file |-> [hosts |-> {[p |-> NoFile], [p |-> Root(<<"x">>, "644")], [p |-> File("dir", <<>>, "755", "root")]},
              jobs |-> [x |-> Write(<<"x">>, "644", ""), y |-> Write(<<"y">>, "600", "alice"),
                        suid |-> Write(<<"x">>, "4755", "alice"), gone |-> Absent(FALSE)]],
    directory |-> [hosts |-> {[p |-> NoFile], [p |-> File("dir", <<"x">>, "700", "root")], [p |-> Root(<<"x">>, "644")]},
                   jobs |-> [open |-> Directory("755", ""), own |-> Directory("700", "alice"),
                             gone |-> Absent(FALSE), all |-> Absent(TRUE)]],
    link |-> [hosts |-> {[p |-> NoFile], [p |-> Root(<<"x">>, "644")]},
              jobs |-> [t |-> Symlink("t"), u |-> Symlink("u"), gone |-> Absent(FALSE)]],
    lines |-> [hosts |-> {[p |-> NoFile], [p |-> Root(<<"y", "z">>, "644")], [p |-> Root(<<"w", " x">>, "644")]},
               jobs |-> [append |-> Line({}, FALSE, TRUE), first |-> Line({"x", "y", "z"}, FALSE, FALSE),
                         next |-> Line({"y", "z"}, FALSE, FALSE), all |-> Line({"x", "y", "z"}, TRUE, FALSE)]],
    name |-> [hosts |-> {[kernel |-> "a", hostname |-> Root(<<"a">>, "644")]},
              jobs |-> [a |-> [tool |-> "hostname", data |-> <<"a">>], b |-> [tool |-> "hostname", data |-> <<"b">>]]],
    hosts |-> [hosts |-> {[hosts |-> NoFile], [hosts |-> Root(<<<<"1", "m">>, <<"#", "m">>, <<"1", "n">>>>, "644")]},
               jobs |-> [one |-> Hosts("1", "a"), other |-> Hosts("1", "b"), two |-> Hosts("2", "a")]],
    sysctl |-> [hosts |-> {[k1 |-> "0", k2 |-> "0", conf |-> NoFile],
                           [k1 |-> "1", k2 |-> "none", conf |-> Root(<<<<"k1", "0">>, <<"#", "0">>, <<"k3", "5">>>>, "644")]},
                jobs |-> [one |-> [tool |-> "sysctl_present", key |-> "k1", value |-> "1"], two |-> Sysctl([k2 |-> "1"]),
                          both |-> Sysctl([k1 |-> "2", k2 |-> "2"]), gone |-> [tool |-> "sysctl_absent", key |-> "k1"]]],
    unit |-> [hosts |-> {[active |-> "no", enabled |-> "no"]},
              jobs |-> [start |-> Service("yes", "any"), stop |-> Service("no", "any"), enable |-> Service("any", "yes"),
                        disable |-> Service("any", "no"), converge |-> Service("yes", "yes"),
                        restart |-> [tool |-> "restart"]]],
    package |-> [hosts |-> {[package |-> p, candidate |-> 2, stamp |-> "none", index |-> "old"] :
                               p \in {Pack(0, "ok"), Pack(1, "ok"), Pack(1, "held")}},
                 jobs |-> [present |-> Pkg("apt", "PRESENT"), absent |-> Pkg("apt", "ABSENT"), latest |-> Pkg("apt", "LATEST"),
                           update |-> [tool |-> "update", ttl |-> FALSE], refresh |-> [tool |-> "update", ttl |-> TRUE]]],
    arch |-> [hosts |-> {[package |-> Pack(v, "ok"), candidate |-> 2] : v \in {0, 1}},
              jobs |-> [present |-> Pkg("pacman", "PRESENT"), absent |-> Pkg("pacman", "ABSENT"),
                        latest |-> Pkg("pacman", "LATEST")]],
    pacman |-> [hosts |-> {[pacman |-> NoFile], [pacman |-> Root(<<"[options]", "o", "", "[b]", "s2", "">>, "644")],
                           [pacman |-> Root(<<"# top", "", "[a]", "s1", "", "# of b", "[b]", "s2", "[options]", "o">>, "644")]},
                jobs |-> [a1 |-> Repo("[a]", "s1"), a2 |-> Repo("[a]", "s2"), b |-> Repo("[b]", "s2"), noA |-> NoRepo("[a]")]],
    apt |-> [hosts |-> {[p |-> NoFile]},
             jobs |-> [one |-> [tool |-> "repository", at |-> "p", data |-> <<"x">>],
                       two |-> [tool |-> "repository", at |-> "p", data |-> <<"y">>],
                       gone |-> [tool |-> "repository_absent", at |-> "p"]]],
    account |-> [hosts |-> {[user |-> NoUser, group |-> 0],
                            [user |-> [exists |-> TRUE, shell |-> "zsh", groups |-> {"h", "wheel"}], group |-> 7]},
                 jobs |-> [sh |-> Account("sh", TRUE, {"g"}, TRUE), exact |-> Account("", TRUE, {"h"}, FALSE),
                           some |-> Account("bash", FALSE, {}, TRUE), gone |-> [tool |-> "user_absent"],
                           group |-> [tool |-> "group", gid |-> 7], noGroup |-> [tool |-> "group_absent"]]],
    keys |-> [hosts |-> {[ssh |-> NoFile, keys |-> NoFile],
                         [ssh |-> File("dir", <<>>, "700", "root"), keys |-> Root(<<"other">>, "644")]},
              jobs |-> [add |-> Key("k", FALSE), only |-> Key("k", TRUE)]],
    sudo |-> [hosts |-> {[sudoers |-> NoFile]},
              jobs |-> [ask |-> Rule(<<"ask">>), nopasswd |-> Rule(<<"free">>), gone |-> Rule(<<>>)]]]

\* One subject each, for the configurations that show where a promise of the tools does not hold
Setuid == [file |-> [hosts |-> {[p |-> NoFile]}, jobs |-> [suid |-> Write(<<"x">>, "4755", "alice")]]]
NoDirectory == [directory |-> [hosts |-> {[p |-> Root(<<"x">>, "644")]}, jobs |-> [open |-> Directory("755", "")]]]
Held == [package |-> [hosts |-> {[package |-> Pack(1, "held"), candidate |-> 2]}, jobs |-> [absent |-> Pkg("apt", "ABSENT")]]]
Upgrade == [package |-> [hosts |-> {[package |-> Pack(1, "ok"), candidate |-> 2]}, jobs |-> [latest |-> Pkg("apt", "LATEST")]]]
Replace == [lines |-> [hosts |-> {[p |-> Root(<<"y", "z">>, "644")]}, jobs |-> [next |-> Line({"y", "z"}, FALSE, FALSE)]]]
Renamed == [name |-> AllSubjects.name]
=============================================================================
