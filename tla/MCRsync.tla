------------------------------ MODULE MCRsync -------------------------------
(* Rsync on small trees.                                                    *)
EXTENDS Rsync

MCPaths == {".", "f", "g", "d", "d/h", "l", "x", "x/k"}
MCParent == [p \in MCPaths \ {"."} |-> IF p = "d/h" THEN "d" ELSE IF p = "x/k" THEN "x" ELSE "."]

File(data, mode) == Entry("file", data, mode, "root")
Dir(mode) == Entry("dir", "", mode, "root")
SymLink(target) == Entry("link", target, "", "root")
Tree(entries) == entries @@ [p \in MCPaths |-> Absent]

Job(src, delete, deleteExcluded, preserve, owner, exclude) ==
    [src |-> src, delete |-> delete, deleteExcluded |-> deleteExcluded, preserve |-> preserve, owner |-> owner, exclude |-> exclude]
Case(job_, tree) == [job |-> job_, dst |-> tree]

\* A read-only directory, and a destination that does not exist
New == Case(Job(Tree("." :> Dir("755") @@ "f" :> File("1", "644") @@ "g" :> File("1", "x") @@ "d" :> Dir("ro") @@ "d/h" :> File("2", "x")
                     @@ "l" :> SymLink("f")), FALSE, FALSE, TRUE, "", {}), Tree(<<>>))

\* Old content with the right mode, the right content with an old mode, old links, extra entries of which
\* one is excluded
Source == Tree("." :> Dir("755") @@ "f" :> File("1", "644") @@ "g" :> File("1", "644") @@ "d" :> Dir("755")
               @@ "l" :> SymLink("g"))
Old == Tree("." :> Dir("700") @@ "f" :> File("0", "644") @@ "g" :> File("1", "600") @@ "d" :> Dir("755") @@ "d/h" :> File("9", "644")
            @@ "l" :> SymLink("f") @@ "x" :> Dir("755") @@ "x/k" :> File("9", "644"))

Glob(paths, dirs) == [paths |-> paths, dirs |-> dirs]

Updates == {Case(Job(Source, delete, FALSE, preserve, owner, {Glob({"x/k", "d/h"}, FALSE)}), Old) :
                delete \in BOOLEAN, preserve \in BOOLEAN, owner \in {"", "alice"}}

\* f is excluded as a directory, which it is not; x is one.
Purges == {Case(Job(Source, FALSE, TRUE, TRUE, "", {Glob({"f", "x"}, TRUE), Glob({"g"}, FALSE)}), Old)}
Keeps == {Case(Job(Source, TRUE, FALSE, TRUE, "", {Glob({"f", "x"}, TRUE), Glob({"g"}, FALSE)}), Old)}

\* A directory where the source has a file; a socket in the source
Conflicts == {Case(Job(Source, TRUE, FALSE, TRUE, "", {}), [Old EXCEPT !["g"] = Dir("755")]),
              Case(Job([Source EXCEPT !["g"] = Entry("special", "", "644", "root")], TRUE, FALSE, TRUE, "", {}), Old)}

AllCases == {New} \union Updates \union Purges \union Keeps \union Conflicts

\* A set-user-id program whose owner changes and whose mode does not
Setuid == {Case(Job(Tree("." :> Dir("755") @@ "f" :> File("1", "suid")), FALSE, FALSE, TRUE, "alice", {}),
                Tree("." :> Dir("755") @@ "f" :> File("1", "suid")))}
=============================================================================
