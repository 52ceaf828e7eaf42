------------------------------ MODULE MCCalls -------------------------------
(* Calls over the modules of a small world: the tools t1 and t2 are in the
   package pkg, t3 is in the package b. *)
EXTENDS Calls, Bundles

CONSTANT World

\* pkg_a uses b_x, a module of b that is its own bundle; b_x and other use each other; pkg depends on
\* plain, which declares nothing; b uses a Tool class of plain, arg only a function of it.
SharedWorld == [
    parent |-> [pkg |-> "", pkg_a |-> "pkg", b |-> "", b_x |-> "b", other |-> "", arg |-> "", plain |-> ""],
    package |-> [pkg |-> "pkg", pkg_a |-> "pkg", b |-> "b", b_x |-> "b_x", other |-> "other", arg |-> "arg", plain |-> ""],
    dependencies |-> [pkg |-> <<"plain">>, pkg_a |-> <<>>, b |-> <<>>, b_x |-> <<>>, other |-> <<>>, arg |-> <<>>, plain |-> <<>>],
    uses |-> [pkg |-> <<>>, pkg_a |-> <<"b_x">>, b |-> <<"plain">>, b_x |-> <<"other">>, other |-> <<"b_x">>,
              arg |-> <<"other", "plain">>, plain |-> <<>>],
    tools |-> {<<"b", "plain">>}]

\* The same, but b_x names other as a dependency instead of using it.
NestedWorld == [SharedWorld EXCEPT !.dependencies.b_x = <<"other">>, !.uses.b_x = <<>>]

Home == [t1 |-> "pkg_a", t2 |-> "pkg", t3 |-> "b"]

AllTools == DOMAIN Home
AllModules == DOMAIN SharedWorld.parent
Packages == [pkg |-> {}, pkg_a |-> {"pkg"}, b |-> {}, b_x |-> {"b"}, other |-> {}, arg |-> {}, plain |-> {}]

ASSUME Parents == \A m \in AllModules : Packages[m] = Ancestors(World, m)

With(tool, values) ==
    [tool |-> tool, values |-> values,
     brings |-> [m \in AllModules |-> BundleOf(World, m)],
     root |-> [t \in AllTools |-> BundleRoot(World, Home[t])],
     bundle |-> [t \in AllTools |-> BundleOf(World, Home[t])],
     needed |-> [t \in AllTools |-> Needed(World, Home[t])]]

\* The hypothesis of CallsAreSafe holds of the first world; the second is one that expand does not close.
ASSUME Hypothesis == World = SharedWorld => BundlesClosed

\* Two calls of one package with the same argument, and calls of packages that overlap.
AllPrograms == {
    With([c1 |-> "t1", c2 |-> "t2"], [c \in Callers |-> {"arg", "other"}]),
    With([c1 |-> "t1", c2 |-> "t3"], [c1 |-> {"b"}, c2 |-> {}])}
=============================================================================
