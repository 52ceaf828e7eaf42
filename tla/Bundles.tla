------------------------------ MODULE Bundles -------------------------------
(***************************************************************************)
(* ModuleBundle of rmote/protocol.py: which sources travel with a tool.    *)
(*                                                                         *)
(* A world w describes the modules of the local interpreter: w.parent is   *)
(* the package that a module is in ("" for none), w.package its            *)
(* __tool_package__ ("" when it has none), w.dependencies its              *)
(* __tool_dependencies__, and w.uses the modules that its source refers to *)
(* by a name or an import.  <<m, x>> is in w.tools when the source of m    *)
(* refers to a Tool class of x.  Sources are regular files.                *)
(***************************************************************************)
EXTENDS Integers, SequencesExt

Names(w) == DOMAIN w.parent

\* The module and the packages it is in
Lineage(w, m) ==
    LET up[x \in Names(w) \union {""}] == IF x = "" THEN {} ELSE {x} \union up[w.parent[x]]
    IN  up[m]

Ancestors(w, m) == Lineage(w, m) \ {m}

BundleRoot(w, m) == IF w.package[m] = "" THEN m ELSE w.package[m]

\* declaring: only modules that declare something are taken along
Declares(w, m) == w.package[m] # "" \/ w.dependencies[m] # <<>>

\* A module, or a package with everything below it
Collect(w, root) == {m \in Names(w) : root \in Lineage(w, m)}

\* What the source of a module brings in: the module itself, when it declares a package, comes first; the
\* module of a Tool class need not declare anything.
References(w, m) == SelectSeq(<<m>> \o w.uses[m], LAMBDA x : Declares(w, x) \/ <<m, x>> \in w.tools)

\* The search of expand.  seen is shared by all of its calls, and holds roots and collected modules.
Expand(w, module, before) ==
    LET expand[call \in Names(w) \X SUBSET Names(w)] ==
            LET root == BundleRoot(w, call[1])
                seen == call[2]
                own == Collect(w, root)
                wanted == w.dependencies[root] \o FlattenSeq([i \in DOMAIN SetToSeq(own) |-> References(w, SetToSeq(own)[i])])
                Include(found, m) == LET more == expand[<<m, found.seen>>]
                                     IN  [sources |-> found.sources \union more.sources, seen |-> more.seen]
            IN  IF root \in seen THEN [sources |-> {}, seen |-> seen]
                ELSE FoldLeft(Include, [sources |-> own, seen |-> seen \union {root} \union own], wanted)
    IN  expand[<<module, before>>]

\* build and bundle: the whole bundle of the root of a module
BundleOf(w, module) == Expand(w, BundleRoot(w, module), {}).sources

-----------------------------------------------------------------------------
\* The reference: the least set with the package of the module that holds, for each of its modules, what
\* the source refers to and what it names as its dependencies.
Needed(w, module) ==
    LET Closed(S) == \A m \in S : \A x \in ToSet(w.dependencies[m] \o References(w, m)) : Collect(w, BundleRoot(w, x)) \subseteq S
        complete == {S \in SUBSET Names(w) : Collect(w, BundleRoot(w, module)) \subseteq S /\ Closed(S)}
    IN  CHOOSE S \in complete : \A T \in complete : S \subseteq T
=============================================================================
