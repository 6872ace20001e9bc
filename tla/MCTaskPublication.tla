--------------------------- MODULE MCTaskPublication ---------------------------
(* Small instances of TaskPublication for TLC. *)
EXTENDS TaskPublication, TLC

CONSTANTS a, b

MCTasks   == {1, 2}
MCKeys    == {a, b}
MCTaskOf  == (a :> 1) @@ (b :> 2)
MCParents == (a :> {}) @@ (b :> {a})
MCPlans   == {{Root, a, b}, {b}}

\* One instruction whose responsible changes: a is replaced by b.
ReassignTasks   == {1}
ReassignTaskOf  == (a :> 1) @@ (b :> 1)
ReassignParents == (a :> {}) @@ (b :> {})
RootedPlans     == {{Root, a}, {b}}

MCSymmetry == Permutations(Procs) \cup Permutations(Ext)
=============================================================================
