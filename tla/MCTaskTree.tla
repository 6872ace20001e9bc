------------------------------ MODULE MCTaskTree ------------------------------
(***************************************************************************)
(* Instructions are interchangeable: no definition tells them apart.       *)
(***************************************************************************)
EXTENDS TaskTree, TLC

TaskSymmetry == Permutations(Tasks)
=============================================================================
