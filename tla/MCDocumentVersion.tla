-------------------------- MODULE MCDocumentVersion --------------------------
(* Small instances of DocumentVersion for TLC. *)
EXTENDS DocumentVersion, TLC

\* Pages are interchangeable.
MCSymmetry == Permutations(Pages) \cup Permutations(Workers)
=============================================================================
