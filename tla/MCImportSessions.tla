-------------------------- MODULE MCImportSessions --------------------------
(* Small instances of ImportSessions for TLC. *)
EXTENDS ImportSessions, TLC

\* Sessions and threads are interchangeable.
MCSymmetry == Permutations(Sessions) \cup Permutations(Requests)
=============================================================================
