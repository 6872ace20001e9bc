------------------------- MODULE MCIntegrationJobs -------------------------
(* Small instances of IntegrationJobs for TLC. *)
EXTENDS IntegrationJobs, TLC

\* Protocols, request threads and workers are interchangeable.
MCSymmetry == Permutations(Protocols) \cup Permutations(Requests) \cup Permutations(Workers)
=============================================================================
