--------------------------- MODULE MCDemoPublication ---------------------------
(* Small instances of DemoPublication for TLC. *)
EXTENDS DemoPublication, TLC

MCSymmetry == Permutations(Clients)
=============================================================================
