---------------------------- MODULE MCProjectAccess ----------------------------
(* A small instance of ProjectAccess for TLC: the list of the first group has
   two pages, and the user stands on the second one. *)
EXTENDS ProjectAccess

CONSTANTS u1, u2, g1, g2, p1, p2, d1, d2

MCRoster == (g1 :> <<u2, u1>>) @@ (g2 :> <<u1>>)
MCLevel == [g \in Groups |-> u1 :> "moderator"]
MCProject == (p1 :> g1) @@ (p2 :> None)
MCProtocol == (d1 :> p1) @@ (d2 :> None)
=============================================================================
