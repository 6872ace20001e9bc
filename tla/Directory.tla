-------------------------------- MODULE Directory --------------------------------
(***************************************************************************)
(* The people a protocol can name: the employees of the directory (table   *)
(* employees) and the names of imported documents that match none of them  *)
(* (ProtocolTaskAssignment.individual_title).  None is an empty column.    *)
(***************************************************************************)
EXTENDS FiniteSets

CONSTANTS
    Employees,
    Names,
    None

ASSUME DirectoryAssumption ==
    /\ IsFiniteSet(Employees) /\ IsFiniteSet(Names)
    /\ None \notin Employees \cup Names
=============================================================================
