---------------------------- MODULE MCParticipants ----------------------------
(***************************************************************************)
(* Employees are interchangeable, and so are the lists that can be deleted.*)
(***************************************************************************)
EXTENDS Participants, TLC

MCSymmetry == Permutations(Employees) \cup Permutations(Lists \ {Attendees})
=============================================================================
