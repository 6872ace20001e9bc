------------------------- MODULE MCProtocolWorkflow -------------------------
(* Small instances of ProtocolWorkflow and Reporting for TLC. *)
EXTENDS Reporting, TLC

MCWeek == [start |-> 2, end |-> 3]

\* Two copies, or an instruction and its subtask: the first is late or overdue, the
\* second on time or in progress.
MCLayouts ==
    {[t \in Tasks |->
        [deadline |-> IF t = first THEN 1 ELSE 4, closed |-> 3, copy |-> copies,
         parent |-> IF copies \/ t = first THEN None ELSE first]] :
        first \in Tasks, copies \in BOOLEAN}

\* Instructions are interchangeable.
MCSymmetry == Permutations(Tasks)
=============================================================================
