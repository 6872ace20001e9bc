------------------------------ MODULE TaskPlanning ------------------------------
(****************************************************************************)
(* The plan of the demonstration tasks of one instruction                   *)
(* (src/app/services/task_planning/planner.py): operators without state.    *)
(*                                                                          *)
(* An instruction is a record [subtasks, rows]: whether its assignees get   *)
(* subtasks of one root task, and its assignment rows.  A row is a record   *)
(* with its number id and with who, an employee, the text of a name nobody  *)
(* was found for, or None.  Rows are ordered by their numbers.              *)
(****************************************************************************)
EXTENDS Naturals, Directory

\* The first row of each employee and of each unmatched name.
UniqueAssignments(rows) ==
    {r \in rows :
        /\ r.who # None
        /\ \A q \in rows : q.who = r.who => r.id <= q.id}

\* The definitions named "...Bug" are the one that follows them with a plausible
\* mistake; nothing uses them but the checks that a property notices the mistake.
\* Here: an instruction with links is planned again.
PlanErrorsBug(project, t, linked) ==
    {e \in {"assignments_required"} : UniqueAssignments(t.rows) = {}}

\* The reasons why an instruction cannot be planned.  A project is a record
\* [group, technicalUser] of what it has; linked says that the instruction has
\* demonstration links.
PlanErrors(project, t, linked) ==
    {e \in {"bitrix_group_required", "technical_user_required",
            "employee_required", "assignments_required", "already_created"} :
        CASE e = "bitrix_group_required" -> ~project.group
          [] e = "technical_user_required" -> t.subtasks /\ ~project.technicalUser
          [] e = "employee_required" -> \E r \in t.rows : r.who = None
          [] e = "assignments_required" -> UniqueAssignments(t.rows) = {}
          [] e = "already_created" -> linked}

\* One task for each assignee, below a root task in the subtasks mode.
PlannedTasks(name, t) ==
    LET type == IF t.subtasks THEN "subtask" ELSE "independent"
        root == [key |-> <<name, 0, "root">>, task |-> name, who |-> "technical"]
    IN  {[key |-> <<name, r.id, type>>, task |-> name, who |-> r.who] :
             r \in UniqueAssignments(t.rows)}
            \cup (IF t.subtasks THEN {root} ELSE {})

\* build_plan: nothing is planned for an instruction with an error.
BuildPlan(project, name, t, linked) ==
    IF PlanErrors(project, t, linked) # {} THEN {} ELSE PlannedTasks(name, t)
=============================================================================
