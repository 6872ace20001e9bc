------------------------------- MODULE Reporting -------------------------------
(***************************************************************************)
(* The canonical dataset of dashboards, tables and exports                 *)
(* (services/reporting/metrics.py and service.py): which instructions a    *)
(* query includes, the one state each is reported in, the folding of       *)
(* subtasks and published copies into one logical instruction, and the     *)
(* second definition of "overdue", on the control page                     *)
(* (services/protocols/control.py).  Statuses are those of                 *)
(* ProtocolWorkflow; dates are days, and a week is a period of them.       *)
(***************************************************************************)
EXTENDS ProtocolWorkflow, FiniteSets

CONSTANTS
    MaxDay,  \* bound on dates
    Today,   \* the day a report is made
    Week,    \* a period [start, end]
    Layouts  \* [Tasks -> [deadline, closed, copy, parent]]: dates and relations

Days  == 1..MaxDay
Dates == Days \cup {None}

ASSUME DaysAssumption == MaxDay \in Nat /\ Today \in Days /\ {Week.start, Week.end} \subseteq Days
ASSUME LayoutsAssumption ==
    Layouts \subseteq [Tasks -> [deadline : Dates, closed : Dates, copy : BOOLEAN,
                                 parent : Tasks \cup {None}]]

\* COMPLETED_STATUSES and DEFERRED_STATUSES, as far as instructions have them.
IsCompleted(s) == s = "completed"
IsDeferred(s)  == s = "cancelled"

\* is_overdue, due_in_period and completed_in_period; None compares with nothing.
Before(a, b)      == a # None /\ a < b
Within(a, period) == a # None /\ period.start <= a /\ a <= period.end
-----------------------------------------------------------------------------
(***************************************************************************)
(* What a query takes and how one instruction is reported.                 *)
(***************************************************************************)

\* include_in_weekly_report, without its exclusions.
Weekly(deadline, closed, s, period) ==
    \/ Within(deadline, period)
    \/ Within(closed, period)
    \/ Before(deadline, period.start) /\ ~IsCompleted(s)

\* A closing date outweighs the status of the control row, and that outweighs the task's.
Effective(p) ==
    IF p.control = None THEN p.task
    ELSE IF p.closed # None THEN "completed"
    ELSE p.control

\* The definitions named "...Bug" are the one that follows them with a plausible
\* mistake; nothing uses them but the checks that a property notices the mistake.
\* Here: the day of the deadline counts as overdue.
ReportingStatusBug(p, day) ==
    IF IsCompleted(Effective(p))
    THEN IF p.closed # None /\ p.deadline # None /\ p.closed <= p.deadline
         THEN "completed_in_time" ELSE "completed_late"
    ELSE IF p.deadline # None /\ p.deadline <= day THEN "overdue" ELSE "in_progress"

\* reporting_status at a date.
ReportingStatus(p, day) ==
    IF IsCompleted(Effective(p))
    THEN IF p.closed # None /\ p.deadline # None /\ p.closed <= p.deadline
         THEN "completed_in_time" ELSE "completed_late"
    ELSE IF Before(p.deadline, day) THEN "overdue" ELSE "in_progress"

Done == {"completed_in_time", "completed_late"}

\* The loop of build(); demonstration roots and unmarked subtasks never appear.
Included(p, q) ==
    /\ q.deferred \/ ~(IsDeferred(Effective(p)) \/ IsDeferred(p.task))
    /\ ~p.root
    /\ p.parent # None => p.marked
    /\ q.period # None => Weekly(p.deadline, p.closed, Effective(p), q.period)

\* _matches: the drill-down of a query, on the row of one instruction.
Matches(s, view) ==
    CASE view = "all"       -> TRUE
      [] view = "overdue"   -> s = "overdue"
      [] view = "completed" -> s \in Done
      [] view = "active"    -> s \notin Done
-----------------------------------------------------------------------------
(***************************************************************************)
(* Logical instructions.                                                   *)
(***************************************************************************)

\* _logical_key: a subtask goes with its parent, copies 06.1/1, 06.1/2 with one another.
LogicalKey(parts, k) ==
    LET p      == parts[k]
    IN  IF p.copy THEN <<"copies">> ELSE <<IF p.parent = None THEN k ELSE p.parent>>

\* Here: an open part that is not overdue outweighs one that is.
MergedStatusBug(group) ==
    IF group \subseteq Done
    THEN IF "completed_late" \in group THEN "completed_late" ELSE "completed_in_time"
    ELSE IF "in_progress" \in group THEN "in_progress"
    ELSE "overdue"

\* _merge_logical_rows, from the states of the parts; each counts for one or more.
MergedStatus(group) ==
    IF group \subseteq Done
    THEN IF "completed_late" \in group THEN "completed_late" ELSE "completed_in_time"
    ELSE IF "overdue" \in group THEN "overdue"
    ELSE "in_progress"

\* The rows of a dataset: filtered first, folded then.
Report(parts, q) ==
    LET day      == IF q.period = None THEN q.today ELSE q.period.end
        state(k) == ReportingStatus(parts[k], day)
        taken    == {k \in DOMAIN parts : Included(parts[k], q) /\ Matches(state(k), q.view)}
        keys     == {LogicalKey(parts, k) : k \in taken}
    IN  {[key |-> key, status |-> MergedStatus({state(k) : k \in {n \in taken : LogicalKey(parts, n) = key}})] :
           key \in keys}

\* kpis of _dataset.
Count(rows, states) == Cardinality({r \in rows : r.status \in states})
-----------------------------------------------------------------------------
\* effective_control_status, the state on the control page of a protocol.
ControlPageStatus(p, day) ==
    LET s == IF p.control = None THEN p.task ELSE p.control IN
    IF Before(p.planned, day) /\ s \notin {"completed", "cancelled"} THEN "overdue" ELSE s
-----------------------------------------------------------------------------
(***************************************************************************)
(* Reports on the instructions of ProtocolWorkflow.                        *)
(***************************************************************************)

\* An instruction as it stands; control and Bitrix24 date what is completed.
Instruction(t, layout) ==
    [task |-> task[t], control |-> control[t], deadline |-> layout.deadline,
     planned |-> layout.deadline, closed |-> IF control[t] = "completed" THEN layout.closed ELSE None,
     copy |-> layout.copy, parent |-> IF layout.parent \in Present THEN layout.parent ELSE None,
     marked |-> TRUE, root |-> FALSE]

Query(period, view) == [period |-> period, today |-> Today, view |-> view, deferred |-> FALSE]

\* The numbers of the dashboard are those of the lists behind them, although the lists are
\* filtered before copies and subtasks are folded and the numbers counted after
\* (service.py:160-162): as many overdue and as many open instructions, and no completed
\* one missing.  An instruction that is completed in part is in the list of the completed
\* and not in their number.
DrillDownsAgree ==
    \A layout \in Layouts, period \in {None, Week} :
        LET parts      == [t \in Present |-> Instruction(t, layout[t])]
            all        == Report(parts, Query(period, "all"))
            list(view) == Report(parts, Query(period, view))
        IN  /\ Count(all, {"overdue"}) = Cardinality(list("overdue"))
            /\ Count(all, {"overdue", "in_progress"}) = Cardinality(list("active"))
            /\ {r \in all : r.status \in Done} \subseteq list("completed")

\* Two definitions of "overdue" are in use.  Whatever statuses approval, control, Bitrix24
\* and the worker leave, an instruction the report counts as overdue is overdue on the
\* control page too, if both look at one deadline; the form takes a closing date with any
\* status (control.py:66, metrics.py:76).
OverdueIsShownEverywhere ==
    \A t \in Present, deadline \in Dates, day \in Days :
        \A closed \in IF control[t] = None THEN {None} ELSE Dates :
            LET layout == [deadline |-> deadline, closed |-> None, copy |-> FALSE, parent |-> None]
                p      == [Instruction(t, layout) EXCEPT !.closed = closed]
            IN  Included(p, Query(None, "all")) /\ ReportingStatus(p, day) = "overdue"
                => ControlPageStatus(p, day) = "overdue"
=============================================================================
