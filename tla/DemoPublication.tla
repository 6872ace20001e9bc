---------------------------- MODULE DemoPublication ----------------------------
(****************************************************************************)
(* Demonstration publication of one protocol: run_publication and the retry *)
(* of its failed items (src/app/services/demo_publication.py, main.py), with*)
(* the editor operations that change a plan.                                *)
(*                                                                          *)
(* A publication holds the protocol's lock, because its path names the      *)
(* protocol; the retry of a run (/publication-runs/{id}/retry-failed) does  *)
(* not, so that anything may be committed between its plan and its own      *)
(* commit.  Both are two steps here: the plan read, and the run committed.  *)
(****************************************************************************)
EXTENDS TaskPlanning, SequencesExt

CONSTANTS
    Tasks,      \* instructions of the protocol
    Members,    \* employees in the participant group
    Clients,    \* requests that publish or retry
    MaxRuns,    \* bound: publication runs
    MaxId       \* bound: assignment rows created

ASSUME DemoAssumption ==
    /\ Members \subseteq Employees
    /\ "technical" \notin Employees \cup Names
    /\ MaxRuns \in Nat /\ MaxId \in Nat

VARIABLES
    project,    \* what the project's settings hold
    tasks,      \* instructions that exist: their mode and assignment rows
    grouped,    \* instructions that have chosen the participant group
    nextId,     \* number of each instruction's next assignment row
    links,      \* demonstration links: key, instruction and assignee
    runs,       \* publication runs in the order of their numbers
    work,       \* each client's publication or retry between plan and commit
    overlapped  \* history: a run was committed to an instruction that got its
                \* links after that run's plan

demoVars == <<project, tasks, grouped, nextId, links, runs, work, overlapped>>

Live == DOMAIN tasks
Linked(t) == \E l \in links : l.task = t
LinkedKeys == {l.key : l \in links}

\* New assignment rows of the people in whos.
NumberedRows(whos, group, first) ==
    LET order == SetToSeq(whos)
    IN  {[id |-> first + i - 1, who |-> order[i], group |-> group] :
             i \in DOMAIN order}

-----------------------------------------------------------------------------
(* The plan: refresh_protocol_group_assignments and protocol_plan. *)

\* The rows of the chosen group are deleted and made again; hand-picked
\* employees get none.
GroupRows(t) == {r \in tasks[t].rows : r.group}
Missing(t) == Members \ {r.who : r \in tasks[t].rows \ GroupRows(t)}

Gone(t) == IF t \in grouped THEN GroupRows(t) ELSE {}

Added(t) == IF t \in grouped THEN NumberedRows(Missing(t), TRUE, nextId[t]) ELSE {}

Refreshed(t) == [tasks[t] EXCEPT !.rows = (@ \ Gone(t)) \cup Added(t)]

Planned ==
    UNION {BuildPlan(project, t, Refreshed(t), Linked(t)) : t \in Live}

Errors == \E t \in Live : PlanErrors(project, Refreshed(t), Linked(t)) # {}

NoWork == [kind |-> "none", old |-> 0, rows |-> {}, linked |-> {},
           gone |-> [t \in {} |-> {}], added |-> [t \in {} |-> {}]]

\* What a run will commit: the planned tasks and the refreshed rows.
Work(kind, old, rows) ==
    [kind |-> kind, old |-> old, rows |-> rows,
     linked |-> {t \in Live : Linked(t)},
     gone |-> [t \in Live |-> Gone(t)], added |-> [t \in Live |-> Added(t)]]

\* The protocol's lock is held by a publication.
Locked == \E c \in Clients : work[c].kind = "publish"

Failed(run) == {x \in run.items : x.status = "failed"}
FailedKeys(run) == {x.key : x \in Failed(run)}

MayPlan(c) ==
    /\ work[c].kind = "none"
    /\ Len(runs) < MaxRuns
    /\ \A t \in Live : nextId[t] + Cardinality(Added(t)) <= MaxId + 1
    /\ nextId' = [t \in Tasks |->
           IF t \in Live THEN nextId[t] + Cardinality(Added(t)) ELSE nextId[t]]
    /\ UNCHANGED <<project, tasks, grouped, links, runs, overlapped>>

\* demo_publish: with an error in any plan there is no run and nothing is kept.
BeginPublish(c) ==
    /\ ~Locked
    /\ ~Errors
    /\ MayPlan(c)
    /\ work' = [work EXCEPT ![c] = Work("publish", 0, Planned)]

\* Definitions named "...Bug": see TaskPlanning.  Here: the whole plan is repeated.
BeginRetryBug(c, i) ==
    /\ Failed(runs[i]) # {}
    /\ MayPlan(c)
    /\ work' = [work EXCEPT ![c] = Work("retry", i, Planned)]

\* retry_failed: of the plan as it is now, the keys that failed in the old run.
\* The page offers the retry of a run with failures.
BeginRetry(c, i) ==
    /\ Failed(runs[i]) # {}
    /\ MayPlan(c)
    /\ work' = [work EXCEPT ![c] =
           Work("retry", i, {p \in Planned : p.key \in FailedKeys(runs[i])})]

-----------------------------------------------------------------------------
(* The commit of a run. *)

\* Here: a task is created even when its key has a link.
StatusBug(p, fails) == IF p.key \in fails THEN "failed" ELSE "created"

\* FakeTaskGateway.create: a simulated failure, a link that exists, a new one.
Status(p, fails) ==
    IF p.key \in fails THEN "failed"
    ELSE IF p.key \in LinkedKeys THEN "reused" ELSE "created"

Items(rows, fails) ==
    {[key |-> p.key, task |-> p.task, who |-> p.who,
      status |-> Status(p, fails)] : p \in rows}

\* The simulated failure chosen on the page: a part of the key.
SimulatedFailures(rows) ==
    {{}} \cup {{p.key : p \in {q \in rows : q.key[3] = type}} :
                   type \in {"root", "subtask", "independent"}}
         \cup {{p.key} : p \in rows}

\* A run that was planned for an instruction which is gone, fails as a whole.
Commit(c, fails) ==
    LET w == work[c]
        new == {x \in Items(w.rows, fails) : x.status = "created"}
    IN  /\ w.kind # "none"
        /\ fails \in SimulatedFailures(w.rows)
        /\ w.kind = "retry" => fails = {}
        /\ \A p \in w.rows : p.task \in Live
        /\ Len(runs) < MaxRuns
        /\ tasks' = [t \in Live |-> [tasks[t] EXCEPT !.rows =
               (@ \ w.gone[t]) \cup w.added[t]]]
        /\ links' = links \cup {[key |-> x.key, task |-> x.task, who |-> x.who] :
                                    x \in new}
        /\ runs' = Append(runs, [items |-> Items(w.rows, fails),
                                 retryOf |-> w.old])
        /\ overlapped' = (overlapped \/
               \E p \in w.rows : Linked(p.task) /\ p.task \notin w.linked)
        /\ work' = [work EXCEPT ![c] = NoWork]
        /\ UNCHANGED <<project, grouped, nextId>>

\* The request fails or its process dies before the commit.
Abandon(c) ==
    /\ work[c].kind # "none"
    /\ work' = [work EXCEPT ![c] = NoWork]
    /\ UNCHANGED <<project, tasks, grouped, nextId, links, runs, overlapped>>

-----------------------------------------------------------------------------
(* The editor, under the protocol's lock. *)

Edited(t, record) ==
    /\ ~Locked
    /\ t \in Live
    /\ tasks' = [tasks EXCEPT ![t] = record]
    /\ UNCHANGED <<project, links, runs, work, overlapped>>

\* The assignees of an instruction are written anew.
SetEmployees(t, whos) ==
    /\ nextId[t] + Cardinality(whos) <= MaxId + 1
    /\ nextId' = [nextId EXCEPT ![t] = @ + Cardinality(whos)]
    /\ grouped' = grouped \ {t}
    /\ Edited(t, [tasks[t] EXCEPT !.rows = NumberedRows(whos, FALSE, nextId[t])])

SetMode(t) ==
    /\ Edited(t, [tasks[t] EXCEPT !.subtasks = ~@])
    /\ UNCHANGED <<grouped, nextId>>

\* An imported name is bound to an employee: the row keeps its number.
BindName(t, r, e) ==
    /\ t \in Live /\ r \in tasks[t].rows /\ r.who \in Names
    /\ Edited(t, [tasks[t] EXCEPT !.rows = (@ \ {r}) \cup {[r EXCEPT !.who = e]}])
    /\ UNCHANGED <<grouped, nextId>>

\* The deletion clears protocol_task_id of the instruction's demonstration
\* links, which may not be empty: with links it is refused.
DeleteTask(t) ==
    /\ ~Locked
    /\ t \in Live
    /\ ~Linked(t)
    /\ tasks' = [u \in Live \ {t} |-> tasks[u]]
    /\ grouped' = grouped \ {t}
    /\ UNCHANGED <<project, nextId, links, runs, work, overlapped>>

Editor ==
    \E t \in Live :
        \/ \E whos \in SUBSET Employees : SetEmployees(t, whos)
        \/ SetMode(t)
        \/ \E r \in tasks[t].rows, e \in Employees : BindName(t, r, e)
        \/ DeleteTask(t)

-----------------------------------------------------------------------------
\* An instruction starts with imported rows or with its group's, numbered from
\* one.
DemoInit ==
    /\ project \in [group : BOOLEAN, technicalUser : BOOLEAN]
    /\ \E whos \in SUBSET (Employees \cup Names) :
       \E sub \in BOOLEAN :
           /\ tasks = [t \in Tasks |-> [subtasks |-> sub,
                           rows |-> NumberedRows(whos, FALSE, 1)]]
           /\ nextId = [t \in Tasks |-> Cardinality(whos) + 1]
    /\ grouped \in SUBSET Tasks
    /\ links = {}
    /\ runs = <<>>
    /\ work = [c \in Clients |-> NoWork]
    /\ overlapped = FALSE

DemoNext ==
    \/ Editor
    \/ \E c \in Clients :
           \/ BeginPublish(c)
           \/ \E i \in DOMAIN runs : BeginRetry(c, i)
           \/ \E fails \in SimulatedFailures(work[c].rows) : Commit(c, fails)
           \/ Abandon(c)

DemoSpec == DemoInit /\ [][DemoNext]_demoVars

-----------------------------------------------------------------------------
(* Properties. *)

\* Nobody gets two demonstration tasks for one instruction, however its mode,
\* its assignees and its failed items change between the runs: an instruction
\* with links is planned no more (planner.py:12).  Only a retry, which does not
\* hold the lock, may commit to an instruction that got its links after the
\* retry was planned.
NobodyIsAskedTwice ==
    ~overlapped => \A l, m \in links :
                       l.task = m.task /\ l.who = m.who => l = m

\* The links and the reports of the runs agree: each link is reported as created
\* by exactly one run, also when runs overlap, and what a run reports as created
\* or reused keeps its link (demo_publication.py:100-123).
EveryTaskIsReportedOnce ==
    /\ \A l \in links :
           \E i \in DOMAIN runs : \A j \in DOMAIN runs :
               i = j <=> \E x \in runs[j].items :
                             x.key = l.key /\ x.status = "created"
    /\ \A i \in DOMAIN runs : \A x \in runs[i].items \ Failed(runs[i]) :
           x.key \in LinkedKeys

\* A retry creates only keys that failed in the run it repeats, whatever was
\* added to the plan meanwhile (demo_publication.py:161-163).
RetryRepeatsFailures ==
    \A i \in DOMAIN runs : runs[i].retryOf # 0 =>
        {x.key : x \in runs[i].items} \subseteq FailedKeys(runs[runs[i].retryOf])

-----------------------------------------------------------------------------
(* What makes the properties inductive. *)

AssignmentRows == [id : Nat, who : Employees \cup Names, group : BOOLEAN]
Keys           == Tasks \X Nat \X {"root", "subtask", "independent"}
Assignees      == Employees \cup Names \cup {"technical"}
PlanRows       == [key : Keys, task : Tasks, who : Assignees]
RunItems       == [key : Keys, task : Tasks, who : Assignees,
                   status : {"created", "reused", "failed"}]

DemoTypeOK ==
    /\ Live \subseteq Tasks
    /\ tasks \in [Live -> [subtasks : BOOLEAN, rows : SUBSET AssignmentRows]]
    /\ nextId \in [Tasks -> Nat]
    /\ runs \in Seq([items : SUBSET RunItems, retryOf : Nat])
    /\ DOMAIN work = Clients
    /\ \A c \in Clients :
           /\ work[c].kind \in {"none", "publish", "retry"}
           /\ work[c].rows \subseteq PlanRows
           /\ \A t \in Live : work[c].kind # "none" => work[c].added[t] \subseteq AssignmentRows

\* A plan asks nobody twice and leaves out what had links, and a retry has only
\* what failed in a run that was committed before.
WorkInv ==
    \A c \in Clients :
        /\ \A p, q \in work[c].rows : p.task = q.task /\ p.who = q.who => p = q
        /\ \A p \in work[c].rows : p.task \notin work[c].linked
        /\ work[c].kind = "publish" => work[c].old = 0
        /\ work[c].kind = "retry" =>
               /\ work[c].old \in DOMAIN runs
               /\ {p.key : p \in work[c].rows} \subseteq FailedKeys(runs[work[c].old])

\* A run repeats an earlier one.
RunInv == \A i \in DOMAIN runs : runs[i].retryOf < i

DemoInv ==
    /\ DemoTypeOK /\ WorkInv /\ RunInv
    /\ NobodyIsAskedTwice /\ EveryTaskIsReportedOnce /\ RetryRepeatsFailures
=============================================================================
