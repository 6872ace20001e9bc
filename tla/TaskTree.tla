------------------------------- MODULE TaskTree -------------------------------
(***************************************************************************)
(* The tree of instructions: an instruction published as a subtask may     *)
(* hang under another one.  The editor page sends all its rows at once;    *)
(* save_protocol_editor takes them one by one in one transaction, each row *)
(* checked by apply_task_data against what the rows before it left behind. *)
(* Requests exclude each other by the protocol's lock.  The publication    *)
(* creates parents before their children.                                  *)
(***************************************************************************)
EXTENDS Naturals, FiniteSets

CONSTANTS
    Tasks,      \* identifiers of ProtocolTask rows
    None

ASSUME TasksAssumption == IsFiniteSet(Tasks) /\ None \notin Tasks

VARIABLES
    tasks,      \* the instructions of the protocol
    split,      \* those with create_as_subtasks
    parent,     \* ProtocolTask.parent_task_id
    todo,       \* rows of the running save that are still to be taken
    before      \* what a rollback of the running save restores

doc  == <<tasks, split, parent>>
save == <<todo, before>>
vars == <<doc, save>>

Blank == [split |-> {}, parent |-> [t \in Tasks |-> None]]

TypeOK ==
    /\ tasks \subseteq Tasks
    /\ split \subseteq Tasks
    /\ parent \in [Tasks -> Tasks \cup {None}]
    /\ todo \subseteq Tasks
    /\ before \in [split : SUBSET Tasks, parent : [Tasks -> Tasks \cup {None}]]

Init ==
    /\ tasks = {}
    /\ split = {}
    /\ parent = [t \in Tasks |-> None]
    /\ todo = {}
    /\ before = Blank
-----------------------------------------------------------------------------
(***************************************************************************)
(* The parents of an instruction, as the loops over db.get see them.       *)
(***************************************************************************)

\* S holds the parent of everything in it.
Upward(S) == \A s \in S : parent[s] # None => parent[s] \in S

\* p, its parent, the parent of that, ...
Chain(p) == {s \in tasks : \A S \in SUBSET tasks : p \in S /\ Upward(S) => s \in S}

\* Somewhere in S the walk from child to parent never ends.
Cyclic(S) == \E C \in SUBSET S : C # {} /\ \A s \in C : parent[s] \in C

\* The definitions named "...Bug" are the one that follows them with a plausible
\* mistake; nothing uses them but the checks that a property notices the mistake.
\* Here: only the parent itself is compared with the instruction.
LegalBug(t, p) == p \in tasks /\ p # t

\* apply_task_data lets t hang under p: the walk from p meets nothing twice, t
\* counted as met.
Legal(t, p) ==
    /\ p \in tasks /\ p # t
    /\ t \notin Chain(p)
    /\ ~ Cyclic(Chain(p))

\* Here: the distance is measured downwards.
DepthBug(t) == Cardinality({s \in tasks : t \in Chain(s)})

\* depth of _publish: the number of instructions above t.
Depth(t) == IF parent[t] = None THEN 0 ELSE Cardinality(Chain(parent[t]))
-----------------------------------------------------------------------------
(***************************************************************************)
(* A save of the editor page.                                              *)
(***************************************************************************)

\* The lock of the protocol is free.
NoSave == todo = {}

BeginSave(S) ==
    /\ NoSave
    /\ S # {}
    /\ todo' = S
    /\ before' = [split |-> split, parent |-> parent]
    /\ UNCHANGED doc

\* One row of the loop; the last one is followed by the commit.
\* Whatever the mode, the parent the page sends is checked; it is kept for a
\* subtask only.
TakeRow(t, isSplit, p) ==
    /\ t \in todo
    /\ p = None \/ Legal(t, p)
    /\ split' = IF isSplit THEN split \cup {t} ELSE split \ {t}
    /\ parent' = [parent EXCEPT ![t] = IF isSplit THEN p ELSE None]
    /\ todo' = todo \ {t}
    /\ before' = IF todo' = {} THEN Blank ELSE before
    /\ UNCHANGED tasks

\* A refused row undoes the rows before it.
RefuseRow(t, p) ==
    /\ t \in todo
    /\ p # None /\ ~ Legal(t, p)
    /\ split' = before.split
    /\ parent' = before.parent
    /\ todo' = {}
    /\ before' = Blank
    /\ UNCHANGED tasks

-----------------------------------------------------------------------------
(***************************************************************************)
(* The other requests that touch the tree.                                 *)
(***************************************************************************)

\* create_task; nothing refers to the identifier of a deleted instruction, so it
\* does not matter whether identifiers are used again.
CreateTask(t, isSplit, p) ==
    /\ NoSave
    /\ t \notin tasks
    /\ p = None \/ (p \in tasks /\ ~ Cyclic(Chain(p)))
    /\ tasks' = tasks \cup {t}
    /\ split' = IF isSplit THEN split \cup {t} ELSE split
    /\ parent' = [parent EXCEPT ![t] = IF isSplit THEN p ELSE None]
    /\ UNCHANGED save

\* The copy has the mode and the parent of its source.
DuplicateTask(t, source) ==
    /\ source \in tasks
    /\ CreateTask(t, source \in split, parent[source])

\* Here: deletion does not wait for the lock of a running save.
DeleteUnlockedBug(t) ==
    /\ t \in tasks
    /\ tasks' = tasks \ {t}
    /\ split' = split \ {t}
    /\ parent' = [s \in Tasks |-> IF s = t \/ parent[s] = t THEN None ELSE parent[s]]
    /\ todo' = todo \ {t}
    /\ UNCHANGED before

\* The children lose their parent (SET NULL) and stay subtasks.
DeleteTask(t) ==
    /\ NoSave
    /\ t \in tasks
    /\ tasks' = tasks \ {t}
    /\ split' = split \ {t}
    /\ parent' = [s \in Tasks |-> IF s = t \/ parent[s] = t THEN None ELSE parent[s]]
    /\ UNCHANGED save

\* Bulk editing sets the mode of several instructions, the form of one instruction
\* that of one; neither sends a parent.
SetMode(S, isSplit) ==
    /\ NoSave
    /\ S \subseteq tasks
    /\ split' = IF isSplit THEN split \cup S ELSE split \ S
    /\ parent' = IF isSplit THEN parent
                 ELSE [s \in Tasks |-> IF s \in S THEN None ELSE parent[s]]
    /\ UNCHANGED <<tasks, save>>
-----------------------------------------------------------------------------
SaveStep ==
    \/ \E S \in SUBSET tasks : BeginSave(S)
    \/ \E t \in todo, isSplit \in BOOLEAN, p \in Tasks \cup {None} : TakeRow(t, isSplit, p)
    \/ \E t \in todo, p \in Tasks : RefuseRow(t, p)

OtherStep ==
    \/ \E t \in Tasks, isSplit \in BOOLEAN, p \in Tasks \cup {None} : CreateTask(t, isSplit, p)
    \/ \E t, source \in Tasks : DuplicateTask(t, source)
    \/ \E t \in Tasks : DeleteTask(t)
    \/ \E S \in SUBSET tasks, isSplit \in BOOLEAN : SetMode(S, isSplit)

Next == SaveStep \/ OtherStep

Spec == Init /\ [][Next]_vars
-----------------------------------------------------------------------------
(***************************************************************************)
(* Properties.                                                             *)
(***************************************************************************)

\* No sequence of saves, however their rows are ordered, deletions and copies
\* closes a circle of parents: the walk of apply_task_data ends, and the publication
\* never meets the cycle it is prepared to refuse.
Forest == ~ Cyclic(tasks)

\* Only a subtask has a parent, and the parent is an instruction of the protocol.
ParentsAreLive ==
    /\ split \subseteq tasks
    /\ \A t \in Tasks : parent[t] # None => t \in split /\ parent[t] \in tasks

\* Sorted by depth, the publication creates every parent before its children, so it
\* knows the Bitrix24 task a child belongs under.
ParentsFirst ==
    \A t \in tasks : parent[t] # None => Depth(parent[t]) < Depth(t)

\* A refused row, even the last of many, leaves a tree as sound as before the save:
\* nothing a rollback restores was made stale by another request.
Sound(p, subtasks) ==
    /\ ~ \E C \in SUBSET tasks : C # {} /\ \A s \in C : p[s] \in C
    /\ subtasks \subseteq tasks
    /\ \A t \in Tasks : p[t] # None => t \in subtasks /\ p[t] \in tasks

RollbackIsSound ==
    /\ todo \subseteq tasks
    /\ todo # {} => Sound(before.parent, before.split)
=============================================================================
