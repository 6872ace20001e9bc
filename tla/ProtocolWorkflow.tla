-------------------------- MODULE ProtocolWorkflow --------------------------
(***************************************************************************)
(* The life of one protocol and of its instructions: the approval buttons  *)
(* (services/protocols/governance.py), execution control                   *)
(* (services/protocols/control.py), the status publication writes          *)
(* (services/tasks/publication.py) and the statuses synchronisation brings *)
(* from Bitrix24 (services/tasks/sync.py).                                 *)
(*                                                                         *)
(* Three fields are written from several places: Protocol.status,          *)
(* ProtocolTask.status and ProtocolTaskControl.status.  A request holds    *)
(* the protocol's lock and has claimed its version, so it is one step      *)
(* (DocumentVersion).  The worker reads the protocol before it has the     *)
(* lock; there is one at a time (IntegrationJobs).                         *)
(***************************************************************************)
EXTENDS Naturals

CONSTANTS
    Tasks,   \* identifiers of instructions, each given once
    None

Statuses        == {"draft", "review", "approved", "published", "control", "completed"}
ControlStatuses == {"pending", "in_progress", "completed", "overdue", "rejected"}
SyncStatuses    == {"pending", "in_progress", "waiting_control", "completed", "overdue"}
TaskStatuses    == {"new", "cancelled"} \cup ControlStatuses \cup SyncStatuses

ASSUME NoneAssumption == None \notin Statuses \cup TaskStatuses

VARIABLES
    status,   \* Protocol.status
    task,     \* ProtocolTask.status of an instruction, None without one
    control,  \* ProtocolTaskControl.status, None without a control row
    used,     \* identifiers given so far
    linked,   \* instructions with a task in Bitrix24
    loaded,   \* Protocol.status in the object the worker holds, None without one
    approved, \* history: the protocol was approved
    copied    \* history: instructions whose control is a copy nobody has written since

instructions == <<task, control, used, linked, copied>>
vars == <<status, instructions, loaded, approved>>

TypeOK ==
    /\ status \in Statuses
    /\ task \in [Tasks -> TaskStatuses \cup {None}]
    /\ control \in [Tasks -> ControlStatuses \cup SyncStatuses \cup {None}]
    /\ used \subseteq Tasks
    /\ linked \subseteq Tasks
    /\ loaded \in Statuses \cup {None}
    /\ approved \in BOOLEAN
    /\ copied \subseteq Tasks

Init ==
    /\ status = "draft"
    /\ task = [t \in Tasks |-> None]
    /\ control = [t \in Tasks |-> None]
    /\ used = {}
    /\ linked = {}
    /\ loaded = None
    /\ approved = FALSE
    /\ copied = {}

Present == {t \in Tasks : task[t] # None}
-----------------------------------------------------------------------------
(***************************************************************************)
(* Approval.                                                               *)
(***************************************************************************)

\* governance.TRANSITIONS: the status before a button and after it.
Buttons == {<<"draft", "review">>, <<"review", "draft">>, <<"review", "approved">>,
            <<"approved", "published">>, <<"published", "control">>,
            <<"published", "published">>, <<"control", "completed">>}

\* A user with the permission presses a button.
Transition ==
    /\ \E s \in Statuses : <<status, s>> \in Buttons /\ status' = s
    /\ approved' = (approved \/ status' = "approved")
    /\ UNCHANGED <<instructions, loaded>>
-----------------------------------------------------------------------------
(***************************************************************************)
(* Instructions.                                                           *)
(***************************************************************************)

\* create_editor_task, in every status of the protocol.
CreateTask(t) ==
    /\ t \notin used
    /\ used' = used \cup {t}
    /\ task' = [task EXCEPT ![t] = "new"]
    /\ UNCHANGED <<status, control, linked, copied, loaded, approved>>

\* duplicate_editor_task: a new instruction with a copy of the control row.
DuplicateTask(s, t) ==
    /\ task[s] # None
    /\ t \notin used
    /\ used' = used \cup {t}
    /\ task' = [task EXCEPT ![t] = "new"]
    /\ control' = [control EXCEPT ![t] = control[s]]
    /\ copied' = IF control[s] # None THEN copied \cup {t} ELSE copied
    /\ UNCHANGED <<status, linked, loaded, approved>>

\* delete_editor_task: the control row and the links go with the instruction.
DeleteTask(t) ==
    /\ task[t] # None
    /\ task' = [task EXCEPT ![t] = None]
    /\ control' = [control EXCEPT ![t] = None]
    /\ linked' = linked \ {t}
    /\ copied' = copied \ {t}
    /\ UNCHANGED <<status, used, loaded, approved>>

\* The definitions named "...Bug" are the one that follows them with a plausible
\* mistake; nothing uses them but the checks that a property notices the mistake.
\* Here: a completed instruction may be returned to work.
ManualNextBug(s) ==
    CASE s = "new"             -> {"in_progress", "cancelled"}
      [] s = "in_progress"     -> {"waiting_control", "completed", "cancelled"}
      [] s = "waiting_control" -> {"completed", "in_progress"}
      [] s = "overdue"         -> {"in_progress", "waiting_control", "completed", "cancelled"}
      [] s = "completed"       -> {"in_progress"}
      [] OTHER                 -> {}

\* control.TRANSITIONS; "pending" and "rejected", which the other writers set, have none.
ManualNext(s) ==
    CASE s = "new"             -> {"in_progress", "cancelled"}
      [] s = "in_progress"     -> {"waiting_control", "completed", "cancelled"}
      [] s = "waiting_control" -> {"completed", "in_progress"}
      [] s = "overdue"         -> {"in_progress", "waiting_control", "completed", "cancelled"}
      [] OTHER                 -> {}

\* change_status writes ProtocolTask.status only.
ChangeStatus(t) ==
    /\ task[t] # None
    /\ \E s \in ManualNext(task[t]) : task' = [task EXCEPT ![t] = s]
    /\ UNCHANGED <<status, control, used, linked, copied, loaded, approved>>

\* Here: one completed instruction is enough.
StatusAfterControlBug ==
    IF \E t \in Present : control'[t] = "completed" THEN "completed"
    ELSE IF status = "published" THEN "control"
    ELSE status

\* _complete_protocol_if_ready, in every status of the protocol.
StatusAfterControl ==
    IF \A t \in Present : control'[t] = "completed" THEN "completed"
    ELSE IF status = "published" THEN "control"
    ELSE status

\* update_control writes both statuses and may complete the protocol.
UpdateControl(t) ==
    /\ task[t] # None
    /\ \E s \in ControlStatuses :
         /\ control' = [control EXCEPT ![t] = s]
         /\ task' = [task EXCEPT ![t] = s]
    /\ status' = StatusAfterControl
    /\ copied' = copied \ {t}
    /\ UNCHANGED <<used, linked, loaded, approved>>
-----------------------------------------------------------------------------
(***************************************************************************)
(* Publication and synchronisation, in a request or in the worker.         *)
(***************************************************************************)

\* The links of a run that got as far as the instructions "reached", and the control
\* rows it has committed; the row of the last link is committed with the next one.
PublishRows(reached, controlled) ==
    /\ controlled \subseteq reached
    /\ reached \subseteq Present
    /\ linked' = linked \cup reached
    /\ control' = [t \in Tasks |-> IF t \in controlled /\ control[t] = None THEN "pending"
                                   ELSE control[t]]
    /\ UNCHANGED <<task, used, copied>>

\* Here: drafts are published too.
MayPublishBug(s) == s # "completed"

MayPublish(s) == s \in {"approved", "published"}

\* publish_protocol without background jobs: a complete run ...
PublishRequest ==
    /\ MayPublish(status)
    /\ Present # {}
    /\ PublishRows(Present, Present)
    /\ status' = "published"
    /\ UNCHANGED <<loaded, approved>>

\* ... or one that fails on its way.
PublishBreaks ==
    /\ MayPublish(status)
    /\ \E reached, controlled \in SUBSET Tasks : PublishRows(reached, controlled)
    /\ UNCHANGED <<status, loaded, approved>>

\* BitrixTaskSyncService.sync: the link of the main responsible decides both statuses;
\* links of others, ambiguous links and errors leave an instruction as it is.  The
\* protocol's status is not looked at.
SyncRows ==
    \E brought \in SUBSET linked : \E result \in [brought -> SyncStatuses] :
        /\ task' = [t \in Tasks |-> IF t \in brought THEN result[t] ELSE task[t]]
        /\ control' = [t \in Tasks |-> IF t \in brought THEN result[t] ELSE control[t]]
        /\ copied' = copied \ brought
        /\ UNCHANGED <<status, used, linked, approved>>

\* sync_protocol_bitrix without background jobs.
SyncRequest == SyncRows /\ UNCHANGED loaded

\* run_next reads the protocol and only then takes its lock.
WorkerLoad ==
    /\ loaded = None
    /\ loaded' = status
    /\ UNCHANGED <<status, instructions, approved>>

\* The status is compared with, and written to, the object read before the lock: the
\* UPDATE names the column only if the object had another status.
WorkerPublish ==
    /\ MayPublish(loaded)
    /\ Present # {}
    /\ PublishRows(Present, Present)
    /\ status' = IF loaded = "published" THEN status ELSE "published"
    /\ loaded' = None
    /\ UNCHANGED approved

WorkerBreaks ==
    /\ MayPublish(loaded)
    /\ \E reached, controlled \in SUBSET Tasks : PublishRows(reached, controlled)
    /\ loaded' = None
    /\ UNCHANGED <<status, approved>>

WorkerSync == loaded # None /\ SyncRows /\ loaded' = None

\* The lock is busy, the run is refused, or the worker dies before it has done anything.
WorkerLeave ==
    /\ loaded # None
    /\ loaded' = None
    /\ UNCHANGED <<status, instructions, approved>>

Next ==
    \/ Transition
    \/ \E t \in Tasks :
         \/ CreateTask(t) \/ DeleteTask(t) \/ ChangeStatus(t) \/ UpdateControl(t)
         \/ \E s \in Tasks : DuplicateTask(s, t)
    \/ PublishRequest \/ PublishBreaks \/ SyncRequest
    \/ WorkerLoad \/ WorkerPublish \/ WorkerBreaks \/ WorkerSync \/ WorkerLeave

Spec == Init /\ [][Next]_vars
-----------------------------------------------------------------------------
\* Nothing is linked to Bitrix24, and no protocol is published or under control, before
\* the protocol was approved, by whatever way a status is written (publication.py:103).
PublishedAfterApproval ==
    linked # {} \/ status \in {"approved", "published", "control"} => approved

\* Control says "completed" only of an instruction that is completed in its own status
\* too, though a third writer, change_status, does not know of control: what is counted
\* as done on the dashboard is done.  Copies are the exception (main.py:1480).
StatusesAgree ==
    \A t \in Tasks : control[t] = "completed" => task[t] = "completed" \/ t \in copied

Rank(s) == CASE s = "draft" -> 0 [] s = "review" -> 1 [] s = "approved" -> 2
             [] s = "published" -> 3 [] s = "control" -> 4 [] s = "completed" -> 5

\* A protocol becomes completed by the button of a protocol under control, or when the
\* last of its instructions is completed in control (control.py:176).  None goes back,
\* but from review to draft and through a worker that read it as approved before others
\* published it and took it under control or completed it; a worker that read it as
\* published leaves the later status alone (publication.py:179).
MovesAreEarned ==
    [][/\ status # "completed" /\ status' = "completed" =>
            \/ status = "control"
            \/ \A t \in Tasks : task'[t] # None => control'[t] = "completed"
       /\ \/ Rank(status') >= Rank(status)
          \/ status = "review" /\ status' = "draft"
          \/ status' = "published" /\ loaded = "approved"]_vars
-----------------------------------------------------------------------------
\* What makes the invariants inductive: a worker that read an approved protocol, or an
\* instruction that has a row of its own.
RowInv ==
    /\ \A t \in Tasks : task[t] = None => control[t] = None /\ t \notin linked
    /\ \A t \in Tasks : task[t] # None => t \in used
    /\ loaded \in {"approved", "published", "control"} => approved

IInv == TypeOK /\ RowInv /\ PublishedAfterApproval /\ StatusesAgree
=============================================================================
