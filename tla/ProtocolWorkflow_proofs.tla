----------------------- MODULE ProtocolWorkflow_proofs -----------------------
(***************************************************************************)
(* The life of a protocol is sound for any number of instructions, and the *)
(* report on them adds up.                                                 *)
(***************************************************************************)
EXTENDS Reporting, TLAPS

\* Every step keeps the type of every variable.
LEMMA TypeStep == IInv /\ [Next]_vars => TypeOK'
<1> SUFFICES ASSUME IInv, [Next]_vars PROVE TypeOK'
  OBVIOUS
<1> USE DEF IInv
<1>1. CASE Transition
  BY <1>1, NoneAssumption DEF Transition, Buttons, instructions, TypeOK, Statuses,
     TaskStatuses, ControlStatuses, SyncStatuses
<1>2. ASSUME NEW t \in Tasks, CreateTask(t) PROVE TypeOK'
  BY <1>2, NoneAssumption DEF CreateTask, instructions, TypeOK, Statuses, TaskStatuses,
     ControlStatuses, SyncStatuses
<1>3. ASSUME NEW t \in Tasks, DeleteTask(t) PROVE TypeOK'
  BY <1>3, NoneAssumption DEF DeleteTask, instructions, TypeOK, Statuses, TaskStatuses,
     ControlStatuses, SyncStatuses
<1>4. ASSUME NEW t \in Tasks, ChangeStatus(t) PROVE TypeOK'
  BY <1>4, NoneAssumption DEF ChangeStatus, ManualNext, instructions, TypeOK, Statuses,
     TaskStatuses, ControlStatuses, SyncStatuses
<1>5. ASSUME NEW t \in Tasks, UpdateControl(t) PROVE TypeOK'
  BY <1>5, NoneAssumption DEF UpdateControl, StatusAfterControl, Present, instructions,
     TypeOK, Statuses, TaskStatuses, ControlStatuses, SyncStatuses
<1>6. ASSUME NEW s \in Tasks, NEW t \in Tasks, DuplicateTask(s, t) PROVE TypeOK'
  BY <1>6, NoneAssumption DEF DuplicateTask, instructions, TypeOK, Statuses,
     TaskStatuses, ControlStatuses, SyncStatuses
<1>7. CASE PublishRequest
  BY <1>7, NoneAssumption DEF PublishRequest, PublishRows, Present, MayPublish,
     instructions, TypeOK, Statuses, TaskStatuses, ControlStatuses, SyncStatuses
<1>8. CASE PublishBreaks
  BY <1>8, NoneAssumption DEF PublishBreaks, PublishRows, Present, MayPublish,
     instructions, TypeOK, Statuses, TaskStatuses, ControlStatuses, SyncStatuses
<1>9. CASE SyncRequest
  BY <1>9, NoneAssumption DEF SyncRequest, SyncRows, instructions, TypeOK, Statuses,
     TaskStatuses, ControlStatuses, SyncStatuses
<1>10. CASE WorkerLoad
  BY <1>10, NoneAssumption DEF WorkerLoad, instructions, TypeOK, Statuses,
     TaskStatuses, ControlStatuses, SyncStatuses
<1>11. CASE WorkerPublish
  BY <1>11, NoneAssumption DEF WorkerPublish, PublishRows, Present, MayPublish,
     instructions, TypeOK, Statuses, TaskStatuses, ControlStatuses, SyncStatuses
<1>12. CASE WorkerBreaks
  BY <1>12, NoneAssumption DEF WorkerBreaks, PublishRows, Present, MayPublish,
     instructions, TypeOK, Statuses, TaskStatuses, ControlStatuses, SyncStatuses
<1>13. CASE WorkerSync
  BY <1>13, NoneAssumption DEF WorkerSync, SyncRows, instructions, TypeOK, Statuses,
     TaskStatuses, ControlStatuses, SyncStatuses
<1>14. CASE WorkerLeave
  BY <1>14, NoneAssumption DEF WorkerLeave, instructions, TypeOK, Statuses,
     TaskStatuses, ControlStatuses, SyncStatuses
<1>15. CASE UNCHANGED vars
  BY <1>15 DEF vars, instructions, TypeOK, Statuses, TaskStatuses, ControlStatuses,
     SyncStatuses
<1> QED
  BY <1>1, <1>2, <1>3, <1>4, <1>5, <1>6, <1>7, <1>8, <1>9,
     <1>10, <1>11, <1>12, <1>13, <1>14, <1>15 DEF Next

\* Rows go with their instruction, and the worker's copy was true once.
LEMMA RowStep == IInv /\ [Next]_vars => RowInv'
<1> SUFFICES ASSUME IInv, [Next]_vars PROVE RowInv'
  OBVIOUS
<1> USE DEF IInv
<1>1. CASE Transition
  BY <1>1, NoneAssumption DEF Transition, Buttons, instructions, RowInv,
     PublishedAfterApproval, TypeOK, Statuses, TaskStatuses, ControlStatuses,
     SyncStatuses
<1>2. ASSUME NEW t \in Tasks, CreateTask(t) PROVE RowInv'
  BY <1>2, NoneAssumption DEF CreateTask, instructions, RowInv, PublishedAfterApproval,
     TypeOK, Statuses, TaskStatuses, ControlStatuses, SyncStatuses
<1>3. ASSUME NEW t \in Tasks, DeleteTask(t) PROVE RowInv'
  BY <1>3, NoneAssumption DEF DeleteTask, instructions, RowInv, PublishedAfterApproval,
     TypeOK, Statuses, TaskStatuses, ControlStatuses, SyncStatuses
<1>4. ASSUME NEW t \in Tasks, ChangeStatus(t) PROVE RowInv'
  BY <1>4, NoneAssumption DEF ChangeStatus, ManualNext, instructions, RowInv,
     PublishedAfterApproval, TypeOK, Statuses, TaskStatuses, ControlStatuses,
     SyncStatuses
<1>5. ASSUME NEW t \in Tasks, UpdateControl(t) PROVE RowInv'
  BY <1>5, NoneAssumption DEF UpdateControl, StatusAfterControl, Present, instructions,
     RowInv, PublishedAfterApproval, TypeOK, Statuses, TaskStatuses, ControlStatuses,
     SyncStatuses
<1>6. ASSUME NEW s \in Tasks, NEW t \in Tasks, DuplicateTask(s, t) PROVE RowInv'
  BY <1>6, NoneAssumption DEF DuplicateTask, instructions, RowInv,
     PublishedAfterApproval, TypeOK, Statuses, TaskStatuses, ControlStatuses,
     SyncStatuses
<1>7. CASE PublishRequest
  BY <1>7, NoneAssumption DEF PublishRequest, PublishRows, Present, MayPublish,
     instructions, RowInv, PublishedAfterApproval, TypeOK, Statuses, TaskStatuses,
     ControlStatuses, SyncStatuses
<1>8. CASE PublishBreaks
  BY <1>8, NoneAssumption DEF PublishBreaks, PublishRows, Present, MayPublish,
     instructions, RowInv, PublishedAfterApproval, TypeOK, Statuses, TaskStatuses,
     ControlStatuses, SyncStatuses
<1>9. CASE SyncRequest
  BY <1>9, NoneAssumption DEF SyncRequest, SyncRows, instructions, RowInv,
     PublishedAfterApproval, TypeOK, Statuses, TaskStatuses, ControlStatuses,
     SyncStatuses
<1>10. CASE WorkerLoad
  BY <1>10, NoneAssumption DEF WorkerLoad, instructions, RowInv,
     PublishedAfterApproval, TypeOK, Statuses, TaskStatuses, ControlStatuses,
     SyncStatuses
<1>11. CASE WorkerPublish
  BY <1>11, NoneAssumption DEF WorkerPublish, PublishRows, Present, MayPublish,
     instructions, RowInv, PublishedAfterApproval, TypeOK, Statuses, TaskStatuses,
     ControlStatuses, SyncStatuses
<1>12. CASE WorkerBreaks
  BY <1>12, NoneAssumption DEF WorkerBreaks, PublishRows, Present, MayPublish,
     instructions, RowInv, PublishedAfterApproval, TypeOK, Statuses, TaskStatuses,
     ControlStatuses, SyncStatuses
<1>13. CASE WorkerSync
  BY <1>13, NoneAssumption DEF WorkerSync, SyncRows, instructions, RowInv,
     PublishedAfterApproval, TypeOK, Statuses, TaskStatuses, ControlStatuses,
     SyncStatuses
<1>14. CASE WorkerLeave
  BY <1>14, NoneAssumption DEF WorkerLeave, instructions, RowInv,
     PublishedAfterApproval, TypeOK, Statuses, TaskStatuses, ControlStatuses,
     SyncStatuses
<1>15. CASE UNCHANGED vars
  BY <1>15 DEF vars, instructions, RowInv, PublishedAfterApproval, TypeOK, Statuses,
     TaskStatuses, ControlStatuses, SyncStatuses
<1> QED
  BY <1>1, <1>2, <1>3, <1>4, <1>5, <1>6, <1>7, <1>8, <1>9,
     <1>10, <1>11, <1>12, <1>13, <1>14, <1>15 DEF Next

\* No writer of a status gets ahead of the approval.
LEMMA ApprovalStep == IInv /\ [Next]_vars => PublishedAfterApproval'
<1> SUFFICES ASSUME IInv, [Next]_vars PROVE PublishedAfterApproval'
  OBVIOUS
<1> USE DEF IInv
<1>1. CASE Transition
  BY <1>1, NoneAssumption DEF Transition, Buttons, instructions,
     PublishedAfterApproval, RowInv, TypeOK, Statuses, TaskStatuses, ControlStatuses,
     SyncStatuses
<1>2. ASSUME NEW t \in Tasks, CreateTask(t) PROVE PublishedAfterApproval'
  BY <1>2, NoneAssumption DEF CreateTask, instructions, PublishedAfterApproval, RowInv,
     TypeOK, Statuses, TaskStatuses, ControlStatuses, SyncStatuses
<1>3. ASSUME NEW t \in Tasks, DeleteTask(t) PROVE PublishedAfterApproval'
  BY <1>3, NoneAssumption DEF DeleteTask, instructions, PublishedAfterApproval, RowInv,
     TypeOK, Statuses, TaskStatuses, ControlStatuses, SyncStatuses
<1>4. ASSUME NEW t \in Tasks, ChangeStatus(t) PROVE PublishedAfterApproval'
  BY <1>4, NoneAssumption DEF ChangeStatus, ManualNext, instructions,
     PublishedAfterApproval, RowInv, TypeOK, Statuses, TaskStatuses, ControlStatuses,
     SyncStatuses
<1>5. ASSUME NEW t \in Tasks, UpdateControl(t) PROVE PublishedAfterApproval'
  BY <1>5, NoneAssumption DEF UpdateControl, StatusAfterControl, Present, instructions,
     PublishedAfterApproval, RowInv, TypeOK, Statuses, TaskStatuses, ControlStatuses,
     SyncStatuses
<1>6. ASSUME NEW s \in Tasks, NEW t \in Tasks, DuplicateTask(s, t) PROVE PublishedAfterApproval'
  BY <1>6, NoneAssumption DEF DuplicateTask, instructions, PublishedAfterApproval,
     RowInv, TypeOK, Statuses, TaskStatuses, ControlStatuses, SyncStatuses
<1>7. CASE PublishRequest
  BY <1>7, NoneAssumption DEF PublishRequest, PublishRows, Present, MayPublish,
     instructions, PublishedAfterApproval, RowInv, TypeOK, Statuses, TaskStatuses,
     ControlStatuses, SyncStatuses
<1>8. CASE PublishBreaks
  BY <1>8, NoneAssumption DEF PublishBreaks, PublishRows, Present, MayPublish,
     instructions, PublishedAfterApproval, RowInv, TypeOK, Statuses, TaskStatuses,
     ControlStatuses, SyncStatuses
<1>9. CASE SyncRequest
  BY <1>9, NoneAssumption DEF SyncRequest, SyncRows, instructions,
     PublishedAfterApproval, RowInv, TypeOK, Statuses, TaskStatuses, ControlStatuses,
     SyncStatuses
<1>10. CASE WorkerLoad
  BY <1>10, NoneAssumption DEF WorkerLoad, instructions, PublishedAfterApproval,
     RowInv, TypeOK, Statuses, TaskStatuses, ControlStatuses, SyncStatuses
<1>11. CASE WorkerPublish
  BY <1>11, NoneAssumption DEF WorkerPublish, PublishRows, Present, MayPublish,
     instructions, PublishedAfterApproval, RowInv, TypeOK, Statuses, TaskStatuses,
     ControlStatuses, SyncStatuses
<1>12. CASE WorkerBreaks
  BY <1>12, NoneAssumption DEF WorkerBreaks, PublishRows, Present, MayPublish,
     instructions, PublishedAfterApproval, RowInv, TypeOK, Statuses, TaskStatuses,
     ControlStatuses, SyncStatuses
<1>13. CASE WorkerSync
  BY <1>13, NoneAssumption DEF WorkerSync, SyncRows, instructions,
     PublishedAfterApproval, RowInv, TypeOK, Statuses, TaskStatuses, ControlStatuses,
     SyncStatuses
<1>14. CASE WorkerLeave
  BY <1>14, NoneAssumption DEF WorkerLeave, instructions, PublishedAfterApproval,
     RowInv, TypeOK, Statuses, TaskStatuses, ControlStatuses, SyncStatuses
<1>15. CASE UNCHANGED vars
  BY <1>15 DEF vars, instructions, PublishedAfterApproval, RowInv, TypeOK, Statuses,
     TaskStatuses, ControlStatuses, SyncStatuses
<1> QED
  BY <1>1, <1>2, <1>3, <1>4, <1>5, <1>6, <1>7, <1>8, <1>9,
     <1>10, <1>11, <1>12, <1>13, <1>14, <1>15 DEF Next

\* No writer of one status leaves a completed control behind.
LEMMA AgreeStep == IInv /\ [Next]_vars => StatusesAgree'
<1> SUFFICES ASSUME IInv, [Next]_vars PROVE StatusesAgree'
  OBVIOUS
<1> USE DEF IInv
<1>1. CASE Transition
  BY <1>1, NoneAssumption DEF Transition, Buttons, instructions, StatusesAgree, RowInv,
     TypeOK, Statuses, TaskStatuses, ControlStatuses, SyncStatuses
<1>2. ASSUME NEW t \in Tasks, CreateTask(t) PROVE StatusesAgree'
  BY <1>2, NoneAssumption DEF CreateTask, instructions, StatusesAgree, RowInv, TypeOK,
     Statuses, TaskStatuses, ControlStatuses, SyncStatuses
<1>3. ASSUME NEW t \in Tasks, DeleteTask(t) PROVE StatusesAgree'
  BY <1>3, NoneAssumption DEF DeleteTask, instructions, StatusesAgree, RowInv, TypeOK,
     Statuses, TaskStatuses, ControlStatuses, SyncStatuses
<1>4. ASSUME NEW t \in Tasks, ChangeStatus(t) PROVE StatusesAgree'
  BY <1>4, NoneAssumption DEF ChangeStatus, ManualNext, instructions, StatusesAgree,
     RowInv, TypeOK, Statuses, TaskStatuses, ControlStatuses, SyncStatuses
<1>5. ASSUME NEW t \in Tasks, UpdateControl(t) PROVE StatusesAgree'
  BY <1>5, NoneAssumption DEF UpdateControl, StatusAfterControl, Present, instructions,
     StatusesAgree, RowInv, TypeOK, Statuses, TaskStatuses, ControlStatuses,
     SyncStatuses
<1>6. ASSUME NEW s \in Tasks, NEW t \in Tasks, DuplicateTask(s, t) PROVE StatusesAgree'
  BY <1>6, NoneAssumption DEF DuplicateTask, instructions, StatusesAgree, RowInv,
     TypeOK, Statuses, TaskStatuses, ControlStatuses, SyncStatuses
<1>7. CASE PublishRequest
  BY <1>7, NoneAssumption DEF PublishRequest, PublishRows, Present, MayPublish,
     instructions, StatusesAgree, RowInv, TypeOK, Statuses, TaskStatuses,
     ControlStatuses, SyncStatuses
<1>8. CASE PublishBreaks
  BY <1>8, NoneAssumption DEF PublishBreaks, PublishRows, Present, MayPublish,
     instructions, StatusesAgree, RowInv, TypeOK, Statuses, TaskStatuses,
     ControlStatuses, SyncStatuses
<1>9. CASE SyncRequest
  BY <1>9, NoneAssumption DEF SyncRequest, SyncRows, instructions, StatusesAgree,
     RowInv, TypeOK, Statuses, TaskStatuses, ControlStatuses, SyncStatuses
<1>10. CASE WorkerLoad
  BY <1>10, NoneAssumption DEF WorkerLoad, instructions, StatusesAgree, RowInv, TypeOK,
     Statuses, TaskStatuses, ControlStatuses, SyncStatuses
<1>11. CASE WorkerPublish
  BY <1>11, NoneAssumption DEF WorkerPublish, PublishRows, Present, MayPublish,
     instructions, StatusesAgree, RowInv, TypeOK, Statuses, TaskStatuses,
     ControlStatuses, SyncStatuses
<1>12. CASE WorkerBreaks
  BY <1>12, NoneAssumption DEF WorkerBreaks, PublishRows, Present, MayPublish,
     instructions, StatusesAgree, RowInv, TypeOK, Statuses, TaskStatuses,
     ControlStatuses, SyncStatuses
<1>13. CASE WorkerSync
  BY <1>13, NoneAssumption DEF WorkerSync, SyncRows, instructions, StatusesAgree,
     RowInv, TypeOK, Statuses, TaskStatuses, ControlStatuses, SyncStatuses
<1>14. CASE WorkerLeave
  BY <1>14, NoneAssumption DEF WorkerLeave, instructions, StatusesAgree, RowInv,
     TypeOK, Statuses, TaskStatuses, ControlStatuses, SyncStatuses
<1>15. CASE UNCHANGED vars
  BY <1>15 DEF vars, instructions, StatusesAgree, RowInv, TypeOK, Statuses,
     TaskStatuses, ControlStatuses, SyncStatuses
<1> QED
  BY <1>1, <1>2, <1>3, <1>4, <1>5, <1>6, <1>7, <1>8, <1>9,
     <1>10, <1>11, <1>12, <1>13, <1>14, <1>15 DEF Next

\* The inductive invariant holds in every reachable state.
THEOREM Invariance == Spec => []IInv
<1>1. Init => IInv
  BY NoneAssumption
  DEF Init, IInv, TypeOK, RowInv, PublishedAfterApproval, StatusesAgree, Statuses
<1>2. IInv /\ [Next]_vars => IInv'
  BY TypeStep, RowStep, ApprovalStep, AgreeStep DEF IInv
<1> QED
  BY <1>1, <1>2, PTL DEF Spec

\* The variables have their types (columns of protocols, protocol_tasks and
\* protocol_task_controls, the object of the worker).
THEOREM TypeCorrect == Spec => []TypeOK
  BY Invariance, PTL DEF IInv

\* Nothing is published, linked or under control before the protocol was approved, with
\* any number of instructions and whatever the worker read (publication.py:103).
THEOREM ApprovalComesFirst == Spec => []PublishedAfterApproval
  BY Invariance, PTL DEF IInv

\* A completed control row has a completed instruction, unless the row is a copy
\* (control.py:122, control.py:166, sync.py:67).
THEOREM StatusesAlwaysAgree == Spec => []StatusesAgree
  BY Invariance, PTL DEF IInv

\* A status written anew is "completed" only by the button of a protocol under control
\* or by the control of the last instruction.
LEMMA EarnedStep ==
    IInv /\ [Next]_vars =>
       (status # "completed" /\ status' = "completed" =>
           \/ status = "control"
           \/ \A t \in Tasks : task'[t] # None => control'[t] = "completed")
<1> SUFFICES ASSUME IInv, [Next]_vars, status # "completed", status' = "completed"
             PROVE  \/ status = "control"
                    \/ \A t \in Tasks : task'[t] # None => control'[t] = "completed"
  OBVIOUS
<1> DEFINE Earned == \/ status = "control"
                     \/ \A t \in Tasks : task'[t] # None => control'[t] = "completed"
<1> SUFFICES Earned
  OBVIOUS
<1> USE DEF IInv
<1>1. CASE Transition
  BY <1>1, NoneAssumption DEF Transition, Buttons, instructions, TypeOK
<1>2. ASSUME NEW t \in Tasks, CreateTask(t) PROVE Earned
  BY <1>2, NoneAssumption DEF CreateTask, instructions, TypeOK
<1>3. ASSUME NEW t \in Tasks, DeleteTask(t) PROVE Earned
  BY <1>3, NoneAssumption DEF DeleteTask, instructions, TypeOK
<1>4. ASSUME NEW t \in Tasks, ChangeStatus(t) PROVE Earned
  BY <1>4, NoneAssumption DEF ChangeStatus, ManualNext, instructions, TypeOK
<1>5. ASSUME NEW t \in Tasks, UpdateControl(t) PROVE Earned
  BY <1>5, NoneAssumption DEF UpdateControl, StatusAfterControl, Present, instructions,
     TypeOK
<1>6. ASSUME NEW s \in Tasks, NEW t \in Tasks, DuplicateTask(s, t) PROVE Earned
  BY <1>6, NoneAssumption DEF DuplicateTask, instructions, TypeOK
<1>7. CASE PublishRequest
  BY <1>7, NoneAssumption DEF PublishRequest, PublishRows, Present, MayPublish,
     instructions, TypeOK
<1>8. CASE PublishBreaks
  BY <1>8, NoneAssumption DEF PublishBreaks, PublishRows, Present, MayPublish,
     instructions, TypeOK
<1>9. CASE SyncRequest
  BY <1>9, NoneAssumption DEF SyncRequest, SyncRows, instructions, TypeOK
<1>10. CASE WorkerLoad
  BY <1>10, NoneAssumption DEF WorkerLoad, instructions, TypeOK
<1>11. CASE WorkerPublish
  BY <1>11, NoneAssumption DEF WorkerPublish, PublishRows, Present, MayPublish,
     instructions, TypeOK
<1>12. CASE WorkerBreaks
  BY <1>12, NoneAssumption DEF WorkerBreaks, PublishRows, Present, MayPublish,
     instructions, TypeOK
<1>13. CASE WorkerSync
  BY <1>13, NoneAssumption DEF WorkerSync, SyncRows, instructions, TypeOK
<1>14. CASE WorkerLeave
  BY <1>14, NoneAssumption DEF WorkerLeave, instructions, TypeOK
<1>15. CASE UNCHANGED vars
  BY <1>15 DEF vars, instructions, TypeOK
<1> QED
  BY <1>1, <1>2, <1>3, <1>4, <1>5, <1>6, <1>7, <1>8, <1>9,
     <1>10, <1>11, <1>12, <1>13, <1>14, <1>15 DEF Next

\* The order of the statuses.
LEMMA RankOrder ==
    /\ Rank("draft") = 0 /\ Rank("review") = 1 /\ Rank("approved") = 2
    /\ Rank("published") = 3 /\ Rank("control") = 4 /\ Rank("completed") = 5
  BY DEF Rank

\* A step goes forward, returns a review, or writes what the worker read as approved.
LEMMA ForwardStep ==
    IInv /\ [Next]_vars =>
       \/ Rank(status') >= Rank(status)
       \/ status = "review" /\ status' = "draft"
       \/ status' = "published" /\ loaded = "approved"
<1> SUFFICES ASSUME IInv, [Next]_vars
             PROVE  \/ Rank(status') >= Rank(status)
                    \/ status = "review" /\ status' = "draft"
                    \/ status' = "published" /\ loaded = "approved"
  OBVIOUS
<1> DEFINE Forward == \/ Rank(status') >= Rank(status)
                      \/ status = "review" /\ status' = "draft"
                      \/ status' = "published" /\ loaded = "approved"
<1> SUFFICES Forward
  OBVIOUS
<1> USE RankOrder DEF IInv
<1>1. CASE Transition
  BY <1>1, NoneAssumption DEF Transition, Buttons, instructions, TypeOK, Statuses
<1>2. ASSUME NEW t \in Tasks, CreateTask(t) PROVE Forward
  BY <1>2, NoneAssumption DEF CreateTask, instructions, TypeOK, Statuses
<1>3. ASSUME NEW t \in Tasks, DeleteTask(t) PROVE Forward
  BY <1>3, NoneAssumption DEF DeleteTask, instructions, TypeOK, Statuses
<1>4. ASSUME NEW t \in Tasks, ChangeStatus(t) PROVE Forward
  BY <1>4, NoneAssumption DEF ChangeStatus, ManualNext, instructions, TypeOK, Statuses
<1>5. ASSUME NEW t \in Tasks, UpdateControl(t) PROVE Forward
  BY <1>5, NoneAssumption DEF UpdateControl, StatusAfterControl, Present, instructions,
     TypeOK, Statuses
<1>6. ASSUME NEW s \in Tasks, NEW t \in Tasks, DuplicateTask(s, t) PROVE Forward
  BY <1>6, NoneAssumption DEF DuplicateTask, instructions, TypeOK, Statuses
<1>7. CASE PublishRequest
  BY <1>7, NoneAssumption DEF PublishRequest, PublishRows, Present, MayPublish,
     instructions, TypeOK, Statuses
<1>8. CASE PublishBreaks
  BY <1>8, NoneAssumption DEF PublishBreaks, PublishRows, Present, MayPublish,
     instructions, TypeOK, Statuses
<1>9. CASE SyncRequest
  BY <1>9, NoneAssumption DEF SyncRequest, SyncRows, instructions, TypeOK, Statuses
<1>10. CASE WorkerLoad
  BY <1>10, NoneAssumption DEF WorkerLoad, instructions, TypeOK, Statuses
<1>11. CASE WorkerPublish
  BY <1>11, NoneAssumption DEF WorkerPublish, PublishRows, Present, MayPublish,
     instructions, TypeOK, Statuses
<1>12. CASE WorkerBreaks
  BY <1>12, NoneAssumption DEF WorkerBreaks, PublishRows, Present, MayPublish,
     instructions, TypeOK, Statuses
<1>13. CASE WorkerSync
  BY <1>13, NoneAssumption DEF WorkerSync, SyncRows, instructions, TypeOK, Statuses
<1>14. CASE WorkerLeave
  BY <1>14, NoneAssumption DEF WorkerLeave, instructions, TypeOK, Statuses
<1>15. CASE UNCHANGED vars
  BY <1>15 DEF vars, instructions, TypeOK, Statuses
<1> QED
  BY <1>1, <1>2, <1>3, <1>4, <1>5, <1>6, <1>7, <1>8, <1>9,
     <1>10, <1>11, <1>12, <1>13, <1>14, <1>15 DEF Next

\* Protocols are completed as _complete_protocol_if_ready and the button say, and only a
\* run that read the protocol as approved takes it back, with any number of instructions
\* (control.py:173, publication.py:179, jobs.py:46).
THEOREM MovesEarned == Spec => MovesAreEarned
  BY Invariance, EarnedStep, ForwardStep, PTL DEF Spec, MovesAreEarned
-----------------------------------------------------------------------------
(***************************************************************************)
(* Reporting: what the dashboard counts and what its lists show.           *)
(***************************************************************************)

\* Whatever it is made from, an instruction is reported in one of four states
\* (metrics.py, reporting_status).
LEMMA StatesReported ==
    ASSUME NEW p, NEW day
    PROVE  ReportingStatus(p, day) \in Done \cup {"overdue", "in_progress"}
BY DEF ReportingStatus, Done

\* A folded row is done if its parts are, else overdue if one part is
\* (service.py, _merge_logical_rows).
LEMMA MergedStates ==
    ASSUME NEW group \in SUBSET (Done \cup {"overdue", "in_progress"})
    PROVE  /\ MergedStatus(group) \in Done <=> group \subseteq Done
           /\ MergedStatus(group) = "overdue" <=> "overdue" \in group
           /\ MergedStatus(group) = "in_progress" <=> ~(group \subseteq Done) /\ "overdue" \notin group
BY DEF MergedStatus, Done

\* The rows folded from the parts S, each with its state and its logical key.
Folded(S, state, key) ==
    {[key |-> k, status |-> MergedStatus({state[m] : m \in {n \in S : key[n] = k}})] :
       k \in {key[n] : n \in S}}

\* Filtering before folding and counting after it come to the same, for the overdue and
\* for the open rows; a row that is done as a whole stays as it is (service.py:160-162).
LEMMA FilteredThenFolded ==
    ASSUME NEW S, NEW key, NEW state,
           \A n \in S : state[n] \in Done \cup {"overdue", "in_progress"}
    PROVE  /\ {r \in Folded(S, state, key) : r.status = "overdue"}
                = Folded({n \in S : state[n] = "overdue"}, state, key)
           /\ {r \in Folded(S, state, key) : r.status \in {"overdue", "in_progress"}}
                = Folded({n \in S : state[n] \notin Done}, state, key)
           /\ {r \in Folded(S, state, key) : r.status \in Done}
                \subseteq Folded({n \in S : state[n] \in Done}, state, key)
<1> DEFINE Part(T, k)  == {state[m] : m \in {n \in T : key[n] = k}}
           Row(T, k)   == [key |-> k, status |-> MergedStatus(Part(T, k))]
           Overdue     == {n \in S : state[n] = "overdue"}
           Open        == {n \in S : state[n] \notin Done}
           Closed      == {n \in S : state[n] \in Done}
<1>1. \A T : Folded(T, state, key) = {Row(T, k) : k \in {key[n] : n \in T}}
  BY DEF Folded
<1>2. \A T \in SUBSET S : \A k : Part(T, k) \in SUBSET (Done \cup {"overdue", "in_progress"})
  OBVIOUS
<1>3. ASSUME NEW k
      PROVE  /\ MergedStatus(Part(S, k)) = "overdue" <=> \E n \in Overdue : key[n] = k
             /\ MergedStatus(Part(S, k)) \in {"overdue", "in_progress"} <=> \E n \in Open : key[n] = k
             /\ (\E n \in Overdue : key[n] = k) => MergedStatus(Part(Overdue, k)) = "overdue"
             /\ (\E n \in Open : key[n] = k) => MergedStatus(Part(Open, k)) = MergedStatus(Part(S, k))
             /\ MergedStatus(Part(S, k)) \in Done => Part(Closed, k) = Part(S, k)
  <2>1. "overdue" \in Part(S, k) <=> \E n \in Overdue : key[n] = k
    OBVIOUS
  <2>2. ~(Part(S, k) \subseteq Done) <=> \E n \in Open : key[n] = k
    OBVIOUS
  <2>3. "overdue" \in Part(Open, k) <=> "overdue" \in Part(S, k)
    BY DEF Done
  <2>4. ~(Part(Open, k) \subseteq Done) <=> \E n \in Open : key[n] = k
    OBVIOUS
  <2>5. (\E n \in Overdue : key[n] = k) => "overdue" \in Part(Overdue, k)
    OBVIOUS
  <2>6. "overdue" \notin Done /\ "in_progress" \notin Done
    BY DEF Done
  <2>7. Part(S, k) \subseteq Done => Part(Closed, k) = Part(S, k)
    OBVIOUS
  <2>8. /\ Part(S, k) \in SUBSET (Done \cup {"overdue", "in_progress"})
        /\ Part(Open, k) \in SUBSET (Done \cup {"overdue", "in_progress"})
        /\ Part(Overdue, k) \in SUBSET (Done \cup {"overdue", "in_progress"})
    BY <1>2
  <2> HIDE DEF Part, Overdue, Open, Closed
  <2>9. /\ "overdue" \in Part(S, k) => ~(Part(S, k) \subseteq Done)
        /\ "overdue" \in Part(Open, k) => ~(Part(Open, k) \subseteq Done)
    BY <2>6
  <2>10. QED
    BY <2>1, <2>2, <2>3, <2>4, <2>5, <2>6, <2>7, <2>8, <2>9, MergedStates
<1> DEFINE Keys(T) == {key[n] : n \in T}
<1>4. \A T, k : Row(T, k).status = MergedStatus(Part(T, k))
  OBVIOUS
<1>5. \A k : /\ k \in Keys(Overdue) <=> Row(S, k).status = "overdue"
             /\ k \in Keys(Overdue) => Row(Overdue, k) = Row(S, k)
             /\ k \in Keys(Open) <=> Row(S, k).status \in {"overdue", "in_progress"}
             /\ k \in Keys(Open) => Row(Open, k) = Row(S, k)
  <2>1. \A T, k : k \in Keys(T) <=> \E n \in T : key[n] = k
    OBVIOUS
  <2> HIDE DEF Part, Keys, Overdue, Open, Closed
  <2>2. QED
    BY <1>3, <2>1
<1>6. Keys(Overdue) \subseteq Keys(S) /\ Keys(Open) \subseteq Keys(S)
  OBVIOUS
<1>7. \A T : Folded(T, state, key) = {Row(T, k) : k \in Keys(T)}
  BY <1>1
<1> HIDE DEF Part
<1>8. {r \in Folded(S, state, key) : r.status = "overdue"} = Folded(Overdue, state, key)
  <2> HIDE DEF Row, Keys, Overdue, Open, Closed
  <2>1. {Row(S, k) : k \in Keys(Overdue)} = {Row(Overdue, k) : k \in Keys(Overdue)}
    BY <1>5
  <2>2. {r \in {Row(S, k) : k \in Keys(S)} : r.status = "overdue"}
          = {Row(S, k) : k \in Keys(Overdue)}
    BY <1>5, <1>6
  <2>3. QED
    BY <1>7, <2>1, <2>2
<1>9. {r \in Folded(S, state, key) : r.status \in {"overdue", "in_progress"}} = Folded(Open, state, key)
  <2> HIDE DEF Row, Keys, Overdue, Open, Closed
  <2>1. {Row(S, k) : k \in Keys(Open)} = {Row(Open, k) : k \in Keys(Open)}
    BY <1>5
  <2>2. {r \in {Row(S, k) : k \in Keys(S)} : r.status \in {"overdue", "in_progress"}}
          = {Row(S, k) : k \in Keys(Open)}
    BY <1>5, <1>6
  <2>3. QED
    BY <1>7, <2>1, <2>2
<1>10. {r \in Folded(S, state, key) : r.status \in Done} \subseteq Folded(Closed, state, key)
  <2>1. ASSUME NEW k \in Keys(S), Row(S, k).status \in Done
        PROVE  k \in Keys(Closed) /\ Row(S, k) = Row(Closed, k)
    <3>1. MergedStatus(Part(S, k)) \in Done
      BY <2>1, <1>4
    <3>2. PICK n \in S : key[n] = k
      BY <2>1
    <3>3. state[n] \in Part(S, k)
      BY <3>2 DEF Part
    <3>4. Part(S, k) \subseteq Done
      BY <3>1, <1>2, MergedStates
    <3>5. n \in Closed
      BY <3>2, <3>3, <3>4
    <3>6. QED
      BY <3>1, <3>2, <3>5, <1>3
  <2> HIDE DEF Row, Keys, Closed
  <2>2. QED
    BY <1>7, <2>1
<1>11. QED
  BY <1>8, <1>9, <1>10

\* What a report says is its parts, filtered and folded (service.py, _dataset).
LEMMA ReportFolds ==
    ASSUME NEW parts, NEW period, NEW view, NEW state, NEW key,
           state = [k \in DOMAIN parts |->
                      ReportingStatus(parts[k], IF period = None THEN Today ELSE period.end)],
           key = [k \in DOMAIN parts |-> LogicalKey(parts, k)]
    PROVE  Report(parts, Query(period, view))
             = Folded({k \in DOMAIN parts : Included(parts[k], Query(period, "all")) /\ Matches(state[k], view)},
                      state, key)
<1> DEFINE q     == Query(period, view)
           day   == IF period = None THEN Today ELSE period.end
           taken == {k \in DOMAIN parts : /\ Included(parts[k], q)
                                          /\ Matches(ReportingStatus(parts[k], day), q.view)}
           S     == {k \in DOMAIN parts : Included(parts[k], Query(period, "all")) /\ Matches(state[k], view)}
<1>1. q.period = period /\ q.today = Today /\ q.view = view
  BY DEF Query
<1>2. \A k \in DOMAIN parts : Included(parts[k], q) <=> Included(parts[k], Query(period, "all"))
  BY DEF Included, Query
<1>3. Report(parts, q) =
        {[key |-> k,
          status |-> MergedStatus({ReportingStatus(parts[n], day) :
                                     n \in {m \in taken : LogicalKey(parts, m) = k}})] :
           k \in {LogicalKey(parts, n) : n \in taken}}
  BY <1>1 DEF Report
<1>4. taken = S
  BY <1>1, <1>2
<1>5. S \subseteq DOMAIN parts
  OBVIOUS
<1>6. \A n \in DOMAIN parts : state[n] = ReportingStatus(parts[n], day) /\ key[n] = LogicalKey(parts, n)
  OBVIOUS
<1> HIDE DEF S, q, day, taken
<1>7. {LogicalKey(parts, n) : n \in S} = {key[n] : n \in S}
  BY <1>5, <1>6
<1>8. ASSUME NEW k
      PROVE  {ReportingStatus(parts[n], day) : n \in {m \in S : LogicalKey(parts, m) = k}}
               = {state[n] : n \in {m \in S : key[m] = k}}
  <2> DEFINE A == {m \in S : LogicalKey(parts, m) = k}
             B == {m \in S : key[m] = k}
  <2>1. A = B
    BY <1>5, <1>6
  <2>2. \A n \in A : state[n] = ReportingStatus(parts[n], day)
    BY <1>5, <1>6
  <2>3. {ReportingStatus(parts[n], day) : n \in A} = {state[n] : n \in A}
    <3> HIDE DEF A
    <3>1. QED
      BY <2>2
  <2>4. QED
    BY <2>1, <2>3
<1>9. Report(parts, q) = Folded(S, state, key)
  <2> DEFINE X(k) == {ReportingStatus(parts[n], day) : n \in {m \in S : LogicalKey(parts, m) = k}}
             Y(k) == {state[n] : n \in {m \in S : key[m] = k}}
             K    == {key[n] : n \in S}
  <2>1. \A k : X(k) = Y(k)
    BY <1>8
  <2>2. Report(parts, q) = {[key |-> k, status |-> MergedStatus(X(k))] : k \in K}
    <3>1. Report(parts, q) = {[key |-> k, status |-> MergedStatus(X(k))] :
                                k \in {LogicalKey(parts, n) : n \in S}}
      BY <1>3, <1>4
    <3>2. QED
      BY <1>7, <3>1
  <2>3. Folded(S, state, key) = {[key |-> k, status |-> MergedStatus(Y(k))] : k \in K}
    BY DEF Folded
  <2> HIDE DEF X, Y, K
  <2>4. QED
    BY <2>1, <2>2, <2>3
<1>10. QED
  BY <1>9 DEF S, q

\* The dashboard's numbers are those of its lists, for every layout of copies and subtasks,
\* every period and every set of states (service.py, kpis).
THEOREM NumbersAreThoseOfLists == Spec => []DrillDownsAgree
<1>1. DrillDownsAgree
  <2> SUFFICES ASSUME NEW layout \in Layouts, NEW period \in {None, Week}
               PROVE  LET parts      == [t \in Present |-> Instruction(t, layout[t])]
                          all        == Report(parts, Query(period, "all"))
                          list(view) == Report(parts, Query(period, view))
                      IN  /\ Count(all, {"overdue"}) = Cardinality(list("overdue"))
                          /\ Count(all, {"overdue", "in_progress"}) = Cardinality(list("active"))
                          /\ {r \in all : r.status \in Done} \subseteq list("completed")
    BY DEF DrillDownsAgree
  <2> DEFINE parts == [t \in Present |-> Instruction(t, layout[t])]
             state == [k \in DOMAIN parts |->
                         ReportingStatus(parts[k], IF period = None THEN Today ELSE period.end)]
             key   == [k \in DOMAIN parts |-> LogicalKey(parts, k)]
             S     == {k \in DOMAIN parts : Included(parts[k], Query(period, "all"))}
             list(view) == Report(parts, Query(period, view))
  <2>1. \A n \in DOMAIN parts : state[n] \in Done \cup {"overdue", "in_progress"}
    BY StatesReported
  <2>2. \A view : list(view) = Folded({k \in DOMAIN parts : /\ Included(parts[k], Query(period, "all"))
                                                           /\ Matches(state[k], view)}, state, key)
    BY ReportFolds
  <2>3. S \subseteq DOMAIN parts
    OBVIOUS
  <2> HIDE DEF parts, state, key, list
  <2>4. /\ list("all") = Folded(S, state, key)
        /\ list("overdue") = Folded({n \in S : state[n] = "overdue"}, state, key)
        /\ list("active") = Folded({n \in S : state[n] \notin Done}, state, key)
        /\ list("completed") = Folded({n \in S : state[n] \in Done}, state, key)
    <3>1. \A s : /\ Matches(s, "all")
                 /\ Matches(s, "overdue") <=> s = "overdue"
                 /\ Matches(s, "active") <=> s \notin Done
                 /\ Matches(s, "completed") <=> s \in Done
      BY DEF Matches
    <3>2. /\ {k \in DOMAIN parts : Included(parts[k], Query(period, "all")) /\ Matches(state[k], "all")} = S
          /\ {k \in DOMAIN parts : Included(parts[k], Query(period, "all")) /\ Matches(state[k], "overdue")}
               = {n \in S : state[n] = "overdue"}
          /\ {k \in DOMAIN parts : Included(parts[k], Query(period, "all")) /\ Matches(state[k], "active")}
               = {n \in S : state[n] \notin Done}
          /\ {k \in DOMAIN parts : Included(parts[k], Query(period, "all")) /\ Matches(state[k], "completed")}
               = {n \in S : state[n] \in Done}
      BY <3>1
    <3>3. QED
      BY <2>2, <3>2
  <2>5. /\ {r \in list("all") : r.status = "overdue"} = list("overdue")
        /\ {r \in list("all") : r.status \in {"overdue", "in_progress"}} = list("active")
        /\ {r \in list("all") : r.status \in Done} \subseteq list("completed")
    BY <2>1, <2>3, <2>4, FilteredThenFolded
  <2>6. /\ Count(list("all"), {"overdue"}) = Cardinality(list("overdue"))
        /\ Count(list("all"), {"overdue", "in_progress"}) = Cardinality(list("active"))
    <3>1. {r \in list("all") : r.status \in {"overdue"}} = list("overdue")
      BY <2>5
    <3>2. QED
      BY <2>5, <3>1 DEF Count
  <2>7. QED
    BY <2>5, <2>6 DEF parts, list
<1>2. QED
  BY <1>1, PTL

\* What the report calls overdue the control page does too, for every status the four
\* writers of ProtocolWorkflow can leave (control.py:66, metrics.py:76).
THEOREM OverdueOnBothPages == Spec => []OverdueIsShownEverywhere
<1>1. OverdueIsShownEverywhere
  <2> SUFFICES ASSUME NEW t \in Present, NEW deadline \in Dates, NEW day \in Days,
                      NEW closed \in IF control[t] = None THEN {None} ELSE Dates,
                      NEW p,
                      p = [Instruction(t, [deadline |-> deadline, closed |-> None, copy |-> FALSE,
                                           parent |-> None]) EXCEPT !.closed = closed],
                      Included(p, Query(None, "all")), ReportingStatus(p, day) = "overdue"
               PROVE  ControlPageStatus(p, day) = "overdue"
    BY DEF OverdueIsShownEverywhere
  <2>1. /\ p.task = task[t] /\ p.control = control[t] /\ p.closed = closed
        /\ p.deadline = deadline /\ p.planned = deadline
    BY DEF Instruction
  <2>2. ~IsCompleted(Effective(p)) /\ Before(deadline, day)
    BY <2>1 DEF ReportingStatus, Done
  <2>3. ~IsDeferred(Effective(p)) /\ ~IsDeferred(p.task)
    BY DEF Included, Query
  <2>4. CASE control[t] = None
    BY <2>1, <2>2, <2>3, <2>4 DEF Effective, ControlPageStatus, IsCompleted, IsDeferred
  <2>5. CASE control[t] # None
    BY <2>1, <2>2, <2>3, <2>5 DEF Effective, ControlPageStatus, IsCompleted, IsDeferred
  <2>6. QED
    BY <2>4, <2>5
<1>2. QED
  BY <1>1, PTL
=============================================================================
