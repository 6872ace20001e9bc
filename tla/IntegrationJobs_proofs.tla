----------------------- MODULE IntegrationJobs_proofs -----------------------
(***************************************************************************)
(* The queue is safe for any number of protocols, requests, workers, jobs  *)
(* and crashes.                                                            *)
(***************************************************************************)
EXTENDS IntegrationJobs, TLAPS

\* Every step keeps the type of every variable.
LEMMA TypeStep == IInv /\ [Next]_vars => TypeOK'
<1> SUFFICES ASSUME IInv, [Next]_vars PROVE TypeOK'
  OBVIOUS
<1> USE DEF table, locks, request, worker, history, IInv
<1>1. ASSUME NEW r \in Requests, NEW p \in Protocols, Admit(r, p) PROVE TypeOK'
  BY <1>1 DEF Admit, TypeOK
<1>2. ASSUME NEW r \in Requests, ReturnExisting(r) PROVE TypeOK'
  BY <1>2 DEF ReturnExisting, TypeOK, EnqueueInv
<1>3. ASSUME NEW r \in Requests, FindNone(r) PROVE TypeOK'
  BY <1>3 DEF FindNone, TypeOK
<1>4. ASSUME NEW r \in Requests, Insert(r) PROVE TypeOK'
  BY <1>4, BoundsAssumption DEF Insert, TypeOK, Ids, JobStatuses, EnqueueInv
<1>5. ASSUME NEW r \in Requests, CommitJob(r) PROVE TypeOK'
  BY <1>5 DEF CommitJob, TypeOK, EnqueueInv, Active, JobStatuses
<1>6. ASSUME NEW r \in Requests, Leave(r) PROVE TypeOK'
  BY <1>6 DEF Leave, TypeOK, JobStatuses
<1>7. ASSUME NEW w \in Workers, Take(w) PROVE TypeOK'
  BY <1>7 DEF Take, TypeOK, Active, JobStatuses
<1>8. ASSUME NEW w \in Workers, Refuse(w) PROVE TypeOK'
  BY <1>8 DEF Refuse, TypeOK
<1>9. ASSUME NEW w \in Workers, Begin(w) PROVE TypeOK'
  BY <1>9 DEF Begin, TypeOK
<1>10. ASSUME NEW w \in Workers, Perform(w) PROVE TypeOK'
  BY <1>10 DEF Perform, TypeOK, RunnerInv
<1>11. ASSUME NEW w \in Workers, Break(w) PROVE TypeOK'
  BY <1>11 DEF Break, TypeOK
<1>12. ASSUME NEW w \in Workers, Settle(w) PROVE TypeOK'
  BY <1>12 DEF Settle, TypeOK, JobStatuses
<1>13. ASSUME NEW w \in Workers, Crash(w) PROVE TypeOK'
  BY <1>13, BoundsAssumption DEF Crash, TypeOK
<1>14. CASE UNCHANGED vars
  BY <1>14 DEF vars, TypeOK
<1> QED
  BY <1>1, <1>2, <1>3, <1>4, <1>5, <1>6, <1>7, <1>8, <1>9, <1>10, <1>11,
     <1>12, <1>13, <1>14 DEF Next, RequestStep, WorkerStep

\* What enqueue found under the lock of the queue stays true until the commit.
LEMMA EnqueueStep == IInv /\ [Next]_vars => EnqueueInv'
<1> SUFFICES ASSUME IInv, [Next]_vars PROVE EnqueueInv'
  OBVIOUS
<1> USE DEF table, locks, request, worker, history, IInv
<1>1. ASSUME NEW r \in Requests, NEW p \in Protocols, Admit(r, p) PROVE EnqueueInv'
  BY <1>1, ActorsAssumption DEF Admit, EnqueueInv, ActiveJobs, TypeOK
<1>2. ASSUME NEW r \in Requests, ReturnExisting(r) PROVE EnqueueInv'
  BY <1>2 DEF ReturnExisting, EnqueueInv, ActiveJobs, TypeOK
<1>3. ASSUME NEW r \in Requests, FindNone(r) PROVE EnqueueInv'
  BY <1>3, ActorsAssumption DEF FindNone, EnqueueInv, ActiveJobs, TypeOK
<1>4. ASSUME NEW r \in Requests, Insert(r) PROVE EnqueueInv'
  BY <1>4 DEF Insert, EnqueueInv, ActiveJobs, TypeOK, Active, Ids, RowInv
<1>5. ASSUME NEW r \in Requests, CommitJob(r) PROVE EnqueueInv'
  BY <1>5 DEF CommitJob, EnqueueInv, ActiveJobs, TypeOK, Active, RowInv
<1>6. ASSUME NEW r \in Requests, Leave(r) PROVE EnqueueInv'
  BY <1>6, ActorsAssumption DEF Leave, EnqueueInv, ActiveJobs, TypeOK, Active, RowInv
<1>7. ASSUME NEW w \in Workers, Take(w) PROVE EnqueueInv'
  BY <1>7 DEF Take, EnqueueInv, ActiveJobs, TypeOK, Active
<1>8. ASSUME NEW w \in Workers, Refuse(w) PROVE EnqueueInv'
  BY <1>8 DEF Refuse, EnqueueInv, ActiveJobs, TypeOK
<1>9. ASSUME NEW w \in Workers, Begin(w) PROVE EnqueueInv'
  BY <1>9 DEF Begin, EnqueueInv, ActiveJobs, TypeOK
<1>10. ASSUME NEW w \in Workers, Perform(w) PROVE EnqueueInv'
  BY <1>10 DEF Perform, EnqueueInv, ActiveJobs, TypeOK
<1>11. ASSUME NEW w \in Workers, Break(w) PROVE EnqueueInv'
  BY <1>11 DEF Break, EnqueueInv, ActiveJobs, TypeOK
<1>12. ASSUME NEW w \in Workers, Settle(w) PROVE EnqueueInv'
  BY <1>12 DEF Settle, EnqueueInv, ActiveJobs, TypeOK, Active, RunnerInv
<1>13. ASSUME NEW w \in Workers, Crash(w) PROVE EnqueueInv'
  BY <1>13 DEF Crash, EnqueueInv, ActiveJobs, TypeOK
<1>14. CASE UNCHANGED vars
  BY <1>14 DEF vars, EnqueueInv, ActiveJobs, TypeOK
<1> QED
  BY <1>1, <1>2, <1>3, <1>4, <1>5, <1>6, <1>7, <1>8, <1>9, <1>10, <1>11,
     <1>12, <1>13, <1>14 DEF Next, RequestStep, WorkerStep

\* Every uncommitted row keeps its request.
LEMMA RowStep == IInv /\ [Next]_vars => RowInv'
<1> SUFFICES ASSUME IInv, [Next]_vars PROVE RowInv'
  OBVIOUS
<1> USE DEF table, locks, request, worker, history, IInv
<1>1. ASSUME NEW r \in Requests, NEW p \in Protocols, Admit(r, p) PROVE RowInv'
  BY <1>1 DEF Admit, RowInv, TypeOK
<1>2. ASSUME NEW r \in Requests, ReturnExisting(r) PROVE RowInv'
  BY <1>2 DEF ReturnExisting, RowInv, TypeOK
<1>3. ASSUME NEW r \in Requests, FindNone(r) PROVE RowInv'
  BY <1>3 DEF FindNone, RowInv, TypeOK
<1>4. ASSUME NEW r \in Requests, Insert(r) PROVE RowInv'
  BY <1>4, BoundsAssumption DEF Insert, RowInv, TypeOK, Ids
<1>5. ASSUME NEW r \in Requests, CommitJob(r) PROVE RowInv'
  BY <1>5 DEF CommitJob, RowInv, TypeOK, Ids
<1>6. ASSUME NEW r \in Requests, Leave(r) PROVE RowInv'
  BY <1>6 DEF Leave, RowInv, TypeOK, Ids
<1>7. ASSUME NEW w \in Workers, Take(w) PROVE RowInv'
  BY <1>7 DEF Take, RowInv, TypeOK, Active, Ids
<1>8. ASSUME NEW w \in Workers, Refuse(w) PROVE RowInv'
  BY <1>8 DEF Refuse, RowInv, TypeOK
<1>9. ASSUME NEW w \in Workers, Begin(w) PROVE RowInv'
  BY <1>9 DEF Begin, RowInv, TypeOK
<1>10. ASSUME NEW w \in Workers, Perform(w) PROVE RowInv'
  BY <1>10 DEF Perform, RowInv, TypeOK
<1>11. ASSUME NEW w \in Workers, Break(w) PROVE RowInv'
  BY <1>11 DEF Break, RowInv, TypeOK
<1>12. ASSUME NEW w \in Workers, Settle(w) PROVE RowInv'
  BY <1>12 DEF Settle, RowInv, TypeOK, RunnerInv, Ids
<1>13. ASSUME NEW w \in Workers, Crash(w) PROVE RowInv'
  BY <1>13 DEF Crash, RowInv, TypeOK
<1>14. CASE UNCHANGED vars
  BY <1>14 DEF vars, RowInv, TypeOK
<1> QED
  BY <1>1, <1>2, <1>3, <1>4, <1>5, <1>6, <1>7, <1>8, <1>9, <1>10, <1>11,
     <1>12, <1>13, <1>14 DEF Next, RequestStep, WorkerStep

\* The worker that has the turn runs the job the database calls running.
LEMMA RunnerStep == IInv /\ [Next]_vars => RunnerInv'
<1> SUFFICES ASSUME IInv, [Next]_vars PROVE RunnerInv'
  OBVIOUS
<1> USE DEF table, locks, request, worker, history, IInv
<1>1. ASSUME NEW r \in Requests, NEW p \in Protocols, Admit(r, p) PROVE RunnerInv'
  BY <1>1 DEF Admit, RunnerInv, TypeOK
<1>2. ASSUME NEW r \in Requests, ReturnExisting(r) PROVE RunnerInv'
  BY <1>2 DEF ReturnExisting, RunnerInv, TypeOK
<1>3. ASSUME NEW r \in Requests, FindNone(r) PROVE RunnerInv'
  BY <1>3 DEF FindNone, RunnerInv, TypeOK
<1>4. ASSUME NEW r \in Requests, Insert(r) PROVE RunnerInv'
  BY <1>4 DEF Insert, RunnerInv, TypeOK, RowInv, Ids
<1>5. ASSUME NEW r \in Requests, CommitJob(r) PROVE RunnerInv'
  BY <1>5 DEF CommitJob, RunnerInv, TypeOK, RowInv, Ids
<1>6. ASSUME NEW r \in Requests, Leave(r) PROVE RunnerInv'
  BY <1>6 DEF Leave, RunnerInv, TypeOK, RowInv, Ids
<1>7. ASSUME NEW w \in Workers, Take(w) PROVE RunnerInv'
  BY <1>7, ActorsAssumption DEF Take, RunnerInv, TypeOK
<1>8. ASSUME NEW w \in Workers, Refuse(w) PROVE RunnerInv'
  BY <1>8 DEF Refuse, RunnerInv, TypeOK
<1>9. ASSUME NEW w \in Workers, Begin(w) PROVE RunnerInv'
  BY <1>9 DEF Begin, RunnerInv, TypeOK
<1>10. ASSUME NEW w \in Workers, Perform(w) PROVE RunnerInv'
  BY <1>10 DEF Perform, RunnerInv, TypeOK
<1>11. ASSUME NEW w \in Workers, Break(w) PROVE RunnerInv'
  BY <1>11 DEF Break, RunnerInv, TypeOK
<1>12. ASSUME NEW w \in Workers, Settle(w) PROVE RunnerInv'
  BY <1>12, ActorsAssumption DEF Settle, RunnerInv, TypeOK
<1>13. ASSUME NEW w \in Workers, Crash(w) PROVE RunnerInv'
  BY <1>13, ActorsAssumption DEF Crash, RunnerInv, TypeOK
<1>14. CASE UNCHANGED vars
  BY <1>14 DEF vars, RunnerInv, TypeOK
<1> QED
  BY <1>1, <1>2, <1>3, <1>4, <1>5, <1>6, <1>7, <1>8, <1>9, <1>10, <1>11,
     <1>12, <1>13, <1>14 DEF Next, RequestStep, WorkerStep

\* A second job of a protocol is never committed while the first is active.
LEMMA OneActiveStep == IInv /\ [Next]_vars => OneActiveJob'
<1> SUFFICES ASSUME IInv, [Next]_vars PROVE OneActiveJob'
  OBVIOUS
<1> USE DEF table, locks, request, worker, history, IInv
<1>1. ASSUME NEW r \in Requests, NEW p \in Protocols, Admit(r, p) PROVE OneActiveJob'
  BY <1>1 DEF Admit, OneActiveJob, ActiveJobs, TypeOK
<1>2. ASSUME NEW r \in Requests, ReturnExisting(r) PROVE OneActiveJob'
  BY <1>2 DEF ReturnExisting, OneActiveJob, ActiveJobs, TypeOK
<1>3. ASSUME NEW r \in Requests, FindNone(r) PROVE OneActiveJob'
  BY <1>3 DEF FindNone, OneActiveJob, ActiveJobs, TypeOK
<1>4. ASSUME NEW r \in Requests, Insert(r) PROVE OneActiveJob'
  BY <1>4 DEF Insert, OneActiveJob, ActiveJobs, TypeOK, RowInv, Ids, Active
<1>5. ASSUME NEW r \in Requests, CommitJob(r) PROVE OneActiveJob'
  BY <1>5 DEF CommitJob, OneActiveJob, ActiveJobs, TypeOK, RowInv, EnqueueInv, Active
<1>6. ASSUME NEW r \in Requests, Leave(r) PROVE OneActiveJob'
  BY <1>6 DEF Leave, OneActiveJob, ActiveJobs, TypeOK, RowInv, Active
<1>7. ASSUME NEW w \in Workers, Take(w) PROVE OneActiveJob'
  BY <1>7 DEF Take, OneActiveJob, ActiveJobs, TypeOK, Active
<1>8. ASSUME NEW w \in Workers, Refuse(w) PROVE OneActiveJob'
  BY <1>8 DEF Refuse, OneActiveJob, ActiveJobs, TypeOK
<1>9. ASSUME NEW w \in Workers, Begin(w) PROVE OneActiveJob'
  BY <1>9 DEF Begin, OneActiveJob, ActiveJobs, TypeOK
<1>10. ASSUME NEW w \in Workers, Perform(w) PROVE OneActiveJob'
  BY <1>10 DEF Perform, OneActiveJob, ActiveJobs, TypeOK
<1>11. ASSUME NEW w \in Workers, Break(w) PROVE OneActiveJob'
  BY <1>11 DEF Break, OneActiveJob, ActiveJobs, TypeOK
<1>12. ASSUME NEW w \in Workers, Settle(w) PROVE OneActiveJob'
  BY <1>12 DEF Settle, OneActiveJob, ActiveJobs, TypeOK, Active
<1>13. ASSUME NEW w \in Workers, Crash(w) PROVE OneActiveJob'
  BY <1>13 DEF Crash, OneActiveJob, ActiveJobs, TypeOK
<1>14. CASE UNCHANGED vars
  BY <1>14 DEF vars, OneActiveJob, ActiveJobs, TypeOK
<1> QED
  BY <1>1, <1>2, <1>3, <1>4, <1>5, <1>6, <1>7, <1>8, <1>9, <1>10, <1>11,
     <1>12, <1>13, <1>14 DEF Next, RequestStep, WorkerStep

\* Only a worker whose operation succeeded calls its job done.
LEMMA DoneStep == IInv /\ [Next]_vars => DoneMeansPerformed'
<1> SUFFICES ASSUME IInv, [Next]_vars PROVE DoneMeansPerformed'
  OBVIOUS
<1> USE DEF table, locks, request, worker, history, IInv
<1>1. ASSUME NEW r \in Requests, NEW p \in Protocols, Admit(r, p) PROVE DoneMeansPerformed'
  BY <1>1 DEF Admit, DoneMeansPerformed, TypeOK
<1>2. ASSUME NEW r \in Requests, ReturnExisting(r) PROVE DoneMeansPerformed'
  BY <1>2 DEF ReturnExisting, DoneMeansPerformed, TypeOK
<1>3. ASSUME NEW r \in Requests, FindNone(r) PROVE DoneMeansPerformed'
  BY <1>3 DEF FindNone, DoneMeansPerformed, TypeOK
<1>4. ASSUME NEW r \in Requests, Insert(r) PROVE DoneMeansPerformed'
  BY <1>4 DEF Insert, DoneMeansPerformed, TypeOK
<1>5. ASSUME NEW r \in Requests, CommitJob(r) PROVE DoneMeansPerformed'
  BY <1>5 DEF CommitJob, DoneMeansPerformed, TypeOK
<1>6. ASSUME NEW r \in Requests, Leave(r) PROVE DoneMeansPerformed'
  BY <1>6 DEF Leave, DoneMeansPerformed, TypeOK
<1>7. ASSUME NEW w \in Workers, Take(w) PROVE DoneMeansPerformed'
  BY <1>7 DEF Take, DoneMeansPerformed, TypeOK
<1>8. ASSUME NEW w \in Workers, Refuse(w) PROVE DoneMeansPerformed'
  BY <1>8 DEF Refuse, DoneMeansPerformed, TypeOK
<1>9. ASSUME NEW w \in Workers, Begin(w) PROVE DoneMeansPerformed'
  BY <1>9 DEF Begin, DoneMeansPerformed, TypeOK
<1>10. ASSUME NEW w \in Workers, Perform(w) PROVE DoneMeansPerformed'
  BY <1>10 DEF Perform, DoneMeansPerformed, TypeOK
<1>11. ASSUME NEW w \in Workers, Break(w) PROVE DoneMeansPerformed'
  BY <1>11 DEF Break, DoneMeansPerformed, TypeOK
<1>12. ASSUME NEW w \in Workers, Settle(w) PROVE DoneMeansPerformed'
  BY <1>12 DEF Settle, DoneMeansPerformed, TypeOK, RunnerInv
<1>13. ASSUME NEW w \in Workers, Crash(w) PROVE DoneMeansPerformed'
  BY <1>13 DEF Crash, DoneMeansPerformed, TypeOK
<1>14. CASE UNCHANGED vars
  BY <1>14 DEF vars, DoneMeansPerformed, TypeOK
<1> QED
  BY <1>1, <1>2, <1>3, <1>4, <1>5, <1>6, <1>7, <1>8, <1>9, <1>10, <1>11,
     <1>12, <1>13, <1>14 DEF Next, RequestStep, WorkerStep

\* Nobody's lock is freed by another.
LEMMA HoldStep == IInv /\ [Next]_vars => HoldInv'
<1> SUFFICES ASSUME IInv, [Next]_vars PROVE HoldInv'
  OBVIOUS
<1> USE DEF table, locks, request, worker, history, IInv
<1>1. ASSUME NEW r \in Requests, NEW p \in Protocols, Admit(r, p) PROVE HoldInv'
  BY <1>1, ActorsAssumption DEF Admit, HoldInv, EnqueueInv, RowInv, RunnerInv, TypeOK
<1>2. ASSUME NEW r \in Requests, ReturnExisting(r) PROVE HoldInv'
  BY <1>2, ActorsAssumption DEF ReturnExisting, HoldInv, EnqueueInv, RowInv, RunnerInv, TypeOK
<1>3. ASSUME NEW r \in Requests, FindNone(r) PROVE HoldInv'
  BY <1>3, ActorsAssumption DEF FindNone, HoldInv, EnqueueInv, RowInv, RunnerInv, TypeOK
<1>4. ASSUME NEW r \in Requests, Insert(r) PROVE HoldInv'
  BY <1>4, ActorsAssumption DEF Insert, HoldInv, EnqueueInv, RowInv, RunnerInv, TypeOK
<1>5. ASSUME NEW r \in Requests, CommitJob(r) PROVE HoldInv'
  BY <1>5, ActorsAssumption DEF CommitJob, HoldInv, EnqueueInv, RowInv, RunnerInv, TypeOK
<1>6. ASSUME NEW r \in Requests, Leave(r) PROVE HoldInv'
  BY <1>6, ActorsAssumption DEF Leave, HoldInv, EnqueueInv, RowInv, RunnerInv, TypeOK
<1>7. ASSUME NEW w \in Workers, Take(w) PROVE HoldInv'
  BY <1>7, ActorsAssumption DEF Take, HoldInv, Active, EnqueueInv, RowInv, RunnerInv, TypeOK
<1>8. ASSUME NEW w \in Workers, Refuse(w) PROVE HoldInv'
  BY <1>8, ActorsAssumption DEF Refuse, HoldInv, EnqueueInv, RowInv, RunnerInv, TypeOK
<1>9. ASSUME NEW w \in Workers, Begin(w) PROVE HoldInv'
  BY <1>9, ActorsAssumption DEF Begin, HoldInv, EnqueueInv, RowInv, RunnerInv, TypeOK
<1>10. ASSUME NEW w \in Workers, Perform(w) PROVE HoldInv'
  BY <1>10, ActorsAssumption DEF Perform, HoldInv, EnqueueInv, RowInv, RunnerInv, TypeOK
<1>11. ASSUME NEW w \in Workers, Break(w) PROVE HoldInv'
  BY <1>11, ActorsAssumption DEF Break, HoldInv, EnqueueInv, RowInv, RunnerInv, TypeOK
<1>12. ASSUME NEW w \in Workers, Settle(w) PROVE HoldInv'
  BY <1>12, ActorsAssumption DEF Settle, HoldInv, EnqueueInv, RowInv, RunnerInv, TypeOK
<1>13. ASSUME NEW w \in Workers, Crash(w) PROVE HoldInv'
  BY <1>13, ActorsAssumption DEF Crash, HoldInv, EnqueueInv, RowInv, RunnerInv, TypeOK
<1>14. CASE UNCHANGED vars
  BY <1>14, ActorsAssumption DEF vars, HoldInv, EnqueueInv, RowInv, RunnerInv, TypeOK
<1> QED
  BY <1>1, <1>2, <1>3, <1>4, <1>5, <1>6, <1>7, <1>8, <1>9, <1>10, <1>11,
     <1>12, <1>13, <1>14 DEF Next, RequestStep, WorkerStep

\* No request is accepted while the operation runs, and none is forgotten by its job.
LEMMA ServedStep == IInv /\ [Next]_vars => ServedInv'
<1> SUFFICES ASSUME IInv, [Next]_vars PROVE ServedInv'
  OBVIOUS
<1> USE DEF table, locks, request, worker, history, IInv
<1>1. ASSUME NEW r \in Requests, NEW p \in Protocols, Admit(r, p) PROVE ServedInv'
  BY <1>1, ActorsAssumption DEF Admit, ServedInv, AcceptedIsServed, ActiveJobs, OneActiveJob,
     HoldInv, EnqueueInv, RowInv, RunnerInv, TypeOK, Active
<1>2. ASSUME NEW r \in Requests, ReturnExisting(r) PROVE ServedInv'
  BY <1>2, ActorsAssumption DEF ReturnExisting, Leaving, ServedInv, AcceptedIsServed, ActiveJobs,
     OneActiveJob, HoldInv, EnqueueInv, RowInv, RunnerInv, TypeOK, Active
<1>3. ASSUME NEW r \in Requests, FindNone(r) PROVE ServedInv'
  BY <1>3, ActorsAssumption DEF FindNone, ServedInv, AcceptedIsServed, ActiveJobs, OneActiveJob,
     HoldInv, EnqueueInv, RowInv, RunnerInv, TypeOK, Active
<1>4. ASSUME NEW r \in Requests, Insert(r) PROVE ServedInv'
  BY <1>4, ActorsAssumption DEF Insert, ServedInv, AcceptedIsServed, ActiveJobs, OneActiveJob,
     HoldInv, EnqueueInv, RowInv, RunnerInv, TypeOK, Active
<1>5. ASSUME NEW r \in Requests, CommitJob(r) PROVE ServedInv'
  BY <1>5, ActorsAssumption DEF CommitJob, ServedInv, AcceptedIsServed, ActiveJobs, OneActiveJob,
     HoldInv, EnqueueInv, RowInv, RunnerInv, TypeOK, Active
<1>6. ASSUME NEW r \in Requests, Leave(r) PROVE ServedInv'
  BY <1>6, ActorsAssumption DEF Leave, ServedInv, AcceptedIsServed, ActiveJobs, OneActiveJob,
     HoldInv, EnqueueInv, RowInv, RunnerInv, TypeOK, Active
<1>7. ASSUME NEW w \in Workers, Take(w) PROVE ServedInv'
  BY <1>7, ActorsAssumption DEF Take, ServedInv, AcceptedIsServed, ActiveJobs, OneActiveJob,
     HoldInv, EnqueueInv, RowInv, RunnerInv, TypeOK, Active
<1>8. ASSUME NEW w \in Workers, Refuse(w) PROVE ServedInv'
  BY <1>8, ActorsAssumption DEF Refuse, ServedInv, AcceptedIsServed, ActiveJobs, OneActiveJob,
     HoldInv, EnqueueInv, RowInv, RunnerInv, TypeOK, Active
<1>9. ASSUME NEW w \in Workers, Begin(w) PROVE ServedInv'
  BY <1>9, ActorsAssumption DEF Begin, ServedInv, AcceptedIsServed, ActiveJobs, OneActiveJob,
     HoldInv, EnqueueInv, RowInv, RunnerInv, TypeOK, Active
<1>10. ASSUME NEW w \in Workers, Perform(w) PROVE ServedInv'
  BY <1>10, ActorsAssumption DEF Perform, ServedInv, AcceptedIsServed, ActiveJobs, OneActiveJob,
     HoldInv, EnqueueInv, RowInv, RunnerInv, TypeOK, Active
<1>11. ASSUME NEW w \in Workers, Break(w) PROVE ServedInv'
  BY <1>11, ActorsAssumption DEF Break, ServedInv, AcceptedIsServed, ActiveJobs, OneActiveJob,
     HoldInv, EnqueueInv, RowInv, RunnerInv, TypeOK, Active
<1>12. ASSUME NEW w \in Workers, Settle(w) PROVE ServedInv'
  BY <1>12, ActorsAssumption DEF Settle, ServedInv, AcceptedIsServed, ActiveJobs, OneActiveJob,
     HoldInv, EnqueueInv, RowInv, RunnerInv, TypeOK, Active
<1>13. ASSUME NEW w \in Workers, Crash(w) PROVE ServedInv'
  BY <1>13, ActorsAssumption DEF Crash, ServedInv, AcceptedIsServed, ActiveJobs, OneActiveJob,
     HoldInv, EnqueueInv, RowInv, RunnerInv, TypeOK, Active
<1>14. CASE UNCHANGED vars
  BY <1>14, ActorsAssumption DEF vars, ServedInv, AcceptedIsServed, ActiveJobs, OneActiveJob,
     HoldInv, EnqueueInv, RowInv, RunnerInv, TypeOK, Active
<1> QED
  BY <1>1, <1>2, <1>3, <1>4, <1>5, <1>6, <1>7, <1>8, <1>9, <1>10, <1>11,
     <1>12, <1>13, <1>14 DEF Next, RequestStep, WorkerStep

\* A settled job is neither taken, nor inserted again, nor settled again.
LEMMA SettledStep ==
    IInv /\ [Next]_vars =>
        \A j \in Ids : status[j] \in {"done", "failed"} => status'[j] = status[j]
<1> SUFFICES ASSUME IInv, [Next]_vars, NEW j \in Ids, status[j] \in {"done", "failed"}
             PROVE  status'[j] = status[j]
  OBVIOUS
<1> USE DEF table, locks, request, worker, history, IInv
<1>1. ASSUME NEW r \in Requests, NEW p \in Protocols, Admit(r, p) PROVE status' = status
  BY <1>1 DEF Admit
<1>2. ASSUME NEW r \in Requests, ReturnExisting(r) \/ FindNone(r) PROVE status' = status
  BY <1>2 DEF ReturnExisting, FindNone
<1>3. ASSUME NEW r \in Requests, Insert(r) PROVE status'[j] = status[j]
  BY <1>3 DEF Insert, RowInv, TypeOK, Ids
<1>4. ASSUME NEW r \in Requests, CommitJob(r) \/ Leave(r) PROVE status'[j] = status[j]
  BY <1>4 DEF CommitJob, Leave, RowInv, TypeOK
<1>5. ASSUME NEW w \in Workers, Take(w) PROVE status'[j] = status[j]
  BY <1>5 DEF Take, Active, TypeOK
<1>6. ASSUME NEW w \in Workers, Settle(w) PROVE status'[j] = status[j]
  BY <1>6 DEF Settle, RunnerInv, TypeOK
<1>7. ASSUME NEW w \in Workers, Refuse(w) \/ Begin(w) \/ Perform(w) \/ Break(w) \/ Crash(w)
      PROVE  status' = status
  BY <1>7 DEF Refuse, Begin, Perform, Break, Crash
<1>8. CASE UNCHANGED vars
  BY <1>8 DEF vars
<1> QED
  BY <1>1, <1>2, <1>3, <1>4, <1>5, <1>6, <1>7, <1>8 DEF Next, RequestStep, WorkerStep

-----------------------------------------------------------------------------
\* The conjunction of these facts is an invariant.
THEOREM Invariance == Spec => []IInv
<1>1. Init => IInv
  <2> SUFFICES ASSUME Init PROVE IInv
    OBVIOUS
  <2>1. TypeOK
    BY BoundsAssumption DEF Init, TypeOK, JobStatuses
  <2>2. EnqueueInv /\ RowInv /\ RunnerInv
    BY ActorsAssumption DEF Init, EnqueueInv, RowInv, RunnerInv, Ids
  <2>3. OneActiveJob /\ DoneMeansPerformed
    BY DEF Init, OneActiveJob, ActiveJobs, Active, DoneMeansPerformed
  <2>4. HoldInv /\ ServedInv
    BY DEF Init, HoldInv, ServedInv, AcceptedIsServed
  <2> QED
    BY <2>1, <2>2, <2>3, <2>4 DEF IInv
<1>2. IInv /\ [Next]_vars => IInv'
  BY TypeStep, EnqueueStep, RowStep, RunnerStep, OneActiveStep, DoneStep, HoldStep,
     ServedStep DEF IInv
<1> QED
  BY <1>1, <1>2, PTL DEF Spec

\* Every variable keeps its type.
THEOREM TypeCorrectness == Spec => []TypeOK
<1>1. IInv => TypeOK
  BY DEF IInv
<1> QED
  BY <1>1, Invariance, PTL

\* A protocol never has two jobs that are pending or running.
THEOREM OneJobPerProtocol == Spec => []OneActiveJob
<1>1. IInv => OneActiveJob
  BY DEF IInv
<1> QED
  BY <1>1, Invariance, PTL

\* Two workers never carry out jobs at the same time.
THEOREM SingleWorker == Spec => []OneRunner
<1>1. IInv => OneRunner
  BY DEF IInv, RunnerInv, OneRunner
<1> QED
  BY <1>1, Invariance, PTL

\* A job called done was carried out to its end.
THEOREM DoneIsTrue == Spec => []DoneMeansPerformed
<1>1. IInv => DoneMeansPerformed
  BY DEF IInv
<1> QED
  BY <1>1, Invariance, PTL

\* A request accepted before the operation of its job ended is acted on, or its job fails
\* (jobs.py:17-27, jobs.py:57-66).
THEOREM AcceptedServed == Spec => []AcceptedIsServed
<1>1. IInv => AcceptedIsServed
  BY DEF IInv, ServedInv
<1> QED
  BY <1>1, Invariance, PTL

\* A settled job is never run again.
THEOREM SettledForever == Spec => SettledStays
<1>1. IInv /\ [Next]_vars =>
          [\A j \in Ids : status[j] \in {"done", "failed"} => status'[j] = status[j]]_vars
  BY SettledStep
<1> QED
  BY <1>1, Invariance, PTL DEF Spec, SettledStays
=============================================================================
