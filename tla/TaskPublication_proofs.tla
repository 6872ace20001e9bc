------------------------- MODULE TaskPublication_proofs -------------------------
(***************************************************************************)
(* Safety of publication for any number of instructions, keys, threads and *)
(* Bitrix24 tasks.                                                         *)
(***************************************************************************)
EXTENDS TaskPublication, TLAPS

\* Every action keeps the types; an action's row is read before it is written, so
\* the current key of a run is a key (RunInv) when its operation is updated.
LEMMA TypeStep == IInv /\ [Next]_vars => TypeOK'
<1> SUFFICES ASSUME IInv, [Next]_vars PROVE TypeOK'
  OBVIOUS
<1>1. ASSUME NEW p \in Procs, Load(p) PROVE TypeOK'
  BY <1>1, IInv DEF IInv, TypeOK, Steps, database, portal, Load
<1>2. ASSUME NEW p \in Procs, Start(p) PROVE TypeOK'
  BY <1>2, IInv DEF IInv, TypeOK, Steps, database, portal, Start
<1>3. ASSUME NEW p \in Procs, Send(p) PROVE TypeOK'
  BY <1>3, IInv
     DEF IInv, TypeOK, OpStatuses, Steps, Statuses, database, portal, Send,
         RunInv
<1>4. ASSUME NEW p \in Procs, CreateUnknown(p) PROVE TypeOK'
  BY <1>4, IInv
     DEF IInv, TypeOK, OpStatuses, Steps, Statuses, portal, CreateUnknown,
         EndRun
<1>5. ASSUME NEW p \in Procs, CreateRejected(p) PROVE TypeOK'
  BY <1>5, IInv
     DEF IInv, TypeOK, OpStatuses, Steps, Statuses, portal, CreateRejected,
         EndRun
<1>6. ASSUME NEW p \in Procs, Record(p) PROVE TypeOK'
  BY <1>6, IInv DEF IInv, TypeOK, OpStatuses, Steps, Statuses, portal, Record
<1>7. ASSUME NEW p \in Procs, Finish(p) PROVE TypeOK'
  BY <1>7, IInv
     DEF IInv, TypeOK, Steps, Statuses, database, portal, Finish, EndRun
<1>8. ASSUME NEW p \in Procs, Stop(p) PROVE TypeOK'
  BY <1>8, IInv
     DEF IInv, TypeOK, Steps, Statuses, database, portal, Stop, EndRun
<1>9. ASSUME NEW p \in Procs, NEW k \in AllKeys, Reuse(p, k) PROVE TypeOK'
  BY <1>9, IInv DEF IInv, TypeOK, Steps, database, portal, Reuse
<1>10. ASSUME NEW p \in Procs, NEW k \in AllKeys, FindExisting(p, k) PROVE TypeOK'
  BY <1>10, IInv
     DEF IInv, TypeOK, OpStatuses, Steps, database, portal, run, FindExisting
<1>11. ASSUME NEW p \in Procs, NEW k \in AllKeys, Intend(p, k) PROVE TypeOK'
  BY <1>11, IInv DEF IInv, TypeOK, OpStatuses, Steps, portal, run, Intend
<1>12. ASSUME NEW p \in Procs, NEW k \in AllKeys, Claim(p, k) PROVE TypeOK'
  BY <1>12, IInv DEF IInv, TypeOK, OpStatuses, Steps, database, portal, Claim
<1>13. ASSUME NEW k \in AllKeys, RemoteCreate(k) PROVE TypeOK'
  BY <1>13, IInv DEF IInv, TypeOK, database, RemoteCreate, Answer
<1>14. ASSUME NEW k \in AllKeys, RemoteReject(k) PROVE TypeOK'
  BY <1>14, IInv DEF IInv, TypeOK, database, run, RemoteReject, Answer
<1>15. ASSUME NEW k \in AllKeys, RemoteLose(k) PROVE TypeOK'
  BY <1>15, IInv DEF IInv, TypeOK, database, portal, run, RemoteLose
<1>16. ASSUME ChangePlan PROVE TypeOK'
  BY <1>16, IInv DEF IInv, TypeOK, portal, run, ChangePlan, LiveKeys, AllKeys
<1>17. ASSUME Workflow PROVE TypeOK'
  BY <1>17, IInv DEF IInv, TypeOK, OpStatuses, portal, run, Workflow
<1>18. ASSUME NEW t \in Tasks, DeleteTask(t) PROVE TypeOK'
  BY <1>18, IInv DEF IInv, TypeOK, OpStatuses, portal, run, DeleteTask
<1>19. ASSUME NEW e \in Ext, NEW k \in AllKeys, Reconcile(e, k) PROVE TypeOK'
  <2>1. link' \in [AllKeys -> Ext \cup {None}]
    BY <1>19, IInv DEF IInv, TypeOK, Reconcile
  <2>2. rootLink' \in Tasks \cup {None}
    BY <1>19, IInv DEF IInv, TypeOK, Reconcile
  <2> QED
    BY <1>19, <2>1, <2>2, IInv DEF IInv, TypeOK, Reconcile, portal, run
<1>20. CASE UNCHANGED vars
  BY <1>20, IInv DEF IInv, TypeOK, vars, database, portal, run
<1> QED
  BY <1>1, <1>2, <1>3, <1>4, <1>5, <1>6, <1>7, <1>8, <1>9, <1>10, <1>11,
     <1>12, <1>13, <1>14, <1>15, <1>16, <1>17, <1>18, <1>19, <1>20
     DEF Next, RunStep, PortalStep, RequestStep

\* A thread works on the protocol exactly as long as it has the lock: Start takes it
\* and every way out of a run (EndRun) frees it.
LEMMA LockStep == IInv /\ [Next]_vars => LockInv'
<1> SUFFICES ASSUME IInv, [Next]_vars PROVE LockInv'
  OBVIOUS
<1>1. ASSUME NEW p \in Procs, Load(p) PROVE LockInv'
  BY <1>1, IInv, NoneAssumption DEF IInv, TypeOK, LockInv, Busy, Load
<1>2. ASSUME NEW p \in Procs, Start(p) PROVE LockInv'
  BY <1>2, IInv, NoneAssumption DEF IInv, TypeOK, LockInv, Busy, Start
<1>3. ASSUME NEW p \in Procs, Send(p) PROVE LockInv'
  BY <1>3, IInv, NoneAssumption DEF IInv, TypeOK, LockInv, Busy, Send
<1>4. ASSUME NEW p \in Procs, CreateUnknown(p) PROVE LockInv'
  BY <1>4, IInv, NoneAssumption
     DEF IInv, TypeOK, LockInv, Busy, CreateUnknown, EndRun
<1>5. ASSUME NEW p \in Procs, CreateRejected(p) PROVE LockInv'
  BY <1>5, IInv, NoneAssumption
     DEF IInv, TypeOK, LockInv, Busy, CreateRejected, EndRun
<1>6. ASSUME NEW p \in Procs, Record(p) PROVE LockInv'
  BY <1>6, IInv, NoneAssumption DEF IInv, TypeOK, LockInv, Busy, Record
<1>7. ASSUME NEW p \in Procs, Finish(p) PROVE LockInv'
  BY <1>7, IInv, NoneAssumption DEF IInv, TypeOK, LockInv, Busy, Finish, EndRun
<1>8. ASSUME NEW p \in Procs, Stop(p) PROVE LockInv'
  BY <1>8, IInv, NoneAssumption DEF IInv, TypeOK, LockInv, Busy, Stop, EndRun
<1>9. ASSUME NEW p \in Procs, NEW k \in AllKeys, Reuse(p, k) PROVE LockInv'
  BY <1>9, IInv DEF IInv, TypeOK, LockInv, Busy, Reuse
<1>10. ASSUME NEW p \in Procs, NEW k \in AllKeys, FindExisting(p, k) PROVE LockInv'
  BY <1>10, IInv DEF IInv, TypeOK, run, LockInv, Busy, FindExisting
<1>11. ASSUME NEW p \in Procs, NEW k \in AllKeys, Intend(p, k) PROVE LockInv'
  BY <1>11, IInv DEF IInv, TypeOK, run, LockInv, Busy, Intend
<1>12. ASSUME NEW p \in Procs, NEW k \in AllKeys, Claim(p, k) PROVE LockInv'
  BY <1>12, IInv DEF IInv, TypeOK, LockInv, Busy, Claim
<1>13. ASSUME NEW k \in AllKeys, RemoteCreate(k) PROVE LockInv'
  BY <1>13, IInv DEF IInv, TypeOK, LockInv, Busy, RemoteCreate
<1>14. ASSUME NEW k \in AllKeys, RemoteReject(k) PROVE LockInv'
  BY <1>14, IInv DEF IInv, TypeOK, run, LockInv, Busy, RemoteReject
<1>15. ASSUME NEW k \in AllKeys, RemoteLose(k) PROVE LockInv'
  BY <1>15, IInv DEF IInv, TypeOK, run, LockInv, Busy, RemoteLose
<1>16. ASSUME ChangePlan PROVE LockInv'
  BY <1>16, IInv DEF IInv, TypeOK, run, LockInv, Busy, ChangePlan
<1>17. ASSUME Workflow PROVE LockInv'
  BY <1>17, IInv DEF IInv, TypeOK, run, LockInv, Busy, Workflow
<1>18. ASSUME NEW t \in Tasks, DeleteTask(t) PROVE LockInv'
  BY <1>18, IInv DEF IInv, TypeOK, run, LockInv, Busy, DeleteTask
<1>19. ASSUME NEW e \in Ext, NEW k \in AllKeys, Reconcile(e, k) PROVE LockInv'
  BY <1>19, IInv DEF IInv, TypeOK, vars, run, LockInv, Busy, Reconcile
<1>20. CASE UNCHANGED vars
  BY <1>20, IInv DEF IInv, TypeOK, vars, run, LockInv, Busy
<1> QED
  BY <1>1, <1>2, <1>3, <1>4, <1>5, <1>6, <1>7, <1>8, <1>9, <1>10, <1>11,
     <1>12, <1>13, <1>14, <1>15, <1>16, <1>17, <1>18, <1>19, <1>20
     DEF Next, RunStep, PortalStep, RequestStep

\* What a run knows of the plan and the links stays true: only the holder of the lock
\* writes links, and deletions and reconciliations need the lock to be free.
LEMMA RunStepInv == IInv /\ [Next]_vars => RunInv'
<1> SUFFICES ASSUME IInv, [Next]_vars PROVE RunInv'
  OBVIOUS
<1>1. ASSUME NEW p \in Procs, Load(p) PROVE RunInv'
  BY <1>1, IInv DEF IInv, TypeOK, database, RunInv, Busy, LiveKeys, Load
<1>2. ASSUME NEW p \in Procs, Start(p) PROVE RunInv'
  BY <1>2, IInv DEF IInv, TypeOK, database, RunInv, Busy, LiveKeys, Start
<1>3. ASSUME NEW p \in Procs, Send(p) PROVE RunInv'
  BY <1>3, IInv
     DEF IInv, TypeOK, database, RunInv, LockInv, Busy, LiveKeys, Send
<1>4. ASSUME NEW p \in Procs, CreateUnknown(p) PROVE RunInv'
  BY <1>4, IInv
     DEF IInv, TypeOK, RunInv, LockInv, LiveKeys, CreateUnknown, EndRun
<1>5. ASSUME NEW p \in Procs, CreateRejected(p) PROVE RunInv'
  BY <1>5, IInv, NoneAssumption
     DEF IInv, TypeOK, RunInv, LockInv, Busy, LiveKeys, CreateRejected, EndRun
<1>6. ASSUME NEW p \in Procs, Record(p) PROVE RunInv'
  BY <1>6, IInv, NoneAssumption
     DEF IInv, TypeOK, RunInv, LockInv, Busy, LiveKeys, Record
<1>7. ASSUME NEW p \in Procs, Finish(p) PROVE RunInv'
  BY <1>7, IInv
     DEF IInv, TypeOK, database, RunInv, Busy, LiveKeys, Finish, EndRun
<1>8. ASSUME NEW p \in Procs, Stop(p) PROVE RunInv'
  BY <1>8, IInv DEF IInv, TypeOK, database, RunInv, Busy, LiveKeys, Stop, EndRun
<1>9. ASSUME NEW p \in Procs, NEW k \in AllKeys, Reuse(p, k) PROVE RunInv'
  BY <1>9, IInv
     DEF IInv, TypeOK, database, RunInv, Busy, LiveKeys, IsNext, Reuse
<1>10. ASSUME NEW p \in Procs, NEW k \in AllKeys, FindExisting(p, k) PROVE RunInv'
  BY <1>10, IInv
     DEF IInv, TypeOK, database, run, RunInv, Busy, LiveKeys, IsNext,
         FindExisting
<1>11. ASSUME NEW p \in Procs, NEW k \in AllKeys, Intend(p, k) PROVE RunInv'
  BY <1>11, IInv DEF IInv, TypeOK, run, RunInv, Busy, LiveKeys, IsNext, Intend
<1>12. ASSUME NEW p \in Procs, NEW k \in AllKeys, Claim(p, k) PROVE RunInv'
  BY <1>12, IInv
     DEF IInv, TypeOK, database, RunInv, Busy, LiveKeys, IsNext, Claim
<1>13. ASSUME NEW k \in AllKeys, RemoteCreate(k) PROVE RunInv'
  BY <1>13, IInv
     DEF IInv, TypeOK, database, RunInv, Busy, LiveKeys, RemoteCreate, Answer
<1>14. ASSUME NEW k \in AllKeys, RemoteReject(k) PROVE RunInv'
  BY <1>14, IInv
     DEF IInv, TypeOK, database, run, RunInv, Busy, LiveKeys, RemoteReject,
         Answer
<1>15. ASSUME NEW k \in AllKeys, RemoteLose(k) PROVE RunInv'
  BY <1>15, IInv
     DEF IInv, TypeOK, database, run, RunInv, Busy, LiveKeys, RemoteLose
<1>16. ASSUME ChangePlan PROVE RunInv'
  BY <1>16, IInv
     DEF IInv, TypeOK, run, RunInv, LockInv, Busy, LiveKeys, ChangePlan
<1>17. ASSUME Workflow PROVE RunInv'
  BY <1>17, IInv, NoneAssumption
     DEF IInv, TypeOK, run, RunInv, LockInv, LiveKeys, KeysOf, Workflow
<1>18. ASSUME NEW t \in Tasks, DeleteTask(t) PROVE RunInv'
  BY <1>18, IInv, NoneAssumption
     DEF IInv, TypeOK, run, RunInv, LockInv, LiveKeys, KeysOf, DeleteTask
<1>19. ASSUME NEW e \in Ext, NEW k \in AllKeys, Reconcile(e, k) PROVE RunInv'
  BY <1>19, IInv, NoneAssumption
     DEF IInv, TypeOK, vars, database, run, RunInv, LockInv, Busy, LiveKeys,
         Reconcile
<1>20. CASE UNCHANGED vars
  BY <1>20, IInv DEF IInv, TypeOK, vars, database, run, RunInv, Busy, LiveKeys
<1> QED
  BY <1>1, <1>2, <1>3, <1>4, <1>5, <1>6, <1>7, <1>8, <1>9, <1>10, <1>11,
     <1>12, <1>13, <1>14, <1>15, <1>16, <1>17, <1>18, <1>19, <1>20
     DEF Next, RunStep, PortalStep, RequestStep

\* What a run knows of its request stays true: its operation is "sending" before the
\* request leaves, and an answer belongs to the key that was asked for.
LEMMA RequestStepInv == IInv /\ [Next]_vars => RequestInv'
<1> SUFFICES ASSUME IInv, [Next]_vars PROVE RequestInv'
  OBVIOUS
<1>1. ASSUME NEW p \in Procs, Load(p) PROVE RequestInv'
  BY <1>1, IInv
     DEF IInv, TypeOK, database, portal, RequestInv, RunInv, LockInv, Busy,
         Guarded, Quiet, Load
<1>2. ASSUME NEW p \in Procs, Start(p) PROVE RequestInv'
  BY <1>2, IInv, NoneAssumption
     DEF IInv, TypeOK, database, RequestInv, RunInv, LockInv, Busy, Start
<1>3. ASSUME NEW p \in Procs, Send(p) PROVE RequestInv'
  BY <1>3, IInv, NoneAssumption
     DEF IInv, TypeOK, database, RequestInv, RunInv, LockInv, Busy, Send
<1>4. ASSUME NEW p \in Procs, CreateUnknown(p) PROVE RequestInv'
  BY <1>4, IInv, NoneAssumption
     DEF IInv, TypeOK, RequestInv, RunInv, LockInv, Busy, CreateUnknown,
         EndRun
<1>5. ASSUME NEW p \in Procs, CreateRejected(p) PROVE RequestInv'
  BY <1>5, IInv, NoneAssumption
     DEF IInv, TypeOK, RequestInv, RunInv, LockInv, Busy, CreateRejected,
         EndRun
<1>6. ASSUME NEW p \in Procs, Record(p) PROVE RequestInv'
  BY <1>6, IInv, NoneAssumption
     DEF IInv, TypeOK, RequestInv, RunInv, LockInv, Busy, Guarded, Quiet,
         Record
<1>7. ASSUME NEW p \in Procs, Finish(p) PROVE RequestInv'
  BY <1>7, IInv, NoneAssumption
     DEF IInv, TypeOK, database, portal, RequestInv, Guarded, Quiet, Finish,
         EndRun
<1>8. ASSUME NEW p \in Procs, Stop(p) PROVE RequestInv'
  BY <1>8, IInv, NoneAssumption
     DEF IInv, TypeOK, database, portal, RequestInv, Guarded, Quiet, Stop,
         EndRun
<1>9. ASSUME NEW p \in Procs, NEW k \in AllKeys, Reuse(p, k) PROVE RequestInv'
  BY <1>9, IInv
     DEF IInv, TypeOK, database, portal, RequestInv, Guarded, Quiet, Reuse
<1>10. ASSUME NEW p \in Procs, NEW k \in AllKeys, FindExisting(p, k) PROVE RequestInv'
  BY <1>10, IInv
     DEF IInv, TypeOK, database, portal, run, RequestInv, MaySent, Unresolved,
         Guarded, Quiet, FindExisting, Holding
<1>11. ASSUME NEW p \in Procs, NEW k \in AllKeys, Intend(p, k) PROVE RequestInv'
  BY <1>11, IInv, NoneAssumption
     DEF IInv, TypeOK, portal, run, RequestInv, RunInv, MaySent, Unresolved,
         Guarded, Quiet, KeyInv, Forgotten, LiveKeys, IsNext, Intend
<1>12. ASSUME NEW p \in Procs, NEW k \in AllKeys, Claim(p, k) PROVE RequestInv'
  BY <1>12, IInv, NoneAssumption
     DEF IInv, TypeOK, Steps, database, portal, RequestInv, RunInv, MaySent,
         Unresolved, Guarded, Quiet, KeyInv, Forgotten, LiveKeys, IsNext,
         Claim
<1>13. ASSUME NEW k \in AllKeys, RemoteCreate(k) PROVE RequestInv'
  BY <1>13, IInv, NoneAssumption
     DEF IInv, TypeOK, Steps, database, RequestInv, RunInv, Guarded, Quiet,
         KeyInv, RemoteCreate, Answer
<1>14. ASSUME NEW k \in AllKeys, RemoteReject(k) PROVE RequestInv'
  BY <1>14, IInv, NoneAssumption
     DEF IInv, TypeOK, database, run, RequestInv, Guarded, Quiet, KeyInv,
         RemoteReject, Answer
<1>15. ASSUME NEW k \in AllKeys, RemoteLose(k) PROVE RequestInv'
  BY <1>15, IInv
     DEF IInv, TypeOK, database, portal, run, RequestInv, Guarded, Quiet,
         RemoteLose
<1>16. ASSUME ChangePlan PROVE RequestInv'
  BY <1>16, IInv
     DEF IInv, TypeOK, portal, run, RequestInv, RunInv, LockInv, Busy,
         Guarded, Quiet, ChangePlan
<1>17. ASSUME Workflow PROVE RequestInv'
  BY <1>17, IInv, NoneAssumption
     DEF IInv, TypeOK, run, RequestInv, RunInv, LockInv, Busy, Workflow
<1>18. ASSUME NEW t \in Tasks, DeleteTask(t) PROVE RequestInv'
  BY <1>18, IInv, NoneAssumption
     DEF IInv, TypeOK, portal, run, RequestInv, LockInv, Busy, Guarded, Quiet,
         DeleteTask
<1>19. ASSUME NEW e \in Ext, NEW k \in AllKeys, Reconcile(e, k) PROVE RequestInv'
  BY <1>19, IInv
     DEF IInv, TypeOK, vars, database, portal, run, RequestInv, Guarded,
         Quiet, Reconcile
<1>20. CASE UNCHANGED vars
  BY <1>20, IInv
     DEF IInv, TypeOK, vars, database, portal, run, RequestInv, Guarded, Quiet
<1> QED
  BY <1>1, <1>2, <1>3, <1>4, <1>5, <1>6, <1>7, <1>8, <1>9, <1>10, <1>11,
     <1>12, <1>13, <1>14, <1>15, <1>16, <1>17, <1>18, <1>19, <1>20
     DEF Next, RunStep, PortalStep, RequestStep

\* A key has at most one pending request or task. A second request would need an
\* operation at "pending", which only a rejection restores, when the key is quiet.
LEMMA KeyStep == IInv /\ [Next]_vars => KeyInv'
<1> SUFFICES ASSUME IInv, [Next]_vars PROVE KeyInv'
  OBVIOUS
<1>1. ASSUME NEW p \in Procs, Load(p) PROVE KeyInv'
  BY <1>1, IInv
     DEF IInv, TypeOK, database, portal, KeyInv, Guarded, Quiet, Forgotten,
         Load
<1>2. ASSUME NEW p \in Procs, Start(p) PROVE KeyInv'
  BY <1>2, IInv
     DEF IInv, TypeOK, database, portal, KeyInv, RequestInv, MaySent,
         Unresolved, Guarded, Quiet, Forgotten, Start
<1>3. ASSUME NEW p \in Procs, Send(p) PROVE KeyInv'
  BY <1>3, IInv
     DEF IInv, TypeOK, database, portal, KeyInv, RequestInv, MaySent,
         Unresolved, Guarded, Quiet, Forgotten, Send
<1>4. ASSUME NEW p \in Procs, CreateUnknown(p) PROVE KeyInv'
  BY <1>4, IInv
     DEF IInv, TypeOK, portal, KeyInv, RequestInv, MaySent, Unresolved,
         Guarded, Quiet, Forgotten, CreateUnknown
<1>5. ASSUME NEW p \in Procs, CreateRejected(p) PROVE KeyInv'
  BY <1>5, IInv
     DEF IInv, TypeOK, portal, KeyInv, RequestInv, MaySent, Guarded, Quiet,
         Forgotten, CreateRejected
<1>6. ASSUME NEW p \in Procs, Record(p) PROVE KeyInv'
  BY <1>6, IInv
     DEF IInv, TypeOK, portal, KeyInv, MaySent, Guarded, Quiet, Forgotten,
         Record
<1>7. ASSUME NEW p \in Procs, Finish(p) PROVE KeyInv'
  BY <1>7, IInv
     DEF IInv, TypeOK, database, portal, KeyInv, Guarded, Quiet, Forgotten,
         Finish
<1>8. ASSUME NEW p \in Procs, Stop(p) PROVE KeyInv'
  BY <1>8, IInv
     DEF IInv, TypeOK, database, portal, KeyInv, Guarded, Quiet, Forgotten,
         Stop
<1>9. ASSUME NEW p \in Procs, NEW k \in AllKeys, Reuse(p, k) PROVE KeyInv'
  BY <1>9, IInv
     DEF IInv, TypeOK, database, portal, KeyInv, Guarded, Quiet, Forgotten,
         Reuse
<1>10. ASSUME NEW p \in Procs, NEW k \in AllKeys, FindExisting(p, k) PROVE KeyInv'
  BY <1>10, IInv
     DEF IInv, TypeOK, database, portal, KeyInv, MaySent, Unresolved, Guarded,
         Quiet, Forgotten, FindExisting
<1>11. ASSUME NEW p \in Procs, NEW k \in AllKeys, Intend(p, k) PROVE KeyInv'
  BY <1>11, IInv
     DEF IInv, TypeOK, portal, KeyInv, MaySent, Unresolved, Guarded, Quiet,
         Forgotten, Intend
<1>12. ASSUME NEW p \in Procs, NEW k \in AllKeys, Claim(p, k) PROVE KeyInv'
  BY <1>12, IInv
     DEF IInv, TypeOK, database, portal, KeyInv, MaySent, Unresolved, Guarded,
         Quiet, Forgotten, Claim
<1>13. ASSUME NEW k \in AllKeys, RemoteCreate(k) PROVE KeyInv'
  BY <1>13, IInv
     DEF IInv, TypeOK, database, KeyInv, Guarded, Quiet, Forgotten,
         RemoteCreate
<1>14. ASSUME NEW k \in AllKeys, RemoteReject(k) PROVE KeyInv'
  BY <1>14, IInv
     DEF IInv, TypeOK, database, KeyInv, Guarded, Quiet, Forgotten,
         RemoteReject
<1>15. ASSUME NEW k \in AllKeys, RemoteLose(k) PROVE KeyInv'
  BY <1>15, IInv
     DEF IInv, TypeOK, database, portal, KeyInv, Guarded, Quiet, Forgotten,
         RemoteLose
<1>16. ASSUME ChangePlan PROVE KeyInv'
  BY <1>16, IInv
     DEF IInv, TypeOK, portal, KeyInv, Guarded, Quiet, Forgotten, ChangePlan
<1>17. ASSUME Workflow PROVE KeyInv'
  BY <1>17, IInv
     DEF IInv, TypeOK, portal, KeyInv, Guarded, Quiet, Forgotten, Workflow
<1>18. ASSUME NEW t \in Tasks, DeleteTask(t) PROVE KeyInv'
  <2> SUFFICES ASSUME NEW k \in AllKeys, Guarded(k)'
               PROVE  /\ inflight[k] <= 1
                      /\ inflight[k] = 1 => \A e \in Ext : remote[e] # k
                      /\ \A e, f \in Ext : remote[e] = k /\ remote[f] = k => e = f
                      /\ Forgotten(k)' \/ op'[k] \in MaySent \/ Quiet(k)
    BY <1>18 DEF KeyInv, DeleteTask, portal, Quiet
  <2>1. Guarded(k) /\ (Forgotten(k) => Forgotten(k)')
    BY <1>18 DEF Guarded, Forgotten, DeleteTask
  <2>2. op'[k] = op[k] \/ Forgotten(k)'
    <3>1. CASE k \in KeysOf(t)
      BY <1>18, <3>1, RootAssumption DEF Forgotten, DeleteTask, KeysOf
    <3>2. CASE k = Root /\ rootOp = t
      BY <1>18, <3>2 DEF Guarded, DeleteTask
    <3>3. CASE k \notin KeysOf(t) /\ ~(k = Root /\ rootOp = t)
      BY <1>18, <3>3 DEF DeleteTask
    <3> QED
      BY <3>1, <3>2, <3>3
  <2> QED
    BY <2>1, <2>2, IInv DEF IInv, KeyInv
<1>19. ASSUME NEW e \in Ext, NEW k \in AllKeys, Reconcile(e, k) PROVE KeyInv'
  BY <1>19, IInv
     DEF IInv, TypeOK, vars, database, portal, KeyInv, Guarded, Quiet,
         Forgotten, Reconcile
<1>20. CASE UNCHANGED vars
  BY <1>20, IInv
     DEF IInv, TypeOK, vars, database, portal, KeyInv, Guarded, Quiet,
         Forgotten
<1> QED
  BY <1>1, <1>2, <1>3, <1>4, <1>5, <1>6, <1>7, <1>8, <1>9, <1>10, <1>11,
     <1>12, <1>13, <1>14, <1>15, <1>16, <1>17, <1>18, <1>19, <1>20
     DEF Next, RunStep, PortalStep, RequestStep

\* A link is recorded for a task the run saw created or found under its key, and the
\* unique constraint keeps two positions from sharing it.
LEMMA LinkStep == IInv /\ [Next]_vars => LinksAreSound'
<1> SUFFICES ASSUME IInv, [Next]_vars PROVE LinksAreSound'
  OBVIOUS
<1>1. ASSUME NEW p \in Procs, Load(p) PROVE LinksAreSound'
  BY <1>1, IInv
     DEF IInv, TypeOK, database, portal, LinksAreSound, LinkedExts, Load
<1>2. ASSUME NEW p \in Procs, Start(p) PROVE LinksAreSound'
  BY <1>2, IInv
     DEF IInv, TypeOK, database, portal, LinksAreSound, LinkedExts, Start
<1>3. ASSUME NEW p \in Procs, Send(p) PROVE LinksAreSound'
  BY <1>3, IInv
     DEF IInv, TypeOK, database, portal, LinksAreSound, LinkedExts, Send
<1>4. ASSUME NEW p \in Procs, CreateUnknown(p) PROVE LinksAreSound'
  BY <1>4, IInv
     DEF IInv, TypeOK, portal, LinksAreSound, LinkedExts, CreateUnknown
<1>5. ASSUME NEW p \in Procs, CreateRejected(p) PROVE LinksAreSound'
  BY <1>5, IInv, NoneAssumption
     DEF IInv, TypeOK, portal, LinksAreSound, LinkedExts, RequestInv,
         CreateRejected
<1>6. ASSUME NEW p \in Procs, Record(p) PROVE LinksAreSound'
  BY <1>6, IInv, NoneAssumption
     DEF IInv, TypeOK, portal, LinksAreSound, LinkedExts, RequestInv, Record
<1>7. ASSUME NEW p \in Procs, Finish(p) PROVE LinksAreSound'
  BY <1>7, IInv
     DEF IInv, TypeOK, database, portal, LinksAreSound, LinkedExts, Finish
<1>8. ASSUME NEW p \in Procs, Stop(p) PROVE LinksAreSound'
  BY <1>8, IInv
     DEF IInv, TypeOK, database, portal, LinksAreSound, LinkedExts, Stop
<1>9. ASSUME NEW p \in Procs, NEW k \in AllKeys, Reuse(p, k) PROVE LinksAreSound'
  BY <1>9, IInv
     DEF IInv, TypeOK, database, portal, LinksAreSound, LinkedExts, Reuse
<1>10. ASSUME NEW p \in Procs, NEW k \in AllKeys, FindExisting(p, k) PROVE LinksAreSound'
  BY <1>10, IInv
     DEF IInv, TypeOK, database, portal, LinksAreSound, LinkedExts,
         FindExisting
<1>11. ASSUME NEW p \in Procs, NEW k \in AllKeys, Intend(p, k) PROVE LinksAreSound'
  BY <1>11, IInv DEF IInv, TypeOK, portal, LinksAreSound, LinkedExts, Intend
<1>12. ASSUME NEW p \in Procs, NEW k \in AllKeys, Claim(p, k) PROVE LinksAreSound'
  BY <1>12, IInv
     DEF IInv, TypeOK, database, portal, LinksAreSound, LinkedExts, Claim
<1>13. ASSUME NEW k \in AllKeys, RemoteCreate(k) PROVE LinksAreSound'
  BY <1>13, IInv
     DEF IInv, TypeOK, database, LinksAreSound, LinkedExts, RemoteCreate
<1>14. ASSUME NEW k \in AllKeys, RemoteReject(k) PROVE LinksAreSound'
  BY <1>14, IInv
     DEF IInv, TypeOK, database, LinksAreSound, LinkedExts, RemoteReject
<1>15. ASSUME NEW k \in AllKeys, RemoteLose(k) PROVE LinksAreSound'
  BY <1>15, IInv
     DEF IInv, TypeOK, database, portal, LinksAreSound, LinkedExts, RemoteLose
<1>16. ASSUME ChangePlan PROVE LinksAreSound'
  BY <1>16, IInv DEF IInv, TypeOK, portal, LinksAreSound, LinkedExts, ChangePlan
<1>17. ASSUME Workflow PROVE LinksAreSound'
  BY <1>17, IInv, NoneAssumption
     DEF IInv, TypeOK, portal, LinksAreSound, LinkedExts, Workflow
<1>18. ASSUME NEW t \in Tasks, DeleteTask(t) PROVE LinksAreSound'
  BY <1>18, IInv, NoneAssumption
     DEF IInv, TypeOK, portal, LinksAreSound, LinkedExts, DeleteTask
<1>19. ASSUME NEW e \in Ext, NEW k \in AllKeys, Reconcile(e, k) PROVE LinksAreSound'
  BY <1>19, IInv
     DEF IInv, TypeOK, vars, database, portal, LinksAreSound, LinkedExts,
         Reconcile
<1>20. CASE UNCHANGED vars
  BY <1>20, IInv
     DEF IInv, TypeOK, vars, database, portal, LinksAreSound, LinkedExts
<1> QED
  BY <1>1, <1>2, <1>3, <1>4, <1>5, <1>6, <1>7, <1>8, <1>9, <1>10, <1>11,
     <1>12, <1>13, <1>14, <1>15, <1>16, <1>17, <1>18, <1>19, <1>20
     DEF Next, RunStep, PortalStep, RequestStep

\* A run passes the status check with the status it read; that is enough, because no
\* transition leads back to a status before approval.
LEMMA ApprovalStep == IInv /\ [Next]_vars => ApprovalInv'
<1> SUFFICES ASSUME IInv, [Next]_vars PROVE ApprovalInv'
  OBVIOUS
<1>1. ASSUME NEW p \in Procs, Load(p) PROVE ApprovalInv'
  BY <1>1, IInv
     DEF IInv, TypeOK, database, portal, ApprovalInv, Quiet, Busy, Load
<1>2. ASSUME NEW p \in Procs, Start(p) PROVE ApprovalInv'
  BY <1>2, IInv DEF IInv, TypeOK, database, ApprovalInv, Busy, Start
<1>3. ASSUME NEW p \in Procs, Send(p) PROVE ApprovalInv'
  BY <1>3, IInv DEF IInv, TypeOK, database, ApprovalInv, Busy, Send
<1>4. ASSUME NEW p \in Procs, CreateUnknown(p) PROVE ApprovalInv'
  BY <1>4, IInv DEF IInv, TypeOK, ApprovalInv, Busy, CreateUnknown, EndRun
<1>5. ASSUME NEW p \in Procs, CreateRejected(p) PROVE ApprovalInv'
  BY <1>5, IInv DEF IInv, TypeOK, ApprovalInv, Busy, CreateRejected, EndRun
<1>6. ASSUME NEW p \in Procs, Record(p) PROVE ApprovalInv'
  BY <1>6, IInv DEF IInv, TypeOK, ApprovalInv, Busy, Record
<1>7. ASSUME NEW p \in Procs, Finish(p) PROVE ApprovalInv'
  BY <1>7, IInv
     DEF IInv, TypeOK, database, portal, ApprovalInv, Quiet, Busy, Finish,
         EndRun
<1>8. ASSUME NEW p \in Procs, Stop(p) PROVE ApprovalInv'
  BY <1>8, IInv
     DEF IInv, TypeOK, database, portal, ApprovalInv, Quiet, Busy, Stop,
         EndRun
<1>9. ASSUME NEW p \in Procs, NEW k \in AllKeys, Reuse(p, k) PROVE ApprovalInv'
  BY <1>9, IInv DEF IInv, TypeOK, database, ApprovalInv, Busy, Reuse
<1>10. ASSUME NEW p \in Procs, NEW k \in AllKeys, FindExisting(p, k) PROVE ApprovalInv'
  BY <1>10, IInv
     DEF IInv, TypeOK, database, run, ApprovalInv, Busy, FindExisting
<1>11. ASSUME NEW p \in Procs, NEW k \in AllKeys, Intend(p, k) PROVE ApprovalInv'
  BY <1>11, IInv DEF IInv, TypeOK, run, ApprovalInv, Busy, Intend
<1>12. ASSUME NEW p \in Procs, NEW k \in AllKeys, Claim(p, k) PROVE ApprovalInv'
  BY <1>12, IInv DEF IInv, TypeOK, database, ApprovalInv, Quiet, Busy, Claim
<1>13. ASSUME NEW k \in AllKeys, RemoteCreate(k) PROVE ApprovalInv'
  BY <1>13, IInv
     DEF IInv, TypeOK, database, ApprovalInv, Quiet, Busy, RemoteCreate
<1>14. ASSUME NEW k \in AllKeys, RemoteReject(k) PROVE ApprovalInv'
  BY <1>14, IInv
     DEF IInv, TypeOK, database, run, ApprovalInv, Quiet, Busy, RemoteReject
<1>15. ASSUME NEW k \in AllKeys, RemoteLose(k) PROVE ApprovalInv'
  BY <1>15, IInv
     DEF IInv, TypeOK, database, portal, run, ApprovalInv, Quiet, Busy,
         RemoteLose
<1>16. ASSUME ChangePlan PROVE ApprovalInv'
  BY <1>16, IInv
     DEF IInv, TypeOK, portal, run, ApprovalInv, Quiet, Busy, ChangePlan
<1>17. ASSUME Workflow PROVE ApprovalInv'
  BY <1>17, IInv
     DEF IInv, TypeOK, portal, run, ApprovalInv, Quiet, Busy, Workflow, Moves
<1>18. ASSUME NEW t \in Tasks, DeleteTask(t) PROVE ApprovalInv'
  BY <1>18, IInv
     DEF IInv, TypeOK, portal, run, ApprovalInv, Quiet, Busy, DeleteTask
<1>19. ASSUME NEW e \in Ext, NEW k \in AllKeys, Reconcile(e, k) PROVE ApprovalInv'
  BY <1>19, IInv
     DEF IInv, TypeOK, vars, database, portal, run, ApprovalInv, Quiet, Busy,
         Reconcile
<1>20. CASE UNCHANGED vars
  BY <1>20, IInv
     DEF IInv, TypeOK, vars, database, portal, run, ApprovalInv, Quiet, Busy
<1> QED
  BY <1>1, <1>2, <1>3, <1>4, <1>5, <1>6, <1>7, <1>8, <1>9, <1>10, <1>11,
     <1>12, <1>13, <1>14, <1>15, <1>16, <1>17, <1>18, <1>19, <1>20
     DEF Next, RunStep, PortalStep, RequestStep

\* Nothing is published, planned or running at first.
LEMMA InitInv == Init => IInv
<1> SUFFICES ASSUME Init PROVE IInv
  OBVIOUS
<1>1. TypeOK
  BY LegacyAssumption, NoneAssumption
     DEF Init, TypeOK, OpStatuses, Steps, Statuses
<1>2. LockInv /\ RunInv
  BY NoneAssumption DEF Init, LockInv, RunInv, Busy
<1>3. RequestInv /\ ApprovalInv
  BY NoneAssumption DEF Init, RequestInv, ApprovalInv, Busy, Quiet
<1>4. KeyInv
  BY NoneAssumption DEF Init, KeyInv, Quiet
<1>5. LinksAreSound
  BY LegacyAssumption, NoneAssumption DEF Init, LinksAreSound, LinkedExts
<1> QED
  BY <1>1, <1>2, <1>3, <1>4, <1>5 DEF IInv

\* The parts of the invariant together are inductive.
LEMMA NextInv == IInv /\ [Next]_vars => IInv'
BY TypeStep, LockStep, RunStepInv, RequestStepInv, KeyStep, LinkStep,
   ApprovalStep DEF IInv

\* The inductive invariant holds in every reachable state.
THEOREM Invariance == Spec => []IInv
BY InitInv, NextInv, PTL DEF Spec

\* Every variable keeps its type.
THEOREM TypeCorrectness == Spec => []TypeOK
<1>1. IInv => TypeOK
  BY DEF IInv
<1> QED
  BY <1>1, Invariance, PTL

\* No two Bitrix24 tasks are ever created for one publication key, for any number
\* of threads, requests, crashes and late answers.
THEOREM CreatedAtMostOnce == Spec => []AtMostOneTask
<1>1. IInv => AtMostOneTask
  BY DEF IInv, KeyInv, Guarded, AtMostOneTask
<1> QED
  BY <1>1, Invariance, PTL

\* A request that may still create a task excludes another one and a task.
THEOREM NeverResent == Spec => []NoBlindResend
<1>1. IInv => NoBlindResend
  BY DEF IInv, KeyInv, Guarded, NoBlindResend, Holding
<1> QED
  BY <1>1, Invariance, PTL

\* A task that exists or may come to exist is never unknown to the database.
THEOREM DurableIntent == Spec => []IntentSurvives
<1>1. ASSUME IInv, NEW k \in AllKeys, ~Forgotten(k), Holding(k) # {} \/ inflight[k] > 0
      PROVE  op[k] \in MaySent
  <2>1. Guarded(k)
    BY <1>1 DEF Guarded, Forgotten
  <2>2. ~Quiet(k)
    BY <1>1 DEF IInv, TypeOK, Quiet, Holding
  <2> QED
    BY <1>1, <2>1, <2>2 DEF IInv, KeyInv
<1>2. IInv => IntentSurvives
  BY <1>1 DEF IntentSurvives
<1> QED
  BY <1>2, Invariance, PTL

\* Links name existing tasks, each at most once.
THEOREM SoundLinks == Spec => []LinksAreSound
<1>1. IInv => LinksAreSound
  BY DEF IInv
<1> QED
  BY <1>1, Invariance, PTL

\* A run that reaches Finish has a link for every row of its plan.
THEOREM PublishedIsLinked == Spec => []PassedRowsStayLinked
<1>1. IInv => PassedRowsStayLinked
  BY DEF IInv, RunInv, PassedRowsStayLinked
<1> QED
  BY <1>1, Invariance, PTL

\* Nothing happens in Bitrix24 before somebody approved the protocol.
THEOREM ApprovedFirst == Spec => []NothingBeforeApproval
<1>1. IInv => NothingBeforeApproval
  BY DEF IInv, ApprovalInv, Quiet, Holding, NothingBeforeApproval
<1> QED
  BY <1>1, Invariance, PTL

-----------------------------------------------------------------------------
\* The initial states of publication are initial states of the ledger.
LEMMA LedgerInitially == Init => Ledger!LedgerInit
BY DEF Init, Ledger!LedgerInit, Ledger!LedgerKeys, AllKeys

\* A task appears in the ledger when Bitrix24 carries a request out.
LEMMA CreateRefines ==
    ASSUME IInv, NEW k \in AllKeys, RemoteCreate(k)
    PROVE  Ledger!LedgerNext
<1>1. PICK e \in Ext : remote[e] = None /\ remote' = [remote EXCEPT ![e] = k]
  BY DEF RemoteCreate
<1>2. (\A f \in Ext : remote[f] # k) \/ (k = Root /\ rootErased)
  BY DEF IInv, TypeOK, KeyInv, Guarded, RemoteCreate
<1>3. Ledger!Create(k, e)
  BY <1>1, <1>2 DEF Ledger!Create, RemoteCreate, database
<1> QED
  BY <1>3 DEF Ledger!LedgerNext, Ledger!LedgerKeys, AllKeys

\* A link appears in the ledger when a run records the answer to its request.
LEMMA RecordRefines ==
    ASSUME IInv, NEW p \in Procs, Record(p)
    PROVE  Ledger!LedgerNext
<1>1. cur[p] \in AllKeys /\ link[cur[p]] = None /\ reply[p] \in Ext
  BY DEF IInv, TypeOK, RunInv, Record
<1>2. remote[reply[p]] = cur[p]
  BY <1>1 DEF IInv, RequestInv
<1>3. reply[p] \notin Ledger!Linked
  BY DEF Record, LinkedExts, Ledger!Linked, Ledger!LedgerKeys, AllKeys
<1>4. Ledger!Attach(cur[p], reply[p])
  BY <1>1, <1>2, <1>3 DEF Record, Ledger!Attach, portal
<1> QED
  BY <1>1, <1>4 DEF Ledger!LedgerNext, Ledger!LedgerKeys, AllKeys

\* Deleting an instruction is a Remove of the ledger.
LEMMA DeleteRefines ==
    ASSUME IInv, NEW t \in Tasks, DeleteTask(t)
    PROVE  Ledger!LedgerNext
<1> DEFINE gone == {k \in AllKeys : k \in KeysOf(t) \/ (k = Root /\ rootLink = t)}
<1>1. link' = [k \in Ledger!LedgerKeys |-> IF k \in gone THEN None ELSE link[k]]
  BY DEF DeleteTask, Ledger!LedgerKeys, AllKeys
<1>2. rootErased' \in {rootErased, TRUE}
  <2>1. rootErased \in BOOLEAN /\ rootErased' = (rootErased \/ rootOp = t)
    BY DEF IInv, TypeOK, DeleteTask
  <2>2. CASE rootErased = TRUE
    BY <2>1, <2>2
  <2>3. CASE rootErased = FALSE /\ rootOp = t
    BY <2>1, <2>3
  <2>4. CASE rootErased = FALSE /\ rootOp # t
    BY <2>1, <2>4
  <2> QED
    BY <2>1, <2>2, <2>3, <2>4
<1>3. Ledger!Remove(gone)
  BY <1>1, <1>2 DEF DeleteTask, Ledger!Remove, portal
<1>4. gone \in SUBSET Ledger!LedgerKeys
  BY DEF Ledger!LedgerKeys, AllKeys
<1> QED
  BY <1>3, <1>4 DEF Ledger!LedgerNext

\* Reconciling a link is a Move of the ledger.
LEMMA MoveRefines ==
    ASSUME IInv, NEW e \in Ext, NEW k \in AllKeys, Reconcile(e, k)
    PROVE  Ledger!LedgerNext
<1>1. Ledger!Move(e, k)
  BY DEF Reconcile, Ledger!Move, Ledger!Linked, Ledger!LedgerKeys, LinkedExts,
         AllKeys, portal
<1> QED
  BY <1>1 DEF Ledger!LedgerNext, Ledger!LedgerKeys, AllKeys

\* Every step of publication is a step of the ledger or leaves it unchanged.
LEMMA StepRefines == IInv /\ [Next]_vars => [Ledger!LedgerNext]_(Ledger!ledger)
<1> SUFFICES ASSUME IInv, [Next]_vars, ~UNCHANGED Ledger!ledger
             PROVE  Ledger!LedgerNext
  OBVIOUS
<1> USE DEF Ledger!ledger, database, portal
<1>1. ASSUME NEW p \in Procs, RunStep(p), ~Record(p)
      PROVE  FALSE
  BY <1>1
     DEF RunStep, Load, Start, Send, CreateUnknown, CreateRejected, Finish,
         Stop, Reuse, FindExisting, Intend, Claim
<1>2. ASSUME NEW k \in AllKeys, RemoteReject(k) \/ RemoteLose(k)
      PROVE  FALSE
  BY <1>2 DEF RemoteReject, RemoteLose
<1>3. ~ChangePlan /\ ~Workflow
  BY DEF ChangePlan, Workflow
<1>4. ~UNCHANGED vars
  BY DEF vars
<1> QED
  BY <1>1, <1>2, <1>3, <1>4, CreateRefines, RecordRefines, DeleteRefines,
     MoveRefines DEF Next, PortalStep, RequestStep

\* The whole publication machinery keeps the promises of ExternalTasks.
THEOREM PublicationImplementsLedger == Spec => ImplementsLedger
BY LedgerInitially, StepRefines, Invariance, PTL
   DEF Spec, ImplementsLedger, Ledger!LedgerSpec
-----------------------------------------------------------------------------
\* The ledger's own invariant: what it says of tasks and links, with their types.
LedgerInv ==
    /\ remote \in [Ext -> AllKeys \cup {None, Foreign}]
    /\ link \in [AllKeys -> Ext \cup {None}]
    /\ legacy \subseteq Ext
    /\ rootErased \in BOOLEAN
    /\ AtMostOneTask
    /\ LinksAreSound

\* Creating a task for a key: the key has none, or it is the root's second.
LEMMA LedgerCreates ==
    ASSUME LedgerInv, NEW k \in AllKeys, NEW e \in Ext, Ledger!Create(k, e)
    PROVE  LedgerInv'
<1> USE NoneAssumption DEF LedgerInv, Ledger!Create
<1>1. AtMostOneTask'
  BY DEF AtMostOneTask
<1>2. \A f \in Ext : remote[f] # None => remote'[f] # None
  BY DEF AllKeys
<1>3. LinkedExts' = LinkedExts /\ LinkedExts \subseteq Ext
  BY DEF LinkedExts
<1>4. LinksAreSound'
  BY <1>2, <1>3 DEF LinksAreSound
<1> QED
  BY <1>1, <1>4

\* Linking a task for which there is no link yet.
LEMMA LedgerAttaches ==
    ASSUME LedgerInv, NEW k \in AllKeys, NEW e \in Ext, Ledger!Attach(k, e)
    PROVE  LedgerInv'
<1> USE NoneAssumption DEF LedgerInv, Ledger!Attach
<1>1. AtMostOneTask'
  BY DEF AtMostOneTask
<1>2. /\ e \notin legacy /\ e # None /\ remote[e] # None
      /\ \A j \in AllKeys : link[j] # e
  BY DEF Ledger!Linked, Ledger!LedgerKeys, AllKeys
<1>3. LinksAreSound'
  BY <1>2 DEF LinksAreSound, LinkedExts
<1> QED
  BY <1>1, <1>3

\* Moving a link leaves it where it goes to only.
LEMMA LedgerMoves ==
    ASSUME LedgerInv, NEW k \in AllKeys, NEW e \in Ext, Ledger!Move(e, k)
    PROVE  LedgerInv'
<1> USE NoneAssumption DEF LedgerInv, Ledger!Move
<1>1. AtMostOneTask'
  BY DEF AtMostOneTask
<1>2. link' = [j \in AllKeys |-> IF j = k THEN e ELSE IF link[j] = e THEN None ELSE link[j]]
  BY DEF Ledger!LedgerKeys, AllKeys
<1>3. LinksAreSound'
  BY <1>2 DEF LinksAreSound, LinkedExts
<1> QED
  BY <1>1, <1>2, <1>3

\* Removing links, and perhaps the record of the root.
LEMMA LedgerRemoves ==
    ASSUME LedgerInv, NEW ks \in SUBSET Ledger!LedgerKeys, Ledger!Remove(ks)
    PROVE  LedgerInv'
<1> USE NoneAssumption DEF LedgerInv, Ledger!Remove
<1>0. rootErased' \in BOOLEAN /\ (rootErased => rootErased')
  <2>1. CASE rootErased' = TRUE
    BY <2>1
  <2>2. CASE rootErased' = rootErased
    BY <2>2
  <2> QED
    BY <2>1, <2>2
<1>1. AtMostOneTask'
  BY <1>0, Zenon DEF AtMostOneTask
<1>2. link' = [j \in AllKeys |-> IF j \in ks THEN None ELSE link[j]]
  BY DEF Ledger!LedgerKeys, AllKeys
<1>3. LinksAreSound'
  BY <1>2 DEF LinksAreSound, LinkedExts
<1> QED
  BY <1>0, <1>1, <1>2, <1>3

\* Whatever keeps the ledger never creates a second task for a key (but the root's,
\* once its record is gone) and never lets two positions share a task or link one
\* that does not exist: the two are promises of ExternalTasks alone.
THEOREM LedgerKeepsPromises == ImplementsLedger => [](AtMostOneTask /\ LinksAreSound)
<1>1. Ledger!LedgerInit => LedgerInv
  <2> SUFFICES ASSUME Ledger!LedgerInit PROVE LedgerInv
    OBVIOUS
  <2> USE NoneAssumption, LegacyAssumption DEF Ledger!LedgerInit, Ledger!LedgerKeys
  <2>1. LinkedExts = LegacyExt
    BY DEF LinkedExts, AllKeys
  <2>2. LinksAreSound
    BY <2>1 DEF LinksAreSound, AllKeys
  <2>3. AtMostOneTask
    BY DEF AtMostOneTask
  <2> QED
    BY <2>2, <2>3 DEF LedgerInv, AllKeys
<1>2. LedgerInv /\ [Ledger!LedgerNext]_(Ledger!ledger) => LedgerInv'
  <2>1. ASSUME LedgerInv, UNCHANGED Ledger!ledger PROVE LedgerInv'
    BY <2>1 DEF LedgerInv, Ledger!ledger, AtMostOneTask, LinksAreSound, LinkedExts
  <2>2. Ledger!LedgerKeys = AllKeys
    BY DEF Ledger!LedgerKeys, AllKeys
  <2> QED
    BY <2>1, <2>2, LedgerCreates, LedgerAttaches, LedgerMoves, LedgerRemoves
       DEF Ledger!LedgerNext
<1>3. LedgerInv => AtMostOneTask /\ LinksAreSound
  BY DEF LedgerInv
<1> QED
  BY <1>1, <1>2, <1>3, PTL DEF ImplementsLedger, Ledger!LedgerSpec
=============================================================================
