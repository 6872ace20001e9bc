---------------------------- MODULE TaskPublication ----------------------------
(***************************************************************************)
(* Publication of one approved protocol to Bitrix24:                       *)
(* PublicationService (services/tasks/publication.py) run by web requests  *)
(* and by the integration worker, the Bitrix24 portal it talks to, and the *)
(* requests that edit the protocol, delete an instruction, move a link or  *)
(* advance the workflow between two runs.                                  *)
(*                                                                         *)
(* A publication key stands for one Bitrix24 task the protocol must have:  *)
(* protocol:{p}:task:{t}:{type}:{responsible} for an instruction, and      *)
(* protocol:{p}:root for the protocol's own root task.                     *)
(***************************************************************************)
EXTENDS Naturals, FiniteSets

CONSTANTS
    Tasks,        \* protocol_tasks rows, numbered in publication order
    Keys,         \* publication keys of instructions
    TaskOf,       \* [Keys -> Tasks]: the instruction a key belongs to
    Parents,      \* [Keys -> SUBSET Keys]: keys published before a key
    Root,         \* the key of the protocol's root task
    Plans,        \* sets of keys the plan of the protocol may take
    Procs,        \* threads that may publish: requests and the worker
    Ext,          \* identities of Bitrix24 tasks
    LegacyExt,    \* Bitrix24 tasks linked by the previous version, without a key
    None, Rejected, Foreign

AllKeys == Keys \cup {Root}

ASSUME TasksAssumption == Tasks \subseteq Nat
ASSUME KeysAssumption == TaskOf \in [Keys -> Tasks] /\ Parents \in [Keys -> SUBSET Keys]
ASSUME PlansAssumption == Plans \subseteq SUBSET AllKeys
ASSUME RootAssumption == Root \notin Keys
ASSUME LegacyAssumption == LegacyExt \subseteq Ext
ASSUME NoneAssumption ==
    /\ None \notin AllKeys \cup Ext \cup Tasks \cup Procs
    /\ Rejected \notin Ext \cup {None}
    /\ Foreign \notin AllKeys \cup {None}

VARIABLES
    status,      \* Protocol.status, in the classes publication tells apart
    plan,        \* keys protocol_plan would produce now (and Root, if the mode asks)
    deleted,     \* instructions deleted so far; their identifiers are not reused
    op,          \* IntegrationOperation.status of a key, "none" without a row
    rootOp,      \* IntegrationOperation.protocol_task_id of Root
    rootErased,  \* history: an operation row of Root was deleted with its instruction
    link,        \* external_task_id of the ProtocolTaskLink of a key
    rootLink,    \* ProtocolTaskLink.protocol_task_id of Root
    legacy,      \* links whose publication_key is NULL
    remote,      \* Bitrix24: the XML_ID of a task, None before it exists
    inflight,    \* Bitrix24: tasks.task.add requests it may still carry out
    lock,        \* holder of operation_lock("protocol:{id}")
    pc, seen, rows, todo, cur, reply

database == <<status, plan, deleted, op, rootOp, rootErased, link, rootLink, legacy>>
portal   == <<remote, inflight>>
run      == <<pc, seen, rows, todo, cur, reply>>
vars     == <<database, portal, lock, run>>

Statuses   == {"draft", "approved", "published", "closed"}
OpStatuses == {"none", "pending", "sending", "unknown", "done"}
Steps      == {"idle", "loaded", "loop", "send", "await", "link"}

\* Statuses that say a create request may have left (publication.py:197).
Unresolved == {"sending", "unknown"}
MaySent    == Unresolved \cup {"done"}

LinkedExts == legacy \cup {link[k] : k \in {j \in AllKeys : link[j] # None}}
LinkedKeys == {k \in AllKeys : link[k] # None}
LiveKeys   == {Root} \cup {k \in Keys : TaskOf[k] \notin deleted}
KeysOf(t)  == {k \in Keys : TaskOf[k] = t}
Holding(k) == {e \in Ext : remote[e] = k}

\* rows[0][0]: the first instruction among the rows of a run.
IsHead(t, ks) == /\ \E k \in ks \ {Root} : TaskOf[k] = t
                 /\ \A k \in ks \ {Root} : t <= TaskOf[k]

\* The root goes first, then parents before children, whatever the display order.
IsNext(p, k) == /\ k \in todo[p]
                /\ k # Root => Root \notin todo[p] /\ Parents[k] \cap todo[p] = {}

TypeOK ==
    /\ status \in Statuses
    /\ plan \subseteq AllKeys
    /\ deleted \subseteq Tasks
    /\ op \in [AllKeys -> OpStatuses]
    /\ rootOp \in Tasks \cup {None}
    /\ rootErased \in BOOLEAN
    /\ link \in [AllKeys -> Ext \cup {None}]
    /\ rootLink \in Tasks \cup {None}
    /\ legacy \subseteq Ext
    /\ remote \in [Ext -> AllKeys \cup {None, Foreign}]
    /\ inflight \in [AllKeys -> Nat]
    /\ lock \in Procs \cup {None}
    /\ pc \in [Procs -> Steps]
    /\ seen \in [Procs -> Statuses]
    /\ rows \in [Procs -> SUBSET AllKeys]
    /\ todo \in [Procs -> SUBSET AllKeys]
    /\ cur \in [Procs -> AllKeys \cup {None}]
    /\ reply \in [Procs -> Ext \cup {None, Rejected}]

Init ==
    /\ status = "draft"
    /\ plan = {}
    /\ deleted = {}
    /\ op = [k \in AllKeys |-> "none"]
    /\ rootOp = None
    /\ rootErased = FALSE
    /\ link = [k \in AllKeys |-> None]
    /\ rootLink = None
    /\ legacy = LegacyExt
    /\ remote = [e \in Ext |-> IF e \in LegacyExt THEN Foreign ELSE None]
    /\ inflight = [k \in AllKeys |-> 0]
    /\ lock = None
    /\ pc = [p \in Procs |-> "idle"]
    /\ seen = [p \in Procs |-> "draft"]
    /\ rows = [p \in Procs |-> {}]
    /\ todo = [p \in Procs |-> {}]
    /\ cur = [p \in Procs |-> None]
    /\ reply = [p \in Procs |-> None]

-----------------------------------------------------------------------------
(***************************************************************************)
(* A publication run.                                                      *)
(***************************************************************************)

\* The definitions named "...Bug" are the one that follows them with a plausible
\* mistake; nothing uses them but the checks that a property notices the mistake.
\* Here: the lock is not freed.
EndRunBug(p) ==
    /\ lock' = lock
    /\ pc' = [pc EXCEPT ![p] = "idle"]
    /\ seen' = [seen EXCEPT ![p] = "draft"]
    /\ rows' = [rows EXCEPT ![p] = {}]
    /\ todo' = [todo EXCEPT ![p] = {}]
    /\ cur' = [cur EXCEPT ![p] = None]
    /\ reply' = [reply EXCEPT ![p] = None]

\* The thread leaves publish(): it forgets everything but the database, and
\* the lock is freed (by the context manager, or by the system if it died).
EndRun(p) ==
    /\ lock' = IF lock = p THEN None ELSE lock
    /\ pc' = [pc EXCEPT ![p] = "idle"]
    /\ seen' = [seen EXCEPT ![p] = "draft"]
    /\ rows' = [rows EXCEPT ![p] = {}]
    /\ todo' = [todo EXCEPT ![p] = {}]
    /\ cur' = [cur EXCEPT ![p] = None]
    /\ reply' = [reply EXCEPT ![p] = None]

\* The Protocol row is read before the lock is taken (jobs.py:46).
Load(p) ==
    /\ pc[p] = "idle"
    /\ pc' = [pc EXCEPT ![p] = "loaded"]
    /\ seen' = [seen EXCEPT ![p] = status]
    /\ UNCHANGED <<database, portal, lock, rows, todo, cur, reply>>

\* Lock, checks of _publish, the plan, and its check against existing links.
Start(p) ==
    /\ pc[p] = "loaded"
    /\ lock = None
    /\ legacy = {}
    /\ seen[p] \in {"approved", "published"}
    /\ plan \ {Root} # {}
    /\ LinkedKeys \subseteq plan
    /\ lock' = p
    /\ pc' = [pc EXCEPT ![p] = "loop"]
    /\ rows' = [rows EXCEPT ![p] = plan]
    /\ todo' = [todo EXCEPT ![p] = plan]
    /\ UNCHANGED <<database, portal, seen, cur, reply>>

\* A row whose request has left is taken for a row that has its link.
ReuseBug(p, k) ==
    /\ pc[p] = "loop"
    /\ IsNext(p, k)
    /\ op[k] \in MaySent
    /\ todo' = [todo EXCEPT ![p] = @ \ {k}]
    /\ UNCHANGED <<database, portal, lock, pc, seen, rows, cur, reply>>

\* A row that already has its link is passed over.
Reuse(p, k) ==
    /\ pc[p] = "loop"
    /\ IsNext(p, k)
    /\ link[k] # None
    /\ todo' = [todo EXCEPT ![p] = @ \ {k}]
    /\ UNCHANGED <<database, portal, lock, pc, seen, rows, cur, reply>>

\* A request for this row may have left before: look for its task, create none.
FindExisting(p, k) ==
    /\ pc[p] = "loop"
    /\ IsNext(p, k)
    /\ link[k] = None
    /\ op[k] \in MaySent
    /\ \E e \in Ext : Holding(k) = {e} /\ reply' = [reply EXCEPT ![p] = e]
    /\ cur' = [cur EXCEPT ![p] = k]
    /\ pc' = [pc EXCEPT ![p] = "link"]
    /\ UNCHANGED <<database, portal, lock, seen, rows, todo>>

\* First commit for a row: the operation exists, nothing is sent yet.
Intend(p, k) ==
    /\ pc[p] = "loop"
    /\ IsNext(p, k)
    /\ link[k] = None
    /\ op[k] = "none"
    /\ op' = [op EXCEPT ![k] = "pending"]
    /\ \E t \in Tasks : /\ IsHead(t, rows[p])
                        /\ rootOp' = IF k = Root THEN t ELSE rootOp
    /\ UNCHANGED <<status, plan, deleted, rootErased, link, rootLink, legacy,
                   portal, lock, run>>

\* Second commit: the durable intent that precedes the request.
Claim(p, k) ==
    /\ pc[p] = "loop"
    /\ IsNext(p, k)
    /\ link[k] = None
    /\ op[k] = "pending"
    /\ op' = [op EXCEPT ![k] = "sending"]
    /\ cur' = [cur EXCEPT ![p] = k]
    /\ pc' = [pc EXCEPT ![p] = "send"]
    /\ UNCHANGED <<status, plan, deleted, rootOp, rootErased, link, rootLink,
                   legacy, portal, lock, seen, rows, todo, reply>>

\* tasks.task.add leaves; it is attempted once (gateway.py:154-162).
Send(p) ==
    /\ pc[p] = "send"
    /\ inflight' = [inflight EXCEPT ![cur[p]] = @ + 1]
    /\ pc' = [pc EXCEPT ![p] = "await"]
    /\ UNCHANGED <<database, remote, lock, seen, rows, todo, cur, reply>>

\* A timeout is taken for a rejection.
CreateUnknownBug(p) ==
    /\ pc[p] \in {"send", "await"}
    /\ op' = [op EXCEPT ![cur[p]] = "pending"]
    /\ EndRun(p)
    /\ UNCHANGED <<status, plan, deleted, rootOp, rootErased, link, rootLink,
                   legacy, portal>>

\* Any failure but a rejection: no free request slot before sending, or, after
\* sending, a timeout, an HTTP error, an unreadable answer, no identifier in it.
CreateUnknown(p) ==
    /\ pc[p] \in {"send", "await"}
    /\ op' = [op EXCEPT ![cur[p]] = "unknown"]
    /\ EndRun(p)
    /\ UNCHANGED <<status, plan, deleted, rootOp, rootErased, link, rootLink,
                   legacy, portal>>

\* Bitrix24 answered with an error of its own: the row may be sent again.
CreateRejected(p) ==
    /\ pc[p] = "await"
    /\ reply[p] = Rejected
    /\ op' = [op EXCEPT ![cur[p]] = "pending"]
    /\ EndRun(p)
    /\ UNCHANGED <<status, plan, deleted, rootOp, rootErased, link, rootLink,
                   legacy, portal>>

\* The link and the operation are written together; the unique constraint on
\* (external_system, external_task_id) refuses a task that is linked already.
Record(p) ==
    /\ pc[p] \in {"await", "link"}
    /\ reply[p] \in Ext \ LinkedExts
    /\ link' = [link EXCEPT ![cur[p]] = reply[p]]
    /\ op' = [op EXCEPT ![cur[p]] = "done"]
    /\ \E t \in Tasks : /\ IsHead(t, rows[p])
                        /\ rootLink' = IF cur[p] = Root THEN t ELSE rootLink
    /\ pc' = [pc EXCEPT ![p] = "loop"]
    /\ todo' = [todo EXCEPT ![p] = @ \ {cur[p]}]
    /\ cur' = [cur EXCEPT ![p] = None]
    /\ reply' = [reply EXCEPT ![p] = None]
    /\ UNCHANGED <<status, plan, deleted, rootOp, rootErased, legacy, portal,
                   lock, seen, rows>>

\* Every row is linked. The ORM writes the status only if the object the run
\* loaded had another one.
Finish(p) ==
    /\ pc[p] = "loop"
    /\ todo[p] = {}
    /\ status' = IF seen[p] = "published" THEN status ELSE "published"
    /\ EndRun(p)
    /\ UNCHANGED <<plan, deleted, op, rootOp, rootErased, link, rootLink, legacy,
                   portal>>

\* The run ends early and writes nothing: a check of _publish refuses, the lock
\* is busy, a key has no or several tasks in Bitrix24, a read, an update_task or
\* the unique constraint fails, or the process dies.
Stop(p) ==
    /\ pc[p] # "idle"
    /\ EndRun(p)
    /\ UNCHANGED <<database, portal>>
-----------------------------------------------------------------------------
(***************************************************************************)
(* Bitrix24, which may carry a request out long after the client gave up.  *)
(***************************************************************************)

Answer(k, answer) ==
    reply' = [p \in Procs |-> IF pc[p] = "await" /\ cur[p] = k /\ reply[p] = None
                              THEN answer ELSE reply[p]]

RemoteCreate(k) ==
    /\ inflight[k] > 0
    /\ inflight' = [inflight EXCEPT ![k] = @ - 1]
    /\ \E e \in Ext : /\ remote[e] = None
                      /\ remote' = [remote EXCEPT ![e] = k]
                      /\ Answer(k, e)
    /\ UNCHANGED <<database, lock, pc, seen, rows, todo, cur>>

RemoteReject(k) ==
    /\ inflight[k] > 0
    /\ inflight' = [inflight EXCEPT ![k] = @ - 1]
    /\ Answer(k, Rejected)
    /\ UNCHANGED <<database, remote, lock, pc, seen, rows, todo, cur>>

\* The request is lost on the way, or refused below the level of the API.
RemoteLose(k) ==
    /\ inflight[k] > 0
    /\ inflight' = [inflight EXCEPT ![k] = @ - 1]
    /\ UNCHANGED <<database, remote, lock, run>>
-----------------------------------------------------------------------------
(***************************************************************************)
(* Other requests on the protocol. Those of the document hold its lock for *)
(* their whole duration (services/concurrency.py:26), so each is one step. *)
(***************************************************************************)

\* The instructions, their assignees, the publication mode or the employee
\* directory change; the last is not an edit of the protocol and takes no lock.
ChangePlan ==
    /\ plan' \in Plans
    /\ plan' \subseteq LiveKeys
    /\ UNCHANGED <<status, deleted, op, rootOp, rootErased, link, rootLink, legacy,
                   portal, lock, run>>

\* The instruction goes with the links and the operations that name it: its own,
\* and those of Root if Root was published as a companion of this instruction.
DeleteTask(t) ==
    /\ lock = None
    /\ t \notin deleted
    /\ deleted' = deleted \cup {t}
    /\ plan' = plan \ KeysOf(t)
    /\ op' = [k \in AllKeys |-> IF k \in KeysOf(t) \/ (k = Root /\ rootOp = t)
                                THEN "none" ELSE op[k]]
    /\ link' = [k \in AllKeys |-> IF k \in KeysOf(t) \/ (k = Root /\ rootLink = t)
                                  THEN None ELSE link[k]]
    /\ rootErased' = (rootErased \/ rootOp = t)
    /\ rootOp' = IF rootOp = t THEN None ELSE rootOp
    /\ rootLink' = IF rootLink = t THEN None ELSE rootLink
    /\ legacy' \in SUBSET legacy
    /\ UNCHANGED <<status, portal, lock, run>>

\* The link is copied instead of moved.
ReconcileBug(e, k) ==
    /\ lock = None
    /\ e \in LinkedExts
    /\ remote[e] # None
    /\ k \in LiveKeys
    /\ link[k] \in {None, e}
    /\ link' = [link EXCEPT ![k] = e]
    /\ legacy' = legacy \ {e}
    /\ \E t \in Tasks \ deleted :
           rootLink' = IF k = Root THEN t
                       ELSE IF link[Root] = e THEN None ELSE rootLink
    /\ UNCHANGED <<status, plan, deleted, op, rootOp, rootErased, portal, lock, run>>

\* An operator attaches an existing link to another position of the protocol.
Reconcile(e, k) ==
    /\ lock = None
    /\ e \in LinkedExts
    /\ remote[e] # None
    /\ k \in LiveKeys
    /\ link[k] \in {None, e}
    /\ link' = [j \in AllKeys |-> IF j = k THEN e
                                  ELSE IF link[j] = e THEN None ELSE link[j]]
    /\ legacy' = legacy \ {e}
    /\ \E t \in Tasks \ deleted :
           rootLink' = IF k = Root THEN t
                       ELSE IF link[Root] = e THEN None ELSE rootLink
    /\ UNCHANGED <<status, plan, deleted, op, rootOp, rootErased, portal, lock, run>>

\* Workflow buttons and execution control; "closed" stands for control and
\* completed. No transition leads back to draft.
Moves == {<<"draft", "approved">>, <<"approved", "published">>,
          <<"draft", "closed">>, <<"approved", "closed">>, <<"published", "closed">>}

Workflow ==
    /\ lock = None
    /\ \E s \in Statuses : <<status, s>> \in Moves /\ status' = s
    /\ UNCHANGED <<plan, deleted, op, rootOp, rootErased, link, rootLink, legacy,
                   portal, lock, run>>
-----------------------------------------------------------------------------
RunStep(p) ==
    \/ Load(p) \/ Start(p) \/ Send(p) \/ CreateUnknown(p) \/ CreateRejected(p)
    \/ Record(p) \/ Finish(p) \/ Stop(p)
    \/ \E k \in AllKeys : Reuse(p, k) \/ FindExisting(p, k) \/ Intend(p, k) \/ Claim(p, k)

PortalStep == \E k \in AllKeys : RemoteCreate(k) \/ RemoteReject(k) \/ RemoteLose(k)

RequestStep ==
    \/ ChangePlan
    \/ Workflow
    \/ \E t \in Tasks : DeleteTask(t)
    \/ \E e \in Ext, k \in AllKeys : Reconcile(e, k)

Next == PortalStep \/ RequestStep \/ \E p \in Procs : RunStep(p)

Spec == Init /\ [][Next]_vars
-----------------------------------------------------------------------------
(***************************************************************************)
(* Properties.                                                             *)
(***************************************************************************)

\* The record that protects a key was deleted with the instruction it named.
Forgotten(k) == IF k = Root THEN rootErased ELSE TaskOf[k] \in deleted

\* At most one Bitrix24 task exists for a publication key, whatever timeouts,
\* crashes, late answers and repeated runs occur (Root: as long as its operation
\* row was not deleted with the instruction it was attached to).
AtMostOneTask ==
    \A e, f \in Ext : /\ remote[e] = remote[f]
                      /\ remote[e] \in AllKeys
                      /\ e # f
                      => remote[e] = Root /\ rootErased

\* A request that may still create a task for a key excludes both a second such
\* request and a task that exists already: creation is never blindly repeated
\* (gateway.py:154, publication.py:197).
NoBlindResend ==
    \A k \in AllKeys : ~(k = Root /\ rootErased) =>
        /\ inflight[k] <= 1
        /\ inflight[k] = 1 => Holding(k) = {}

\* As long as a task may exist or come to exist in Bitrix24, the database says so:
\* no crash or failed answer leaves the operation at "pending" or without a row.
IntentSurvives ==
    \A k \in AllKeys : /\ ~Forgotten(k)
                       /\ Holding(k) # {} \/ inflight[k] > 0
                       => op[k] \in MaySent

\* Every link names a task that exists in Bitrix24, and no two positions share one
\* (ImplementsLedger implies it: LedgerKeepsPromises).
LinksAreSound ==
    /\ \A e \in LinkedExts : remote[e] # None
    /\ \A j, k \in AllKeys : link[j] = link[k] /\ link[j] # None => j = k
    /\ \A k \in AllKeys : link[k] \notin legacy

\* What a run has passed over keeps its link until the run ends, so a protocol
\* that becomes published by Finish has a link for every row of the plan the run
\* used, although other requests delete instructions and move links.
PassedRowsStayLinked ==
    \A p \in Procs : \A k \in rows[p] \ todo[p] : link[k] # None

\* Nothing is prepared or created in Bitrix24 for a protocol nobody approved, even
\* by a run that read the status before it had the lock.
NothingBeforeApproval ==
    status = "draft" => \A k \in AllKeys : op[k] = "none" /\ Holding(k) = {}

\* The protocol's locks, operations and runs implement the ledger of ExternalTasks.
Ledger == INSTANCE ExternalTasks
          WITH Keys <- Keys, Root <- Root, Ext <- Ext, LegacyExt <- LegacyExt,
               None <- None, Foreign <- Foreign, remote <- remote, link <- link,
               legacy <- legacy, rootErased <- rootErased
ImplementsLedger == Ledger!LedgerSpec

\* A run always ends and frees the protocol, whatever Bitrix24 does.
RunEnds == \A p \in Procs : (lock = p) ~> (lock # p)

\* Threads keep running; a call to Bitrix24 has a timeout (gateway.py:107).
ThreadStep(p) ==
    \/ Send(p) \/ CreateUnknown(p) \/ Record(p) \/ Finish(p) \/ Stop(p)
    \/ \E k \in AllKeys : Reuse(p, k) \/ FindExisting(p, k) \/ Intend(p, k) \/ Claim(p, k)

FairSpec == Spec /\ \A p \in Procs : WF_vars(ThreadStep(p))
-----------------------------------------------------------------------------
(***************************************************************************)
(* The inductive invariant behind the safety properties.                   *)
(***************************************************************************)

Busy(p)    == pc[p] \notin {"idle", "loaded"}
Guarded(k) == ~(k = Root /\ rootErased)
Quiet(k)   == inflight[k] = 0 /\ \A e \in Ext : remote[e] # k

\* The thread between the checks and the end of a run is the holder of the lock.
LockInv == \A p \in Procs : Busy(p) <=> lock = p

\* What a run knows stays true while it holds the lock.
RunInv ==
    /\ plan \subseteq LiveKeys
    /\ \A p \in Procs :
        /\ todo[p] \subseteq rows[p] /\ rows[p] \subseteq LiveKeys
        /\ Busy(p) \/ rows[p] = {}
        /\ pc[p] \in {"idle", "loaded", "loop"} => cur[p] = None /\ reply[p] = None
        /\ pc[p] = "send" => reply[p] = None
        /\ pc[p] \in {"send", "await", "link"} => cur[p] \in todo[p] /\ link[cur[p]] = None
        /\ \A k \in rows[p] \ todo[p] : link[k] # None

\* What a run knows about the request it makes.
RequestInv ==
    \A p \in Procs :
        /\ pc[p] \in {"send", "await"} => op[cur[p]] = "sending"
        /\ pc[p] = "link" => op[cur[p]] \in MaySent /\ reply[p] \in Ext
        /\ reply[p] \in Ext => remote[reply[p]] = cur[p]
        /\ pc[p] = "send" /\ Guarded(cur[p]) => Quiet(cur[p])
        /\ pc[p] = "await" /\ reply[p] = Rejected /\ Guarded(cur[p]) => Quiet(cur[p])

\* One chance per key: a pending request, an existing task, or neither.
KeyInv ==
    \A k \in AllKeys : Guarded(k) =>
        /\ inflight[k] <= 1
        /\ inflight[k] = 1 => \A e \in Ext : remote[e] # k
        /\ \A e, f \in Ext : remote[e] = k /\ remote[f] = k => e = f
        /\ Forgotten(k) \/ op[k] \in MaySent \/ Quiet(k)

ApprovalInv ==
    /\ status = "draft" => \A k \in AllKeys : op[k] = "none" /\ Quiet(k)
    /\ \A p \in Procs : /\ seen[p] # "draft" => status # "draft"
                        /\ Busy(p) => seen[p] # "draft"

IInv == /\ TypeOK /\ LockInv /\ RunInv /\ RequestInv /\ KeyInv
        /\ LinksAreSound /\ ApprovalInv
=============================================================================
