---------------------------- MODULE IntegrationJobs ----------------------------
(***************************************************************************)
(* The queue of publications and synchronisations (services/tasks/jobs.py):*)
(* web requests that enqueue a job, workers that take the oldest one, and  *)
(* the locks between them.  Jobs and locks survive a worker differently: a *)
(* job stays "running" in the database, a lock is freed with its process.  *)
(***************************************************************************)
EXTENDS Naturals

CONSTANTS
    Protocols,
    Requests,     \* web request threads
    Workers,      \* worker processes
    MaxJobs,      \* bound on the rows of integration_jobs
    MaxCrashes,   \* bound on crashes of workers
    None

ASSUME ActorsAssumption == /\ Requests \cap Workers = {}
                           /\ None \notin Requests \cup Workers \cup Protocols
ASSUME BoundsAssumption == MaxJobs \in Nat /\ MaxCrashes \in Nat

Ids == 1..MaxJobs

VARIABLES
    status,     \* IntegrationJob.status; "absent" without a row, "flushed" before commit
    protocol,   \* IntegrationJob.protocol_id
    last,       \* the sequence integration_jobs.id is drawn from
    hold,       \* holder of operation_lock("protocol:{id}")
    queue,      \* holder of operation_lock("queue:{id}")
    turn,       \* holder of operation_lock("integration-worker")
    req, about, row,   \* of a request: its step, its protocol, the row it inserts
    step, job,         \* of a worker: its step, the job it runs
    crashes,
    performed,  \* history: jobs whose operation was carried out to its end
    owed        \* history: protocols with a request accepted in time and not yet acted on

table   == <<status, protocol, last>>
locks   == <<hold, queue, turn>>
request == <<req, about, row>>
worker  == <<step, job, crashes>>
history == <<performed, owed>>
vars    == <<table, locks, request, worker, history>>

Active      == {"pending", "running"}
JobStatuses == Active \cup {"absent", "flushed", "done", "failed"}

ActiveJobs(p) == {j \in Ids : status[j] \in Active /\ protocol[j] = p}

TypeOK ==
    /\ status \in [Ids -> JobStatuses]
    /\ protocol \in [Ids -> Protocols \cup {None}]
    /\ last \in 0..MaxJobs
    /\ hold \in [Protocols -> Requests \cup Workers \cup {None}]
    /\ queue \in [Protocols -> Requests \cup {None}]
    /\ turn \in Workers \cup {None}
    /\ req \in [Requests -> {"idle", "admitted", "checked", "flushed", "answered"}]
    /\ about \in [Requests -> Protocols \cup {None}]
    /\ row \in [Requests -> Ids \cup {0}]
    /\ step \in [Workers -> {"idle", "taken", "executing", "succeeded", "failing"}]
    /\ job \in [Workers -> Ids \cup {0}]
    /\ crashes \in 0..MaxCrashes
    /\ performed \subseteq Ids
    /\ owed \subseteq Protocols

Init ==
    /\ status = [j \in Ids |-> "absent"]
    /\ protocol = [j \in Ids |-> None]
    /\ last = 0
    /\ hold = [p \in Protocols |-> None]
    /\ queue = [p \in Protocols |-> None]
    /\ turn = None
    /\ req = [r \in Requests |-> "idle"]
    /\ about = [r \in Requests |-> None]
    /\ row = [r \in Requests |-> 0]
    /\ step = [w \in Workers |-> "idle"]
    /\ job = [w \in Workers |-> 0]
    /\ crashes = 0
    /\ performed = {}
    /\ owed = {}
-----------------------------------------------------------------------------
(***************************************************************************)
(* Requests.                                                               *)
(***************************************************************************)

\* protect_mutation takes the protocol's lock, or answers 409 and does nothing.
Admit(r, p) ==
    /\ req[r] = "idle"
    /\ hold[p] = None
    /\ hold' = [hold EXCEPT ![p] = r]
    /\ about' = [about EXCEPT ![r] = p]
    /\ req' = [req EXCEPT ![r] = "admitted"]
    /\ UNCHANGED <<table, queue, turn, row, worker, history>>

\* The operation has ended and its lock is free, but its job is not settled yet
\* (jobs.py:57-66): who is answered with this job now is not waited for.
Leaving(p) == \E w \in Workers : step[w] = "succeeded" /\ protocol[job[w]] = p

\* enqueue: under the queue's lock there is an active job, which is returned ...
ReturnExisting(r) ==
    /\ req[r] = "admitted"
    /\ queue[about[r]] = None
    /\ ActiveJobs(about[r]) # {}
    /\ req' = [req EXCEPT ![r] = "answered"]
    /\ owed' = IF Leaving(about[r]) THEN owed ELSE owed \cup {about[r]}
    /\ UNCHANGED <<table, locks, about, row, worker, performed>>

\* The definitions named "...Bug" are the one that follows them with a plausible
\* mistake; nothing uses them but the checks that a property notices the mistake.
\* Here: only pending jobs are looked for.
FindNoneBug(r) ==
    /\ req[r] = "admitted"
    /\ queue[about[r]] = None
    /\ \A j \in ActiveJobs(about[r]) : status[j] # "pending"
    /\ queue' = [queue EXCEPT ![about[r]] = r]
    /\ req' = [req EXCEPT ![r] = "checked"]
    /\ UNCHANGED <<table, hold, turn, about, row, worker, history>>

\* ... or there is none, ...
FindNone(r) ==
    /\ req[r] = "admitted"
    /\ queue[about[r]] = None
    /\ ActiveJobs(about[r]) = {}
    /\ queue' = [queue EXCEPT ![about[r]] = r]
    /\ req' = [req EXCEPT ![r] = "checked"]
    /\ UNCHANGED <<table, hold, turn, about, row, worker, history>>

\* ... the row is flushed, which draws its identifier, ...
Insert(r) ==
    /\ req[r] = "checked"
    /\ last < MaxJobs
    /\ last' = last + 1
    /\ status' = [status EXCEPT ![last + 1] = "flushed"]
    /\ protocol' = [protocol EXCEPT ![last + 1] = about[r]]
    /\ row' = [row EXCEPT ![r] = last + 1]
    /\ req' = [req EXCEPT ![r] = "flushed"]
    /\ UNCHANGED <<locks, about, worker, history>>

\* ... and committed before the queue's lock is freed.
CommitJob(r) ==
    /\ req[r] = "flushed"
    /\ status' = [status EXCEPT ![row[r]] = "pending"]
    /\ queue' = [queue EXCEPT ![about[r]] = None]
    /\ req' = [req EXCEPT ![r] = "answered"]
    /\ owed' = owed \cup {about[r]}
    /\ UNCHANGED <<protocol, last, hold, turn, about, row, worker, performed>>

\* The request ends, or its process dies: uncommitted rows and locks are gone.
Leave(r) ==
    /\ req[r] # "idle"
    /\ status' = IF req[r] = "flushed" THEN [status EXCEPT ![row[r]] = "absent"] ELSE status
    /\ hold' = [p \in Protocols |-> IF hold[p] = r THEN None ELSE hold[p]]
    /\ queue' = [p \in Protocols |-> IF queue[p] = r THEN None ELSE queue[p]]
    /\ req' = [req EXCEPT ![r] = "idle"]
    /\ row' = [row EXCEPT ![r] = 0]
    /\ UNCHANGED <<protocol, last, turn, about, worker, history>>
-----------------------------------------------------------------------------
(***************************************************************************)
(* Workers.                                                                *)
(***************************************************************************)

\* Jobs a dead worker left running are not taken again.
TakePendingBug(w) ==
    /\ step[w] = "idle"
    /\ turn = None
    /\ \E j \in Ids : /\ status[j] = "pending"
                      /\ \A i \in Ids : status[i] = "pending" => j <= i
                      /\ job' = [job EXCEPT ![w] = j]
                      /\ status' = [status EXCEPT ![j] = "running"]
    /\ turn' = w
    /\ step' = [step EXCEPT ![w] = "taken"]
    /\ UNCHANGED <<protocol, last, hold, queue, request, crashes, history>>

\* run_next: the oldest job that is pending, or that a dead worker left running.
Take(w) ==
    /\ step[w] = "idle"
    /\ turn = None
    /\ \E j \in Ids : /\ status[j] \in Active
                      /\ \A i \in Ids : status[i] \in Active => j <= i
                      /\ job' = [job EXCEPT ![w] = j]
                      /\ status' = [status EXCEPT ![j] = "running"]
    /\ turn' = w
    /\ step' = [step EXCEPT ![w] = "taken"]
    /\ UNCHANGED <<protocol, last, hold, queue, request, crashes, history>>

\* The rights were revoked, or somebody holds the lock of the protocol.
Refuse(w) ==
    /\ step[w] = "taken"
    /\ step' = [step EXCEPT ![w] = "failing"]
    /\ UNCHANGED <<table, locks, request, job, crashes, history>>

\* The lock of the protocol is not asked for.
BeginBug(w) ==
    /\ step[w] = "taken"
    /\ hold' = [hold EXCEPT ![protocol[job[w]]] = w]
    /\ step' = [step EXCEPT ![w] = "executing"]
    /\ owed' = owed \ {protocol[job[w]]}
    /\ UNCHANGED <<table, queue, turn, request, job, crashes, performed>>

Begin(w) ==
    /\ step[w] = "taken"
    /\ hold[protocol[job[w]]] = None
    /\ hold' = [hold EXCEPT ![protocol[job[w]]] = w]
    /\ step' = [step EXCEPT ![w] = "executing"]
    /\ owed' = owed \ {protocol[job[w]]}
    /\ UNCHANGED <<table, queue, turn, request, job, crashes, performed>>

\* publish or sync returns; the lock of the protocol is freed with it.
Perform(w) ==
    /\ step[w] = "executing"
    /\ performed' = performed \cup {job[w]}
    /\ hold' = [hold EXCEPT ![protocol[job[w]]] = None]
    /\ step' = [step EXCEPT ![w] = "succeeded"]
    /\ UNCHANGED <<table, queue, turn, request, job, crashes, owed>>

\* It raises: the session is rolled back.
Break(w) ==
    /\ step[w] = "executing"
    /\ hold' = [hold EXCEPT ![protocol[job[w]]] = None]
    /\ step' = [step EXCEPT ![w] = "failing"]
    /\ UNCHANGED <<table, queue, turn, request, job, crashes, history>>

\* A failure is recorded as a success.
SettleBug(w) ==
    /\ step[w] \in {"succeeded", "failing"}
    /\ status' = [status EXCEPT ![job[w]] = "done"]
    /\ owed' = IF step[w] = "failing" THEN owed \ {protocol[job[w]]} ELSE owed
    /\ turn' = None
    /\ step' = [step EXCEPT ![w] = "idle"]
    /\ job' = [job EXCEPT ![w] = 0]
    /\ UNCHANGED <<protocol, last, hold, queue, request, crashes, performed>>

\* The outcome is written to the job; a failure is shown to who asked for it.
Settle(w) ==
    /\ step[w] \in {"succeeded", "failing"}
    /\ status' = [status EXCEPT ![job[w]] = IF step[w] = "succeeded" THEN "done" ELSE "failed"]
    /\ owed' = IF step[w] = "failing" THEN owed \ {protocol[job[w]]} ELSE owed
    /\ turn' = None
    /\ step' = [step EXCEPT ![w] = "idle"]
    /\ job' = [job EXCEPT ![w] = 0]
    /\ UNCHANGED <<protocol, last, hold, queue, request, crashes, performed>>

Crash(w) ==
    /\ step[w] # "idle"
    /\ crashes < MaxCrashes
    /\ crashes' = crashes + 1
    /\ turn' = None
    /\ hold' = [p \in Protocols |-> IF hold[p] = w THEN None ELSE hold[p]]
    /\ step' = [step EXCEPT ![w] = "idle"]
    /\ job' = [job EXCEPT ![w] = 0]
    /\ UNCHANGED <<table, queue, request, history>>
-----------------------------------------------------------------------------
RequestStep(r) == \/ \E p \in Protocols : Admit(r, p)
                  \/ ReturnExisting(r) \/ FindNone(r) \/ Insert(r) \/ CommitJob(r) \/ Leave(r)
WorkerStep(w)  == \/ Take(w) \/ Refuse(w) \/ Begin(w) \/ Perform(w) \/ Break(w) \/ Settle(w)

Next == \/ \E r \in Requests : RequestStep(r)
        \/ \E w \in Workers : WorkerStep(w) \/ Crash(w)

Spec == Init /\ [][Next]_vars

\* The worker processes loop forever (jobs.py:75) and are restarted after a crash.
FairSpec == Spec /\ \A w \in Workers : WF_vars(WorkerStep(w))
-----------------------------------------------------------------------------
(***************************************************************************)
(* Properties.                                                             *)
(***************************************************************************)

\* A protocol has at most one job that is pending or running, whatever requests
\* arrive together: what enqueue found under the queue's lock is true when it commits.
OneActiveJob == \A p \in Protocols : \A i, j \in ActiveJobs(p) : i = j

\* "Single-worker": two workers never carry out jobs at the same time, also when
\* one was restarted, and the job of a worker is the one the database calls running.
OneRunner ==
    /\ \A v, w \in Workers : step[v] # "idle" /\ step[w] # "idle" => v = w
    /\ \A w \in Workers : step[w] # "idle" => status[job[w]] = "running"

\* A job is done only if its operation was carried out to its end, by this worker
\* or by one that crashed before it could say so.
DoneMeansPerformed == \A j \in Ids : status[j] = "done" => j \in performed

\* A job that was settled is never run again.
SettledStays ==
    [][\A j \in Ids : status[j] \in {"done", "failed"} => status'[j] = status[j]]_vars

\* "Crash recovery": every committed job is done or failed at last, also if the
\* worker that ran it crashed.
EveryJobEnds == \A j \in Ids : (status[j] \in Active) ~> (status[j] \in {"done", "failed"})

\* "Durable ... queue" (jobs.py:1): a request the queue accepted, whether it got a job
\* of its own or one that existed, is acted on after it was accepted, or its job fails
\* visibly; until then the protocol has an active job.  Requests answered between the
\* end of an operation and the settlement of its job (Leaving) are the exception.
AcceptedIsServed == \A p \in owed : ActiveJobs(p) # {}
-----------------------------------------------------------------------------
(***************************************************************************)
(* The inductive invariant.                                                *)
(***************************************************************************)

\* Between the check and the commit the requester holds the queue's lock, and its
\* finding stays true.
EnqueueInv ==
    \A r \in Requests :
        /\ req[r] # "idle" => about[r] \in Protocols
        /\ req[r] \in {"checked", "flushed"} =>
               queue[about[r]] = r /\ ActiveJobs(about[r]) = {}

\* Every uncommitted row has one request, and identifiers are drawn once.
RowInv ==
    /\ \A r \in Requests : req[r] = "flushed" =>
           /\ row[r] \in Ids
           /\ status[row[r]] = "flushed"
           /\ protocol[row[r]] = about[r]
    /\ \A r, s \in Requests : req[r] = "flushed" /\ req[s] = "flushed" /\ row[r] = row[s]
                              => r = s
    /\ \A j \in Ids : j > last => status[j] = "absent"

RunnerInv ==
    \A w \in Workers :
        /\ step[w] # "idle" <=> turn = w
        /\ step[w] # "idle" => job[w] \in Ids /\ status[job[w]] = "running"
        /\ step[w] = "succeeded" => job[w] \in performed

\* Requests and running operations have the lock of their protocol.
HoldInv ==
    /\ \A j \in Ids : status[j] # "absent" => protocol[j] \in Protocols
    /\ \A r \in Requests : req[r] # "idle" => hold[about[r]] = r
    /\ \A w \in Workers : step[w] = "executing" => hold[protocol[job[w]]] = w

\* An operation that has begun owes nothing any more.
ServedInv ==
    /\ AcceptedIsServed
    /\ \A w \in Workers : step[w] \in {"executing", "succeeded"} =>
           protocol[job[w]] \notin owed

IInv == TypeOK /\ EnqueueInv /\ RowInv /\ RunnerInv /\ OneActiveJob /\ DoneMeansPerformed
        /\ HoldInv /\ ServedInv
=============================================================================
