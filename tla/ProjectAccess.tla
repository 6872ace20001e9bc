----------------------------- MODULE ProjectAccess -----------------------------
(****************************************************************************)
(* Scope of requests and of the worker by membership in Bitrix24 groups     *)
(* (src/app/services/project_access.py, auth.py, jobs.py, main.py), on top  *)
(* of the calls of RestGateway.                                             *)
(*                                                                          *)
(* Every request and every job asks Bitrix24 for its user's role in the     *)
(* group of each project, one project after the other and each list page by *)
(* page, while people join, leave and change roles.  The rights found so    *)
(* filter what the database session reads and refuse what it writes.        *)
(****************************************************************************)
EXTENDS RestGateway, SequencesExt

CONSTANTS
    Users,       \* the people who use the program
    Members,     \* the people who may be in a group
    Web,         \* threads that serve requests
    Workers,     \* threads that run integration jobs
    Groups,      \* Bitrix24 groups
    Projects,    \* rows of the projects table that may exist
    Protocols,   \* rows of the protocols table that may exist
    Reports,     \* rows of the report_runs table that may exist
    Roster0, Level0, Project0, Protocol0,  \* the state the program starts in
    PageSize,    \* entries in a page of a list of members
    MaxRequests, \* bound: requests started
    MaxChanges,  \* bound: changes of membership
    MaxFailures  \* bound: failed attempts to reach Bitrix24, and crashes

ASSUME AccessAssumption ==
    /\ Callers = Web \cup Workers
    /\ Web \cap Workers = {}
    /\ PageSize \in Nat \ {0}
    /\ Users \subseteq Members
    /\ None \notin Members \cup Groups \cup Projects \cup Protocols
    /\ Roster0 \in [Groups -> Seq(Members)]
    /\ \A g \in Groups : IsInjective(Roster0[g])
    /\ Level0 \in [Groups -> [Users -> {"moderator", "member"}]]
    /\ Project0 \in [Projects -> Groups \cup {None}]
    /\ Protocol0 \in [Protocols -> Projects \cup {None}]
    /\ \A d \in Protocols : Protocol0[d] # None => Project0[Protocol0[d]] # None

VARIABLES
    roster,    \* the members of each group in Bitrix24's order
    level,     \* the role of each user who is in a group
    project,   \* the group of each project row, or None when there is no row
    protocol,  \* each protocol row: its project (or None) and its version
    report,    \* each report row: its user and its projects, or None
    jobs,      \* integration jobs in the order of their numbers
    act,       \* what each thread is doing
    held,      \* history: the roles each thread's user had since it began
    shifted,   \* history: groups that somebody left since the thread began
    requests, changes, failures

dataVars == <<project, protocol, report, jobs>>
teamVars == <<roster, level, changes>>
vars == <<gatewayVars, dataVars, teamVars, act, held, shifted,
          requests, failures>>

\* Owners (A) and moderators (E) have the same rights, members (K) only read.
Levels == {"moderator", "member"}
Readers == {"moderator", "member"}
Writers == {"moderator"}

RoleOf(u, g) == IF Contains(roster[g], u) THEN level[g][u] ELSE "none"

Kinds == {"view", "edit", "create", "project", "enqueue", "export", "download"}

JobStatuses == {"pending", "running", "done", "failed"}

Idle == [pc |-> "idle", user |-> None, kind |-> None, target |-> None,
         known |-> {}, todo |-> {}, current |-> None, found |-> "none",
         read |-> {}, write |-> {}, roles |-> [g \in Groups |-> "none"],
         shown |-> {}, result |-> None]

-----------------------------------------------------------------------------
(* Membership in Bitrix24, outside the program. *)

Noted(newRole(_, _)) ==
    [a \in Callers |->
        IF act[a].pc = "idle" THEN held[a]
        ELSE [g \in Groups |-> held[a][g] \cup {newRole(act[a].user, g)}]]

CountChange ==
    /\ changes < MaxChanges
    /\ changes' = changes + 1
    /\ UNCHANGED <<gatewayVars, dataVars, act, requests, failures>>

Leave(g, u) ==
    /\ CountChange
    /\ \E n \in 1 .. Len(roster[g]) :
           roster[g][n] = u /\ roster' = [roster EXCEPT ![g] = RemoveAt(@, n)]
    /\ held' = Noted(LAMBDA v, h : IF v = u /\ h = g THEN "none"
                                                     ELSE RoleOf(v, h))
    /\ shifted' = [a \in Callers |->
           IF act[a].pc = "idle" THEN shifted[a] ELSE shifted[a] \cup {g}]
    /\ UNCHANGED level

Join(g, u, l) ==
    /\ CountChange
    /\ ~Contains(roster[g], u)
    /\ roster' = [roster EXCEPT ![g] = Append(@, u)]
    /\ level' = IF u \in Users THEN [level EXCEPT ![g][u] = l] ELSE level
    /\ held' = Noted(LAMBDA v, h : IF v = u /\ h = g THEN l ELSE RoleOf(v, h))
    /\ UNCHANGED shifted

Regrade(g, u, l) ==
    /\ CountChange
    /\ Contains(roster[g], u) /\ level[g][u] # l
    /\ level' = [level EXCEPT ![g][u] = l]
    /\ held' = Noted(LAMBDA v, h : IF v = u /\ h = g THEN l ELSE RoleOf(v, h))
    /\ UNCHANGED <<roster, shifted>>

Membership ==
    \E g \in Groups :
        \/ \E u \in Members : Leave(g, u) \/ \E l \in Levels : Join(g, u, l)
        \/ \E u \in Users, l \in Levels : Regrade(g, u, l)

-----------------------------------------------------------------------------
(* The discovery of a scope: configure_scope and group_role. *)

Now(u) == [g \in Groups |-> {RoleOf(u, g)}]

\* A thread begins to work for user u and asks who answers at Bitrix24.
Start(a, u, kind, target) ==
    /\ act[a].pc = "idle"
    /\ act' = [act EXCEPT ![a] = [Idle EXCEPT !.pc = "identity", !.user = u,
                                      !.kind = kind, !.target = target]]
    /\ held' = [held EXCEPT ![a] = Now(u)]
    /\ shifted' = [shifted EXCEPT ![a] = {}]
    /\ Begin(a)

\* user.current has answered: the projects with a group are read.
KnowIdentity(a) ==
    /\ act[a].pc = "identity"
    /\ Answered(a)
    /\ act' = [act EXCEPT ![a].pc = "groups",
                          ![a].todo = {p \in Projects : project[p] # None},
                          ![a].known = {p \in Projects : project[p] # None}]
    /\ UNCHANGED <<dataVars, teamVars, held, shifted, requests, failures>>

\* The members of the next project's group are asked for.
AskGroup(a, p) ==
    /\ act[a].pc = "groups" /\ act[a].current = None
    /\ p \in act[a].todo
    /\ Begin(a)
    /\ act' = [act EXCEPT ![a].current = p, ![a].found = "none"]
    /\ UNCHANGED <<dataVars, teamVars, held, shifted, requests, failures>>

Asking(a) == act[a].pc = "guard" \/ act[a].current # None

GroupAsked(a) == IF act[a].pc = "guard" THEN act[a].target
                                        ELSE project[act[a].current]

\* The entries of the page that starts where the request says.
Page(a) ==
    LET g == GroupAsked(a)
        first == call[a].start + 1
    IN  SubSeq(roster[g], first,
               IF first + PageSize - 1 < Len(roster[g])
               THEN first + PageSize - 1 ELSE Len(roster[g]))

\* The user's role in the first entry of the user, on this page or before it.
Found(a) ==
    IF act[a].found # "none" \/ ~Contains(Page(a), act[a].user)
    THEN act[a].found ELSE level[GroupAsked(a)][act[a].user]

LastPageReached(a) == call[a].start + PageSize >= Len(roster[GroupAsked(a)])

ReadPage(a) ==
    /\ Asking(a)
    /\ ~LastPageReached(a)
    /\ FurtherPage(a, call[a].start + PageSize)
    /\ act' = [act EXCEPT ![a].found = Found(a)]
    /\ UNCHANGED <<dataVars, teamVars, held, shifted, requests, failures>>

\* A portal that announces again a page it has announced before.
ReadRepeatedPage(a) ==
    /\ Asking(a)
    /\ \E next \in call[a].seen : FurtherPage(a, next)
    /\ act' = [act EXCEPT ![a].found = Found(a)]
    /\ UNCHANGED <<dataVars, teamVars, held, shifted, requests, failures>>

\* The list of a project's group is complete.
KnowRole(a) ==
    LET p == act[a].current
        r == Found(a)
    IN  /\ act[a].pc = "groups" /\ p # None
        /\ LastPageReached(a)
        /\ LastPage(a)
        /\ act' = [act EXCEPT ![a].current = None, ![a].todo = @ \ {p},
               ![a].roles = [@ EXCEPT ![project[p]] = r],
               ![a].read = IF r \in Readers THEN @ \cup {p} ELSE @,
               ![a].write = IF r \in Writers THEN @ \cup {p} ELSE @]
        /\ UNCHANGED <<dataVars, teamVars, held, shifted, requests, failures>>

\* The scope is in the session: a worker goes on, a request is authorized.
ScopeKnown(a) == act[a].pc = "groups" /\ act[a].todo = {} /\ act[a].current = None

-----------------------------------------------------------------------------
(* Requests. *)

Permissions == {"create", "edit", "approve", "publish", "delete"}

RolePermissions(r) ==
    CASE r = "administrator" -> Permissions
      [] r = "author"        -> {"create", "edit"}
      [] r = "editor"        -> {"edit"}
      [] r = "approver"      -> {"approve", "publish"}
      [] r = "observer"      -> {}

\* The permission _authorize_request wants for a kind of request; pages and
\* files that are only read want none.
Wanted(kind) ==
    CASE kind = "enqueue" -> {"publish"}
      [] kind \in {"create", "project"} -> {"create"}
      [] kind = "edit" -> {"edit"}
      [] kind \in {"view", "export", "download"} -> {}

FreeProjects == {p \in Projects : project[p] = None}
FreeProtocols == {d \in Protocols : protocol[d].project = None}
FreeReports == {r \in Reports : report[r] = None}

\* What a request of each kind names.
Targets(kind) ==
    CASE kind \in {"view", "edit", "enqueue"} -> Protocols \ FreeProtocols
      [] kind = "create" -> Projects \ FreeProjects
      [] kind = "project" -> Groups
      [] kind = "export" -> {None}
      [] kind = "download" -> Reports \ FreeReports

Request(a, u, kind) ==
    /\ a \in Web
    /\ requests < MaxRequests
    /\ requests' = requests + 1
    /\ \E target \in Targets(kind) : Start(a, u, kind, target)
    /\ UNCHANGED <<dataVars, teamVars, failures>>

\* The role comes with the request; without the permission it is refused.
Authorize(a, r) ==
    /\ a \in Web
    /\ ScopeKnown(a)
    /\ act' = [act EXCEPT ![a].pc =
                   IF Wanted(act[a].kind) \subseteq RolePermissions(r)
                   THEN "ready" ELSE "answered"]
    /\ UNCHANGED <<gatewayVars, dataVars, teamVars, held, shifted,
                   requests, failures>>

Answer(a, shown) ==
    act' = [act EXCEPT ![a].pc = "answered", ![a].shown = shown]

View(a) ==
    LET p == protocol[act[a].target].project
    IN  /\ act[a].pc = "ready" /\ act[a].kind = "view"
        /\ Answer(a, {p} \cap act[a].read)
        /\ UNCHANGED <<gatewayVars, dataVars, teamVars, held, shifted,
                       requests, failures>>

\* protect_mutation: the protocol's project must be in the write scope.
MayWrite(a, p) == p \in act[a].write

Edit(a) ==
    LET d == act[a].target
    IN  /\ act[a].pc = "ready" /\ act[a].kind = "edit"
        /\ protocol' = IF MayWrite(a, protocol[d].project)
                       THEN [protocol EXCEPT ![d].version = @ + 1]
                       ELSE protocol
        /\ Answer(a, {})
        /\ UNCHANGED <<gatewayVars, project, report, jobs, teamVars, held,
                       shifted, requests, failures>>

\* The new row is accepted by guard_writes when its project may be written.
CreateProtocol(a) ==
    LET p == act[a].target
    IN  /\ act[a].pc = "ready" /\ act[a].kind = "create"
        /\ IF MayWrite(a, p) /\ FreeProtocols # {}
           THEN \E d \in FreeProtocols :
                    protocol' = [protocol EXCEPT ![d].project = p]
           ELSE protocol' = protocol
        /\ Answer(a, {})
        /\ UNCHANGED <<gatewayVars, project, report, jobs, teamVars, held,
                       shifted, requests, failures>>

\* A new project is judged by the role in its group, asked for once more when
\* no project of that group gave one.
AskNewGroup(a) ==
    /\ act[a].pc = "ready" /\ act[a].kind = "project"
    /\ act[a].roles[act[a].target] = "none"
    /\ Begin(a)
    /\ act' = [act EXCEPT ![a].pc = "guard", ![a].found = "none"]
    /\ UNCHANGED <<dataVars, teamVars, held, shifted, requests, failures>>

InsertProject(a, r) ==
    /\ IF r \in Writers /\ FreeProjects # {}
       THEN \E p \in FreeProjects :
                project' = [project EXCEPT ![p] = act[a].target]
       ELSE project' = project
    /\ Answer(a, {})
    /\ UNCHANGED <<protocol, report, jobs, teamVars, held, shifted,
                   requests, failures>>

CreateProject(a) ==
    \/ /\ act[a].pc = "ready" /\ act[a].kind = "project"
       /\ act[a].roles[act[a].target] # "none"
       /\ InsertProject(a, act[a].roles[act[a].target])
       /\ UNCHANGED gatewayVars
    \/ /\ act[a].pc = "guard"
       /\ LastPageReached(a)
       /\ LastPage(a)
       /\ InsertProject(a, Found(a))

\* A report is written from what the session may read, and the row keeps the
\* scope it was made with.
Export(a) ==
    /\ act[a].pc = "ready" /\ act[a].kind = "export"
    /\ IF FreeReports # {}
       THEN \E r \in FreeReports :
                report' = [report EXCEPT ![r] =
                              [user |-> act[a].user, ids |-> act[a].read]]
       ELSE report' = report
    /\ Answer(a, act[a].read)
    /\ UNCHANGED <<gatewayVars, project, protocol, jobs, teamVars, held,
                   shifted, requests, failures>>

\* The definitions named "...Bug" are the one that follows them with a plausible
\* mistake; nothing uses them but the checks that a property notices the mistake.
\* Here: the projects of the report are not compared with the present scope.
MayDownloadBug(a, r) == report[r].user = act[a].user

\* The row is its user's, and the projects it was made from may still be read.
MayDownload(a, r) ==
    report[r].user = act[a].user /\ report[r].ids \subseteq act[a].read

Download(a) ==
    LET r == act[a].target
    IN  /\ act[a].pc = "ready" /\ act[a].kind = "download"
        /\ Answer(a, IF MayDownload(a, r) THEN report[r].ids ELSE {})
        /\ UNCHANGED <<gatewayVars, dataVars, teamVars, held, shifted,
                       requests, failures>>

Active(j) == jobs[j].status \in {"pending", "running"}
ActiveJobs == {j \in DOMAIN jobs : Active(j)}

\* The publication of a protocol is queued for the user who asks for it.
Enqueue(a) ==
    LET d == act[a].target
    IN  /\ act[a].pc = "ready" /\ act[a].kind = "enqueue"
        /\ IF MayWrite(a, protocol[d].project)
           THEN /\ protocol' = [protocol EXCEPT ![d].version = @ + 1]
                /\ jobs' = IF \E j \in ActiveJobs : jobs[j].protocol = d
                           THEN jobs
                           ELSE Append(jobs, [protocol |-> d,
                                              user |-> act[a].user,
                                              status |-> "pending"])
           ELSE UNCHANGED <<protocol, jobs>>
        /\ Answer(a, {})
        /\ UNCHANGED <<gatewayVars, project, report, teamVars, held, shifted,
                       requests, failures>>

Forget(a) ==
    /\ act' = [act EXCEPT ![a] = Idle]
    /\ held' = [held EXCEPT ![a] = [g \in Groups |-> {}]]
    /\ shifted' = [shifted EXCEPT ![a] = {}]

Finish(a) ==
    /\ act[a].pc = "answered"
    /\ Forget(a)
    /\ UNCHANGED <<gatewayVars, dataVars, teamVars, requests, failures>>

-----------------------------------------------------------------------------
(* The worker. *)

\* The oldest unfinished job becomes running and its requester's scope is asked
\* for anew.
TakeJob(a, j) ==
    /\ a \in Workers
    /\ j \in ActiveJobs /\ \A i \in ActiveJobs : j <= i
    /\ jobs' = [jobs EXCEPT ![j].status = "running"]
    /\ Start(a, jobs[j].user, "job", j)
    /\ UNCHANGED <<project, protocol, report, teamVars, requests, failures>>

\* Here: the scope found when the job was queued is taken as good.
RunJobBug(a) ==
    /\ a \in Workers
    /\ ScopeKnown(a)
    /\ protocol' = [protocol EXCEPT ![jobs[act[a].target].protocol].version = @ + 1]
    /\ act' = [act EXCEPT ![a].pc = "settle", ![a].result = "done"]
    /\ UNCHANGED <<gatewayVars, project, report, jobs, teamVars, held,
                   shifted, requests, failures>>

\* A job is performed only when its protocol is in the scope found now.
RunJob(a) ==
    LET d == jobs[act[a].target].protocol
        allowed == MayWrite(a, protocol[d].project)
    IN  /\ a \in Workers
        /\ ScopeKnown(a)
        /\ protocol' = IF allowed THEN [protocol EXCEPT ![d].version = @ + 1]
                                  ELSE protocol
        /\ act' = [act EXCEPT ![a].pc = "settle",
                       ![a].result = IF allowed THEN "done" ELSE "failed"]
        /\ UNCHANGED <<gatewayVars, project, report, jobs, teamVars, held,
                       shifted, requests, failures>>

\* Here: the session still filters by the requester's projects, so that the row of a
\* job whose protocol was lost is not found and the worker's loop goes on.
SettleBug(a) ==
    LET j == act[a].target
    IN  /\ act[a].pc = "settle"
        /\ jobs' = IF protocol[jobs[j].protocol].project \in act[a].read
                   THEN [jobs EXCEPT ![j].status = act[a].result] ELSE jobs
        /\ Forget(a)
        /\ UNCHANGED <<gatewayVars, project, protocol, report, teamVars,
                       requests, failures>>

\* The scope is dropped from the session and the job's status written.
Settle(a) ==
    LET j == act[a].target
    IN  /\ act[a].pc = "settle"
        /\ jobs' = [jobs EXCEPT ![j].status = act[a].result]
        /\ Forget(a)
        /\ UNCHANGED <<gatewayVars, project, protocol, report, teamVars,
                       requests, failures>>

-----------------------------------------------------------------------------
(* Failures of Bitrix24 and of the program. *)

MethodOf(a) == IF act[a].pc = "identity" THEN "user.current"
                                         ELSE "sonet_group.user.get"

CountFailure ==
    /\ failures < MaxFailures
    /\ failures' = failures + 1
    /\ UNCHANGED <<dataVars, teamVars, act, held, shifted, requests>>

AttemptFails(a) ==
    CountFailure /\ (PassingFailure(a, MethodOf(a)) \/ LastingFailure(a))

\* Here: the groups that could not be asked are left out of the scope.
DenyBug(a) ==
    /\ TakeFailure(a)
    /\ act' = [act EXCEPT ![a] =
                   IF @.pc = "groups" THEN [@ EXCEPT !.current = None, !.todo = {}]
                   ELSE [@ EXCEPT !.pc = IF a \in Web THEN "answered" ELSE "settle",
                                  !.result = "failed"]]
    /\ UNCHANGED <<dataVars, teamVars, held, shifted, requests, failures>>

\* Any failure of the discovery closes the access: the request is answered with
\* an error, the job fails.
Deny(a) ==
    /\ TakeFailure(a)
    /\ act' = [act EXCEPT ![a] = [@ EXCEPT
                   !.pc = IF a \in Web THEN "answered" ELSE "settle",
                   !.current = None, !.todo = {}, !.result = "failed"]]
    /\ UNCHANGED <<dataVars, teamVars, held, shifted, requests, failures>>

Crash(a) ==
    /\ act[a].pc # "idle"
    /\ failures < MaxFailures
    /\ failures' = failures + 1
    /\ GatewayDies(a)
    /\ Forget(a)
    /\ UNCHANGED <<dataVars, teamVars, requests>>

-----------------------------------------------------------------------------
\* The steps of RestGateway between two answers.
Waiting(a) ==
    /\ TrySlot(a) \/ SendAgain(a)
    /\ UNCHANGED <<dataVars, teamVars, act, held, shifted, requests, failures>>

Discovery(a) ==
    \/ KnowIdentity(a)
    \/ \E p \in Projects : AskGroup(a, p)
    \/ ReadPage(a) \/ KnowRole(a) \/ Deny(a)

WebStep(a) ==
    \/ \E r \in {"administrator", "author", "editor", "approver", "observer"} :
           Authorize(a, r)
    \/ View(a) \/ Edit(a) \/ CreateProtocol(a) \/ AskNewGroup(a)
    \/ CreateProject(a) \/ Export(a) \/ Download(a) \/ Enqueue(a) \/ Finish(a)

WorkerStep(a) == (\E j \in DOMAIN jobs : TakeJob(a, j)) \/ RunJob(a) \/ Settle(a)

Step(a) == Waiting(a) \/ Discovery(a) \/ WebStep(a) \/ WorkerStep(a)

Init ==
    /\ GatewayInit
    /\ roster = Roster0 /\ level = Level0 /\ project = Project0
    /\ protocol = [d \in Protocols |-> [project |-> Protocol0[d], version |-> 0]]
    /\ report = [r \in Reports |-> None]
    /\ jobs = <<>>
    /\ act = [a \in Callers |-> Idle]
    /\ held = [a \in Callers |-> [g \in Groups |-> {}]]
    /\ shifted = [a \in Callers |-> {}]
    /\ requests = 0 /\ changes = 0 /\ failures = 0

Next ==
    \/ Membership
    \/ \E a \in Callers :
           \/ \E u \in Users, kind \in Kinds : Request(a, u, kind)
           \/ Step(a)
           \/ ReadRepeatedPage(a) \/ AttemptFails(a) \/ Crash(a)

\* The threads of the program run on: a call ends by its timeout, sleeps end and
\* the worker's loop takes the next job.  Bitrix24, people and failures owe
\* nothing.
Spec == Init /\ [][Next]_vars /\ \A a \in Callers : WF_vars(Step(a))

-----------------------------------------------------------------------------
(* Properties. *)

\* The roles that user had in project p's group at some moment since a began.
HeldIn(a, p) == held[a][project[p]]

\* Every row of a protocol that is created or changed, by a request or by a job
\* that waited in the queue, belongs to a project its user could write at some
\* moment since that request or that run of the job began, never only at the
\* moment the job was queued (project_access.py:88-112, concurrency.py:32,
\* jobs.py:42-45).
WritesAreEarned ==
    [][\A d \in Protocols : protocol'[d] # protocol[d] =>
           \E a \in Callers :
               /\ act'[a] # act[a]
               /\ HeldIn(a, protocol'[d].project) \cap Writers # {}]_vars

\* What a request shows, an archived report included, comes from projects its
\* user could read at some moment since the request began: a report made with
\* wider rights is not a way around the present ones (main.py:430-433).
ShownIsReadable ==
    \A a \in Callers : \A p \in act[a].shown : HeldIn(a, p) \cap Readers # {}

\* A scope that was not refused is complete: a project the user could read all
\* the time is in it, so that no report silently lacks one.  A project created
\* later may be missing, and so may one whose group somebody left meanwhile,
\* because the pages of its list then move (project_access.py:27-38,
\* gateway.py:205-217).
ScopeIsComplete ==
    \A a \in Callers : ScopeKnown(a) =>
        \A p \in Projects \ act[a].read :
            project[p] # None =>
                \/ ~(HeldIn(a, p) \subseteq Readers)
                \/ project[p] \in shifted[a]
                \/ p \notin act[a].known

\* Every queued job gets a final status, also when its requester lost the
\* protocol or Bitrix24 cannot be asked: the filter of the requester's scope
\* does not hide the job from the worker that must settle it (jobs.py:61-66).
JobsSettle ==
    \A j \in 1 .. MaxRequests :
        (j \in DOMAIN jobs /\ Active(j)) ~> (j \in DOMAIN jobs /\ ~Active(j))
-----------------------------------------------------------------------------
(* The inductive invariant behind the safety properties. *)

AnyRole == Levels \cup {"none"}

Acts ==
    [pc : {"idle", "identity", "groups", "ready", "guard", "answered", "settle"},
     user : Users \cup {None},
     kind : Kinds \cup {"job", None},
     target : Protocols \cup Projects \cup Reports \cup Groups \cup {None} \cup Nat,
     known : SUBSET Projects, todo : SUBSET Projects, current : Projects \cup {None},
     found : AnyRole, read : SUBSET Projects, write : SUBSET Projects,
     roles : [Groups -> AnyRole], shown : SUBSET Projects,
     result : {"done", "failed", None}]

TypeOK ==
    /\ GatewayType
    /\ roster \in [Groups -> Seq(Members)]
    /\ \A g \in Groups : IsInjective(roster[g])
    /\ level \in [Groups -> [Users -> Levels]]
    /\ project \in [Projects -> Groups \cup {None}]
    /\ protocol \in [Protocols -> [project : Projects \cup {None}, version : Nat]]
    /\ report \in [Reports -> [user : Users, ids : SUBSET Projects] \cup {None}]
    /\ jobs \in Seq([protocol : Protocols, user : Users, status : JobStatuses])
    /\ act \in [Callers -> Acts]
    /\ held \in [Callers -> [Groups -> SUBSET AnyRole]]
    /\ shifted \in [Callers -> SUBSET Groups]

\* What a thread that is doing nothing remembers, and whose a busy one is.
Orderly(r) ==
    /\ r.pc = "idle" => r = Idle
    /\ r.pc # "idle" => /\ r.user \in Users
                        /\ r.kind = "project" => r.target \in Groups
                        /\ r.kind = "enqueue" => r.target \in Protocols
    /\ r.pc = "guard" => r.target \in Groups
    /\ r.pc = "settle" => r.result \in {"done", "failed"}
    /\ r.current # None => r.pc = "groups"
    /\ r.shown \subseteq r.read

ActInv == \A a \in Callers : Orderly(act[a])

\* Only the discovery calls Bitrix24.
CallInv ==
    \A a \in Callers : call[a].pc # "idle" => act[a].pc = "identity" \/ Asking(a)

\* The projects a thread knows of have a group, and stay.
KnownInv ==
    \A a \in Callers :
        \A p \in act[a].known \cup act[a].todo \cup act[a].read \cup act[a].write
                  \cup ({act[a].current} \ {None}) : project[p] # None

\* The history has every role of the busy users up to now, and what was found.
HeldInv ==
    \A a \in Callers : act[a].pc # "idle" =>
        /\ \A g \in Groups : RoleOf(act[a].user, g) \in held[a][g]
        /\ act[a].current # None /\ act[a].found # "none" =>
               act[a].found \in HeldIn(a, act[a].current)

\* Rights were found, not made up.
EarnedInv ==
    \A a \in Callers :
        /\ \A p \in act[a].read : HeldIn(a, p) \cap Readers # {}
        /\ \A p \in act[a].write : HeldIn(a, p) \cap Writers # {}

\* As long as nobody left, the part of a list that was read without finding the
\* user does not have the user.
ListInv ==
    \A a \in Callers :
        LET g == project[act[a].current]
        IN  act[a].current # None /\ act[a].found = "none" /\ g \notin shifted[a] =>
                /\ call[a].start <= Len(roster[g])
                /\ \A n \in 1 .. call[a].start : roster[g][n] # act[a].user

\* A project that was asked for and is not in the scope is not there for a reason.
CompleteInv ==
    \A a \in Callers : act[a].pc = "groups" =>
        \A p \in act[a].known \ (act[a].todo \cup act[a].read) :
            ~(HeldIn(a, p) \subseteq Readers) \/ project[p] \in shifted[a]

IInv ==
    /\ TypeOK /\ NoSlotLeaks /\ ActInv /\ CallInv /\ KnownInv /\ HeldInv /\ EarnedInv
    /\ ListInv /\ CompleteInv
=============================================================================
