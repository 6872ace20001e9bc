# Protokoly: a TLA+ verification project

Protokoly is a FastAPI application (Python, SQLAlchemy, server-rendered pages) in
which meeting protocols are imported or written, edited by several people, approved,
and published: every instruction of an approved protocol becomes one task per
responsible in Bitrix24, a service outside the repository. This directory holds
TLA+ modules of the parts in which order, concurrency and failure matter, the TLC
runs that check them, and TLAPS proofs of their main properties.

Paths below are relative to the repository (`app/...` is listed as `src/app/...`
in `PROJECT.json`).

## 1. Inventory

### 1.1 How the parts meet

```
 browser pages  --fetch + X-Protocol-Version-->  protect_mutation  -->  handlers  -->  database
 (static/js)    <--answer, new version, 409--    (operation lock,       (editor, groups,   ^
                                                  compare-and-swap)      workflow, import)  |
                                                                             | enqueue      |
                                                  Bitrix24  <--REST--  publication / sync --+
                                                                             ^
                                               worker process --run_next-----+
```

Shared state is the database (SQLite or PostgreSQL), and the advisory locks of
`core/locks.py`, which are taken without waiting: `protocol:{id}` for every change of a
document and every publication, `queue:{id}` for enqueueing, `integration-worker` for the
worker. Bitrix24 shares nothing: it may carry out a request whose client has given up.

### 1.2 Components

| Component | State it keeps | Operations | Correct when | Hard because | Module |
|---|---|---|---|---|---|
| Publication (`services/tasks/publication.py`) | `integration_operations`, `protocol_task_links`, `Protocol.status` | publish: per row find or create the task, link it, declare the protocol published | one task per key; nothing created before approval; the database knows what may exist | commits between remote effects; timeouts with late effects; crashes; two threads; other requests between the reads and the lock | `TaskPublication`, `ExternalTasks` |
| Bitrix24 gateway (`services/tasks/gateway.py`) | request slots | tasks.task.add (once), reads with retries, pages | creation is never repeated; a slot is never lost; a portal cannot keep the reader for ever | timeouts, rejected against unknown; slots shared by all processes | `RestGateway`; creation and search in `TaskPublication` |
| Reconciliation (`main.py`, reconcile_integration_link) | links | attach an existing link to another position | links stay sound | races with edits and runs | `TaskPublication` |
| Integration queue, worker (`services/tasks/jobs.py`) | `integration_jobs` | enqueue, run_next | one active job per protocol, one runner, every job ends | crash between commits, three locks, requests during settlement; the requester's scope | `IntegrationJobs`, `ProjectAccess` |
| Synchronisation (`services/tasks/sync.py`) | statuses of instructions, `Protocol.version` | sync | statuses follow Bitrix24 | works on rows read before the lock | statuses in `ProtocolWorkflow`, version in `DocumentVersion` |
| Versioned mutations (`services/concurrency.py`, `static/js/concurrency.js`) | `Protocol.version`, `<meta name="protocol-version">` | protect_mutation; fetch wrapper | no silent overwrite; a page never claims more than it shows | stale pages, late requests, worker commits in between | `DocumentVersion` |
| Request dependencies (`db/session.py`, `services/auth.py`) | open transaction, locks of a request | get_db, roles | undone together | teardown after the answer left | `DocumentVersion`, `ProjectAccess` |
| Whole-document save (`web/routes/editor.py`) | sections, instructions | save_protocol_editor | all or nothing | many flushes in one transaction | `DocumentVersion` (the text as a set of edits), `TaskTree` (row by row), `Participants` |
| Operation locks (`core/locks.py`) | holder | operation_lock | exclusive, freed with its process | PostgreSQL lock on a connection of its own | `TaskPublication`, `DocumentVersion`, `IntegrationJobs`, `RestGateway` |
| Protocol workflow (`services/protocols/governance.py`, `main.py` workflow route) | `Protocol.status`, document versions | transition, next version | only declared transitions; unique version numbers | written from a stale row | `ProtocolWorkflow` (statuses) |
| Execution control (`services/protocols/control.py`) | control rows, `ProtocolTask.status`, `Protocol.status` | update_control, change_status, completion | the two statuses agree; completed means all done | three writers of two fields | `ProtocolWorkflow`, `Reporting` |
| Instruction operations (`services/protocols/editor.py`) | instructions, parents, order | create, duplicate, delete, move, bulk | forest of living parents; the responsible is an assignee | several instructions in one save, a refusal in the middle | `TaskTree`, `Participants`; creation, copies and deletion also in `ProtocolWorkflow` and `TaskPublication` |
| Participant groups (`services/protocols/participants.py`) | groups, members, selections | select, expand, refresh, template | expansion agrees with hand-picked people | expansion at publication time, rows of three origins | `Participants` |
| Task planning, validation (`services/task_planning`, `services/validation`) | none | build_plan, validate | one task per assignee, none for an instruction with links | equal responsibles, errors that block a whole plan | `TaskPlanning`; keys in `TaskPublication`, rules on assignees in `Participants` |
| Demonstration publication (`services/demo_publication.py`) | runs, items, `bitrix_task_links` | run_publication, retry_failed | nobody gets two tasks, reports agree with links | partial failure; the retry takes no lock | `DemoPublication` |
| Import sessions (`services/imports/service.py`) | session rows and files | upload, update, reparse, confirm, cancel, expire | one protocol per session | no lock, no version; stale copies; files outside the transaction | `ImportSessions`; assignments in `Participants`; what is recognised in `DocumentParsing` |
| DOCX parsers (`parsers/`) | the state of two line scanners | choose, parse, extract_attendees | no line of a МЕМО lost or taken twice; a number opens an instruction | branches that look at the next line; two scanners over one document | `DocumentParsing` |
| Project access (`services/project_access.py`) | scope of a database session | configure_scope, scope_queries, guard_writes | nobody reads or writes outside the projects of the user; no project is left out in silence | many calls for one scope, while people join and leave; jobs and reports of earlier rights | `ProjectAccess` |
| Employee directory (`services/employees`) | employees | synchronise | nobody referenced disappears | runs during publication | its effect on a plan in `TaskPublication` |
| Reporting (`services/reporting`) | none | build, drill-downs | numbers agree with the lists behind them; "overdue" means one thing | filter before folding; three fields and two definitions | `Reporting` |
| Editor pages (`static/js/protocol-editor.js` and others) | drafts, queues | autosave | a draft is not lost | timers and answers | not modelled; their requests in `DocumentVersion` |
| Presence, export, wizard and settings, secrets, command line | - | pages, forms, formatting | - | no shared behaviour beyond one insert or read | not modelled, but for the lists the wizard writes (`Participants`) and the sweep of imports (`ImportSessions`) |

Every component, with its sources and what is left out of it, is also listed in
`PROJECT.json` under "components"; everything that is hard to test, at its line, under
"hazards".

## 2. Plan

The order follows what a mistake costs: a second task in Bitrix24 cannot be taken back,
a lost edit or a lost request is noticed late, a wrong status is visible.

1. `TaskPublication` with the abstract `ExternalTasks`; `DocumentVersion`;
   `IntegrationJobs`; `Participants`; `TaskTree`; `ProtocolWorkflow`; `ImportSessions`;
   their proofs. Done.
2. `TaskPlanning` with `DemoPublication` (runs and their retry); `RestGateway` with
   `ProjectAccess` (who may read and write where, while membership changes); `Reporting`
   over `ProtocolWorkflow`; `DocumentParsing`. Done.
   The proofs of `ProjectAccess`. Done.
3. Proofs about `DemoPublication`, `Reporting` and `DocumentParsing`: every safety property of
   a run is now a theorem. Done.
4. Next: the hazards of `PROJECT.json` without a property, first of all the kinds of jobs
   (jobs.py:21) and a lock that is lost under its holder (locks.py:29).

Compositions:

* `TaskPublication` implements `ExternalTasks` through `INSTANCE ExternalTasks WITH ...`
  (checked and proved).
* `ProjectAccess` EXTENDS `RestGateway`, which has no specification of its own: each action
  of a caller conjoins an action of the gateway with what the caller does with the answer.
* `Participants` and `TaskPlanning` EXTEND `Directory`, which declares the people both
  speak of (employees and names that match none), so that one module can hold the proofs of
  both.
* `DemoPublication` EXTENDS `TaskPlanning`, and `Reporting` EXTENDS `ProtocolWorkflow`: the
  pure operators are evaluated on the states that the actions reach.
* `IntegrationJobs` treats publish as one locked operation, which is what `TaskPublication`
  details (LockInv: one holder for the whole run). `DocumentVersion` takes the same lock from
  both sides; it is what makes the requests of `Participants`, `TaskTree` and
  `ProtocolWorkflow` atomic.
* `TaskTree` and `Participants` supply the plan that `TaskPublication` takes as given: an
  order of rows in which parents come first, and one row per responsible.
* `ProtocolWorkflow` takes a publication run as one step, or as one that got to some of the
  instructions; that is what `TaskPublication` says of a run as seen by whoever waits for its
  lock.

## 3. Modules and code

Every definition that stands for code is in `PROJECT.json` "map" with its lines.
Operators named `...Bug` are the following definition with a plausible mistake. Nothing
in a specification uses them; each property of a run is shown to notice one of them.

### 3.1 TaskPublication

One protocol. `Keys` are publication keys of instructions, `Root` the key of the
protocol's own root task. `op[k]` and `link[k]` are the rows of
`integration_operations` and `protocol_task_links`; `rootOp` and `rootLink` the
instruction that Root's rows name, because they are deleted with it. `Procs` are the
threads that publish (request threads if the queue is disabled, the worker, restarted
workers); `pc`, `seen`, `rows`, `todo`, `cur`, `reply` are what a thread holds in
memory. `remote` and `inflight` are Bitrix24.

| Action | Code |
|---|---|
| `Load`, `Start` | the row is read before the lock; checks of `_publish`, plan, comparison with the links |
| `Reuse`, `FindExisting`, `Intend`, `Claim`, `Send`, `Record` | the loop, one action per commit or remote call |
| `CreateUnknown`, `CreateRejected`, `Stop` | every way out of the loop, a crash included |
| `Finish` | the status is written if the loaded object had another one |
| `RemoteCreate`, `RemoteReject`, `RemoteLose` | Bitrix24 decides late, or never (external) |
| `ChangePlan`, `DeleteTask`, `Reconcile`, `Workflow` | other requests, which hold the lock for their whole duration, so that each is one step |

External assumptions: a search by XML_ID finds every task that exists (`Holding`);
Bitrix24 carries out one request at most once; identifiers of instructions are not
reused; links without a publication key exist only in the initial database and were not
created under a key of this protocol. Abstracted: the payload of a task, `update_task` of
linked rows (it writes no local state publication reads), time.

### 3.2 DocumentVersion

`content` is the set of edits in the committed document. `Edit` is a fetch of the
page, `Refuse`/`Accept` are protect_mutation, `Commit`/`Fail` the handler,
`Release` the teardown after the answer. Rendering a page is two reads (`OpenRow`,
`OpenText`), since it holds no lock. A save writes every field the page shows, so
`content' = handling.text`. The claim `UPDATE ... SET version = version + 1 WHERE
version = ...` is part of an open transaction; it becomes visible in `Commit`.
`WorkerLoad`/`WorkerLock`/`WorkerCommit` are publish and sync as seen by the version;
the history variable `stale` says that a worker has written a number that follows an
older one than the document had. That is the one way to lose an edit, and the properties
say so: everything holds until then, with any number of workers.

### 3.3 IntegrationJobs

`Admit` is protect_mutation; `ReturnExisting`, `FindNone`, `Insert`, `CommitJob` are
enqueue, flush and commit apart; `Leave` ends a request in every step, before its commit
too. `Take`, `Refuse`, `Begin`, `Perform`, `Break`, `Settle` are the commits of
run_next; `Crash` frees locks and forgets the worker's memory, the row stays "running".
`performed` and `owed` are history: the jobs carried out, and the protocols of which a
request was accepted that nobody has acted on yet.

### 3.4 Participants

One instruction. `rows` are its assignments, a row names an employee (or none, for a name
of an import that was not resolved), the list it comes from and the imported name;
`chosen` are the lists the instruction is assigned to as a whole; `members` and `lists`
are the participant lists of the protocol; `handed` the employees with a published link.

| Action | Code |
|---|---|
| `Init` | rows of the wizard (a list copied without being chosen) or of an import |
| `EditorSave`, `CardSave`, `BulkAssign`, `BulkOther`, `MatchAssignee` | apply_task_data as each page calls it, and match_source_name |
| `CreateList`, `ReplaceMembers`, `AddManualMember`, `CopyAttendees`, `RemoveList` | the participant-groups routes |
| `Publish` | protocol_plan with its refresh, the rules on assignees, the comparison with existing links, and as many links as the run gets to |

`Expansions` is expand_selected_groups: a set of results, because the order of lists and
rows is left out. Abstracted: the remaining fields of an instruction, templates (a source
of members), the mode of an instruction (which changes publication keys).

### 3.5 TaskTree

`parent` and `split` are parent_task_id and create_as_subtasks. A save of the page is
`BeginSave`, one `TakeRow` per row in any order, and possibly `RefuseRow`, which rolls
back to `before`; rows are steps of their own because each is checked against the tree
the rows before it left in the session. `Chain` is the walk of apply_task_data, written
as the least set closed under `parent`, so that it also has a value if the parents were
cyclic; `Depth` is the number by which publication sorts.

### 3.6 ImportSessions

`row[s]` is the committed row of a session, `file` the sessions whose stored DOCX exists,
`protocols` what was created from them. The routes take no lock and compare no version
(their paths name no protocol), so a request is at least two steps: `Read` copies the row,
a later step commits the copy. SQLAlchemy writes the columns in which the copy differs from
what was read and no others; `Column` and `Saved` say that, and every property of the
module depends on it.

| Action | Code |
|---|---|
| `Upload`, `Parse`, `Insert` | create_preview_session: the file, recognition, one commit |
| `Read` | `db.get(ImportSession, ...)` of the four routes |
| `Update`, `Parse` and `Reparse`, `Cancel`, `Confirm` | update_session_payload, reparse_session, the cancel route, confirm_session |
| `Leave` | every refusal, an unreadable file, the death of the process |
| `SweepBegin`, `SweepFile`, `SweepCommit`, `SweepFail` | cleanup_expired_import_sessions: one query, files one by one, one commit |
| `Expire` | `expires_at` passes |

Abstracted: what is recognised (any payload with any outcome) and the rows of the new
protocol, which belong to the commit of `Confirm`. Assumed: one run of the script at a time.

### 3.7 ProtocolWorkflow

`status`, `task[t]` and `control[t]` are the columns Protocol.status, ProtocolTask.status
and ProtocolTaskControl.status; `linked` are the instructions with a link to Bitrix24;
`loaded` is the status in the object the worker read before it had the lock. Requests of
one protocol hold its lock and have claimed its version, so each is one step; the
worker is the only actor with an old copy.

| Action | Code |
|---|---|
| `Transition` | the workflow route and `TRANSITIONS` of governance |
| `CreateTask`, `DuplicateTask`, `DeleteTask` | the editor routes; a copy takes the control row along |
| `ChangeStatus` | change_status: ProtocolTask.status only |
| `UpdateControl` | update_control with _complete_protocol_if_ready |
| `PublishRequest`, `PublishBreaks`, `SyncRequest` | the routes without background jobs |
| `WorkerLoad`, `WorkerPublish`, `WorkerBreaks`, `WorkerSync`, `WorkerLeave` | run_next |

Abstracted: roles (taken as granted), validation (`PublishBreaks` with nothing reached, or
no step at all), dates, comments and history rows. Deadlines enter through the choice
of the status in `SyncRows`. mark_overdue and OverdueChecker have no caller and no action.

### 3.8 RestGateway and ProjectAccess

`slot` and `call` are the request slots (operation locks named `bitrix-rest-slot:{n}`) and what
each thread is doing with the gateway. `TrySlot` is one attempt to take one slot; `Rounds` is the
100 of the code, made small. A read is sent up to three times and keeps its slot during
the pause; `FurtherPage` is one turn of _list_all, `Repeats` its two guards.

`roster` and `level` are the groups in Bitrix24 (external: they change at any moment);
`project`, `protocol`, `report`, `jobs` are tables; `act[a]` is the thread with the scope in
its session (`read`, `write`, `roles`). `held[a][g]` is history: the roles the thread's user
had in g since the thread began, the only ones its decisions may rest on.

| Action | Code |
|---|---|
| `Request`, `Authorize`, `Finish` | authorize_request, _authorize_request, the end of get_db |
| `Start`, `KnowIdentity`, `AskGroup`, `ReadPage`, `ReadRepeatedPage`, `KnowRole` | configure_scope and group_role: user.current, then each project's group, page by page |
| `Deny`, `AttemptFails`, `Crash` | any failure closes the access; the death of a thread |
| `View`, `Export`, `Download` | scope_queries on what is read, and the check of an archived report |
| `Edit`, `CreateProtocol`, `AskNewGroup`, `CreateProject`, `Enqueue` | protect_mutation and guard_writes on what is written |
| `TakeJob`, `RunJob`, `Settle` | run_next with the scope of the job's requester, dropped before the job is settled |
| `Leave`, `Join`, `Regrade` | membership in Bitrix24 (external) |

Assumed of Bitrix24: a page shows the list as it is at that moment, from the place the
request names. Abstracted: the permission of a request is that of any role; rows other than
protocols, projects and reports are filtered in the same way; a request that edits is one step
once its scope is known (it holds the protocol's lock, `DocumentVersion`).

### 3.9 TaskPlanning and DemoPublication

`TaskPlanning` is build_plan as operators: its five errors, the unique assignments, the
root task, the keys `{task}:{row}:{type}`. In `DemoPublication`, `tasks[t]` holds the mode and
the assignment rows of an instruction, whose numbers matter because they are in the keys;
`links` are the demonstration links, `runs` the reports. A run is two steps, the plan
(`BeginPublish`, `BeginRetry`) and the commit (`Commit`), or it is abandoned. Publication holds
the protocol's lock, so no editor operation falls between its two steps; the retry's path
(`/publication-runs/{id}/retry-failed`) names no protocol, so anything may, and
`overlapped` notes when another run did. `SimulatedFailures` are the substrings of keys
that the page offers. Errors of one instruction stop the whole publication. `NumberedRows` and
`BindName` are the rows a refresh makes and match_source_name; the specification is `DemoSpec`,
its invariant `DemoInv`.

### 3.10 DocumentParsing

A document is a sequence of elements, a paragraph or a table row, and a line is what the
regular expressions tell of it: one of thirteen kinds, the value after its label, a date, and
whether its letters are capitals (`letters`); a paragraph also has a style (`styled`).
`Choose` is the registry with its confidences; `NoHeading` to `Report` are the branches of
MemoProtocolParser's loop in the order of the code, each a step with `Finish` (the function
finish) as the code calls it; `Skip` to `EndOfElements` are those of the universal parser;
`Attendees` is extract_attendees. `Filled`, `Normalized` and `Attendees` are recursive functions
over cells and elements (`upTo[k]` is what the loop holds after k turns). `Elements` says what
docx.py yields: a paragraph has one line, a row has cells, and one without any text is left
out. `Result` is the finished instructions with the open one behind them, `Passages` what the
МЕМО scanner has passed. The specification is `ParsingSpec`. Abstracted: the text, the title and
requisites of the document, the splitting of several names in one line; "more than three
characters" of a heading in capitals (protocol.py:412) is left to `letters`.

The two scanners differ in what they owe to a line. That of МЕМО documents puts each line
of the resolutions to one use, which is claimed (`EveryLineIsPlaced`); the lines it
rejects are in a list of its own, which a successful scan throws away (protocol.py:686), so
what is claimed of them is that they are service lines. The universal scanner keeps no such
list: a row of one cell, a row whose first cell contains "поруч", and an unnumbered paragraph at
the start, which gives the title, pass without a trace (`Drop`; `dropped` is a history
variable, not code). Nothing is claimed of the elements it drops but that no numbered one is
among them (`NumbersOpenTasks`). What is a section there depends on style and capitals only
(`Section`), not on the words.

### 3.11 Reporting

Operators over the states of `ProtocolWorkflow`: `Included` and `Weekly` (which instructions a
query takes), `ReportingStatus` (the state each is reported in), `LogicalKey` and
`MergedStatus` (copies 06.1/1, 06.1/2 and subtasks folded into one row), `Matches` (the
drill-downs), `Report` (filter first, fold then), and `ControlPageStatus`, the other
definition of "overdue". Dates and relations of instructions are a constant (`Layouts`).
Abstracted: groupings, dynamics, the texts of rows, archived scopes (`ProjectAccess`).

## 4. Runs

| Run | Question | Instance | Distinct states |
|---|---|---|---|
| publication_safety | Is a task created twice, an intent forgotten, a link shared, and does publication implement the ledger? | 2 threads, instructions 1 and 2 (2's task is a child of 1's) and Root, plans {Root, a, b} and {b}, 3 Bitrix24 identities | 487 858 |
| publication_liveness | Does every run end? | 2 threads, one instruction whose responsible changes, Root, one legacy link | 68 850 |
| version_safety | Are edits overwritten or lost before a worker has written an old number; does a claim hold until its commit? | 3 pages, 1 worker, 3 edits, a worker starts from versions up to 2 | 728 812 |
| jobs | One active job, truthful outcomes, no accepted request forgotten, and is every job settled? | 2 protocols, 2 requests, 2 workers, 3 jobs, 1 crash, no symmetry | 400 277 |
| participants_safety | Are hand-picked people kept, is the responsible an assignee, is the published plan fresh? | 2 employees, 3 lists, 1 imported name | 22 650 |
| tree_safety | Do parents stay a forest, published parents first, also after refused saves? | 4 instructions | 9 763 |
| imports_safety | Do stale copies undo a confirmation, is a protocol created twice, do files follow rows? | 1 session, 2 threads, a payload with instructions and one without, 3 protocols | 2 747 556 |
| workflow_safety | Is anything published before approval, do the statuses agree, is completion earned, and do reports show what the statuses say? | 2 instructions as copies or as parent and subtask, 1 worker, 4 days, a week of 2 | 62 044 |
| access | Is what is shown and written earned, is a scope complete, are slots and jobs never lost? | 1 request thread and 1 worker, 1 slot, 1 user and another member, 2 groups, 2 projects, pages of 1, 2 requests, 1 change of membership, 1 failure | 332 887 |
| demo | Does anybody get two tasks, do the reports agree with the links, does a retry create anything new? | 1 instruction, 2 employees, 1 unknown name, 1 group member, 2 clients, 3 runs, 4 rows | 582 445 |
| parsing | Is a line of a МЕМО lost or used twice, does a number open an instruction in either scanner, do attendees stay out of the resolutions, does every step move on, do the scanners end? | after the heading 3 lines of 12 kinds or 4 of 7; all sequences of 3 elements of 18 kinds; automatic choice or memo | 278 125 |
| version_lost_update | Does a worker make a save overwrite another? (violation) | 2 pages, 1 worker, 3 edits | - |

Why the bounds are enough. Every hazard of publication concerns one key and at most two
runs: an old request and the run that meets its remains. Two instructions are needed for
deletion of the one Root hangs on, a third identity for a second task of one key while
another key has its own. `Ext` also bounds the number of creations; a request
for which no identity is left stays in flight or is lost. `MaxEdits = 3` allows a page
that saved, a page that is stale, and a late request. Three jobs allow an absorbed
request, an oldest job and a job after it. Two employees on the attendees' list and two
others meet every case of `Expansions`: on no list, on one, on two, picked by hand or not.
Four instructions allow a circle of three closed by a fourth step. One session is
enough for `ImportSessions`, since no step relates two; two threads and the script give
every pair of copies, and a third protocol is one more than two overlapping confirmations
create. In `ProtocolWorkflow` every rule speaks of one instruction or of all of them;
two tell these apart and allow a copy, a subtask, and a report row folded of two. In
`ProjectAccess` a list of two pages is enough for a member to slip from one page to the
other while a role is looked for; one request and one worker compete for the only slot, and
one change of membership falls at every place between two calls of a scope. In
`DemoPublication` three runs give a publication that fails in part, its retry, and another
run beside it; four rows allow an instruction whose assignees were written anew. In
`DocumentParsing` no branch looks further than the next line, so that bodies of four lines show
every branch after every other with the state the one before left. The theorems hold
without these bounds.

`CHECK_DEADLOCK FALSE` is set where nothing may be left to do: in `DocumentVersion` when
`MaxEdits` requests were sent and every page is open, in `ProjectAccess` when no request
may be started, in `DemoPublication` when all runs and rows are used, in `DocumentParsing` at the end
of a document.

Symmetry: threads, identities, pages, workers, requests, protocols, employees, lists
but the attendees', sessions, clients and instructions are never compared but for equality; no
run of a liveness property uses it.

Fairness. `publication_liveness` assumes weak fairness of `ThreadStep`, the steps of a
thread that holds the lock: the thread is scheduled, and every call to Bitrix24 has a
timeout (gateway.py:107). Nothing is assumed of Bitrix24 or of users. `jobs`
assumes weak fairness of `WorkerStep`: the worker's loop (jobs.py:75) and its restart
by the process supervisor; a worker crashes a bounded number of times. Nothing is assumed
of requests: a request that never ends makes the job fail, not wait. `access` assumes weak
fairness of every thread's own `Step`: a call ends by its timeout, sleeps end, the worker's loop
goes on (jobs.py:75-81); failures, repeated pages and people are no part of it. `parsing`
assumes that the computation goes on.

Each property of a passing run is also checked to fail for a mistaken definition
(`PROJECT.json` "mutants").

### 4.1 What the code does that its texts deny

One run expects a violation; `PROJECT.json` "findings" quotes the text it contradicts.
`version_lost_update`: the worker writes `version + 1` of a row it read before it had the
lock, the number goes back, and a stale page is accepted. The properties of
version_safety hold until that happens (`stale`).

More was met on the way; where a property has an exception for it, the exception is
named.

* Deletion of the instruction that Root's rows name takes them along (domain.py:701, 527),
  and the next run creates a second root task (publication.py:158, against "Idempotent
  publication", publication.py:50). `AtMostOneTask` excludes exactly this case
  (`rootErased`).
* The wizard copies a list into rows without choosing it (main.py:659-664); the page shows
  neither the list nor its members (protocol_editor_row.html:4), and the first save deletes
  them (editor.py:62), although participants.py:151 keeps such rows on purpose.
* A request accepted between the end of an operation and the settlement of its job
  (jobs.py:57-66) is answered with a job that has done its work, and nothing acts on
  it. `AcceptedIsServed` excludes exactly these requests (`Leaving`).
* Confirmations of an import that overlap create several protocols
  (imports/service.py:392); `OneProtocolEach` speaks of one thread for this reason.
* docs/docx-import-mvp.md:40 says that confirmed source files are preserved. Cancelling or
  correcting a confirmed session changes its status, and the next sweep removes the
  file; a sweep that selected the session before its confirmation does so at once.
* docs/docx-import-mvp.md:11 says that the previous payload is kept in parse_history. The
  payload kept is the one the request read: a correction committed in between is lost.
* The first save of the editor page deletes the names an import could not resolve
  (editor.py:62).
* A protocol is completed by control from any status, also from draft (control.py:176), and
  is not reopened when an instruction is. A copy of a completed instruction is new with a
  completed control row (main.py:1480).
* A busy lock is answered 409 as a version conflict is (concurrency.py:28), although
  docs/WINDOWS_DOCKER.md:55 says that 409 means a conflict: the page stops saving with a
  current version.
* A demonstration run that failed in part cannot be finished: its instruction has links and is
  planned no more (planner.py:12), so the retry is an empty run that ends as completed,
  although validation/service.py:92 says "Failed publication attempts remain unresolved until
  a later successful run." and docs/demo-mvp.md:15 describes the retry. `BuildPlan` has it.
* An instruction with demonstration links cannot be deleted (main.py:1499): the delete fails
  on a column that may not be empty (`DeleteTask` of `DemoPublication`).
* A heading "Р Е Ш И Л И", or one in quotes, is understood by the memo scanner and not by the
  attendance list (protocol.py:247), so that resolutions become attendees.
  `AttendeesStayOutOfBody` excludes exactly this case.
* A line such as "Решили:" or "Повестка дня" is a section of the universal parser only in
  capitals or with the style of a heading (protocol.py:406-414); else it becomes an instruction,
  and so does a heading row of a table unless its first cell contains "поруч".
* An empty deadline label takes a numbered line for its date if a date stands in it
  (protocol.py:641); `NumbersOpenTasks` names it. An empty block heading takes any next line
  that is not numbered for its name, a label or "Мемо подготовил" too (protocol.py:586).
* A date that does not exist fails the import of any document the universal parser reads
  (protocol.py:156, imports/service.py:214-229).
* A duplicate name of the attendance list, and its header row "ФИО", become instructions of
  the universal parser (protocol.py:343). A table row of one cell without a number, and one
  whose first cell contains "поруч", are dropped by it without a note (protocol.py:353).
* Whether a memo lacks assignees is judged by labels anywhere in the document, before its
  heading too (protocol.py:671).
* Reports are filtered before rows are folded: an instruction completed in part is in the list
  of the completed and not in their number (service.py:160-162). `DrillDownsAgree` claims equality for
  the other numbers and inclusion for this one.
* After a timeout and a change of responsible the next run publishes the new key and
  declares the protocol published while the old operation is unresolved
  (publication.py:147).

## 5. Proofs

| Module | Inductive invariant | Theorems |
|---|---|---|
| `TaskPublication_proofs` | `IInv == TypeOK /\ LockInv /\ RunInv /\ RequestInv /\ KeyInv /\ LinksAreSound /\ ApprovalInv` | all invariants of publication_safety, `LinksAreSound`, and `Spec => ImplementsLedger` |
| `DocumentVersion_proofs` | `BaseInv == TypeOK /\ ClaimHolds /\ WaitInv /\ SentInv`; `IInv == BaseInv /\ (~stale => VersionInv) /\ AcknowledgedEditsKept` | all properties of version_safety |
| `IntegrationJobs_proofs` | `IInv == TypeOK /\ EnqueueInv /\ RowInv /\ RunnerInv /\ OneActiveJob /\ DoneMeansPerformed /\ HoldInv /\ ServedInv` | the safety properties of jobs |
| `Participants_proofs` | `IInv == TypeOK /\ SourcesAreChosen` | all properties of participants_safety |
| | of `DemoPublication`: `DemoInv == DemoTypeOK /\ WorkInv /\ RunInv /\ NobodyIsAskedTwice /\ EveryTaskIsReportedOnce /\ RetryRepeatsFailures` | all properties of demo |
| `TaskTree_proofs` | `IInv == TypeOK /\ Forest /\ ParentsAreLive /\ RollbackIsSound` | all properties of tree_safety |
| `ImportSessions_proofs` | `IInv == TypeOK /\ RequestInv /\ ProtocolInv /\ SweepInv /\ OneProtocolEach /\ ConfirmedHasProtocol /\ FilesFollowRows` | all properties of imports_safety |
| | of `DocumentParsing`: `ParsingInv == ParsingTypeOK /\ StageInv /\ LineInv /\ EveryLineIsPlaced /\ NumbersOpenTasks` | the safety properties of parsing |
| `ProtocolWorkflow_proofs` | `IInv == TypeOK /\ RowInv /\ PublishedAfterApproval /\ StatusesAgree` | all properties of workflow_safety, those of `Reporting` among them |
| `ProjectAccess_proofs` | `IInv == TypeOK /\ NoSlotLeaks /\ ActInv /\ CallInv /\ KnownInv /\ HeldInv /\ EarnedInv /\ ListInv /\ CompleteInv` | all safety properties of access |

Type correctness is a theorem of each module (and of no run: it is a conjunct of the
invariants that were checked before they were proved); so are some invariants no run lists any
more because another property or theorem says as much. Each is shown with one lemma per
conjunct, one step per action.

*Publication.* `AtMostOneTask` is not inductive: nothing in it says that a run which is
about to send holds the only chance of its key. `LockInv` makes the run inside the loop
unique; `RequestInv` ties what it is doing to the operation (`sending`) and says that
nothing exists for the key before `Send`; `KeyInv` counts: a key has one request in flight,
or one task, or neither, and `pending` only when neither. `RunInv` keeps what a
run knows true while other requests are shut out, `ApprovalInv` covers the row
read before the lock: a status that was not draft never becomes draft again. The
refinement maps `Send`, the operations and the locks to stutters, `RemoteCreate` to
`Create`, `Record` to `Attach`, `DeleteTask` to `Remove`, `Reconcile` to `Move`.
`LedgerKeepsPromises` is about the ledger alone: whatever implements it has the properties
`AtMostOneTask` and `LinksAreSound` (`LedgerInv`, one lemma per action of the ledger). The
second, that links are never shared and name existing tasks, is therefore checked by the
run only through `ImplementsLedger`.

*Versions.* A number must stand for a text: `Covers(n, text)` says that n is not
above the document's version and, if it equals it, text has everything committed. Pages,
requests and answers all carry numbers that cover what they show; a commit raises the
version by exactly one over the number it was accepted with. A worker that wrote after its
row was overtaken breaks this once and for all, hence the premise `~stale`; what was acknowledged
before stays true only under it too.

*Queue.* What `FindNone` found stays true until `CommitJob` because only the holder of
the queue's lock inserts and because no settled job becomes active (`RunnerInv`). No
request is accepted while the operation of its protocol runs, since both hold the
protocol's lock (`HoldInv`); what was accepted before is paid when it begins, what is
accepted after a failure is paid by the failure.

*Assignees.* `ExpansionFacts` says what a refresh yields whatever the order: the rows
picked by hand, untouched, and one row for every other present member. The action
properties follow from it and from `SourcesAreChosen`, without which the lists of old rows
(`Effective`) need not exist.

*Parents.* A circle in the next state must contain the row just written, since the old
tree has none; everything above that row is then in its `Chain`, so the row is
its own ancestor, which `Legal` excludes. `ParentsFirst` compares two finite chains, one a
proper part of the other.

*Imports.* A copy may be arbitrarily old, so nothing can be said of its columns but what
its commit leaves: `CommitRow` says that the row's protocol changes only if the request
changed it, and only a confirmation does, from None. A confirmation that read
None therefore has not created one itself (`RequestInv`), which gives one protocol per thread.

*Workflow.* The worker's copy is old but was true: once a protocol was approved it
stays so in `approved`, so a run that read "approved" or "published" does not get ahead
of the approval (`RowInv`). The two statuses agree because change_status has no way out
of "completed" and every other writer writes both.

*Reports.* `DrillDownsAgree` and `OverdueIsShownEverywhere` need no invariant: they are facts
about the operators, true of any statuses the writers leave and any layout. The argument is
`FilteredThenFolded`: the state of a folded row depends only on whether all parts are done and
whether one is overdue (`MergedStates`), a part that a filter on "overdue" or "open" leaves out belongs to neither
question, hence folding what the filter left gives the rows that the report counts; for
"completed" the filter keeps parts of rows that are not, which is why only inclusion
holds.

*Demonstration runs.* A plan is made from the links of one state and committed in
another. `WorkInv` keeps what the plan knew: it asks nobody twice and leaves out the
instructions that had links then (`linked`); `CommitStep` compares with the links of now and
distinguishes whether an instruction got its links in between, which is `overlapped`.
A link is reported as created by exactly one run because a run reports as created only the
keys that had no link before it. For `RetryRepeatsFailures` the repeated run must
stay what it was: runs are only appended, and a run repeats an earlier one (`RunInv`).

*Recognition.* The properties speak of lines that stand in instructions of an unbounded
result. `Pieces` leaves the number and the lines of each instruction, the open one behind the
others; `Placed(pieces, rejected, titles, all)` says that the lines of `all` have one place
each, in order. Three lemmas say how a line gets its place: it opens an instruction
(`PlacedOpened`), goes to the last one (`PlacedLonger`), or elsewhere (`PlacedElsewhere`). `Uses(X)`
is a step that puts the lines X, the one read or it and the next, to one use; `UsesKeeps`
shows once that such a step keeps the invariant, and each branch of the loop is shown to
be one, so that the two looks at the next line (protocol.py:586, 641) are cases of their own.
What the rejected lines are and where the scan ends is shown apart (`ServiceSteps`); the rest
of the invariant is `PlacingInv`. `EveryLineIsPlaced` is not
inductive by itself: the line read next must not be noted yet, and an open instruction has
a line and says how it goes on (`LineInv`; without a mode no branch of `Continuation` would
apply); the heading must lie before the lines read (`StageInv`). The universal half of
`NumbersOpenTasks` rests on `TakesKeeps`: a step adds to the instructions and changes none,
drops only the element read, and a numbered one is no attendee (`NumberedAreNoAttendees`: a
number ends the list whatever was found) and no section. `AttendeesStayOutOfBody`
follows from the invariant: instructions hold lines after the heading, elements ascend with the
lines (`NormalizedLines`), and the attendance list is over at the heading
(`AttendeesComeFirst`). These are facts about recursive functions for documents of any
length. They are proved by induction without the library's induction theorems: a set of
numbers has a least element (`LeastNumber`, from the well-foundedness of < on Nat), so a set
with 0 and all successors is Nat (`Induction`), and a function with given steps exists
(`RecursiveFunction`), hence the chosen one has these steps.
`StepsMoveOn` gives the part of termination that is a fact about steps: each raises the pair of
stage and line, and the line never passes the one behind the last (`EveryStepMovesOn`), so no
document keeps the scanners busy for ever. That some branch always applies, the other part
of `ParsingEnds`, stays with TLC.

*Access.* `StepShape` says that a step changes membership, the work of one thread, or nobody's
work, and lists the ways in which work changes. `HeldInv` keeps the history complete for busy
threads, so that a role just found is in it; `EarnedInv` keeps it there. A project that is
missing from a scope needs its list: `ListInv` says that the part already read
does not have the user as long as nobody left (`WindowFacts`, `PageFacts`), so at the last
page the user is in no part of it, has no role, and `CompleteInv` holds.

Assumed of constants: tasks are numbers, None and other markers are not members of the
sets they mark, workers and pages (requests) are different, bounds are naturals. No
finiteness is assumed, except of the instructions of a protocol in `TaskTree` and of the people
a protocol can name (`DirectoryAssumption`: the rows of a refresh are numbered one by one); the
lists of members that Bitrix24 starts with name nobody twice. "technical", the assignee of a root
task, is nobody's name (`DemoAssumption`). The day and the week of a report are days, relations
between instructions are any (`DaysAssumption`, `LayoutsAssumption`). Documents are finite
sequences of `Elements`, a request asks for a parser there is (`DocumentsAssumption`,
`RequestedAssumption`).

`Participants_proofs` also holds the proofs about `DemoPublication`, `ImportSessions_proofs`
those about `DocumentParsing`, `ProtocolWorkflow_proofs` those about `Reporting`, each behind the
module that supplies or uses it.

Only model-checked: `RunEnds`, `EveryJobEnds`, `JobsSettle`, `ParsingEnds` (liveness is out of the
prover's reach), and the violation. No module declares a RECURSIVE operator.

## 6. Not modelled

* Formatting, export, configuration, encryption, presence and health pages: no state that another
  component depends on.
* Version numbers of exported documents (`register_document`): two exports are serialised by
  a row lock of the database, which is not this program's.
* A PostgreSQL lock that is lost with its own connection while the holder works on: locks are
  perfect in all modules.
* Kinds of jobs: a synchronisation answered by a publication that is already queued
  (jobs.py:21) is listed as a hazard.
* Two rows of one instruction with one responsible, the default one of unmatched names
  (publication.py:144), have one publication key; `TaskPublication` assumes different keys.
* The fake gateway, which numbers its tasks from the start in every request
  (gateway.py:331), is for demonstrations.
* The browser's editor beyond its requests: timers, drafts, rendering.

## 7. Running

```
tlc -config Publication_safety.cfg MCTaskPublication.tla
tlapm TaskPublication_proofs.tla
```

Module and configuration of every run are listed in `PROJECT.json` "runs".
