--------------------------- MODULE ImportSessions ---------------------------
(***************************************************************************)
(* DOCX import sessions (services/imports/service.py and the routes under  *)
(* /protocols/import): upload, correction, repeated recognition,           *)
(* confirmation, cancellation and the expiry script.                       *)
(*                                                                         *)
(* None of these routes takes a lock or compares a version: their paths    *)
(* name no protocol, so protect_mutation returns at once.  A request reads *)
(* the row, works on its copy and commits; the UPDATE names the columns    *)
(* whose value differs from what the request read, and no others.          *)
(***************************************************************************)
EXTENDS Naturals

CONSTANTS
    Sessions,     \* uploads, named by the generated name of the stored file
    Requests,     \* threads of the web server
    Payloads,     \* results of recognition and correction
    Empty,        \* payloads without instructions
    MaxProtocols, \* bound on the protocols created
    None

ASSUME EmptyAssumption == Empty \subseteq Payloads
ASSUME BoundAssumption == MaxProtocols \in Nat

Ids      == 1..MaxProtocols
Statuses == {"parsed", "needs_review", "confirmed", "cancelled", "expired"}
Rows     == [status : Statuses, payload : Payloads, history : SUBSET Payloads,
             protocol : Ids \cup {None}]
ASSUME NoneAssumption == None \notin Payloads \cup Nat \cup Rows

Outcomes == [status : {"parsed", "needs_review"}, payload : Payloads]
Ops      == {"upload", "update", "reparse", "confirm", "cancel"}
Handling == [op : Ops, session : Sessions, seen : Rows \cup {None},
             parsed : Outcomes \cup {None}]
Sweeps   == [todo : SUBSET Sessions, marked : SUBSET Sessions]

VARIABLES
    row,       \* committed import_sessions row of a session, None without one
    file,      \* sessions whose stored DOCX exists
    overdue,   \* sessions whose expires_at has passed
    protocols, \* protocols created from sessions; "by" is history
    lastId,    \* the last number given to a protocol
    request,   \* what a thread works on, None if idle
    sweep      \* the run of cleanup_imports, None without one

vars == <<row, file, overdue, protocols, lastId, request, sweep>>

TypeOK ==
    /\ row \in [Sessions -> Rows \cup {None}]
    /\ file \subseteq Sessions
    /\ overdue \subseteq Sessions
    /\ protocols \subseteq [id : Ids, session : Sessions, by : Requests]
    /\ lastId \in 0..MaxProtocols
    /\ request \in [Requests -> Handling \cup {None}]
    /\ sweep \in Sweeps \cup {None}

Init ==
    /\ row = [s \in Sessions |-> None]
    /\ file = {}
    /\ overdue = {}
    /\ protocols = {}
    /\ lastId = 0
    /\ request = [r \in Requests |-> None]
    /\ sweep = None
-----------------------------------------------------------------------------
(***************************************************************************)
(* Requests.                                                               *)
(***************************************************************************)

\* A column keeps its present value unless the request changed what it read.
Column(seen, new, now) == IF new # seen THEN new ELSE now

\* The definitions named "...Bug" are the one that follows them with a plausible
\* mistake; nothing uses them but the checks that a property notices the mistake.
\* Here: the UPDATE names every column.
SavedBug(seen, new, now) == new

\* The row after the commit of a request that read seen and leaves its copy as new.
Saved(seen, new, now) ==
    [status   |-> Column(seen.status, new.status, now.status),
     payload  |-> Column(seen.payload, new.payload, now.payload),
     history  |-> Column(seen.history, new.history, now.history),
     protocol |-> Column(seen.protocol, new.protocol, now.protocol)]

\* Request r commits its copy new of the row it read, and ends.
Commit(r, new) ==
    LET s == request[r].session IN
    /\ row' = [row EXCEPT ![s] = Saved(request[r].seen, new, row[s])]
    /\ request' = [request EXCEPT ![r] = None]

Handles(r, op) == request[r] # None /\ request[r].op = op

\* POST /protocols/import/preview stores the file before there is a row.
Upload(r, s) ==
    /\ request[r] = None
    /\ row[s] = None
    /\ s \notin file
    /\ file' = file \cup {s}
    /\ request' = [request EXCEPT ![r] =
                     [op |-> "upload", session |-> s, seen |-> None, parsed |-> None]]
    /\ UNCHANGED <<row, overdue, protocols, lastId, sweep>>

\* Every other route starts with db.get(ImportSession, session_id).
Read(r, s, op) ==
    /\ request[r] = None
    /\ row[s] # None
    /\ op # "upload"
    /\ request' = [request EXCEPT ![r] =
                     [op |-> op, session |-> s, seen |-> row[s], parsed |-> None]]
    /\ UNCHANGED <<row, file, overdue, protocols, lastId, sweep>>

\* parse_file: what is recognised depends on the file, the parser and the directory
\* of employees; warnings and errors decide the status.
Parse(r) ==
    /\ Handles(r, "upload") \/ Handles(r, "reparse")
    /\ request[r].parsed = None
    /\ request[r].session \in file
    /\ \E outcome \in Outcomes :
         request' = [request EXCEPT ![r].parsed = outcome]
    /\ UNCHANGED <<row, file, overdue, protocols, lastId, sweep>>

\* create_preview_session commits the row with its first result; "uploaded" is
\* never committed.
Insert(r) ==
    /\ Handles(r, "upload")
    /\ request[r].parsed # None
    /\ row' = [row EXCEPT ![request[r].session] =
                 [status |-> request[r].parsed.status, payload |-> request[r].parsed.payload,
                  history |-> {}, protocol |-> None]]
    /\ request' = [request EXCEPT ![r] = None]
    /\ UNCHANGED <<file, overdue, protocols, lastId, sweep>>

\* update_session_payload: the user's corrections replace the payload.
Update(r) ==
    /\ Handles(r, "update")
    /\ \E p \in Payloads :
         Commit(r, [request[r].seen EXCEPT !.status = "needs_review", !.payload = p])
    /\ UNCHANGED <<file, overdue, protocols, lastId, sweep>>

\* reparse_session: the payload the request read goes to parse_history.
Reparse(r) ==
    /\ Handles(r, "reparse")
    /\ request[r].parsed # None
    /\ Commit(r, [request[r].seen EXCEPT
                    !.status = request[r].parsed.status,
                    !.payload = request[r].parsed.payload,
                    !.history = @ \cup {request[r].seen.payload}])
    /\ UNCHANGED <<file, overdue, protocols, lastId, sweep>>

\* import_session_cancel, in every status.
Cancel(r) ==
    /\ Handles(r, "cancel")
    /\ Commit(r, [request[r].seen EXCEPT !.status = "cancelled"])
    /\ UNCHANGED <<file, overdue, protocols, lastId, sweep>>

\* With the test for an existing protocol missing ...
ConfirmBug(r) ==
    /\ Handles(r, "confirm")
    /\ request[r].seen.payload \notin Empty
    /\ lastId < MaxProtocols
    /\ lastId' = lastId + 1
    /\ protocols' = protocols \cup
                      {[id |-> lastId + 1, session |-> request[r].session, by |-> r]}
    /\ Commit(r, [request[r].seen EXCEPT !.status = "confirmed", !.protocol = lastId + 1])
    /\ UNCHANGED <<file, overdue, sweep>>

\* confirm_session, whatever the status, if the copy names no protocol and has
\* instructions: the protocol and all its rows, and the session, in one commit.
Confirm(r) ==
    /\ Handles(r, "confirm")
    /\ request[r].seen.protocol = None
    /\ request[r].seen.payload \notin Empty
    /\ lastId < MaxProtocols
    /\ lastId' = lastId + 1
    /\ protocols' = protocols \cup
                      {[id |-> lastId + 1, session |-> request[r].session, by |-> r]}
    /\ Commit(r, [request[r].seen EXCEPT !.status = "confirmed", !.protocol = lastId + 1])
    /\ UNCHANGED <<file, overdue, sweep>>

\* A request ends without a commit: a confirmation that finds a protocol answers it,
\* one without instructions and a repetition not agreed to are refused (400), the file
\* is missing or unreadable, or the process dies.  A stored file stays.
Leave(r) ==
    /\ request[r] # None
    /\ request' = [request EXCEPT ![r] = None]
    /\ UNCHANGED <<row, file, overdue, protocols, lastId, sweep>>
-----------------------------------------------------------------------------
(***************************************************************************)
(* cleanup_expired_import_sessions, run by hand or by a timer, one run at  *)
(* a time.                                                                 *)
(***************************************************************************)

\* expires_at passes.
Expire(s) ==
    /\ s \in file
    /\ overdue' = overdue \cup {s}
    /\ UNCHANGED <<row, file, protocols, lastId, request, sweep>>

\* One query selects the sessions.
SweepBegin ==
    /\ sweep = None
    /\ sweep' = [todo |-> {s \in overdue : row[s] # None
                                           /\ row[s].status \notin {"confirmed", "expired"}},
                 marked |-> {}]
    /\ UNCHANGED <<row, file, overdue, protocols, lastId, request>>

\* The files are removed one by one, outside the transaction.
SweepFile(s) ==
    /\ sweep # None
    /\ s \in sweep.todo
    /\ file' = file \ {s}
    /\ sweep' = [todo |-> sweep.todo \ {s}, marked |-> sweep.marked \cup {s}]
    /\ UNCHANGED <<row, overdue, protocols, lastId, request>>

\* With the commit in front of the removal.
SweepCommitBug ==
    /\ sweep # None
    /\ row' = [s \in Sessions |->
                 IF s \in sweep.todo \cup sweep.marked THEN [row[s] EXCEPT !.status = "expired"]
                 ELSE row[s]]
    /\ sweep' = None
    /\ UNCHANGED <<file, overdue, protocols, lastId, request>>

\* All statuses are committed at the end; "expired" differs from every status read.
SweepCommit ==
    /\ sweep # None
    /\ sweep.todo = {}
    /\ row' = [s \in Sessions |->
                 IF s \in sweep.marked THEN [row[s] EXCEPT !.status = "expired"]
                 ELSE row[s]]
    /\ sweep' = None
    /\ UNCHANGED <<file, overdue, protocols, lastId, request>>

\* A file cannot be removed, or the process dies: files are gone, no status is written.
SweepFail ==
    /\ sweep # None
    /\ sweep' = None
    /\ UNCHANGED <<row, file, overdue, protocols, lastId, request>>

Next ==
    \/ \E r \in Requests :
         \/ \E s \in Sessions : Upload(r, s) \/ \E op \in Ops : Read(r, s, op)
         \/ Parse(r) \/ Insert(r) \/ Update(r) \/ Reparse(r) \/ Cancel(r) \/ Confirm(r)
         \/ Leave(r)
    \/ \E s \in Sessions : Expire(s) \/ SweepFile(s)
    \/ SweepBegin \/ SweepCommit \/ SweepFail

Spec == Init /\ [][Next]_vars
-----------------------------------------------------------------------------
\* A thread creates at most one protocol of a session, however many updates, repeated
\* recognitions, cancellations and expiries come between its confirmations: only
\* confirmations that overlap can create several (confirm_session, its first test).
OneProtocolEach ==
    \A a, b \in protocols : a.session = b.session /\ a.by = b.by => a = b

\* A session that names a protocol names one created from it, and "confirmed" is never
\* the status of a session without a protocol, whatever stale copies are committed.
ConfirmedHasProtocol ==
    \A s \in Sessions : row[s] # None =>
        /\ row[s].status = "confirmed" => row[s].protocol # None
        /\ row[s].protocol # None =>
             \E a \in protocols : a.id = row[s].protocol /\ a.session = s

\* Once a session names a protocol no later commit makes it forget: a stale copy does
\* not undo a confirmation, which would let the next one create a second protocol.
ConfirmationStays ==
    [][\A s \in Sessions : row[s] # None /\ row[s].protocol # None
                              => row'[s] # None /\ row'[s].protocol # None]_vars

\* An expired session has no file left, and before its time passes a session has the
\* file that repeated recognition needs, also if a run of the script is broken off.
FilesFollowRows ==
    \A s \in Sessions : row[s] # None =>
        /\ row[s].status = "expired" => s \notin file
        /\ s \notin overdue => s \in file
-----------------------------------------------------------------------------
(***************************************************************************)
(* What makes the invariants inductive.                                    *)
(***************************************************************************)

\* An upload is alone with its file until it inserts the row; every other request has
\* read a row; a confirmation that read no protocol has not created one.
RequestInv ==
    \A r \in Requests : request[r] # None =>
        LET s == request[r].session IN
        /\ request[r].op = "upload" =>
             /\ row[s] = None
             /\ s \in file
             /\ \A q \in Requests \ {r} :
                  request[q] # None /\ request[q].op = "upload" => request[q].session # s
        /\ request[r].op # "upload" => row[s] # None /\ request[r].seen # None
        /\ request[r].op = "confirm" /\ request[r].seen.protocol = None =>
             \A a \in protocols : a.session = s => a.by # r

\* A session one protocol was created from names a protocol.
ProtocolInv ==
    \A a \in protocols : row[a.session] # None /\ row[a.session].protocol # None

\* The script works on rows that are due, and has removed the files it has marked.
SweepInv ==
    sweep # None =>
        /\ \A s \in sweep.todo \cup sweep.marked : s \in overdue /\ row[s] # None
        /\ sweep.marked \cap file = {}

IInv ==
    /\ TypeOK /\ RequestInv /\ ProtocolInv /\ SweepInv
    /\ OneProtocolEach /\ ConfirmedHasProtocol /\ FilesFollowRows
=============================================================================
