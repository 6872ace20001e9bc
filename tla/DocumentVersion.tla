---------------------------- MODULE DocumentVersion ----------------------------
(***************************************************************************)
(* Optimistic versioning of one protocol document: browser pages running   *)
(* static/js/concurrency.js, the requests they send, protect_mutation      *)
(* (services/concurrency.py) in front of every handler that changes the    *)
(* document, and the integration worker that changes the protocol too.     *)
(*                                                                         *)
(* A page is one load of the document in a browser; to reload is to be     *)
(* another page.  A save replaces the document with what the page shows    *)
(* (the editor serialises all of its fields), so the text of the document  *)
(* is the set of edits it contains.                                        *)
(***************************************************************************)
EXTENDS Naturals

CONSTANTS
    Pages,      \* loads of the document in a browser
    Workers,    \* integration workers (background_jobs_enabled); none by default
    MaxEdits,   \* bound on the requests the pages send
    MaxVersion, \* bound on the versions a worker starts from
    None

ASSUME PagesAssumption == /\ None \notin Pages \cup Workers
                          /\ None \notin Nat
                          /\ Pages \cap Workers = {}
ASSUME BoundsAssumption == MaxEdits \in Nat /\ MaxVersion \in Nat

Edits    == 1..MaxEdits
Requests == [page : Pages, edit : Edits, base : Nat, text : SUBSET Edits]
Replies  == [status : {"ok", "conflict", "error"}, version : Nat]

VARIABLES
    version,   \* Protocol.version, committed
    content,   \* edits in the committed document
    lock,      \* holder of operation_lock("protocol:{id}"): a page's request, a worker
    handling,  \* the request whose transaction is open, None without one
    net,       \* requests on their way
    phase,     \* of a page
    meta,      \* the page's <meta name="protocol-version">
    view,      \* edits the page shows, its own unsaved ones included
    waiting,   \* the edit whose answer the page awaits, None without one
    reply,     \* the answer on its way to the page, None without one
    edits,     \* requests sent so far
    acked,     \* history: edits a page was told are saved
    loaded,    \* Protocol.version in the object a worker holds, None without one
    stale      \* history: a worker wrote a number that followed an older one

server == <<version, content, lock, handling>>
client == <<phase, meta, view, waiting, edits, acked>>
vars   == <<server, net, client, reply, loaded, stale>>

Phases == {"closed", "opening", "open", "conflicted"}

TypeOK ==
    /\ version \in Nat
    /\ content \subseteq Edits
    /\ lock \in Pages \cup Workers \cup {None}
    /\ handling \in Requests \cup {None}
    /\ net \subseteq Requests
    /\ phase \in [Pages -> Phases]
    /\ meta \in [Pages -> Nat]
    /\ view \in [Pages -> SUBSET Edits]
    /\ waiting \in [Pages -> Edits \cup {None}]
    /\ reply \in [Pages -> Replies \cup {None}]
    /\ edits \in 0..MaxEdits
    /\ acked \subseteq Edits
    /\ loaded \in [Workers -> Nat \cup {None}]
    /\ stale \in BOOLEAN

Init ==
    /\ version = 1
    /\ content = {}
    /\ lock = None
    /\ handling = None
    /\ net = {}
    /\ phase = [p \in Pages |-> "closed"]
    /\ meta = [p \in Pages |-> 0]
    /\ view = [p \in Pages |-> {}]
    /\ waiting = [p \in Pages |-> None]
    /\ reply = [p \in Pages |-> None]
    /\ edits = 0
    /\ acked = {}
    /\ loaded = [w \in Workers |-> None]
    /\ stale = FALSE
-----------------------------------------------------------------------------
(***************************************************************************)
(* Pages.                                                                  *)
(***************************************************************************)

\* The page is rendered without a lock: its first query reads the Protocol row ...
OpenRow(p) ==
    /\ phase[p] = "closed"
    /\ phase' = [phase EXCEPT ![p] = "opening"]
    /\ meta' = [meta EXCEPT ![p] = version]
    /\ UNCHANGED <<server, net, view, waiting, edits, acked, reply, loaded, stale>>

\* ... and later ones the sections and instructions.
OpenText(p) ==
    /\ phase[p] = "opening"
    /\ phase' = [phase EXCEPT ![p] = "open"]
    /\ view' = [view EXCEPT ![p] = content]
    /\ UNCHANGED <<server, net, meta, waiting, edits, acked, reply, loaded, stale>>

\* The user changes something; the fetch leaves when the one before it is settled.
Edit(p) ==
    /\ phase[p] = "open"
    /\ waiting[p] = None
    /\ edits < MaxEdits
    /\ edits' = edits + 1
    /\ view' = [view EXCEPT ![p] = @ \cup {edits + 1}]
    /\ net' = net \cup {[page |-> p, edit |-> edits + 1, base |-> meta[p],
                         text |-> view[p] \cup {edits + 1}]}
    /\ waiting' = [waiting EXCEPT ![p] = edits + 1]
    /\ UNCHANGED <<server, phase, meta, acked, reply, loaded, stale>>

\* The definitions named "...Bug" are the one that follows them with a plausible
\* mistake; nothing uses them but the checks that a property notices the mistake.
\* Here: the page adopts the version the document has when the answer arrives.
ReceiveBug(p) ==
    /\ reply[p] # None
    /\ meta' = IF reply[p].status = "ok" THEN [meta EXCEPT ![p] = version] ELSE meta
    /\ acked' = IF reply[p].status = "ok" THEN acked \cup {waiting[p]} ELSE acked
    /\ phase' = IF reply[p].status = "conflict" THEN [phase EXCEPT ![p] = "conflicted"]
                ELSE phase
    /\ waiting' = [waiting EXCEPT ![p] = None]
    /\ reply' = [reply EXCEPT ![p] = None]
    /\ UNCHANGED <<server, net, view, edits, loaded, stale>>

\* response.ok: adopt the version of the answer. 409: no further request leaves
\* this page. Any other refusal changes nothing.
Receive(p) ==
    /\ reply[p] # None
    /\ meta' = IF reply[p].status = "ok" THEN [meta EXCEPT ![p] = reply[p].version]
               ELSE meta
    /\ acked' = IF reply[p].status = "ok" THEN acked \cup {waiting[p]} ELSE acked
    /\ phase' = IF reply[p].status = "conflict" THEN [phase EXCEPT ![p] = "conflicted"]
                ELSE phase
    /\ waiting' = [waiting EXCEPT ![p] = None]
    /\ reply' = [reply EXCEPT ![p] = None]
    /\ UNCHANGED <<server, net, view, edits, loaded, stale>>

\* The connection fails; the request may still arrive, its answer will not.
GiveUp(p) ==
    /\ waiting[p] # None
    /\ waiting' = [waiting EXCEPT ![p] = None]
    /\ reply' = [reply EXCEPT ![p] = None]
    /\ UNCHANGED <<server, net, phase, meta, view, edits, acked, loaded, stale>>
-----------------------------------------------------------------------------
(***************************************************************************)
(* Requests on the server.                                                 *)
(***************************************************************************)

Respond(m, status, number) ==
    reply' = IF waiting[m.page] = m.edit
             THEN [reply EXCEPT ![m.page] = [status |-> status, version |-> number]]
             ELSE reply

\* protect_mutation refuses: the document is locked, or its version is another one.
Refuse(m) ==
    /\ m \in net
    /\ lock # None \/ m.base # version
    /\ net' = net \ {m}
    /\ Respond(m, "conflict", version)
    /\ UNCHANGED <<server, client, loaded, stale>>

\* The version is not compared.
AcceptBug(m) ==
    /\ m \in net
    /\ lock = None
    /\ net' = net \ {m}
    /\ lock' = m.page
    /\ handling' = m
    /\ UNCHANGED <<version, content, client, reply, loaded, stale>>

\* It takes the lock and claims the next version in a transaction still open.
Accept(m) ==
    /\ m \in net
    /\ lock = None
    /\ m.base = version
    /\ net' = net \ {m}
    /\ lock' = m.page
    /\ handling' = m
    /\ UNCHANGED <<version, content, client, reply, loaded, stale>>

\* The handler commits and answers with the version claimed for it.
Commit ==
    /\ handling # None
    /\ version' = version + 1
    /\ content' = handling.text
    /\ handling' = None
    /\ Respond(handling, "ok", handling.base + 1)
    /\ UNCHANGED <<lock, net, client, loaded, stale>>

\* The failure is answered like a success.
FailBug ==
    /\ handling # None
    /\ handling' = None
    /\ lock' = None
    /\ Respond(handling, "ok", version)
    /\ UNCHANGED <<version, content, net, client, loaded, stale>>

\* The handler raises: the transaction is rolled back, the lock freed.
Fail ==
    /\ handling # None
    /\ handling' = None
    /\ lock' = None
    /\ Respond(handling, "error", version)
    /\ UNCHANGED <<version, content, net, client, loaded, stale>>

\* Dependencies are torn down once the answer has left (FastAPI runs the code
\* after "yield" last), and the lock is freed there; or the process dies.
Release ==
    /\ lock \in Pages
    /\ lock' = None
    /\ handling' = None
    /\ UNCHANGED <<version, content, net, client, reply, loaded, stale>>
-----------------------------------------------------------------------------
(***************************************************************************)
(* A publication or synchronisation by the worker.                         *)
(***************************************************************************)

\* The Protocol row is read before the lock is taken, and never read again.
WorkerLoad(w) ==
    /\ loaded[w] = None
    /\ version <= MaxVersion
    /\ loaded' = [loaded EXCEPT ![w] = version]
    /\ UNCHANGED <<server, net, client, reply, stale>>

\* The worker does not wait for the lock.
WorkerLockBug(w) ==
    /\ loaded[w] # None
    /\ lock' = w
    /\ UNCHANGED <<version, content, handling, net, client, reply, loaded, stale>>

WorkerLock(w) ==
    /\ loaded[w] # None
    /\ lock = None
    /\ lock' = w
    /\ UNCHANGED <<version, content, handling, net, client, reply, loaded, stale>>

\* protocol.version += 1 on that object, at the end of the run.
WorkerCommit(w) ==
    /\ lock = w
    /\ version' = loaded[w] + 1
    /\ lock' = None
    /\ loaded' = [loaded EXCEPT ![w] = None]
    /\ stale' = (stale \/ loaded[w] # version)
    /\ UNCHANGED <<content, handling, net, client, reply>>

\* The lock is busy, the operation fails, or the worker dies.
WorkerFail(w) ==
    /\ loaded[w] # None
    /\ lock' = IF lock = w THEN None ELSE lock
    /\ loaded' = [loaded EXCEPT ![w] = None]
    /\ UNCHANGED <<version, content, handling, net, client, reply, stale>>
-----------------------------------------------------------------------------
PageStep    == \E p \in Pages : OpenRow(p) \/ OpenText(p) \/ Edit(p) \/ Receive(p) \/ GiveUp(p)
RequestStep == Commit \/ Fail \/ Release \/ \E m \in net : Refuse(m) \/ Accept(m)
WorkerStep  == \E w \in Workers : \/ WorkerLoad(w) \/ WorkerLock(w)
                                  \/ WorkerCommit(w) \/ WorkerFail(w)

Next == PageStep \/ RequestStep \/ WorkerStep

Spec == Init /\ [][Next]_vars
-----------------------------------------------------------------------------
(***************************************************************************)
(* Properties.                                                             *)
(***************************************************************************)

\* No save silently overwrites what another page saved ("При конфликте — 409, без
\* молчаливой перезаписи", docs/CODE_AUDIT.md:33): an edit in the document stays.
NoSilentOverwrite == [][content \subseteq content']_vars

\* A save overwrites nothing until a worker has put an old number back (jobs.py:41 reads
\* the row before the lock): pages, late requests and workers with a fresh row do not.
OverwriteNeedsStaleWorker == [][~stale' => content \subseteq content']_vars

\* Until then what a page was told is saved is in the document, although answers are
\* lost, requests arrive after the page gave up, and pages are opened between commits.
AcknowledgedEditsKept == ~stale => acked \subseteq content

\* Until then a page whose version is the document's shows all of it: the version it was
\* rendered with, or adopted from an answer, never claims more than it shows.
CurrentPagesAreComplete ==
    ~stale => \A p \in Pages : phase[p] \in {"open", "conflicted"} /\ meta[p] = version
                               => content \subseteq view[p]

\* What protect_mutation checked still holds when the handler commits: nobody, not
\* even a worker, moves the version or the text between the claim and the commit.
ClaimHolds == handling # None => lock = handling.page /\ handling.base = version

-----------------------------------------------------------------------------
(***************************************************************************)
(* The inductive invariants: always, and until a worker set a number back. *)
(***************************************************************************)

\* An answer is only on its way to a page that awaits it, and only a page that
\* was rendered awaits one. A worker that has the lock has read the row.
WaitInv ==
    /\ \A p \in Pages : /\ reply[p] # None => waiting[p] # None
                        /\ waiting[p] # None => phase[p] \in {"open", "conflicted"}
    /\ \A w \in Workers : lock = w => loaded[w] # None

Sent == net \cup ({handling} \ {None})

\* What a request carries is still shown by the page that sent it.
SentInv ==
    \A m \in Sent :
        /\ m.edit \in m.text
        /\ m.text \subseteq view[m.page]
        /\ phase[m.page] \in {"open", "conflicted"}

BaseInv == TypeOK /\ ClaimHolds /\ WaitInv /\ SentInv

\* A version number stands for all the document contained when it had that version.
Covers(number, text) == number <= version /\ (number = version => content \subseteq text)

VersionInv ==
    /\ \A m \in Sent : Covers(m.base, m.text)
    /\ \A p \in Pages :
        /\ phase[p] = "opening" => meta[p] <= version
        /\ phase[p] \in {"open", "conflicted"} => Covers(meta[p], view[p])
        /\ reply[p] # None /\ reply[p].status = "ok" =>
               Covers(reply[p].version, view[p]) /\ waiting[p] \in content

IInv == BaseInv /\ (~stale => VersionInv) /\ AcknowledgedEditsKept
=============================================================================
