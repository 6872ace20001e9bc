------------------------ MODULE ImportSessions_proofs ------------------------
(***************************************************************************)
(* Import sessions are safe for any number of sessions, threads and        *)
(* protocols, and so is the recognition of any document they hold.         *)
(***************************************************************************)
EXTENDS ImportSessions, DocumentParsing, WellFoundedInduction, SequenceTheorems, TLAPS

\* A commit of a copy that names the protocol it read leaves the row's protocol, and
\* gives it no status but its own or the copy's.
LEMMA CommitRow ==
    ASSUME IInv, NEW r \in Requests, request[r] # None, request[r].op # "upload",
           NEW new \in Rows, Commit(r, new)
    PROVE  LET s == request[r].session IN
           /\ s \in Sessions
           /\ row[s] \in Rows
           /\ row'[s] \in Rows
           /\ row' = [row EXCEPT ![s] = row'[s]]
           /\ row'[s].status \in {row[s].status, new.status}
           /\ row'[s].protocol = Column(request[r].seen.protocol, new.protocol,
                                       row[s].protocol)
           /\ request' = [request EXCEPT ![r] = None]
<1> DEFINE s == request[r].session
<1>1. s \in Sessions /\ row[s] \in Rows /\ request[r].seen \in Rows
  BY NoneAssumption DEF IInv, TypeOK, Handling, RequestInv
<1>2. Saved(request[r].seen, new, row[s]) \in Rows
  BY <1>1 DEF Saved, Column, Rows
<1>3. row' = [row EXCEPT ![s] = Saved(request[r].seen, new, row[s])]
      /\ request' = [request EXCEPT ![r] = None]
  BY DEF Commit
<1>4. row'[s] = Saved(request[r].seen, new, row[s])
  BY <1>1, <1>3 DEF IInv, TypeOK
<1>5. /\ Saved(request[r].seen, new, row[s]).status \in {row[s].status, new.status}
      /\ Saved(request[r].seen, new, row[s]).protocol =
           Column(request[r].seen.protocol, new.protocol, row[s].protocol)
  BY DEF Saved, Column
<1> QED
  BY <1>1, <1>2, <1>3, <1>4, <1>5

\* A correction, a repeated recognition and a cancellation change one row, not its
\* protocol, and never to a confirmed or an expired one.
LEMMA PlainCommit ==
    ASSUME IInv, NEW r \in Requests, Update(r) \/ Reparse(r) \/ Cancel(r)
    PROVE  \E s \in Sessions, new \in Rows :
             /\ row[s] \in Rows
             /\ row[s] # None
             /\ new # None
             /\ row' = [row EXCEPT ![s] = new]
             /\ new.protocol = row[s].protocol
             /\ new.status \in {"confirmed", "expired"} => new.status = row[s].status
             /\ request' = [request EXCEPT ![r] = None]
             /\ UNCHANGED <<file, overdue, protocols, lastId, sweep>>
<1> DEFINE s    == request[r].session
           seen == request[r].seen
<1>1. request[r] # None /\ request[r].op # "upload"
  BY DEF Update, Reparse, Cancel, Handles
<1>2. seen \in Rows
  BY <1>1, NoneAssumption DEF IInv, TypeOK, Handling, RequestInv
<1>3. UNCHANGED <<file, overdue, protocols, lastId, sweep>>
  BY DEF Update, Reparse, Cancel
<1>4. PICK new \in Rows : /\ Commit(r, new)
                          /\ new.protocol = seen.protocol
                          /\ new.status \notin {"confirmed", "expired"}
  <2>1. CASE Update(r)
    <3>1. PICK p \in Payloads :
            Commit(r, [seen EXCEPT !.status = "needs_review", !.payload = p])
      BY <2>1 DEF Update
    <3> DEFINE new == [seen EXCEPT !.status = "needs_review", !.payload = p]
    <3>2. new \in Rows /\ new.protocol = seen.protocol /\ new.status = "needs_review"
      BY <1>2 DEF Rows, Statuses
    <3>3. Commit(r, new)
      BY <3>1
    <3> HIDE DEF new
    <3> QED
      BY <3>2, <3>3
  <2>2. CASE Reparse(r)
    <3>1. request[r].parsed \in Outcomes
      BY <1>1, <2>2 DEF Reparse, IInv, TypeOK, Handling
    <3> DEFINE new == [seen EXCEPT !.status = request[r].parsed.status,
                                   !.payload = request[r].parsed.payload,
                                   !.history = @ \cup {seen.payload}]
    <3>2. new \in Rows /\ new.protocol = seen.protocol
          /\ new.status \in {"parsed", "needs_review"}
      BY <1>2, <3>1 DEF Rows, Outcomes, Statuses
    <3>3. Commit(r, new)
      BY <2>2 DEF Reparse
    <3> HIDE DEF new
    <3> QED
      BY <3>2, <3>3
  <2>3. CASE Cancel(r)
    BY <1>2, <2>3 DEF Cancel, Rows, Statuses
  <2> QED
    BY <2>1, <2>2, <2>3
<1>5. /\ s \in Sessions /\ row[s] \in Rows /\ row'[s] \in Rows
      /\ row' = [row EXCEPT ![s] = row'[s]]
      /\ row'[s].status \in {row[s].status, new.status}
      /\ row'[s].protocol = row[s].protocol
      /\ request' = [request EXCEPT ![r] = None]
  BY <1>1, <1>4, CommitRow DEF Column
<1> QED
  BY <1>3, <1>4, <1>5, NoneAssumption

\* A confirmation creates one protocol and names it in the session.
LEMMA ConfirmCommit ==
    ASSUME IInv, NEW r \in Requests, Confirm(r)
    PROVE  \E s \in Sessions, new \in Rows, a \in [id : Ids, session : Sessions, by : Requests] :
             /\ s = request[r].session
             /\ request[r] # None
             /\ request[r].op = "confirm"
             /\ request[r].seen.protocol = None
             /\ row[s] \in Rows
             /\ row[s] # None
             /\ new # None
             /\ row' = [row EXCEPT ![s] = new]
             /\ new.protocol = a.id
             /\ new.protocol # None
             /\ new.status = "expired" => row[s].status = "expired"
             /\ a.id = lastId + 1
             /\ a.session = s
             /\ a.by = r
             /\ protocols' = protocols \cup {a}
             /\ lastId' = a.id
             /\ request' = [request EXCEPT ![r] = None]
             /\ UNCHANGED <<file, overdue, sweep>>
<1> DEFINE s    == request[r].session
           seen == request[r].seen
           a    == [id |-> lastId + 1, session |-> s, by |-> r]
           new  == [seen EXCEPT !.status = "confirmed", !.protocol = lastId + 1]
<1>1. request[r] # None /\ request[r].op = "confirm" /\ seen.protocol = None
  BY DEF Confirm, Handles
<1>2. seen \in Rows /\ s \in Sessions
  BY <1>1, NoneAssumption DEF IInv, TypeOK, Handling, RequestInv
<1>3. lastId + 1 \in Ids
  BY BoundAssumption DEF Confirm, IInv, TypeOK, Ids
<1>4. new \in Rows /\ new.protocol = lastId + 1 /\ new.status = "confirmed"
  BY <1>2, <1>3 DEF Rows, Statuses
<1>5. lastId + 1 # None
  BY <1>3, NoneAssumption DEF Ids
<1>6. Commit(r, new) /\ protocols' = protocols \cup {a} /\ lastId' = lastId + 1
      /\ UNCHANGED <<file, overdue, sweep>>
  BY DEF Confirm
<1>7. /\ row[s] \in Rows /\ row'[s] \in Rows
      /\ row' = [row EXCEPT ![s] = row'[s]]
      /\ row'[s].status \in {row[s].status, "confirmed"}
      /\ row'[s].protocol = lastId + 1
      /\ request' = [request EXCEPT ![r] = None]
  <2> HIDE DEF new
  <2> QED
    BY <1>1, <1>4, <1>5, <1>6, CommitRow DEF Column
<1>8. /\ a \in [id : Ids, session : Sessions, by : Requests]
      /\ a.id = lastId + 1 /\ a.session = s /\ a.by = r
  BY <1>2, <1>3
<1> HIDE DEF new, a
<1> QED
  BY <1>1, <1>2, <1>5, <1>6, <1>7, <1>8, NoneAssumption

\* The commit of the script changes statuses only, of sessions that have a row.
LEMMA SweepCommitRows ==
    ASSUME IInv, SweepCommit
    PROVE  /\ row' \in [Sessions -> Rows \cup {None}]
           /\ \A s \in Sessions :
                /\ row'[s] = None <=> row[s] = None
                /\ row[s] # None =>
                     /\ row'[s].protocol = row[s].protocol
                     /\ row'[s].status \in {row[s].status, "expired"}
                     /\ row'[s].status = "expired" =>
                          row[s].status = "expired" \/ s \in sweep.marked
           /\ sweep # None
           /\ sweep' = None
           /\ UNCHANGED <<file, overdue, protocols, lastId, request>>
<1>1. \A s \in Sessions : row[s] # None => row[s] \in Rows
  BY DEF IInv, TypeOK
<1>2. \A s \in sweep.marked : row[s] # None
  BY DEF SweepCommit, IInv, SweepInv
<1>3. \A old \in Rows : [old EXCEPT !.status = "expired"] \in Rows
                       /\ [old EXCEPT !.status = "expired"].status = "expired"
                       /\ [old EXCEPT !.status = "expired"].protocol = old.protocol
  BY DEF Rows, Statuses
<1>4. \A s \in Sessions : row'[s] = IF s \in sweep.marked
                                    THEN [row[s] EXCEPT !.status = "expired"] ELSE row[s]
  BY DEF SweepCommit
<1>5. row' \in [Sessions -> Rows \cup {None}]
  BY <1>1, <1>2, <1>3, <1>4 DEF SweepCommit
<1> QED
  BY <1>1, <1>2, <1>3, <1>4, <1>5, NoneAssumption DEF SweepCommit

\* Every step keeps the type of every variable.
LEMMA TypeStep == IInv /\ [Next]_vars => TypeOK'
<1> SUFFICES ASSUME IInv, [Next]_vars PROVE TypeOK'
  OBVIOUS
<1> USE DEF IInv
<1>1. ASSUME NEW r \in Requests, NEW s \in Sessions, Upload(r, s) PROVE TypeOK'
  BY <1>1, NoneAssumption DEF Upload, TypeOK, Handling, Rows, Outcomes, Statuses, Ops,
     Ids, Sweeps, RequestInv
<1>2. ASSUME NEW r \in Requests, NEW s \in Sessions, NEW op \in Ops, Read(r, s, op) PROVE TypeOK'
  BY <1>2, NoneAssumption DEF Read, TypeOK, Handling, Rows, Outcomes, Statuses, Ops,
     Ids, Sweeps, RequestInv
<1>3. ASSUME NEW r \in Requests, Parse(r) PROVE TypeOK'
  BY <1>3, NoneAssumption DEF Parse, Handles, TypeOK, Handling, Rows, Outcomes,
     Statuses, Ops, Ids, Sweeps, RequestInv
<1>4. ASSUME NEW r \in Requests, Insert(r) PROVE TypeOK'
  BY <1>4, NoneAssumption DEF Insert, Handles, TypeOK, Handling, Rows, Outcomes,
     Statuses, Ops, Ids, Sweeps, RequestInv
<1>5. ASSUME NEW r \in Requests, Update(r) PROVE TypeOK'
  BY <1>5, PlainCommit DEF TypeOK, Handling, Rows, Outcomes, Statuses, Ops, Ids,
     Sweeps, RequestInv
<1>6. ASSUME NEW r \in Requests, Reparse(r) PROVE TypeOK'
  BY <1>6, PlainCommit DEF TypeOK, Handling, Rows, Outcomes, Statuses, Ops, Ids,
     Sweeps, RequestInv
<1>7. ASSUME NEW r \in Requests, Cancel(r) PROVE TypeOK'
  BY <1>7, PlainCommit DEF TypeOK, Handling, Rows, Outcomes, Statuses, Ops, Ids,
     Sweeps, RequestInv
<1>8. ASSUME NEW r \in Requests, Confirm(r) PROVE TypeOK'
  BY <1>8, ConfirmCommit DEF TypeOK, Handling, Rows, Outcomes, Statuses, Ops, Ids,
     Sweeps, RequestInv
<1>9. ASSUME NEW r \in Requests, Leave(r) PROVE TypeOK'
  BY <1>9, NoneAssumption DEF Leave, TypeOK, Handling, Rows, Outcomes, Statuses, Ops,
     Ids, Sweeps, RequestInv
<1>10. ASSUME NEW s \in Sessions, Expire(s) PROVE TypeOK'
  BY <1>10, NoneAssumption DEF Expire, TypeOK, Handling, Rows, Outcomes, Statuses, Ops,
     Ids, Sweeps, RequestInv
<1>11. ASSUME NEW s \in Sessions, SweepFile(s) PROVE TypeOK'
  BY <1>11, NoneAssumption DEF SweepFile, TypeOK, Handling, Rows, Outcomes, Statuses,
     Ops, Ids, Sweeps, RequestInv
<1>12. CASE SweepBegin
  BY <1>12, NoneAssumption DEF SweepBegin, TypeOK, Handling, Rows, Outcomes, Statuses,
     Ops, Ids, Sweeps, RequestInv
<1>13. CASE SweepCommit
  BY <1>13, SweepCommitRows DEF SweepCommit, TypeOK, Handling, Rows, Outcomes,
     Statuses, Ops, Ids, Sweeps, RequestInv
<1>14. CASE SweepFail
  BY <1>14, NoneAssumption DEF SweepFail, TypeOK, Handling, Rows, Outcomes, Statuses,
     Ops, Ids, Sweeps, RequestInv
<1>15. CASE UNCHANGED vars
  BY <1>15 DEF vars, TypeOK, Handling, Rows, Outcomes, Statuses, Ops, Ids, Sweeps,
     RequestInv
<1> QED
  BY <1>1, <1>2, <1>3, <1>4, <1>5, <1>6, <1>7, <1>8, <1>9,
     <1>10, <1>11, <1>12, <1>13, <1>14, <1>15 DEF Next

\* What a request relies on survives every step of the others.
LEMMA RequestStep == IInv /\ [Next]_vars => RequestInv'
<1> SUFFICES ASSUME IInv, [Next]_vars PROVE RequestInv'
  OBVIOUS
<1> USE DEF IInv
<1>1. ASSUME NEW r \in Requests, NEW s \in Sessions, Upload(r, s) PROVE RequestInv'
  BY <1>1, NoneAssumption DEF Upload, RequestInv, ProtocolInv, SweepInv, TypeOK,
     Handling, Rows, Outcomes
<1>2. ASSUME NEW r \in Requests, NEW s \in Sessions, NEW op \in Ops, Read(r, s, op) PROVE RequestInv'
  BY <1>2, NoneAssumption DEF Read, RequestInv, ProtocolInv, SweepInv, TypeOK,
     Handling, Rows, Outcomes
<1>3. ASSUME NEW r \in Requests, Parse(r) PROVE RequestInv'
  BY <1>3, NoneAssumption DEF Parse, Handles, RequestInv, ProtocolInv, SweepInv,
     TypeOK, Handling, Rows, Outcomes
<1>4. ASSUME NEW r \in Requests, Insert(r) PROVE RequestInv'
  BY <1>4, NoneAssumption DEF Insert, Handles, RequestInv, ProtocolInv, SweepInv,
     TypeOK, Handling, Rows, Outcomes
<1>5. ASSUME NEW r \in Requests, Update(r) PROVE RequestInv'
  BY <1>5, PlainCommit DEF RequestInv, ProtocolInv, SweepInv, TypeOK, Handling
<1>6. ASSUME NEW r \in Requests, Reparse(r) PROVE RequestInv'
  BY <1>6, PlainCommit DEF RequestInv, ProtocolInv, SweepInv, TypeOK, Handling
<1>7. ASSUME NEW r \in Requests, Cancel(r) PROVE RequestInv'
  BY <1>7, PlainCommit DEF RequestInv, ProtocolInv, SweepInv, TypeOK, Handling
<1>8. ASSUME NEW r \in Requests, Confirm(r) PROVE RequestInv'
  BY <1>8, ConfirmCommit DEF RequestInv, ProtocolInv, SweepInv, TypeOK, Handling
<1>9. ASSUME NEW r \in Requests, Leave(r) PROVE RequestInv'
  BY <1>9, NoneAssumption DEF Leave, RequestInv, ProtocolInv, SweepInv, TypeOK,
     Handling, Rows, Outcomes
<1>10. ASSUME NEW s \in Sessions, Expire(s) PROVE RequestInv'
  BY <1>10, NoneAssumption DEF Expire, RequestInv, ProtocolInv, SweepInv, TypeOK,
     Handling, Rows, Outcomes
<1>11. ASSUME NEW s \in Sessions, SweepFile(s) PROVE RequestInv'
  BY <1>11, NoneAssumption DEF SweepFile, RequestInv, ProtocolInv, SweepInv, TypeOK,
     Handling, Rows, Outcomes
<1>12. CASE SweepBegin
  BY <1>12, NoneAssumption DEF SweepBegin, RequestInv, ProtocolInv, SweepInv, TypeOK,
     Handling, Rows, Outcomes
<1>13. CASE SweepCommit
  BY <1>13, SweepCommitRows DEF SweepCommit, RequestInv, ProtocolInv, SweepInv, TypeOK,
     Handling
<1>14. CASE SweepFail
  BY <1>14, NoneAssumption DEF SweepFail, RequestInv, ProtocolInv, SweepInv, TypeOK,
     Handling, Rows, Outcomes
<1>15. CASE UNCHANGED vars
  BY <1>15 DEF vars, RequestInv, ProtocolInv, SweepInv, TypeOK, Handling
<1> QED
  BY <1>1, <1>2, <1>3, <1>4, <1>5, <1>6, <1>7, <1>8, <1>9,
     <1>10, <1>11, <1>12, <1>13, <1>14, <1>15 DEF Next

\* A protocol keeps its session confirmed.
LEMMA ProtocolStep == IInv /\ [Next]_vars => ProtocolInv'
<1> SUFFICES ASSUME IInv, [Next]_vars PROVE ProtocolInv'
  OBVIOUS
<1> USE DEF IInv
<1>1. ASSUME NEW r \in Requests, NEW s \in Sessions, Upload(r, s) PROVE ProtocolInv'
  BY <1>1, NoneAssumption DEF Upload, ProtocolInv, RequestInv, TypeOK, Handling, Rows,
     Outcomes
<1>2. ASSUME NEW r \in Requests, NEW s \in Sessions, NEW op \in Ops, Read(r, s, op) PROVE ProtocolInv'
  BY <1>2, NoneAssumption DEF Read, ProtocolInv, RequestInv, TypeOK, Handling, Rows,
     Outcomes
<1>3. ASSUME NEW r \in Requests, Parse(r) PROVE ProtocolInv'
  BY <1>3, NoneAssumption DEF Parse, Handles, ProtocolInv, RequestInv, TypeOK,
     Handling, Rows, Outcomes
<1>4. ASSUME NEW r \in Requests, Insert(r) PROVE ProtocolInv'
  BY <1>4, NoneAssumption DEF Insert, Handles, ProtocolInv, RequestInv, TypeOK,
     Handling, Rows, Outcomes
<1>5. ASSUME NEW r \in Requests, Update(r) PROVE ProtocolInv'
  BY <1>5, PlainCommit DEF ProtocolInv, RequestInv, TypeOK
<1>6. ASSUME NEW r \in Requests, Reparse(r) PROVE ProtocolInv'
  BY <1>6, PlainCommit DEF ProtocolInv, RequestInv, TypeOK
<1>7. ASSUME NEW r \in Requests, Cancel(r) PROVE ProtocolInv'
  BY <1>7, PlainCommit DEF ProtocolInv, RequestInv, TypeOK
<1>8. ASSUME NEW r \in Requests, Confirm(r) PROVE ProtocolInv'
  BY <1>8, ConfirmCommit DEF ProtocolInv, RequestInv, TypeOK
<1>9. ASSUME NEW r \in Requests, Leave(r) PROVE ProtocolInv'
  BY <1>9, NoneAssumption DEF Leave, ProtocolInv, RequestInv, TypeOK, Handling, Rows,
     Outcomes
<1>10. ASSUME NEW s \in Sessions, Expire(s) PROVE ProtocolInv'
  BY <1>10, NoneAssumption DEF Expire, ProtocolInv, RequestInv, TypeOK, Handling, Rows,
     Outcomes
<1>11. ASSUME NEW s \in Sessions, SweepFile(s) PROVE ProtocolInv'
  BY <1>11, NoneAssumption DEF SweepFile, ProtocolInv, RequestInv, TypeOK, Handling,
     Rows, Outcomes
<1>12. CASE SweepBegin
  BY <1>12, NoneAssumption DEF SweepBegin, ProtocolInv, RequestInv, TypeOK, Handling,
     Rows, Outcomes
<1>13. CASE SweepCommit
  BY <1>13, SweepCommitRows DEF SweepCommit, ProtocolInv, RequestInv, TypeOK
<1>14. CASE SweepFail
  BY <1>14, NoneAssumption DEF SweepFail, ProtocolInv, RequestInv, TypeOK, Handling,
     Rows, Outcomes
<1>15. CASE UNCHANGED vars
  BY <1>15 DEF vars, ProtocolInv, RequestInv, TypeOK
<1> QED
  BY <1>1, <1>2, <1>3, <1>4, <1>5, <1>6, <1>7, <1>8, <1>9,
     <1>10, <1>11, <1>12, <1>13, <1>14, <1>15 DEF Next

\* The script's sessions stay due and their files stay removed.
LEMMA SweepStep == IInv /\ [Next]_vars => SweepInv'
<1> SUFFICES ASSUME IInv, [Next]_vars PROVE SweepInv'
  OBVIOUS
<1> USE DEF IInv
<1>1. ASSUME NEW r \in Requests, NEW s \in Sessions, Upload(r, s) PROVE SweepInv'
  BY <1>1, NoneAssumption DEF Upload, SweepInv, RequestInv, Sweeps, TypeOK, Handling,
     Rows, Outcomes
<1>2. ASSUME NEW r \in Requests, NEW s \in Sessions, NEW op \in Ops, Read(r, s, op) PROVE SweepInv'
  BY <1>2, NoneAssumption DEF Read, SweepInv, RequestInv, Sweeps, TypeOK, Handling,
     Rows, Outcomes
<1>3. ASSUME NEW r \in Requests, Parse(r) PROVE SweepInv'
  BY <1>3, NoneAssumption DEF Parse, Handles, SweepInv, RequestInv, Sweeps, TypeOK,
     Handling, Rows, Outcomes
<1>4. ASSUME NEW r \in Requests, Insert(r) PROVE SweepInv'
  BY <1>4, NoneAssumption DEF Insert, Handles, SweepInv, RequestInv, Sweeps, TypeOK,
     Handling, Rows, Outcomes
<1>5. ASSUME NEW r \in Requests, Update(r) PROVE SweepInv'
  BY <1>5, PlainCommit DEF SweepInv, RequestInv, Sweeps, TypeOK
<1>6. ASSUME NEW r \in Requests, Reparse(r) PROVE SweepInv'
  BY <1>6, PlainCommit DEF SweepInv, RequestInv, Sweeps, TypeOK
<1>7. ASSUME NEW r \in Requests, Cancel(r) PROVE SweepInv'
  BY <1>7, PlainCommit DEF SweepInv, RequestInv, Sweeps, TypeOK
<1>8. ASSUME NEW r \in Requests, Confirm(r) PROVE SweepInv'
  BY <1>8, ConfirmCommit DEF SweepInv, RequestInv, Sweeps, TypeOK
<1>9. ASSUME NEW r \in Requests, Leave(r) PROVE SweepInv'
  BY <1>9, NoneAssumption DEF Leave, SweepInv, RequestInv, Sweeps, TypeOK, Handling,
     Rows, Outcomes
<1>10. ASSUME NEW s \in Sessions, Expire(s) PROVE SweepInv'
  BY <1>10, NoneAssumption DEF Expire, SweepInv, RequestInv, Sweeps, TypeOK, Handling,
     Rows, Outcomes
<1>11. ASSUME NEW s \in Sessions, SweepFile(s) PROVE SweepInv'
  BY <1>11, NoneAssumption DEF SweepFile, SweepInv, RequestInv, Sweeps, TypeOK,
     Handling, Rows, Outcomes
<1>12. CASE SweepBegin
  BY <1>12, NoneAssumption DEF SweepBegin, SweepInv, RequestInv, Sweeps, TypeOK,
     Handling, Rows, Outcomes
<1>13. CASE SweepCommit
  BY <1>13, SweepCommitRows DEF SweepCommit, SweepInv, RequestInv, Sweeps, TypeOK
<1>14. CASE SweepFail
  BY <1>14, NoneAssumption DEF SweepFail, SweepInv, RequestInv, Sweeps, TypeOK,
     Handling, Rows, Outcomes
<1>15. CASE UNCHANGED vars
  BY <1>15 DEF vars, SweepInv, RequestInv, Sweeps, TypeOK
<1> QED
  BY <1>1, <1>2, <1>3, <1>4, <1>5, <1>6, <1>7, <1>8, <1>9,
     <1>10, <1>11, <1>12, <1>13, <1>14, <1>15 DEF Next

\* A thread creates no second protocol of a session.
LEMMA OneStep == IInv /\ [Next]_vars => OneProtocolEach'
<1> SUFFICES ASSUME IInv, [Next]_vars PROVE OneProtocolEach'
  OBVIOUS
<1> USE DEF IInv
<1>1. ASSUME NEW r \in Requests, NEW s \in Sessions, Upload(r, s) PROVE OneProtocolEach'
  BY <1>1, NoneAssumption DEF Upload, OneProtocolEach, RequestInv, TypeOK, Handling,
     Rows, Outcomes
<1>2. ASSUME NEW r \in Requests, NEW s \in Sessions, NEW op \in Ops, Read(r, s, op) PROVE OneProtocolEach'
  BY <1>2, NoneAssumption DEF Read, OneProtocolEach, RequestInv, TypeOK, Handling,
     Rows, Outcomes
<1>3. ASSUME NEW r \in Requests, Parse(r) PROVE OneProtocolEach'
  BY <1>3, NoneAssumption DEF Parse, Handles, OneProtocolEach, RequestInv, TypeOK,
     Handling, Rows, Outcomes
<1>4. ASSUME NEW r \in Requests, Insert(r) PROVE OneProtocolEach'
  BY <1>4, NoneAssumption DEF Insert, Handles, OneProtocolEach, RequestInv, TypeOK,
     Handling, Rows, Outcomes
<1>5. ASSUME NEW r \in Requests, Update(r) PROVE OneProtocolEach'
  BY <1>5, PlainCommit DEF OneProtocolEach, RequestInv, TypeOK
<1>6. ASSUME NEW r \in Requests, Reparse(r) PROVE OneProtocolEach'
  BY <1>6, PlainCommit DEF OneProtocolEach, RequestInv, TypeOK
<1>7. ASSUME NEW r \in Requests, Cancel(r) PROVE OneProtocolEach'
  BY <1>7, PlainCommit DEF OneProtocolEach, RequestInv, TypeOK
<1>8. ASSUME NEW r \in Requests, Confirm(r) PROVE OneProtocolEach'
  BY <1>8, ConfirmCommit DEF OneProtocolEach, RequestInv, TypeOK
<1>9. ASSUME NEW r \in Requests, Leave(r) PROVE OneProtocolEach'
  BY <1>9, NoneAssumption DEF Leave, OneProtocolEach, RequestInv, TypeOK, Handling,
     Rows, Outcomes
<1>10. ASSUME NEW s \in Sessions, Expire(s) PROVE OneProtocolEach'
  BY <1>10, NoneAssumption DEF Expire, OneProtocolEach, RequestInv, TypeOK, Handling,
     Rows, Outcomes
<1>11. ASSUME NEW s \in Sessions, SweepFile(s) PROVE OneProtocolEach'
  BY <1>11, NoneAssumption DEF SweepFile, OneProtocolEach, RequestInv, TypeOK,
     Handling, Rows, Outcomes
<1>12. CASE SweepBegin
  BY <1>12, NoneAssumption DEF SweepBegin, OneProtocolEach, RequestInv, TypeOK,
     Handling, Rows, Outcomes
<1>13. CASE SweepCommit
  BY <1>13, SweepCommitRows DEF SweepCommit, OneProtocolEach, RequestInv, TypeOK
<1>14. CASE SweepFail
  BY <1>14, NoneAssumption DEF SweepFail, OneProtocolEach, RequestInv, TypeOK,
     Handling, Rows, Outcomes
<1>15. CASE UNCHANGED vars
  BY <1>15 DEF vars, OneProtocolEach, RequestInv, TypeOK
<1> QED
  BY <1>1, <1>2, <1>3, <1>4, <1>5, <1>6, <1>7, <1>8, <1>9,
     <1>10, <1>11, <1>12, <1>13, <1>14, <1>15 DEF Next

\* A commit writes only the columns its request changed.
LEMMA ConfirmedStep == IInv /\ [Next]_vars => ConfirmedHasProtocol'
<1> SUFFICES ASSUME IInv, [Next]_vars PROVE ConfirmedHasProtocol'
  OBVIOUS
<1> USE DEF IInv
<1>1. ASSUME NEW r \in Requests, NEW s \in Sessions, Upload(r, s) PROVE ConfirmedHasProtocol'
  BY <1>1, NoneAssumption DEF Upload, ConfirmedHasProtocol, RequestInv, SweepInv,
     TypeOK, Handling, Rows, Outcomes
<1>2. ASSUME NEW r \in Requests, NEW s \in Sessions, NEW op \in Ops, Read(r, s, op) PROVE ConfirmedHasProtocol'
  BY <1>2, NoneAssumption DEF Read, ConfirmedHasProtocol, RequestInv, SweepInv, TypeOK,
     Handling, Rows, Outcomes
<1>3. ASSUME NEW r \in Requests, Parse(r) PROVE ConfirmedHasProtocol'
  BY <1>3, NoneAssumption DEF Parse, Handles, ConfirmedHasProtocol, RequestInv,
     SweepInv, TypeOK, Handling, Rows, Outcomes
<1>4. ASSUME NEW r \in Requests, Insert(r) PROVE ConfirmedHasProtocol'
  BY <1>4, NoneAssumption DEF Insert, Handles, ConfirmedHasProtocol, RequestInv,
     SweepInv, TypeOK, Handling, Rows, Outcomes
<1>5. ASSUME NEW r \in Requests, Update(r) PROVE ConfirmedHasProtocol'
  BY <1>5, PlainCommit DEF ConfirmedHasProtocol, RequestInv, SweepInv, TypeOK
<1>6. ASSUME NEW r \in Requests, Reparse(r) PROVE ConfirmedHasProtocol'
  BY <1>6, PlainCommit DEF ConfirmedHasProtocol, RequestInv, SweepInv, TypeOK
<1>7. ASSUME NEW r \in Requests, Cancel(r) PROVE ConfirmedHasProtocol'
  BY <1>7, PlainCommit DEF ConfirmedHasProtocol, RequestInv, SweepInv, TypeOK
<1>8. ASSUME NEW r \in Requests, Confirm(r) PROVE ConfirmedHasProtocol'
  BY <1>8, ConfirmCommit DEF ConfirmedHasProtocol, RequestInv, SweepInv, TypeOK
<1>9. ASSUME NEW r \in Requests, Leave(r) PROVE ConfirmedHasProtocol'
  BY <1>9, NoneAssumption DEF Leave, ConfirmedHasProtocol, RequestInv, SweepInv,
     TypeOK, Handling, Rows, Outcomes
<1>10. ASSUME NEW s \in Sessions, Expire(s) PROVE ConfirmedHasProtocol'
  BY <1>10, NoneAssumption DEF Expire, ConfirmedHasProtocol, RequestInv, SweepInv,
     TypeOK, Handling, Rows, Outcomes
<1>11. ASSUME NEW s \in Sessions, SweepFile(s) PROVE ConfirmedHasProtocol'
  BY <1>11, NoneAssumption DEF SweepFile, ConfirmedHasProtocol, RequestInv, SweepInv,
     TypeOK, Handling, Rows, Outcomes
<1>12. CASE SweepBegin
  BY <1>12, NoneAssumption DEF SweepBegin, ConfirmedHasProtocol, RequestInv, SweepInv,
     TypeOK, Handling, Rows, Outcomes
<1>13. CASE SweepCommit
  BY <1>13, SweepCommitRows DEF SweepCommit, ConfirmedHasProtocol, RequestInv,
     SweepInv, TypeOK
<1>14. CASE SweepFail
  BY <1>14, NoneAssumption DEF SweepFail, ConfirmedHasProtocol, RequestInv, SweepInv,
     TypeOK, Handling, Rows, Outcomes
<1>15. CASE UNCHANGED vars
  BY <1>15 DEF vars, ConfirmedHasProtocol, RequestInv, SweepInv, TypeOK
<1> QED
  BY <1>1, <1>2, <1>3, <1>4, <1>5, <1>6, <1>7, <1>8, <1>9,
     <1>10, <1>11, <1>12, <1>13, <1>14, <1>15 DEF Next

\* Files and statuses change in the order the script gives them.
LEMMA FilesStep == IInv /\ [Next]_vars => FilesFollowRows'
<1> SUFFICES ASSUME IInv, [Next]_vars PROVE FilesFollowRows'
  OBVIOUS
<1> USE DEF IInv
<1>1. ASSUME NEW r \in Requests, NEW s \in Sessions, Upload(r, s) PROVE FilesFollowRows'
  BY <1>1, NoneAssumption DEF Upload, FilesFollowRows, RequestInv, SweepInv, TypeOK,
     Handling, Rows, Outcomes
<1>2. ASSUME NEW r \in Requests, NEW s \in Sessions, NEW op \in Ops, Read(r, s, op) PROVE FilesFollowRows'
  BY <1>2, NoneAssumption DEF Read, FilesFollowRows, RequestInv, SweepInv, TypeOK,
     Handling, Rows, Outcomes
<1>3. ASSUME NEW r \in Requests, Parse(r) PROVE FilesFollowRows'
  BY <1>3, NoneAssumption DEF Parse, Handles, FilesFollowRows, RequestInv, SweepInv,
     TypeOK, Handling, Rows, Outcomes
<1>4. ASSUME NEW r \in Requests, Insert(r) PROVE FilesFollowRows'
  BY <1>4, NoneAssumption DEF Insert, Handles, FilesFollowRows, RequestInv, SweepInv,
     TypeOK, Handling, Rows, Outcomes
<1>5. ASSUME NEW r \in Requests, Update(r) PROVE FilesFollowRows'
  BY <1>5, PlainCommit DEF FilesFollowRows, RequestInv, SweepInv, TypeOK
<1>6. ASSUME NEW r \in Requests, Reparse(r) PROVE FilesFollowRows'
  BY <1>6, PlainCommit DEF FilesFollowRows, RequestInv, SweepInv, TypeOK
<1>7. ASSUME NEW r \in Requests, Cancel(r) PROVE FilesFollowRows'
  BY <1>7, PlainCommit DEF FilesFollowRows, RequestInv, SweepInv, TypeOK
<1>8. ASSUME NEW r \in Requests, Confirm(r) PROVE FilesFollowRows'
  BY <1>8, ConfirmCommit DEF FilesFollowRows, RequestInv, SweepInv, TypeOK
<1>9. ASSUME NEW r \in Requests, Leave(r) PROVE FilesFollowRows'
  BY <1>9, NoneAssumption DEF Leave, FilesFollowRows, RequestInv, SweepInv, TypeOK,
     Handling, Rows, Outcomes
<1>10. ASSUME NEW s \in Sessions, Expire(s) PROVE FilesFollowRows'
  BY <1>10, NoneAssumption DEF Expire, FilesFollowRows, RequestInv, SweepInv, TypeOK,
     Handling, Rows, Outcomes
<1>11. ASSUME NEW s \in Sessions, SweepFile(s) PROVE FilesFollowRows'
  BY <1>11, NoneAssumption DEF SweepFile, FilesFollowRows, RequestInv, SweepInv,
     TypeOK, Handling, Rows, Outcomes
<1>12. CASE SweepBegin
  BY <1>12, NoneAssumption DEF SweepBegin, FilesFollowRows, RequestInv, SweepInv,
     TypeOK, Handling, Rows, Outcomes
<1>13. CASE SweepCommit
  BY <1>13, SweepCommitRows DEF SweepCommit, FilesFollowRows, RequestInv, SweepInv,
     TypeOK
<1>14. CASE SweepFail
  BY <1>14, NoneAssumption DEF SweepFail, FilesFollowRows, RequestInv, SweepInv,
     TypeOK, Handling, Rows, Outcomes
<1>15. CASE UNCHANGED vars
  BY <1>15 DEF vars, FilesFollowRows, RequestInv, SweepInv, TypeOK
<1> QED
  BY <1>1, <1>2, <1>3, <1>4, <1>5, <1>6, <1>7, <1>8, <1>9,
     <1>10, <1>11, <1>12, <1>13, <1>14, <1>15 DEF Next

\* The inductive invariant holds in every reachable state.
THEOREM Invariance == Spec => []IInv
<1>1. Init => IInv
  BY BoundAssumption, NoneAssumption
  DEF Init, IInv, TypeOK, RequestInv, ProtocolInv, SweepInv, OneProtocolEach,
      ConfirmedHasProtocol, FilesFollowRows
<1>2. IInv /\ [Next]_vars => IInv'
  BY TypeStep, RequestStep, ProtocolStep, SweepStep, OneStep, ConfirmedStep, FilesStep
  DEF IInv
<1> QED
  BY <1>1, <1>2, PTL DEF Spec

\* The variables have their types (columns of import_sessions, copies of requests).
THEOREM TypeCorrect == Spec => []TypeOK
  BY Invariance, PTL DEF IInv

\* Only confirmations that overlap create several protocols of a session: a thread
\* creates at most one (confirm_session).
THEOREM OneProtocolForEach == Spec => []OneProtocolEach
  BY Invariance, PTL DEF IInv

\* A confirmed session names a protocol created from it (confirm_session, and the
\* commits of stale copies around it).
THEOREM ConfirmationIsSound == Spec => []ConfirmedHasProtocol
  BY Invariance, PTL DEF IInv

\* Expired sessions have no file, and those not yet due have one
\* (cleanup_expired_import_sessions).
THEOREM FilesAreSound == Spec => []FilesFollowRows
  BY Invariance, PTL DEF IInv

\* No commit of a stale copy undoes a confirmation.
THEOREM ConfirmationsStay == Spec => ConfirmationStays
<1> DEFINE Stays == \A s \in Sessions : row[s] # None /\ row[s].protocol # None
                                        => row'[s] # None /\ row'[s].protocol # None
<1>1. IInv /\ [Next]_vars => [Stays]_vars
  <2> SUFFICES ASSUME IInv, [Next]_vars PROVE Stays
    OBVIOUS
  <2> USE DEF IInv
  <2>1. ASSUME NEW r \in Requests, NEW s \in Sessions, Upload(r, s) PROVE Stays
    BY <2>1, NoneAssumption DEF Upload, RequestInv, SweepInv, TypeOK, Handling, Rows,
       Outcomes
  <2>2. ASSUME NEW r \in Requests, NEW s \in Sessions, NEW op \in Ops, Read(r, s, op) PROVE Stays
    BY <2>2, NoneAssumption DEF Read, RequestInv, SweepInv, TypeOK, Handling, Rows,
       Outcomes
  <2>3. ASSUME NEW r \in Requests, Parse(r) PROVE Stays
    BY <2>3, NoneAssumption DEF Parse, Handles, RequestInv, SweepInv, TypeOK, Handling,
       Rows, Outcomes
  <2>4. ASSUME NEW r \in Requests, Insert(r) PROVE Stays
    BY <2>4, NoneAssumption DEF Insert, Handles, RequestInv, SweepInv, TypeOK,
       Handling, Rows, Outcomes
  <2>5. ASSUME NEW r \in Requests, Update(r) PROVE Stays
    BY <2>5, PlainCommit DEF RequestInv, SweepInv, TypeOK
  <2>6. ASSUME NEW r \in Requests, Reparse(r) PROVE Stays
    BY <2>6, PlainCommit DEF RequestInv, SweepInv, TypeOK
  <2>7. ASSUME NEW r \in Requests, Cancel(r) PROVE Stays
    BY <2>7, PlainCommit DEF RequestInv, SweepInv, TypeOK
  <2>8. ASSUME NEW r \in Requests, Confirm(r) PROVE Stays
    BY <2>8, ConfirmCommit DEF RequestInv, SweepInv, TypeOK
  <2>9. ASSUME NEW r \in Requests, Leave(r) PROVE Stays
    BY <2>9, NoneAssumption DEF Leave, RequestInv, SweepInv, TypeOK, Handling, Rows,
       Outcomes
  <2>10. ASSUME NEW s \in Sessions, Expire(s) PROVE Stays
    BY <2>10, NoneAssumption DEF Expire, RequestInv, SweepInv, TypeOK, Handling, Rows,
       Outcomes
  <2>11. ASSUME NEW s \in Sessions, SweepFile(s) PROVE Stays
    BY <2>11, NoneAssumption DEF SweepFile, RequestInv, SweepInv, TypeOK, Handling,
       Rows, Outcomes
  <2>12. CASE SweepBegin
    BY <2>12, NoneAssumption DEF SweepBegin, RequestInv, SweepInv, TypeOK, Handling,
       Rows, Outcomes
  <2>13. CASE SweepCommit
    BY <2>13, SweepCommitRows DEF SweepCommit, RequestInv, SweepInv, TypeOK
  <2>14. CASE SweepFail
    BY <2>14, NoneAssumption DEF SweepFail, RequestInv, SweepInv, TypeOK, Handling,
       Rows, Outcomes
  <2>15. CASE UNCHANGED vars
    BY <2>15 DEF vars, RequestInv, SweepInv, TypeOK
  <2> QED
    BY <2>1, <2>2, <2>3, <2>4, <2>5, <2>6, <2>7, <2>8, <2>9,
       <2>10, <2>11, <2>12, <2>13, <2>14, <2>15 DEF Next
<1> QED
  BY <1>1, Invariance, PTL DEF Spec, ConfirmationStays
-----------------------------------------------------------------------------
(***************************************************************************)
(* What an upload recognises: the scanners of DocumentParsing put every    *)
(* line of any document to one use, and in order.                          *)
(*                                                                         *)
(* The functions over the elements of a document are recursive; what is    *)
(* said of them is proved by induction over the numbers, which is taken    *)
(* from the well-foundedness of < on them.                                 *)
(***************************************************************************)

\* A set of numbers that is not empty has a least one.
LEMMA LeastNumber ==
    ASSUME NEW S \in SUBSET Nat, S # {}
    PROVE  \E x \in S : \A y \in S : x <= y
<1>1. PICK x \in S : \A y \in S : ~ (<<y, x>> \in OpToRel(<, Nat))
  BY NatLessThanWellFounded, WFMin
<1>2. \A y \in S : ~ (y < x)
  BY <1>1 DEF OpToRel
<1> QED
  BY <1>2

\* A set that holds 0 and the successors of its members holds every number.
LEMMA Induction ==
    ASSUME NEW S \in SUBSET Nat, 0 \in S, \A n \in S : n + 1 \in S
    PROVE  S = Nat
<1> DEFINE T == Nat \ S
<1>1. SUFFICES ASSUME T # {} PROVE FALSE
  OBVIOUS
<1>2. PICK x \in T : \A y \in T : x <= y
  BY <1>1, LeastNumber
<1>3. x \in Nat /\ x # 0
  BY <1>2
<1>4. x - 1 \in Nat /\ x - 1 \notin T
  BY <1>2, <1>3
<1>5. x - 1 \in S
  BY <1>4
<1>6. (x - 1) + 1 \in S
  BY <1>5
<1> QED
  BY <1>2, <1>3, <1>6

\* The function that starts with b and takes the steps g.
Follows(f, n, b, g) == f[0] = b /\ \A k \in 1..n : f[k] = g[k][f[k - 1]]

\* A function over 0..n is defined by its value at 0 and its steps.
LEMMA RecursiveFunction ==
    ASSUME NEW n \in Nat, NEW S, NEW b \in S, NEW g \in [1..n -> [S -> S]]
    PROVE  \E f \in [0..n -> S] : Follows(f, n, b, g)
<1> DEFINE Ok(m, f) == f \in [0..m -> S] /\ f[0] = b /\ \A k \in 1..m : f[k] = g[k][f[k - 1]]
           T == {m \in Nat : m <= n => \E f : Ok(m, f)}
<1>1. 0 \in T
  <2>1. Ok(0, [k \in 0..0 |-> b])
    OBVIOUS
  <2> QED
    BY <2>1
<1>2. ASSUME NEW m \in T PROVE m + 1 \in T
  <2> HIDE DEF Ok
  <2>1. SUFFICES ASSUME m + 1 <= n PROVE \E f : Ok(m + 1, f)
    OBVIOUS
  <2>2. PICK f : Ok(m, f)
    BY <1>2, <2>1
  <2> USE DEF Ok
  <2> DEFINE h == [k \in 0..(m + 1) |-> IF k = m + 1 THEN g[m + 1][f[m]] ELSE f[k]]
  <2>3. f[m] \in S /\ g[m + 1][f[m]] \in S
    BY <2>1, <2>2
  <2>4. h \in [0..(m + 1) -> S]
    BY <2>2, <2>3
  <2>5. h[0] = b
    BY <2>2
  <2>6. ASSUME NEW k \in 1..(m + 1) PROVE h[k] = g[k][h[k - 1]]
    <3>1. CASE k = m + 1
      BY <3>1
    <3>2. CASE k \in 1..m
      <4>1. h[k] = f[k] /\ h[k - 1] = f[k - 1]
        BY <3>2
      <4> QED
        BY <2>2, <3>2, <4>1
    <3> QED
      BY <3>1, <3>2
  <2>7. Ok(m + 1, h)
    BY <2>4, <2>5, <2>6
  <2> QED
    BY <2>7
<1>3. T = Nat
  BY <1>1, <1>2, Induction
<1>4. PICK f : Ok(n, f)
  BY <1>3
<1> QED
  BY <1>4 DEF Follows

\* The filled cells of an element that has one.
LEMMA FilledCells ==
    ASSUME NEW e \in Elements
    PROVE  Filled(e) \in Seq(Words) /\ Filled(e) # <<>>
<1> DEFINE n == Len(e.cells)
           Is(f) == f = [c \in 0..n |-> IF c = 0 THEN <<>>
                        ELSE IF e.cells[c].kind = "blank" THEN f[c - 1]
                        ELSE Append(f[c - 1], e.cells[c])]
<1>1. Filled(e) = (CHOOSE f : Is(f))[n]
  BY DEF Filled
<1> DEFINE g == [c \in 1..n |-> [s \in Seq(Words) |->
                   IF e.cells[c].kind = "blank" THEN s ELSE Append(s, e.cells[c])]]
<1>2. n \in Nat /\ g \in [1..n -> [Seq(Words) -> Seq(Words)]]
  BY DEF Elements
<1>3. PICK f \in [0..n -> Seq(Words)] : f[0] = <<>> /\ \A k \in 1..n : f[k] = g[k][f[k - 1]]
  <2> DEFINE S == Seq(Words)
             start == <<>>
  <2>1. start \in S
    OBVIOUS
  <2>2. n \in Nat /\ g \in [1..n -> [S -> S]]
    BY <1>2
  <2> HIDE DEF n, g, S, start
  <2>3. \E f \in [0..n -> S] : Follows(f, n, start, g)
    BY <2>1, <2>2, RecursiveFunction
  <2> QED
    BY <2>3 DEF S, start, Follows
<1>4. Is(f)
  <2> DEFINE h == [c \in 0..n |-> IF c = 0 THEN <<>>
                        ELSE IF e.cells[c].kind = "blank" THEN f[c - 1]
                        ELSE Append(f[c - 1], e.cells[c])]
  <2>1. ASSUME NEW c \in 0..n PROVE f[c] = h[c]
    <3>1. CASE c = 0
      BY <1>3, <3>1
    <3>2. CASE c \in 1..n
      <4>1. f[c - 1] \in Seq(Words)
        BY <3>2
      <4>2. f[c] = g[c][f[c - 1]]
        BY <1>3, <3>2
      <4>3. g[c][f[c - 1]] = IF e.cells[c].kind = "blank" THEN f[c - 1] ELSE Append(f[c - 1], e.cells[c])
        BY <3>2, <4>1
      <4> QED
        BY <3>2, <4>2, <4>3
    <3> QED
      BY <3>1, <3>2
  <2>2. f = h
    BY <2>1
  <2> QED
    BY <2>2
<1>5. Is(CHOOSE x : Is(x))
  BY <1>4, Zenon
<1> DEFINE F == CHOOSE x : Is(x)
<1>6. /\ F[0] = <<>>
      /\ \A c \in 1..n : F[c] = IF e.cells[c].kind = "blank" THEN F[c - 1] ELSE Append(F[c - 1], e.cells[c])
  <2>1. F = [c \in 0..n |-> IF c = 0 THEN <<>>
                        ELSE IF e.cells[c].kind = "blank" THEN F[c - 1]
                        ELSE Append(F[c - 1], e.cells[c])]
    BY <1>5
  <2> HIDE DEF F
  <2>2. 0 \in 0..n /\ \A c \in 1..n : c \in 0..n /\ c # 0
    BY <1>2
  <2> HIDE DEF n
  <2>3. F[0] = <<>>
    BY <2>1, <2>2, Zenon
  <2> QED
    BY <2>1, <2>2, <2>3
<1> HIDE DEF F
<1> DEFINE T == {c \in Nat : c <= n => F[c] \in Seq(Words) /\ (F[c] # <<>> \/ \A b \in 1..c : e.cells[b].kind = "blank")}
<1>7. 0 \in T
  <2>1. F[0] \in Seq(Words) /\ \A b \in 1..0 : e.cells[b].kind = "blank"
    BY <1>6
  <2> QED
    BY <2>1
<1>8. ASSUME NEW c \in T PROVE c + 1 \in T
  <2>1. SUFFICES ASSUME c + 1 <= n
                 PROVE  /\ F[c + 1] \in Seq(Words)
                        /\ F[c + 1] # <<>> \/ \A b \in 1..(c + 1) : e.cells[b].kind = "blank"
    OBVIOUS
  <2>2. F[c] \in Seq(Words) /\ (F[c] # <<>> \/ \A b \in 1..c : e.cells[b].kind = "blank")
    <3>1. c \in Nat /\ c <= n
      BY <1>2, <2>1
    <3>2. c <= n => F[c] \in Seq(Words) /\ (F[c] # <<>> \/ \A b \in 1..c : e.cells[b].kind = "blank")
      OBVIOUS
    <3> QED
      BY <3>1, <3>2
  <2>3. F[c + 1] = IF e.cells[c + 1].kind = "blank" THEN F[c] ELSE Append(F[c], e.cells[c + 1])
    BY <1>2, <1>6, <2>1
  <2>4. e.cells[c + 1] \in Words
    BY <2>1 DEF Elements
  <2>5. CASE e.cells[c + 1].kind = "blank"
    BY <2>2, <2>3, <2>5
  <2>6. CASE e.cells[c + 1].kind # "blank"
    BY <2>2, <2>3, <2>4, <2>6
  <2> QED
    BY <2>5, <2>6
<1>9. T = Nat
  BY <1>7, <1>8, Induction
<1>10. F[n] \in Seq(Words) /\ (F[n] # <<>> \/ \A b \in 1..n : e.cells[b].kind = "blank")
  BY <1>2, <1>9
<1>11. DOMAIN e.cells = 1..n
  BY DEF Elements
<1> QED
  BY <1>1, <1>10, <1>11 DEF F, Elements

\* The lines of a document: each with the element it stands in, in the order of those.
DocLines(n) == {s \in Seq([element : 1..n, line : Words]) :
                  \A x, y \in DOMAIN s : x <= y => s[x].element <= s[y].element}

\* The lines of one element are laid behind those of the elements before it.
LEMMA MoreLines ==
    ASSUME NEW n \in Nat, NEW k \in 1..n, NEW s \in DocLines(n),
           NEW v \in Seq([element : {k}, line : Words]),
           \A x \in DOMAIN s : s[x].element < k
    PROVE  /\ s \o v \in DocLines(n)
           /\ \A x \in DOMAIN (s \o v) : (s \o v)[x].element <= k
<1> DEFINE L == [element : 1..n, line : Words]
           K == [element : {k}, line : Words]
           u == s \o v
<1>1. s \in Seq(L) /\ \A x, y \in DOMAIN s : x <= y => s[x].element <= s[y].element
  BY DEF DocLines
<1>2. v \in Seq(L) /\ \A x \in 1..Len(v) : v[x].element = k
  <2>1. K \subseteq L /\ \A w \in K : w.element = k
    OBVIOUS
  <2> HIDE DEF K, L
  <2>2. v \in Seq(K)
    BY DEF K
  <2> QED
    BY <2>1, <2>2
<1> HIDE DEF L
<1>3. /\ u \in Seq(L) /\ Len(u) = Len(s) + Len(v)
      /\ \A x \in 1..Len(s) : u[x] = s[x]
      /\ \A x \in (Len(s) + 1)..Len(u) : u[x] = v[x - Len(s)]
  <2>1. /\ u \in Seq(L) /\ Len(u) = Len(s) + Len(v)
        /\ \A x \in 1..Len(s) + Len(v) : u[x] = IF x <= Len(s) THEN s[x] ELSE v[x - Len(s)]
    BY <1>1, <1>2, ConcatProperties
  <2>2. Len(s) \in Nat /\ Len(v) \in Nat
    BY <1>1, <1>2
  <2> HIDE DEF u
  <2> QED
    BY <2>1, <2>2
<1>4. DOMAIN s = 1..Len(s) /\ DOMAIN u = 1..Len(u) /\ Len(s) \in Nat /\ Len(v) \in Nat
  BY <1>1, <1>3
<1>5. \A x \in 1..Len(s) : u[x].element = s[x].element /\ s[x].element \in Nat /\ s[x].element < k
  <2> SUFFICES ASSUME NEW x \in 1..Len(s)
               PROVE  u[x].element = s[x].element /\ s[x].element \in Nat /\ s[x].element < k
    OBVIOUS
  <2>1. s[x] \in L
    BY <1>1
  <2>2. s[x].element \in 1..n
    BY <2>1 DEF L
  <2>3. s[x].element < k
    BY <1>4
  <2> QED
    BY <1>3, <2>2, <2>3
<1>6. \A x \in (Len(s) + 1)..Len(u) : u[x].element = k
  <2>1. \A x \in (Len(s) + 1)..Len(u) : x - Len(s) \in 1..Len(v)
    BY <1>2, <1>3, <1>4
  <2> QED
    BY <1>2, <1>3, <2>1
<1> HIDE DEF u
<1>7. \A x, y \in DOMAIN u : x <= y => u[x].element <= u[y].element
  <2> SUFFICES ASSUME NEW x \in 1..Len(u), NEW y \in 1..Len(u), x <= y
               PROVE  u[x].element <= u[y].element
    BY <1>4
  <2>1. CASE y \in 1..Len(s)
    <3>1. x \in 1..Len(s)
      BY <1>3, <1>4, <2>1
    <3> QED
      BY <1>1, <1>4, <1>5, <2>1, <3>1
  <2>2. CASE y \in (Len(s) + 1)..Len(u)
    <3>1. CASE x \in 1..Len(s)
      BY <1>5, <1>6, <2>2, <3>1
    <3>2. CASE x \in (Len(s) + 1)..Len(u)
      BY <1>6, <2>2, <3>2
    <3> QED
      BY <1>3, <1>4, <3>1, <3>2
  <2> QED
    BY <1>3, <1>4, <2>1, <2>2
<1>8. \A x \in DOMAIN u : u[x].element <= k
  <2>1. \A x \in DOMAIN u : x \in 1..Len(s) \/ x \in (Len(s) + 1)..Len(u)
    BY <1>3, <1>4
  <2> QED
    BY <1>5, <1>6, <2>1
<1>9. u \in DocLines(n)
  BY <1>3, <1>7 DEF DocLines, L
<1> QED
  BY <1>8, <1>9 DEF u

\* The lines of a document, as parse() lays them out: typed, and in the order of their
\* elements.
LEMMA NormalizedLines ==
    ASSUME NEW d \in Seq(Elements)
    PROVE  Normalized(d) \in DocLines(Len(d))
<1> DEFINE n == Len(d)
           Is(f) == f = [k \in 0..n |->
                          IF k = 0 THEN <<>>
                          ELSE f[k - 1] \o [c \in DOMAIN Filled(d[k]) |->
                                             [element |-> k, line |-> Filled(d[k])[c]]]]
<1>1. Normalized(d) = (CHOOSE f : Is(f))[n]
  BY DEF Normalized
<1> DEFINE S == Seq([element : 1..n, line : Words])
           g == [k \in 1..n |-> [s \in S |->
                   s \o [c \in DOMAIN Filled(d[k]) |-> [element |-> k, line |-> Filled(d[k])[c]]]]]
<1>2. n \in Nat
  OBVIOUS
<1>3. ASSUME NEW k \in 1..n
      PROVE  /\ Filled(d[k]) \in Seq(Words)
             /\ [c \in DOMAIN Filled(d[k]) |-> [element |-> k, line |-> Filled(d[k])[c]]] \in S
  <2>1. d[k] \in Elements
    OBVIOUS
  <2>2. Filled(d[k]) \in Seq(Words)
    BY <2>1, FilledCells
  <2> DEFINE t == Filled(d[k])
             v == [c \in DOMAIN t |-> [element |-> k, line |-> t[c]]]
  <2>3. DOMAIN t = 1..Len(t) /\ Len(t) \in Nat /\ \A c \in 1..Len(t) : t[c] \in Words
    BY <2>2
  <2> HIDE DEF n, t
  <2> DEFINE L == [element : 1..n, line : Words]
  <2>4. v \in [1..Len(t) -> L]
    BY <2>3
  <2> HIDE DEF v, L
  <2>5. v \in Seq(L)
    BY <2>3, <2>4
  <2> QED
    BY <2>2, <2>5 DEF t, v, L
<1>4. g \in [1..n -> [S -> S]]
  <2> SUFFICES ASSUME NEW k \in 1..n, NEW s \in S
               PROVE  s \o [c \in DOMAIN Filled(d[k]) |->
                              [element |-> k, line |-> Filled(d[k])[c]]] \in S
    OBVIOUS
  <2> DEFINE v == [c \in DOMAIN Filled(d[k]) |-> [element |-> k, line |-> Filled(d[k])[c]]]
             L == [element : 1..n, line : Words]
  <2>1. s \in Seq(L) /\ v \in Seq(L)
    BY <1>3
  <2> HIDE DEF v, L
  <2>2. s \o v \in Seq(L)
    BY <2>1, ConcatProperties
  <2> QED
    BY <2>2 DEF v, L
<1>5. PICK f \in [0..n -> S] : f[0] = <<>> /\ \A k \in 1..n : f[k] = g[k][f[k - 1]]
  <2> DEFINE start == <<>>
  <2>1. start \in S
    OBVIOUS
  <2> HIDE DEF n, g, S, start
  <2>2. \E f \in [0..n -> S] : Follows(f, n, start, g)
    BY <1>2, <1>4, <2>1, RecursiveFunction
  <2> QED
    BY <2>2 DEF start, Follows
<1>6. Is(f)
  <2> DEFINE h == [k \in 0..n |->
                    IF k = 0 THEN <<>>
                    ELSE f[k - 1] \o [c \in DOMAIN Filled(d[k]) |->
                                       [element |-> k, line |-> Filled(d[k])[c]]]]
  <2>1. ASSUME NEW k \in 0..n PROVE f[k] = h[k]
    <3>1. CASE k = 0
      BY <1>5, <3>1
    <3>2. CASE k \in 1..n
      <4>0. k - 1 \in 0..n
        BY <1>2, <3>2
      <4>1. f[k - 1] \in S
        BY <4>0
      <4>2. f[k] = g[k][f[k - 1]]
        BY <1>5, <3>2
      <4> HIDE DEF S
      <4>3. g[k][f[k - 1]] = f[k - 1] \o [c \in DOMAIN Filled(d[k]) |->
                                           [element |-> k, line |-> Filled(d[k])[c]]]
        BY <3>2, <4>1
      <4> QED
        BY <3>2, <4>2, <4>3
    <3> QED
      BY <1>2, <3>1, <3>2
  <2> HIDE DEF n
  <2>2. f = h
    BY <2>1
  <2> QED
    BY <2>2
<1>7. Is(CHOOSE x : Is(x))
  BY <1>6, Zenon
<1> DEFINE F == CHOOSE x : Is(x)
<1>8. /\ F[0] = <<>>
      /\ \A k \in 1..n : F[k] = F[k - 1] \o [c \in DOMAIN Filled(d[k]) |->
                                             [element |-> k, line |-> Filled(d[k])[c]]]
  <2>1. F = [k \in 0..n |-> IF k = 0 THEN <<>>
                            ELSE F[k - 1] \o [c \in DOMAIN Filled(d[k]) |->
                                               [element |-> k, line |-> Filled(d[k])[c]]]]
    BY <1>7
  <2> HIDE DEF F
  <2>2. 0 \in 0..n /\ \A k \in 1..n : k \in 0..n /\ k # 0
    BY <1>2
  <2> HIDE DEF n
  <2> QED
    BY <2>1, <2>2, Zenon
<1> HIDE DEF F
<1> DEFINE T == {k \in Nat : k <= n => F[k] \in DocLines(n) /\ \A x \in DOMAIN F[k] : F[k][x].element <= k}
<1>9. 0 \in T
  <2>1. <<>> \in DocLines(n) /\ DOMAIN <<>> = {}
    BY DEF DocLines
  <2> QED
    BY <1>8, <2>1
<1>10. ASSUME NEW k \in T PROVE k + 1 \in T
  <2> SUFFICES ASSUME k + 1 <= n
               PROVE  F[k + 1] \in DocLines(n) /\ \A x \in DOMAIN F[k + 1] : F[k + 1][x].element <= k + 1
    OBVIOUS
  <2>1. k \in Nat /\ k <= n /\ k + 1 \in 1..n
    BY <1>2
  <2>2. F[k] \in DocLines(n) /\ \A x \in DOMAIN F[k] : F[k][x].element <= k
    BY <2>1
  <2>3. \A x \in DOMAIN F[k] : F[k][x].element < k + 1
    <3> SUFFICES ASSUME NEW x \in DOMAIN F[k] PROVE F[k][x].element < k + 1
      OBVIOUS
    <3> DEFINE L == [element : 1..n, line : Words]
    <3>1. F[k] \in Seq(L)
      BY <2>2 DEF DocLines
    <3> HIDE DEF L
    <3>2. F[k][x] \in L
      BY <3>1
    <3>3. F[k][x].element \in Nat
      BY <3>2 DEF L
    <3> QED
      BY <2>1, <2>2, <3>3
  <2>4. Filled(d[k + 1]) \in Seq(Words)
    BY <1>3, <2>1
  <2>5. F[k + 1] = F[k] \o [c \in DOMAIN Filled(d[k + 1]) |->
                              [element |-> k + 1, line |-> Filled(d[k + 1])[c]]]
    <3>1. (k + 1) - 1 = k
      BY <2>1
    <3> HIDE DEF n
    <3>2. F[k + 1] = F[(k + 1) - 1] \o [c \in DOMAIN Filled(d[k + 1]) |->
                                         [element |-> k + 1, line |-> Filled(d[k + 1])[c]]]
      BY <1>8, <2>1, Zenon
    <3> QED
      BY <3>1, <3>2, Zenon
  <2> DEFINE j == k + 1
             s == F[k]
             t == Filled(d[j])
             v == [c \in DOMAIN t |-> [element |-> j, line |-> t[c]]]
  <2>6. /\ n \in Nat /\ j \in 1..n /\ s \in DocLines(n)
        /\ \A x \in DOMAIN s : s[x].element < j
    BY <1>2, <2>1, <2>2, <2>3
  <2>7. F[j] = s \o v
    BY <2>5
  <2>8. v \in Seq([element : {j}, line : Words])
    <3> DEFINE K == [element : {j}, line : Words]
    <3>1. DOMAIN t = 1..Len(t) /\ Len(t) \in Nat /\ \A c \in 1..Len(t) : t[c] \in Words
      BY <2>4
    <3> HIDE DEF t, j
    <3>2. v \in [1..Len(t) -> K]
      BY <3>1
    <3> HIDE DEF v, K
    <3>3. v \in Seq(K)
      BY <3>1, <3>2
    <3> QED
      BY <3>3 DEF K
  <2> HIDE DEF n, j, s, t, v
  <2>9. s \o v \in DocLines(n) /\ \A x \in DOMAIN (s \o v) : (s \o v)[x].element <= j
    BY <2>6, <2>8, MoreLines
  <2> QED
    BY <2>7, <2>9 DEF j
<1>11. T = Nat
  BY <1>9, <1>10, Induction
<1>12. F[n] \in DocLines(n)
  BY <1>2, <1>11
<1> QED
  BY <1>1, <1>12 DEF F

\* The state of the loop of extract_attendees.
Lists(n) == [phase : {"before", "active", "over"}, found : SUBSET [name : Words, element : 1..n]]

\* A turn lists nobody but with its own element, nobody at all before and after the list,
\* and nobody from a numbered element.
LEMMA AttendTurn ==
    ASSUME NEW d \in Seq(Elements), NEW k \in 1..Len(d), NEW a \in Lists(Len(d))
    PROVE  /\ Attend(a, d, k) \in Lists(Len(d))
           /\ \A x \in Attend(a, d, k).found : x \in a.found \/ x.element = k
           /\ First(d[k]).kind # "attendees" =>
                /\ a.phase # "active" => Attend(a, d, k) = a
                /\ First(d[k]).kind = "heading" =>
                     Attend(a, d, k).found = a.found /\ Attend(a, d, k).phase # "active"
                /\ First(d[k]).kind = "numbered" => Attend(a, d, k).found = a.found
<1> DEFINE n == Len(d)
           e == d[k]
           People == [name : Words, element : 1..n]
<1>1. /\ k \in 1..n
      /\ e \in Elements
      /\ e.cells \in Seq(Words) /\ Len(e.cells) \in Nat
      /\ \A c \in 1..Len(e.cells) : e.cells[c] \in Words
      /\ Len(e.cells) >= 1
  <2>1. e \in Elements
    OBVIOUS
  <2> HIDE DEF e
  <2> QED
    BY <2>1 DEF Elements
<1>2. a.found \subseteq People /\ a.phase \in {"before", "active", "over"}
      /\ a = [phase |-> a.phase, found |-> a.found]
  BY DEF Lists
<1>3. InHeading(e) \subseteq Words
  <2>1. CASE Len(e.cells) > 1
    <3> DEFINE cells == e.cells
    <3>1. InHeading(e) = {cells[c] : c \in 2..Len(cells)}
      BY <2>1 DEF InHeading
    <3>2. /\ Len(cells) \in Nat
          /\ \A c \in 1..Len(cells) : cells[c] \in Words
      BY <1>1
    <3> HIDE DEF cells, e
    <3> QED
      BY <3>1, <3>2
  <2>2. CASE ~(Len(e.cells) > 1)
    <3> DEFINE w == e.cells[1]
    <3>1. w \in Words
      BY <1>1
    <3> HIDE DEF w, e
    <3>2. ASSUME NEW v \in {w.value} \ {Absent}
          PROVE  [w EXCEPT !.kind = "plain", !.value = v] \in Words
      BY <3>1 DEF Words, Kinds
    <3>3. InHeading(e) =
            {[w EXCEPT !.kind = "plain", !.value = v] : v \in {w.value} \ {Absent}}
      BY <2>2 DEF InHeading, w
    <3> QED
      BY <3>2, <3>3
  <2> QED
    BY <2>1, <2>2
<1>4. e.cells[1] \in Words
  BY <1>1
<1> HIDE DEF n, e
<1>5. ASSUME NEW names \in SUBSET Words
      PROVE  /\ Listed(a.found, names, k) \subseteq People
             /\ \A x \in Listed(a.found, names, k) : x \in a.found \/ x.element = k
  <2>1. \A w \in Words : Name(w) \in Words
    BY DEF Name, Words, Kinds
  <2> DEFINE Names == {Name(l) : l \in {c \in names : c.kind # "blank"}} \ {x.name : x \in a.found}
  <2>2. Names \subseteq Words
    BY <2>1
  <2>3. Listed(a.found, names, k) = a.found \cup {[name |-> m, element |-> k] : m \in Names}
    BY DEF Listed
  <2> HIDE DEF Names
  <2> QED
    BY <1>1, <1>2, <2>2, <2>3
<1> DEFINE one   == Listed(a.found, InHeading(e), k)
           other == Listed(a.found, {e.cells[1]}, k)
<1>6. /\ one \subseteq People /\ \A x \in one : x \in a.found \/ x.element = k
      /\ other \subseteq People /\ \A x \in other : x \in a.found \/ x.element = k
  BY <1>3, <1>4, <1>5
<1>7. Attend(a, d, k) =
        IF a.phase = "over" THEN a
        ELSE IF First(e).kind = "attendees" THEN [phase |-> "active", found |-> one]
        ELSE IF a.phase = "before" THEN a
        ELSE IF EndsList(e, a.found) THEN [a EXCEPT !.phase = "over"]
        ELSE IF e.row /\ First(e).kind = "fio" THEN a
        ELSE [a EXCEPT !.found = other]
  BY DEF Attend, e
<1> HIDE DEF one, other
<1>8. First(e).kind \in {"heading", "numbered"} => EndsList(e, a.found)
  BY DEF EndsList
<1>9. First(e).kind \in {"heading", "numbered"} => First(e).kind # "attendees"
  OBVIOUS
<1>10. /\ [phase |-> "active", found |-> one] \in Lists(n)
       /\ [a EXCEPT !.phase = "over"] \in Lists(n)
       /\ [a EXCEPT !.found = other] \in Lists(n)
  BY <1>2, <1>6 DEF Lists
<1> DEFINE b == Attend(a, d, k)
           l == First(e).kind
<1>11. /\ b \in Lists(n)
       /\ \A x \in b.found : x \in a.found \/ x.element = k
       /\ l # "attendees" =>
            /\ a.phase # "active" => b = a
            /\ l = "heading" => b.found = a.found /\ b.phase # "active"
            /\ l = "numbered" => b.found = a.found
  <2> HIDE DEF b, l
  <2>1. CASE b = a /\ (l # "attendees" => a.phase # "active" \/ l # "heading")
    BY <2>1 DEF n
  <2>2. CASE b = [phase |-> "active", found |-> one] /\ l = "attendees"
    BY <1>6, <1>10, <2>2
  <2>3. CASE b = [a EXCEPT !.phase = "over"] /\ a.phase = "active"
    BY <1>2, <1>10, <2>3
  <2>4. CASE b = [a EXCEPT !.found = other] /\ a.phase = "active" /\ l \notin {"heading", "numbered"}
    BY <1>2, <1>6, <1>10, <2>4
  <2> QED
    BY <1>2, <1>7, <1>8, <2>1, <2>2, <2>3, <2>4 DEF b, l
<1> QED
  BY <1>11 DEF n, e

\* The attendance list is what the turns of its loop leave, one per element.
LEMMA AttendeesTurns ==
    ASSUME NEW d \in Seq(Elements)
    PROVE  \E F : /\ Attendees(d) = F[Len(d)].found
                  /\ F[0] = [phase |-> "before", found |-> {}]
                  /\ \A k \in 1..Len(d) : F[k] = Attend(F[k - 1], d, k)
<1> DEFINE n == Len(d)
           start == [phase |-> "before", found |-> {}]
           Is(f) == f = [k \in 0..n |-> IF k = 0 THEN start ELSE Attend(f[k - 1], d, k)]
           S == Lists(n)
           g == [k \in 1..n |-> [a \in S |-> Attend(a, d, k)]]
<1>1. Attendees(d) = (CHOOSE f : Is(f))[n].found
  BY DEF Attendees
<1>2. n \in Nat
  OBVIOUS
<1>3. start \in S
  BY DEF Lists
<1>4. g \in [1..n -> [S -> S]]
  BY AttendTurn
<1>5. PICK f \in [0..n -> S] : f[0] = start /\ \A k \in 1..n : f[k] = g[k][f[k - 1]]
  <2> HIDE DEF n, g, S, start
  <2>1. \E f \in [0..n -> S] : Follows(f, n, start, g)
    BY <1>2, <1>3, <1>4, RecursiveFunction
  <2> QED
    BY <2>1 DEF Follows
<1>6. Is(f)
  <2> DEFINE h == [k \in 0..n |-> IF k = 0 THEN start ELSE Attend(f[k - 1], d, k)]
  <2>1. ASSUME NEW k \in 0..n PROVE f[k] = h[k]
    <3>1. CASE k = 0
      BY <1>5, <3>1
    <3>2. CASE k \in 1..n
      <4>1. k - 1 \in 0..n
        BY <1>2, <3>2
      <4> HIDE DEF S, n
      <4>2. f[k - 1] \in S
        BY <4>1
      <4>3. g[k][f[k - 1]] = Attend(f[k - 1], d, k)
        BY <3>2, <4>2
      <4> QED
        BY <1>5, <3>2, <4>3
    <3> QED
      BY <1>2, <3>1, <3>2
  <2> HIDE DEF n
  <2>2. f = h
    BY <2>1
  <2> QED
    BY <2>2
<1>7. Is(CHOOSE x : Is(x))
  BY <1>6, Zenon
<1> DEFINE F == CHOOSE x : Is(x)
<1>8. F[0] = start /\ \A k \in 1..n : F[k] = Attend(F[k - 1], d, k)
  <2>1. F = [k \in 0..n |-> IF k = 0 THEN start ELSE Attend(F[k - 1], d, k)]
    BY <1>7
  <2> HIDE DEF F
  <2>2. 0 \in 0..n /\ \A k \in 1..n : k \in 0..n /\ k # 0
    BY <1>2
  <2> HIDE DEF n, start
  <2> QED
    BY <2>1, <2>2, Zenon
<1>9. Attendees(d) = F[n].found
  BY <1>1
<1> HIDE DEF F
<1> QED
  BY <1>8, <1>9

\* Where the list begins before the heading of the resolutions, nobody is found in an
\* element from there on.
LEMMA AttendeesComeFirst ==
    ASSUME NEW d \in Seq(Elements), NEW head \in 1..Len(d), First(d[head]).kind = "heading",
           \A k \in DOMAIN d : First(d[k]).kind = "attendees" => k < head
    PROVE  \A x \in AttendeeElements(d) : x < head
<1> DEFINE n == Len(d)
           start == [phase |-> "before", found |-> {}]
<1>1. PICK F : /\ Attendees(d) = F[n].found
               /\ F[0] = start
               /\ \A k \in 1..n : F[k] = Attend(F[k - 1], d, k)
  BY AttendeesTurns
<1>2. n \in Nat /\ head \in 1..n /\ \A k \in 1..n : k \in DOMAIN d
  OBVIOUS
<1> DEFINE Ok(k) == /\ F[k] \in Lists(n)
                    /\ \A a \in F[k].found : a.element < head
                    /\ k >= head => F[k].phase # "active"
           T == {k \in Nat : k <= n => Ok(k)}
<1>3. 0 \in T
  <2>1. start \in Lists(n)
    BY DEF Lists
  <2> HIDE DEF n
  <2> QED
    BY <1>1, <1>2, <2>1
<1>4. ASSUME NEW k \in T PROVE k + 1 \in T
  <2> DEFINE j == k + 1
  <2> SUFFICES ASSUME j <= n PROVE Ok(j)
    OBVIOUS
  <2>1. k \in Nat /\ k <= n /\ j \in 1..n /\ j - 1 = k
    BY <1>2
  <2>2. Ok(k)
    BY <2>1
  <2>3. F[j] = Attend(F[k], d, j)
    BY <1>1, <2>1
  <2> DEFINE a == F[k]
             b == F[j]
             l == First(d[j]).kind
  <2>4. /\ b \in Lists(n)
        /\ \A x \in b.found : x \in a.found \/ x.element = j
        /\ l # "attendees" =>
             /\ a.phase # "active" => b = a
             /\ l = "heading" => b.found = a.found /\ b.phase # "active"
    BY <2>1, <2>2, <2>3, AttendTurn
  <2>5. l = "attendees" => j < head
    BY <1>2, <2>1
  <2>6. j = head => l = "heading"
    OBVIOUS
  <2> HIDE DEF n, l
  <2>7. CASE j < head
    BY <2>1, <2>2, <2>4, <2>7
  <2>8. CASE j = head
    BY <2>1, <2>2, <2>4, <2>6, <2>8
  <2>9. CASE j > head
    BY <2>1, <2>2, <2>4, <2>5, <2>9
  <2> QED
    BY <1>2, <2>1, <2>7, <2>8, <2>9
<1>5. T = Nat
  BY <1>3, <1>4, Induction
<1>6. \A a \in F[n].found : a.element < head
  BY <1>2, <1>5
<1> QED
  BY <1>1, <1>6 DEF AttendeeElements

\* Nobody is found in a numbered element.
LEMMA NumberedAreNoAttendees ==
    ASSUME NEW d \in Seq(Elements)
    PROVE  \A x \in AttendeeElements(d) : First(d[x]).kind # "numbered"
<1> DEFINE n == Len(d)
           start == [phase |-> "before", found |-> {}]
<1>1. PICK F : /\ Attendees(d) = F[n].found
               /\ F[0] = start
               /\ \A k \in 1..n : F[k] = Attend(F[k - 1], d, k)
  BY AttendeesTurns
<1>2. n \in Nat
  OBVIOUS
<1> DEFINE Ok(k) == /\ F[k] \in Lists(n)
                    /\ \A a \in F[k].found : First(d[a.element]).kind # "numbered"
           T == {k \in Nat : k <= n => Ok(k)}
<1>3. 0 \in T
  <2>1. start \in Lists(n)
    BY DEF Lists
  <2> HIDE DEF n
  <2> QED
    BY <1>1, <1>2, <2>1
<1>4. ASSUME NEW k \in T PROVE k + 1 \in T
  <2> DEFINE j == k + 1
  <2> SUFFICES ASSUME j <= n PROVE Ok(j)
    OBVIOUS
  <2>1. k \in Nat /\ k <= n /\ j \in 1..n /\ j - 1 = k
    BY <1>2
  <2>2. Ok(k)
    BY <2>1
  <2>3. F[j] = Attend(F[k], d, j)
    BY <1>1, <2>1
  <2> DEFINE a == F[k]
             b == F[j]
             l == First(d[j]).kind
  <2>4. /\ b \in Lists(n)
        /\ \A x \in b.found : x \in a.found \/ x.element = j
        /\ l = "numbered" => b.found = a.found
    BY <2>1, <2>2, <2>3, AttendTurn
  <2> QED
    BY <2>2, <2>4
<1>5. T = Nat
  BY <1>3, <1>4, Induction
<1>6. \A a \in F[n].found : First(d[a.element]).kind # "numbered"
  BY <1>2, <1>5
<1> QED
  BY <1>1, <1>6 DEF AttendeeElements

\* What the properties tell of an instruction.
Piece(t) == [number |-> t.number, raw |-> t.raw]
\* The values they have.
AnyPiece == [number : Nat, raw : Seq(Nat) \ {<<>>}]

\* Those of a result, with its finished instructions and the open one, c.
Pieces(ts, c) ==
    [n \in 1..(Len(ts) + IF c = Absent THEN 0 ELSE 1) |->
        IF n <= Len(ts) THEN Piece(ts[n]) ELSE Piece(c)]

\* The lines they hold.
Used(s)    == {x \in Nat : \E n \in DOMAIN s : \E a \in DOMAIN s[n].raw : x = s[n].raw[a]}
\* They ascend, within a piece and from piece to piece.
Ordered(s) ==
    \A n \in DOMAIN s :
        /\ \A a, b \in DOMAIN s[n].raw : a < b => s[n].raw[a] < s[n].raw[b]
        /\ \A m \in 1..(n - 1) : \A a \in DOMAIN s[m].raw : \A b \in DOMAIN s[n].raw :
             s[m].raw[a] < s[n].raw[b]

\* Every line of a set is in one place: in an instruction, rejected or a title.
Placed(s, rej, tit, all) ==
    /\ Ordered(s)
    /\ Used(s) \cap (rej \cup tit) = {}
    /\ rej \cap tit = {}
    /\ Used(s) \cup rej \cup tit = all

\* A new instruction takes a line behind all others.
LEMMA PieceOpened ==
    ASSUME NEW s \in Seq(AnyPiece), NEW number \in Nat, NEW x \in Nat,
           Ordered(s), \A y \in Used(s) : y < x
    PROVE  LET u == Append(s, [number |-> number, raw |-> <<x>>]) IN
           /\ u \in Seq(AnyPiece)
           /\ Ordered(u)
           /\ Used(u) = Used(s) \cup {x}
<1> DEFINE p == [number |-> number, raw |-> <<x>>]
           u == Append(s, p)
           n == Len(s)
<1>1. p \in AnyPiece /\ p.raw = <<x>> /\ p.number = number
  BY DEF AnyPiece
<1>2. n \in Nat /\ DOMAIN s = 1..n /\ \A k \in 1..n : s[k] \in AnyPiece
  OBVIOUS
<1> HIDE DEF p
<1>3. /\ u \in Seq(AnyPiece) /\ Len(u) = n + 1 /\ DOMAIN u = 1..(n + 1)
      /\ \A k \in 1..n : u[k] = s[k]
      /\ u[n + 1] = p
  BY <1>1
<1> HIDE DEF u, n
<1>4. DOMAIN p.raw = {1} /\ p.raw[1] = x
  BY <1>1
<1>5. \A k \in 1..n : \A a \in DOMAIN s[k].raw : s[k].raw[a] \in Nat /\ s[k].raw[a] \in Used(s)
  <2> SUFFICES ASSUME NEW k \in 1..n, NEW a \in DOMAIN s[k].raw PROVE s[k].raw[a] \in Nat
    BY <1>2 DEF Used
  <2>1. s[k].raw \in Seq(Nat)
    BY <1>2 DEF AnyPiece
  <2> QED
    BY <2>1
<1>6. Ordered(u)
  <2> SUFFICES ASSUME NEW k \in 1..(n + 1)
               PROVE  /\ \A a, b \in DOMAIN u[k].raw : a < b => u[k].raw[a] < u[k].raw[b]
                      /\ \A m \in 1..(k - 1) : \A a \in DOMAIN u[m].raw : \A b \in DOMAIN u[k].raw :
                           u[m].raw[a] < u[k].raw[b]
    BY <1>3 DEF Ordered
  <2>1. CASE k \in 1..n
    <3>1. \A m \in 1..(k - 1) : m \in 1..n /\ u[m] = s[m]
      BY <1>2, <1>3, <2>1
    <3>2. u[k] = s[k]
      BY <1>3, <2>1
    <3> QED
      BY <1>2, <2>1, <3>1, <3>2 DEF Ordered
  <2>2. CASE k = n + 1
    <3>1. \A m \in 1..(k - 1) : m \in 1..n /\ u[m] = s[m]
      BY <1>2, <1>3, <2>2
    <3>2. u[k].raw = p.raw
      BY <1>3, <2>2
    <3> QED
      BY <1>4, <1>5, <3>1, <3>2
  <2> QED
    BY <1>2, <2>1, <2>2
<1>7. Used(u) = Used(s) \cup {x}
  <2>1. ASSUME NEW y \in Used(u) PROVE y \in Used(s) \cup {x}
    <3>1. PICK k \in 1..(n + 1) : \E a \in DOMAIN u[k].raw : y = u[k].raw[a]
      BY <1>3 DEF Used
    <3>2. CASE k \in 1..n
      BY <1>2, <1>3, <1>5, <3>1, <3>2 DEF Used
    <3>3. CASE k = n + 1
      BY <1>3, <1>4, <3>1, <3>3
    <3> QED
      BY <1>2, <3>2, <3>3
  <2>2. ASSUME NEW y \in Used(s) PROVE y \in Used(u)
    <3>1. PICK k \in 1..n : \E a \in DOMAIN s[k].raw : y = s[k].raw[a]
      BY <1>2 DEF Used
    <3>2. k \in 1..(n + 1) /\ u[k] = s[k]
      BY <1>2, <1>3
    <3>3. y \in Nat
      BY DEF Used
    <3> QED
      BY <1>3, <3>1, <3>2, <3>3 DEF Used
  <2>3. x \in Used(u)
    <3>1. n + 1 \in DOMAIN u
      BY <1>2, <1>3
    <3> QED
      BY <1>3, <1>4, <3>1 DEF Used
  <2> QED
    BY <2>1, <2>2, <2>3
<1> QED
  BY <1>3, <1>6, <1>7 DEF u, p

\* The last piece with more lines.
Lengthened(s, t) == [s EXCEPT ![Len(s)].raw = @ \o t]

\* The last instruction takes lines behind all others.
LEMMA PieceLonger ==
    ASSUME NEW s \in Seq(AnyPiece), s # <<>>, NEW t \in Seq(Nat),
           \A a, b \in DOMAIN t : a < b => t[a] < t[b],
           Ordered(s), \A y \in Used(s) : \A a \in DOMAIN t : y < t[a],
           NEW u, u = Lengthened(s, t)
    PROVE  /\ u \in Seq(AnyPiece)
           /\ Ordered(u)
           /\ Used(u) = Used(s) \cup Range(t)
           /\ DOMAIN u = DOMAIN s
           /\ \A n \in DOMAIN s : u[n].number = s[n].number /\ u[n].raw[1] = s[n].raw[1]
<1> DEFINE n == Len(s)
           r == s[n].raw
           q == r \o t
<1>1. n \in Nat /\ n >= 1 /\ DOMAIN s = 1..n /\ \A k \in 1..n : s[k] \in AnyPiece
  OBVIOUS
<1> HIDE DEF n
<1>2. s[n] \in AnyPiece /\ r \in Seq(Nat) /\ r # <<>>
  <2>1. s[n] \in AnyPiece
    BY <1>1
  <2> QED
    BY <2>1 DEF AnyPiece
<1> DEFINE m == Len(r)
<1>3. m \in Nat /\ m >= 1 /\ DOMAIN r = 1..m /\ \A a \in 1..m : r[a] \in Nat
  <2> HIDE DEF r
  <2> QED
    BY <1>2
<1>4. Len(t) \in Nat /\ DOMAIN t = 1..Len(t) /\ \A a \in 1..Len(t) : t[a] \in Nat
  OBVIOUS
<1>5. /\ q \in Seq(Nat) /\ Len(q) = m + Len(t)
      /\ \A a \in 1..m + Len(t) : q[a] = IF a <= m THEN r[a] ELSE t[a - m]
  <2> HIDE DEF r
  <2> QED
    BY <1>2, ConcatProperties
<1> HIDE DEF q, m
<1>6. /\ DOMAIN q = 1..(m + Len(t))
      /\ \A a \in 1..m : q[a] = r[a]
      /\ \A a \in 1..Len(t) : a + m \in DOMAIN q /\ q[a + m] = t[a]
      /\ \A a \in DOMAIN q : a \in 1..m \/ \E b \in 1..Len(t) : a = b + m
  <2>1. DOMAIN q = 1..(m + Len(t))
    BY <1>5
  <2>2. \A a \in 1..m : q[a] = r[a]
    BY <1>3, <1>4, <1>5
  <2>3. ASSUME NEW a \in 1..Len(t) PROVE a + m \in DOMAIN q /\ q[a + m] = t[a]
    <3>1. a + m \in 1..(m + Len(t)) /\ ~(a + m <= m) /\ (a + m) - m = a
      BY <1>3, <1>4
    <3>2. q[a + m] = t[(a + m) - m]
      BY <1>5, <3>1
    <3> QED
      BY <2>1, <3>1, <3>2
  <2>4. ASSUME NEW a \in DOMAIN q PROVE a \in 1..m \/ \E b \in 1..Len(t) : a = b + m
    <3>1. a \in 1..m \/ (a - m \in 1..Len(t) /\ a = (a - m) + m)
      BY <1>3, <1>4, <2>1
    <3> QED
      BY <3>1
  <2> QED
    BY <2>1, <2>2, <2>3, <2>4
<1>7. /\ DOMAIN u = 1..n /\ u = [k \in 1..n |-> u[k]]
      /\ u[n] = [s[n] EXCEPT !.raw = q]
      /\ u[n].raw = q /\ u[n].number = s[n].number
      /\ \A k \in 1..n : k # n => u[k] = s[k]
  <2>1. u = [s EXCEPT ![n].raw = q]
    BY DEF n, q, Lengthened
  <2>2. s[n] \in AnyPiece /\ s = [k \in 1..n |-> s[k]] /\ n \in 1..n
    BY <1>1, <1>2
  <2> HIDE DEF q
  <2>3. /\ DOMAIN u = 1..n /\ u = [k \in 1..n |-> u[k]]
        /\ u[n] = [s[n] EXCEPT !.raw = q]
        /\ \A k \in 1..n : k # n => u[k] = s[k]
    BY <2>1, <2>2
  <2> QED
    BY <2>2, <2>3 DEF AnyPiece
<1>8. u \in Seq(AnyPiece)
  <2>1. q # <<>>
    BY <1>3, <1>4, <1>5
  <2>2. [s[n] EXCEPT !.raw = q] \in AnyPiece
    BY <1>2, <1>5, <2>1 DEF AnyPiece
  <2>3. \A k \in 1..n : u[k] \in AnyPiece
    BY <1>1, <1>7, <2>2
  <2>4. u = [k \in 1..n |-> u[k]]
    BY <1>7
  <2>5. u \in [1..n -> AnyPiece]
    BY <2>3, <2>4
  <2> QED
    BY <1>1, <2>5
<1>9. \A k \in 1..n : \A a \in DOMAIN s[k].raw : s[k].raw[a] \in Nat /\ s[k].raw[a] \in Used(s)
  <2> SUFFICES ASSUME NEW k \in 1..n, NEW a \in DOMAIN s[k].raw PROVE s[k].raw[a] \in Nat
    BY <1>1 DEF Used
  <2>1. s[k].raw \in Seq(Nat)
    BY <1>1 DEF AnyPiece
  <2> QED
    BY <2>1
<1>15. /\ DOMAIN u = 1..n
       /\ u[n].raw = q /\ u[n].number = s[n].number
       /\ \A k \in 1..n : k # n => u[k] = s[k]
  BY <1>7
<1>10. \A a \in 1..m : r[a] \in Used(s)
  BY <1>1, <1>3, <1>9
<1>11. \A a, b \in DOMAIN q : a < b => q[a] < q[b]
  <2> SUFFICES ASSUME NEW a \in DOMAIN q, NEW b \in DOMAIN q, a < b PROVE q[a] < q[b]
    OBVIOUS
  <2>1. CASE b \in 1..m
    <3>1. a \in 1..m
      BY <1>3, <1>4, <1>6, <2>1
    <3>2. \A c, d \in DOMAIN r : c < d => r[c] < r[d]
      BY <1>1 DEF Ordered
    <3>3. r[a] < r[b]
      BY <1>3, <2>1, <3>1, <3>2
    <3> QED
      BY <1>6, <2>1, <3>1, <3>3
  <2>2. ASSUME NEW d \in 1..Len(t), b = d + m PROVE q[a] < q[b]
    <3>1. CASE a \in 1..m
      BY <1>4, <1>6, <1>10, <2>2, <3>1
    <3>2. ASSUME NEW c \in 1..Len(t), a = c + m PROVE q[a] < q[b]
      <4>1. c < d
        BY <1>3, <2>2, <3>2
      <4>2. t[c] < t[d]
        BY <1>4, <4>1
      <4>3. q[a] = t[c] /\ q[b] = t[d]
        BY <1>6, <2>2, <3>2
      <4> QED
        BY <4>2, <4>3
    <3> QED
      BY <1>6, <3>1, <3>2
  <2> QED
    BY <1>6, <2>1, <2>2
<1>12. Ordered(u)
  <2> SUFFICES ASSUME NEW k \in 1..n
               PROVE  /\ \A a, b \in DOMAIN u[k].raw : a < b => u[k].raw[a] < u[k].raw[b]
                      /\ \A j \in 1..(k - 1) : \A a \in DOMAIN u[j].raw : \A b \in DOMAIN u[k].raw :
                           u[j].raw[a] < u[k].raw[b]
    BY <1>15 DEF Ordered
  <2>1. \A j \in 1..(k - 1) : j \in 1..n /\ u[j] = s[j]
    BY <1>1, <1>15
  <2>2. CASE k # n
    BY <1>1, <1>15, <2>1, <2>2 DEF Ordered
  <2>3. CASE k = n
    <3>1. ASSUME NEW j \in 1..(k - 1), NEW a \in DOMAIN u[j].raw, NEW b \in DOMAIN q
          PROVE  u[j].raw[a] < q[b]
      <4>1. j \in 1..n /\ a \in DOMAIN s[j].raw /\ u[j].raw[a] = s[j].raw[a]
        BY <2>1, <3>1
      <4>2. CASE b \in 1..m
        <5>1. s[j].raw[a] < r[b]
          BY <1>1, <1>3, <2>3, <3>1, <4>1, <4>2 DEF Ordered
        <5> QED
          BY <1>6, <4>1, <4>2, <5>1
      <4>3. ASSUME NEW c \in 1..Len(t), b = c + m PROVE u[j].raw[a] < q[b]
        BY <1>4, <1>6, <1>9, <4>1, <4>3
      <4> QED
        BY <1>6, <4>2, <4>3
    <3>2. u[k].raw = q
      BY <1>15, <2>3
    <3> QED
      BY <1>11, <3>1, <3>2
  <2> QED
    BY <2>2, <2>3
<1>13. Used(u) = Used(s) \cup Range(t)
  <2>1. ASSUME NEW y \in Used(u) PROVE y \in Used(s) \cup Range(t)
    <3>0. \E k \in DOMAIN u : \E a \in DOMAIN u[k].raw : y = u[k].raw[a]
      BY <2>1 DEF Used
    <3>1. PICK k \in 1..n : \E a \in DOMAIN u[k].raw : y = u[k].raw[a]
      BY <1>15, <3>0
    <3>2. CASE k # n
      <4>1. PICK a \in DOMAIN s[k].raw : y = s[k].raw[a]
        BY <1>15, <3>1, <3>2
      <4> QED
        BY <1>9, <4>1
    <3>3. CASE k = n
      <4>1. PICK a \in DOMAIN q : y = q[a]
        BY <1>15, <3>1, <3>3
      <4>2. CASE a \in 1..m
        BY <1>6, <1>10, <4>1, <4>2
      <4>3. ASSUME NEW b \in 1..Len(t), a = b + m PROVE y \in Range(t)
        BY <1>4, <1>6, <4>1, <4>3 DEF Range
      <4> QED
        BY <1>6, <4>2, <4>3
    <3> QED
      BY <3>2, <3>3
  <2>2. ASSUME NEW y \in Used(s) PROVE y \in Used(u)
    <3>1. PICK k \in 1..n : \E a \in DOMAIN s[k].raw : y = s[k].raw[a]
      BY <1>1 DEF Used
    <3>2. y \in Nat
      BY DEF Used
    <3>3. CASE k # n
      <4>1. u[k] = s[k] /\ k \in DOMAIN u
        BY <1>15, <3>3
      <4> QED
        BY <3>1, <3>2, <4>1 DEF Used
    <3>4. CASE k = n
      <4>1. PICK a \in 1..m : y = r[a]
        BY <1>3, <3>1, <3>4
      <4>2. a \in DOMAIN q /\ q[a] = y
        BY <1>3, <1>4, <1>6, <4>1
      <4>3. n \in DOMAIN u /\ a \in DOMAIN u[n].raw /\ y = u[n].raw[a]
        BY <1>1, <1>15, <4>2
      <4> QED
        BY <3>2, <4>3 DEF Used
    <3> QED
      BY <3>3, <3>4
  <2>3. ASSUME NEW a \in DOMAIN t PROVE t[a] \in Used(u)
    <3>1. t[a] \in Nat /\ a + m \in DOMAIN q /\ q[a + m] = t[a]
      BY <1>4, <1>6
    <3>2. n \in DOMAIN u /\ a + m \in DOMAIN u[n].raw /\ t[a] = u[n].raw[a + m]
      BY <1>1, <1>15, <3>1
    <3> QED
      BY <3>1, <3>2 DEF Used
  <2> QED
    BY <2>1, <2>2, <2>3 DEF Range
<1>14. \A k \in DOMAIN s : u[k].number = s[k].number /\ u[k].raw[1] = s[k].raw[1]
  <2>1. q[1] = r[1]
    BY <1>3, <1>6
  <2> QED
    BY <1>1, <1>15, <2>1
<1> QED
  BY <1>1, <1>8, <1>12, <1>13, <1>14, <1>15

\* Instructions with a line.
Lined(ts, c) ==
    /\ ts \in Seq(Reported) /\ \A n \in DOMAIN ts : ts[n].raw # <<>>
    /\ c \in Instructions \cup {Absent} /\ (c # Absent => c.raw # <<>>)

\* Instructions with a line have typed pieces, one for each.
LEMMA PiecesTyped ==
    ASSUME NEW ts, NEW c, Lined(ts, c)
    PROVE  /\ Pieces(ts, c) \in Seq(AnyPiece)
           /\ Len(Pieces(ts, c)) = Len(ts) + IF c = Absent THEN 0 ELSE 1
<1> DEFINE n == Len(ts)
           l == n + IF c = Absent THEN 0 ELSE 1
<1>1. n \in Nat /\ l \in Nat /\ DOMAIN ts = 1..n /\ \A k \in 1..n : ts[k] \in Reported
  BY DEF Lined
<1>2. \A k \in 1..n : Piece(ts[k]) \in AnyPiece
  BY <1>1 DEF Lined, Reported, Piece, AnyPiece
<1>3. c # Absent => Piece(c) \in AnyPiece
  BY DEF Lined, Instructions, Piece, AnyPiece
<1> HIDE DEF n
<1>4. \A k \in 1..l : k <= n \/ c # Absent
  BY <1>1
<1>5. Pieces(ts, c) = [k \in 1..l |-> IF k <= n THEN Piece(ts[k]) ELSE Piece(c)]
  BY DEF Pieces, n
<1> HIDE DEF l
<1>6. \A k \in 1..l : (IF k <= n THEN Piece(ts[k]) ELSE Piece(c)) \in AnyPiece
  BY <1>1, <1>2, <1>3, <1>4
<1>7. Pieces(ts, c) \in [1..l -> AnyPiece]
  BY <1>5, <1>6
<1>8. Pieces(ts, c) \in Seq(AnyPiece) /\ Len(Pieces(ts, c)) = l
  BY <1>1, <1>7
<1> QED
  BY <1>8 DEF l, n

\* The pieces are those of the result.
LEMMA PiecesOfResult ==
    ASSUME NEW ts, NEW c, Lined(ts, c),
           NEW r, r = ts \o (IF c = Absent THEN <<>> ELSE <<c>>)
    PROVE  /\ DOMAIN r = DOMAIN Pieces(ts, c)
           /\ \A n \in DOMAIN r : /\ r[n].number = Pieces(ts, c)[n].number
                                 /\ r[n].raw = Pieces(ts, c)[n].raw
<1> DEFINE n == Len(ts)
           o == IF c = Absent THEN <<>> ELSE <<c>>
           l == n + IF c = Absent THEN 0 ELSE 1
           S == Reported \cup Instructions
<1>1. n \in Nat /\ l \in Nat /\ DOMAIN ts = 1..n /\ ts \in Seq(Reported)
  BY DEF Lined
<1>2. ts \in Seq(S)
  <2> HIDE DEF S
  <2>1. Reported \subseteq S
    BY DEF S
  <2> QED
    BY <1>1, <2>1
<1>3. o \in Seq(S) /\ Len(o) = IF c = Absent THEN 0 ELSE 1
  <2>1. c # Absent => c \in S
    BY DEF Lined
  <2> HIDE DEF S
  <2> QED
    BY <2>1
<1>4. c # Absent => o[1] = c
  OBVIOUS
<1> HIDE DEF o, S
<1>5. r = ts \o o
  BY DEF o
<1>6. /\ r \in Seq(S) /\ Len(r) = l
      /\ \A k \in 1..l : r[k] = IF k <= n THEN ts[k] ELSE o[k - n]
  BY <1>2, <1>3, <1>5, ConcatProperties
<1> HIDE DEF n
<1>7. \A k \in 1..l : k <= n \/ (k - n = 1 /\ c # Absent)
  BY <1>1
<1>8. \A k \in 1..l : r[k] = IF k <= n THEN ts[k] ELSE c
  BY <1>4, <1>6, <1>7
<1>9. DOMAIN r = 1..l
  BY <1>6
<1>10. Pieces(ts, c) = [k \in 1..l |-> IF k <= n THEN Piece(ts[k]) ELSE Piece(c)]
  BY DEF Pieces, n
<1> HIDE DEF l
<1>11. DOMAIN Pieces(ts, c) = 1..l
  BY <1>10
<1>12. \A k \in 1..l : Pieces(ts, c)[k] = Piece(r[k])
  BY <1>8, <1>10
<1>13. \A x : Piece(x).number = x.number /\ Piece(x).raw = x.raw
  BY DEF Piece
<1> QED
  BY <1>9, <1>11, <1>12, <1>13

\* finish() leaves the pieces as they are.
LEMMA PieceFinished ==
    ASSUME NEW ts, NEW c \in Instructions, NEW t \in Reported, Lined(ts, c),
           Piece(t) = Piece(c)
    PROVE  Pieces(Append(ts, t), Absent) = Pieces(ts, c)
<1> DEFINE n == Len(ts)
           u == Append(ts, t)
<1>1. n \in Nat /\ ts \in Seq(Reported) /\ c # Absent
  BY AbsentAssumption DEF Lined
<1>2. Len(u) = n + 1 /\ u[n + 1] = t /\ \A k \in 1..n : u[k] = ts[k]
  BY <1>1
<1> HIDE DEF u, n
<1>3. Pieces(u, Absent) = [k \in 1..(n + 1) |-> Piece(u[k])]
  BY <1>1, <1>2 DEF Pieces
<1>4. Pieces(ts, c) = [k \in 1..(n + 1) |-> IF k <= n THEN Piece(ts[k]) ELSE Piece(c)]
  BY <1>1 DEF Pieces, n
<1>5. \A k \in 1..(n + 1) : Piece(u[k]) = IF k <= n THEN Piece(ts[k]) ELSE Piece(c)
  BY <1>1, <1>2
<1> QED
  BY <1>1, <1>3, <1>4, <1>5 DEF u

\* An instruction the universal scanner adds is the last piece.
LEMMA PieceAdded ==
    ASSUME NEW ts, NEW t \in Reported, Lined(ts, Absent), t.raw # <<>>
    PROVE  Pieces(Append(ts, t), Absent) = Append(Pieces(ts, Absent), Piece(t))
<1> DEFINE n == Len(ts)
           u == Append(ts, t)
           s == Pieces(ts, Absent)
<1>1. n \in Nat /\ ts \in Seq(Reported) /\ s \in Seq(AnyPiece) /\ Len(s) = n
  BY PiecesTyped DEF Lined
<1>2. Len(u) = n + 1 /\ u[n + 1] = t /\ \A k \in 1..n : u[k] = ts[k]
  BY <1>1
<1>3. s = [k \in 1..n |-> Piece(ts[k])]
  BY <1>1 DEF Pieces
<1> HIDE DEF u, n, s
<1>4. Pieces(u, Absent) = [k \in 1..(n + 1) |-> Piece(u[k])]
  BY <1>1, <1>2 DEF Pieces
<1>5. Append(s, Piece(t)) = [k \in 1..(n + 1) |-> IF k <= n THEN s[k] ELSE Piece(t)]
  <2> DEFINE p == Piece(t)
             v == Append(s, p)
  <2>1. p \in AnyPiece
    BY DEF Reported, Piece, AnyPiece
  <2> HIDE DEF p
  <2>2. v \in Seq(AnyPiece) /\ Len(v) = n + 1 /\ v[n + 1] = p /\ \A k \in 1..n : v[k] = s[k]
    BY <1>1, <2>1
  <2> HIDE DEF v
  <2>3. v = [k \in 1..(n + 1) |-> v[k]]
    BY <2>2
  <2> DEFINE w == [k \in 1..(n + 1) |-> IF k <= n THEN s[k] ELSE p]
  <2>4. v = w
    <3>1. \A k \in 1..(n + 1) : k \in 1..n \/ (k = n + 1 /\ ~(k <= n))
      BY <1>1
    <3>2. \A k \in 1..(n + 1) : v[k] = w[k]
      BY <2>2, <3>1
    <3>3. w = [k \in 1..(n + 1) |-> w[k]]
      OBVIOUS
    <3> HIDE DEF w
    <3> QED
      BY <2>3, <3>2, <3>3
  <2> QED
    BY <2>4 DEF v, p
<1>6. \A k \in 1..(n + 1) : Piece(u[k]) = IF k <= n THEN s[k] ELSE Piece(t)
  BY <1>1, <1>2, <1>3
<1> QED
  BY <1>4, <1>5, <1>6 DEF u, s

\* begin() adds a piece.
LEMMA PieceBegun ==
    ASSUME NEW ts, NEW o \in Instructions, Lined(ts, Absent), o.raw # <<>>
    PROVE  Pieces(ts, o) = Append(Pieces(ts, Absent), Piece(o))
<1> DEFINE n == Len(ts)
           s == Pieces(ts, Absent)
<1>1. n \in Nat /\ s \in Seq(AnyPiece) /\ Len(s) = n /\ o # Absent
  BY AbsentAssumption, PiecesTyped DEF Lined
<1>2. s = [k \in 1..n |-> Piece(ts[k])]
  BY <1>1 DEF Pieces
<1>3. Pieces(ts, o) = [k \in 1..(n + 1) |-> IF k <= n THEN Piece(ts[k]) ELSE Piece(o)]
  BY <1>1 DEF Pieces
<1> HIDE DEF n, s
<1>4. Append(s, Piece(o)) = [k \in 1..(n + 1) |-> IF k <= n THEN s[k] ELSE Piece(o)]
  <2> DEFINE p == Piece(o)
             v == Append(s, p)
  <2>1. p \in AnyPiece
    BY DEF Instructions, Piece, AnyPiece
  <2> HIDE DEF p
  <2>2. v \in Seq(AnyPiece) /\ Len(v) = n + 1 /\ v[n + 1] = p /\ \A k \in 1..n : v[k] = s[k]
    BY <1>1, <2>1
  <2> HIDE DEF v
  <2>3. v = [k \in 1..(n + 1) |-> v[k]]
    BY <2>2
  <2> DEFINE w == [k \in 1..(n + 1) |-> IF k <= n THEN s[k] ELSE p]
  <2>4. v = w
    <3>1. \A k \in 1..(n + 1) : k \in 1..n \/ (k = n + 1 /\ ~(k <= n))
      BY <1>1
    <3>2. \A k \in 1..(n + 1) : v[k] = w[k]
      BY <2>2, <3>1
    <3>3. w = [k \in 1..(n + 1) |-> w[k]]
      OBVIOUS
    <3> HIDE DEF w
    <3> QED
      BY <2>3, <3>2, <3>3
  <2> QED
    BY <2>4 DEF v, p
<1>5. \A k \in 1..n : s[k] = Piece(ts[k])
  BY <1>2
<1> QED
  BY <1>1, <1>3, <1>4, <1>5 DEF s

\* More lines for the open instruction are more lines for the last piece.
LEMMA PieceContinued ==
    ASSUME NEW ts, NEW c \in Instructions, NEW o \in Instructions, NEW t,
           Lined(ts, c), o.number = c.number, o.raw = c.raw \o t
    PROVE  /\ Pieces(ts, c) # <<>>
           /\ Pieces(ts, o) = Lengthened(Pieces(ts, c), t)
<1> DEFINE n == Len(ts)
           s == Pieces(ts, c)
<1>1. n \in Nat /\ o # Absent /\ c # Absent
  BY AbsentAssumption DEF Lined
<1>2. s \in Seq(AnyPiece) /\ Len(s) = n + 1
  BY <1>1, PiecesTyped
<1>3. s = [k \in 1..(n + 1) |-> IF k <= n THEN Piece(ts[k]) ELSE Piece(c)]
  BY <1>1 DEF Pieces
<1>4. Pieces(ts, o) = [k \in 1..(n + 1) |-> IF k <= n THEN Piece(ts[k]) ELSE Piece(o)]
  BY <1>1 DEF Pieces
<1> HIDE DEF n, s
<1>5. s # <<>>
  BY <1>1, <1>2
<1>6. s[n + 1] = [number |-> c.number, raw |-> c.raw] /\ Piece(o) = [number |-> c.number, raw |-> c.raw \o t]
  BY <1>1, <1>3 DEF Piece
<1>7. [s[n + 1] EXCEPT !.raw = @ \o t] = Piece(o)
  <2> DEFINE q == s[n + 1].raw \o t
  <2>1. q = c.raw \o t
    BY <1>6
  <2>2. Piece(o) = [number |-> c.number, raw |-> q]
    BY <1>6, <2>1
  <2> HIDE DEF q
  <2>3. [s[n + 1] EXCEPT !.raw = q] = [number |-> c.number, raw |-> q]
    BY <1>6
  <2> QED
    BY <2>2, <2>3 DEF q
<1>8. [s EXCEPT ![n + 1].raw = @ \o t] = [s EXCEPT ![n + 1] = Piece(o)]
  BY <1>7
<1>9. [s EXCEPT ![n + 1] = Piece(o)] = [k \in 1..(n + 1) |-> IF k <= n THEN Piece(ts[k]) ELSE Piece(o)]
  BY <1>1, <1>3
<1> QED
  BY <1>2, <1>4, <1>5, <1>8, <1>9 DEF s, Lengthened

\* The lines of the result and their order are those of its pieces.
LEMMA ResultInPieces ==
    ASSUME NEW ts, NEW c, Lined(ts, c),
           NEW r, r = ts \o (IF c = Absent THEN <<>> ELSE <<c>>)
    PROVE  /\ InOrder(r) <=> Ordered(Pieces(ts, c))
           /\ LinesOf(r) = Used(Pieces(ts, c))
<1> DEFINE s == Pieces(ts, c)
<1>1. /\ DOMAIN r = DOMAIN s
      /\ \A n \in DOMAIN s : r[n].raw = s[n].raw
  BY PiecesOfResult
<1>2. DOMAIN s = 1..Len(s) /\ Len(s) \in Nat /\ \A n \in DOMAIN s : s[n].raw \in Seq(Nat)
  <2>1. s \in Seq(AnyPiece)
    BY PiecesTyped
  <2> HIDE DEF s
  <2>2. DOMAIN s = 1..Len(s) /\ Len(s) \in Nat /\ \A n \in DOMAIN s : s[n] \in AnyPiece
    BY <2>1
  <2> QED
    BY <2>2 DEF AnyPiece
<1> HIDE DEF s
<1>3. LinesOf(r) = Used(s)
  <2>1. \A n \in DOMAIN s : \A a \in DOMAIN s[n].raw : s[n].raw[a] \in Nat
    BY <1>2
  <2>2. LinesOf(r) = UNION {Range(s[n].raw) : n \in DOMAIN s}
    BY <1>1, Zenon DEF LinesOf
  <2>3. ASSUME NEW x \in LinesOf(r) PROVE x \in Used(s)
    <3>1. PICK n \in DOMAIN s : x \in Range(s[n].raw)
      BY <2>2
    <3> QED
      BY <2>1, <3>1 DEF Used, Range
  <2>4. ASSUME NEW x \in Used(s) PROVE x \in LinesOf(r)
    BY <2>2, <2>4 DEF Used, Range
  <2> QED
    BY <2>3, <2>4
<1>4. \A n \in DOMAIN r : \A m \in 1..(n - 1) : m \in DOMAIN r
  <2> SUFFICES ASSUME NEW n \in 1..Len(s), NEW m \in 1..(n - 1) PROVE m \in 1..Len(s)
    BY <1>1, <1>2
  <2> QED
    BY <1>2
<1>5. InOrder(r) <=> Ordered(s)
  <2>1. \A n \in DOMAIN r :
          (\A a, b \in DOMAIN r[n].raw : a < b => r[n].raw[a] < r[n].raw[b])
          <=> (\A a, b \in DOMAIN s[n].raw : a < b => s[n].raw[a] < s[n].raw[b])
    BY <1>1
  <2>2. \A n \in DOMAIN r : \A m \in 1..(n - 1) :
          (\A x \in Range(r[m].raw), y \in Range(r[n].raw) : x < y)
          <=> (\A a \in DOMAIN s[m].raw : \A b \in DOMAIN s[n].raw : s[m].raw[a] < s[n].raw[b])
    <3> SUFFICES ASSUME NEW n \in DOMAIN s, NEW m \in DOMAIN s
                 PROVE  (\A x \in Range(r[m].raw), y \in Range(r[n].raw) : x < y)
                        <=> (\A a \in DOMAIN s[m].raw : \A b \in DOMAIN s[n].raw :
                               s[m].raw[a] < s[n].raw[b])
      BY <1>1, <1>4
    <3>1. r[m].raw = s[m].raw /\ r[n].raw = s[n].raw
      BY <1>1
    <3>2. \A f : /\ \A a \in DOMAIN f : f[a] \in Range(f)
                 /\ \A x \in Range(f) : \E a \in DOMAIN f : x = f[a]
      BY DEF Range
    <3> DEFINE f == s[m].raw
               h == s[n].raw
    <3> HIDE DEF f, h
    <3>3. (\A x \in Range(f), y \in Range(h) : x < y) <=> (\A a \in DOMAIN f : \A b \in DOMAIN h : f[a] < h[b])
      <4>1. ASSUME \A x \in Range(f), y \in Range(h) : x < y, NEW a \in DOMAIN f, NEW b \in DOMAIN h
            PROVE  f[a] < h[b]
        BY <3>2, <4>1
      <4>2. ASSUME \A a \in DOMAIN f : \A b \in DOMAIN h : f[a] < h[b],
                   NEW x \in Range(f), NEW y \in Range(h)
            PROVE  x < y
        BY <3>2, <4>2
      <4> QED
        BY <4>1, <4>2
    <3> QED
      BY <3>1, <3>3 DEF f, h
  <2> QED
    BY <1>1, <2>1, <2>2 DEF InOrder, Ordered
<1> QED
  BY <1>3, <1>5 DEF s

\* The first lines and the numbers of the pieces stay.
Grown(s, u) ==
    \A n \in DOMAIN s : /\ n \in DOMAIN u
                        /\ u[n].number = s[n].number
                        /\ u[n].raw[1] = s[n].raw[1]

\* A piece begins with line k and has the number v.
Begun(s, k, v) == \E n \in DOMAIN s : s[n].raw[1] = k /\ s[n].number = v

\* A piece that begins with a line still does when the pieces grow.
LEMMA BegunGrows ==
    ASSUME NEW s, NEW u, Grown(s, u), NEW k, NEW v, Begun(s, k, v)
    PROVE  Begun(u, k, v)
BY DEF Grown, Begun

\* A line behind all others may open an instruction: it then has its one place.
LEMMA PlacedOpened ==
    ASSUME NEW s \in Seq(AnyPiece), NEW rej, NEW tit, NEW all, Placed(s, rej, tit, all),
           NEW x \in Nat, \A y \in all : y \in Nat /\ y < x,
           NEW number \in Nat, NEW u, u = Append(s, [number |-> number, raw |-> <<x>>])
    PROVE  /\ Placed(u, rej, tit, all \cup {x})
           /\ Grown(s, u)
           /\ Begun(u, x, number)
<1>1. Ordered(s) /\ \A y \in Used(s) : y < x
  BY DEF Placed
<1>2. Ordered(u) /\ Used(u) = Used(s) \cup {x} /\ u \in Seq(AnyPiece)
  BY <1>1, PieceOpened
<1>3. x \notin all
  OBVIOUS
<1>4. Placed(u, rej, tit, all \cup {x})
  BY <1>2, <1>3 DEF Placed
<1> DEFINE p == [number |-> number, raw |-> <<x>>]
<1>5. p \in AnyPiece /\ p.number = number /\ p.raw[1] = x
  BY DEF AnyPiece
<1> HIDE DEF p
<1>6. u = Append(s, p)
  BY DEF p
<1>7. /\ Len(s) \in Nat /\ DOMAIN s = 1..Len(s) /\ DOMAIN u = 1..(Len(s) + 1)
      /\ u[Len(s) + 1] = p /\ \A n \in 1..Len(s) : u[n] = s[n]
  BY <1>5, <1>6
<1>8. Grown(s, u)
  BY <1>7 DEF Grown
<1>9. Len(s) + 1 \in DOMAIN u
  BY <1>7
<1>10. Begun(u, x, number)
  BY <1>5, <1>7, <1>9 DEF Begun
<1> QED
  BY <1>4, <1>8, <1>10

\* Lines behind all others may go to the last instruction: they then have their one place.
LEMMA PlacedLonger ==
    ASSUME NEW s \in Seq(AnyPiece), s # <<>>, NEW rej, NEW tit, NEW all, Placed(s, rej, tit, all),
           NEW t \in Seq(Nat), \A a, b \in DOMAIN t : a < b => t[a] < t[b],
           \A y \in all : y \in Nat /\ \A a \in DOMAIN t : y < t[a],
           NEW u, u = Lengthened(s, t)
    PROVE  /\ Placed(u, rej, tit, all \cup Range(t))
           /\ Grown(s, u)
<1>1. Ordered(s) /\ \A y \in Used(s) : \A a \in DOMAIN t : y < t[a]
  BY DEF Placed
<1>2. /\ Ordered(u) /\ Used(u) = Used(s) \cup Range(t)
      /\ DOMAIN u = DOMAIN s
      /\ \A n \in DOMAIN s : u[n].number = s[n].number /\ u[n].raw[1] = s[n].raw[1]
  BY <1>1, PieceLonger
<1> DEFINE T == Range(t)
<1>3. T \cap all = {}
  <2> SUFFICES ASSUME NEW a \in DOMAIN t, t[a] \in all PROVE FALSE
    BY DEF Range
  <2>1. t[a] \in Nat /\ t[a] < t[a]
    OBVIOUS
  <2> QED
    BY <2>1
<1>4. Used(u) = Used(s) \cup T
  BY <1>2
<1> HIDE DEF T
<1>5. Placed(u, rej, tit, all \cup T)
  BY <1>2, <1>3, <1>4 DEF Placed
<1> QED
  BY <1>2, <1>5 DEF Grown, T

\* Lines without a place may be rejected or become titles.
LEMMA PlacedElsewhere ==
    ASSUME NEW s, NEW rej, NEW tit, NEW all, Placed(s, rej, tit, all),
           NEW R, NEW T, R \cap T = {}, (R \cup T) \cap all = {}
    PROVE  Placed(s, rej \cup R, tit \cup T, all \cup R \cup T)
BY DEF Placed

\* The pieces of the state.
Parts == Pieces(tasks, current)

\* A numbered line begins a piece with its number, or is the date of an empty label.
NumberUsed(s, k) ==
    Line(k).kind = "numbered" =>
        \/ Begun(s, k, Line(k).value)
        \/ Line(k - 1).kind = "deadline" /\ Line(k - 1).value = Absent /\ Line(k).date # "none"

\* The pieces say what the properties say of the result.
LEMMA ResultBegun ==
    ASSUME NEW ts, NEW c, Lined(ts, c),
           NEW r, r = ts \o (IF c = Absent THEN <<>> ELSE <<c>>), NEW k, NEW v
    PROVE  Begun(r, k, v) <=> Begun(Pieces(ts, c), k, v)
<1> DEFINE s == Pieces(ts, c)
<1>1. /\ DOMAIN r = DOMAIN s
      /\ \A n \in DOMAIN r : r[n].number = s[n].number /\ r[n].raw = s[n].raw
  BY PiecesOfResult
<1> HIDE DEF s
<1>2. Begun(r, k, v) <=> Begun(s, k, v)
  BY <1>1 DEF Begun
<1> QED
  BY <1>2 DEF s

\* The accounting of the lines, and of the numbers among them, in terms of the pieces.
LEMMA PlacedIsPlaced ==
    ASSUME Lined(tasks, current)
    PROVE  /\ LinesAccountedFor <=>
                (parser = "memo_protocol" /\ i > 0 => Placed(Parts, rejected, titles, Passages))
           /\ MemoNumbersOpen <=>
                (parser = "memo_protocol" /\ i > 0 => \A k \in Passages : NumberUsed(Parts, k))
<1>1. Result = tasks \o (IF current = Absent THEN <<>> ELSE <<current>>)
  BY DEF Result, Open
<1>2. (InOrder(Result) <=> Ordered(Parts)) /\ LinesOf(Result) = Used(Parts)
  BY <1>1, ResultInPieces DEF Parts
<1>3. \A k, v : Begun(Result, k, v) <=> Begun(Parts, k, v)
  BY <1>1, ResultBegun DEF Parts
<1>4. LinesAccountedFor <=>
        (parser = "memo_protocol" /\ i > 0 => Placed(Parts, rejected, titles, Passages))
  BY <1>2 DEF LinesAccountedFor, Placed
<1>5. MemoNumbersOpen <=>
        (parser = "memo_protocol" /\ i > 0 => \A k \in Passages : NumberUsed(Parts, k))
  <2>1. MemoNumbersOpen <=>
          (parser = "memo_protocol" /\ i > 0 => \A k \in Passages : NumberUsed(Result, k))
    BY DEF MemoNumbersOpen, NumberUsed, Begun
  <2>2. \A k : NumberUsed(Result, k) <=> NumberUsed(Parts, k)
    BY <1>3 DEF NumberUsed
  <2> QED
    BY <2>1, <2>2
<1> QED
  BY <1>4, <1>5

\* The same of the next state.
LEMMA PlacedIsPlacedNext ==
    ASSUME Lined(tasks', current')
    PROVE  /\ LinesAccountedFor' <=>
                (parser' = "memo_protocol" /\ i' > 0 =>
                    Placed(Parts', rejected', titles', Passages'))
           /\ MemoNumbersOpen' <=>
                (parser' = "memo_protocol" /\ i' > 0 => \A k \in Passages' : NumberUsed(Parts, k)')
<1>1. Result' = tasks' \o (IF current' = Absent THEN <<>> ELSE <<current'>>)
  BY DEF Result, Open
<1>2. (InOrder(Result') <=> Ordered(Parts')) /\ LinesOf(Result') = Used(Parts')
  BY <1>1, ResultInPieces DEF Parts
<1>3. \A k, v : Begun(Result', k, v) <=> Begun(Parts', k, v)
  BY <1>1, ResultBegun DEF Parts
<1>4. LinesAccountedFor' <=>
        (parser' = "memo_protocol" /\ i' > 0 => Placed(Parts', rejected', titles', Passages'))
  BY <1>2 DEF LinesAccountedFor, Placed
<1>5. MemoNumbersOpen' <=>
        (parser' = "memo_protocol" /\ i' > 0 => \A k \in Passages' : NumberUsed(Parts, k)')
  <2>1. MemoNumbersOpen' <=>
          (parser' = "memo_protocol" /\ i' > 0 => \A k \in Passages' : NumberUsed(Result, k)')
    BY DEF MemoNumbersOpen, NumberUsed, Begun
  <2>2. \A k : NumberUsed(Result, k)' <=> NumberUsed(Parts, k)'
    BY <1>3 DEF NumberUsed
  <2> QED
    BY <2>1, <2>2
<1> QED
  BY <1>4, <1>5

\* The part of the invariant that every branch keeps in its own way: all but what the
\* rejected lines are and where the scan ends.
PlacingInv == ParsingTypeOK /\ StageInv /\ LineInv /\ LinesAccountedFor /\ NumbersOpenTasks

\* The start of the resolutions is the first heading, wherever there is one.
LEMMA StartIsHeading ==
    ASSUME NEW S, NEW ls \in Seq(S), Headings(ls) # {}
    PROVE  Start(ls) \in Headings(ls) /\ Start(ls) \in Nat /\ Start(ls) \in DOMAIN ls
<1>1. Headings(ls) \in SUBSET Nat /\ Headings(ls) \subseteq DOMAIN ls
  BY DEF Headings
<1>2. \E k \in Headings(ls) : \A n \in Headings(ls) : k <= n
  BY <1>1, LeastNumber
<1>3. Start(ls) \in Headings(ls)
  BY <1>2 DEF Start
<1> QED
  BY <1>1, <1>3

\* What the invariant says of the scanner of МЕМО documents.
LEMMA MemoState ==
    ASSUME PlacingInv, pc = "memo", i > 0
    PROVE  /\ parser = "memo_protocol" /\ i \in Nat
           /\ Start(lines) \in Nat /\ Start(lines) < i /\ i <= Len(lines) + 1
           /\ Len(lines) \in Nat /\ DOMAIN lines = 1..Len(lines)
           /\ Lined(tasks, current)
           /\ Placed(Parts, rejected, titles, (Start(lines) + 1)..(i - 1))
           /\ \A k \in (Start(lines) + 1)..(i - 1) : NumberUsed(Parts, k)
           /\ Parts \in Seq(AnyPiece)
<1>1. ParsingTypeOK /\ StageInv /\ LineInv /\ LinesAccountedFor /\ MemoNumbersOpen
  BY DEF PlacingInv, NumbersOpenTasks
<1>2. parser = "memo_protocol" /\ i \in Nat /\ lines \in Seq([element : Nat, line : Words])
  BY <1>1 DEF ParsingTypeOK, StageInv, ParserTypes
<1>3. Headings(lines) # {} /\ i \in (Start(lines) + 1)..(Len(lines) + 1)
  BY <1>1, <1>2 DEF StageInv
<1>4. Len(lines) \in Nat /\ DOMAIN lines = 1..Len(lines) /\ Start(lines) \in Nat
  BY <1>2, <1>3, StartIsHeading
<1>5. Lined(tasks, current)
  BY <1>1 DEF Lined, ParsingTypeOK, LineInv
<1>6. Passages = (Start(lines) + 1)..(i - 1)
  BY <1>1, <1>2 DEF Passages, LineInv
<1>7. Placed(Parts, rejected, titles, Passages) /\ \A k \in Passages : NumberUsed(Parts, k)
  BY <1>1, <1>2, <1>5, PlacedIsPlaced
<1>8. Parts \in Seq(AnyPiece)
  BY <1>5, PiecesTyped DEF Parts
<1> QED
  BY <1>2, <1>3, <1>4, <1>5, <1>6, <1>7, <1>8

\* A step of the scanner puts the lines X to one use.
Uses(X) ==
    /\ UNCHANGED <<doc, parser, lines, dropped>>
    /\ current' \in Instructions \cup {Absent}
    /\ current' # Absent => mode' # Absent
    /\ mode' \in Modes \cup {Absent}
    /\ block' \in Nat \cup {Absent}
    /\ expected' \in Nat
    /\ rejected' \subseteq Nat
    /\ titles' \subseteq Nat
    /\ Lined(tasks', current')
    /\ Placed(Parts', rejected', titles', ((Start(lines) + 1)..(i - 1)) \cup X)
    /\ Grown(Parts, Parts')
    /\ \A k \in X : NumberUsed(Parts', k)
    /\ \/ pc' = "memo" /\ X = {i} /\ i' = i + 1 /\ X \subseteq DOMAIN lines
       \/ pc' = "memo" /\ X = {i, i + 1} /\ i' = i + 2 /\ X \subseteq DOMAIN lines
       \/ pc' = "report" /\ X \subseteq {i} /\ i' = i /\ rejected' \cap {i} = X

\* A step that puts the line read, or it and the next one, to one use keeps the invariant.
LEMMA UsesKeeps ==
    ASSUME PlacingInv, pc = "memo", i > 0, NEW X, Uses(X)
    PROVE  PlacingInv'
<1> DEFINE h == Start(lines)
<1>1. /\ parser = "memo_protocol" /\ i \in Nat
      /\ h \in Nat /\ h < i /\ i <= Len(lines) + 1
      /\ Len(lines) \in Nat /\ DOMAIN lines = 1..Len(lines)
      /\ \A k \in (h + 1)..(i - 1) : NumberUsed(Parts, k)
  BY MemoState
<1>2. ParsingTypeOK /\ StageInv
  BY DEF PlacingInv
<1>3. doc' = doc /\ parser' = parser /\ lines' = lines /\ dropped' = dropped
  BY DEF Uses
<1>4. i' \in Nat /\ i <= i' /\ i' \in (h + 1)..(Len(lines) + 1)
  <2>1. \/ X = {i} /\ i' = i + 1 /\ X \subseteq DOMAIN lines
        \/ X = {i, i + 1} /\ i' = i + 2 /\ X \subseteq DOMAIN lines
        \/ i' = i
    BY DEF Uses
  <2>2. \/ i' = i + 1 /\ i \in 1..Len(lines)
        \/ i' = i + 2 /\ i + 1 \in 1..Len(lines)
        \/ i' = i
    BY <1>1, <2>1
  <2> HIDE DEF h
  <2> QED
    BY <1>1, <2>2
<1>5. ParsingTypeOK'
  BY <1>2, <1>3, <1>4 DEF ParsingTypeOK, Uses, Lined
<1>6. StageInv'
  <2>1. h' = h /\ Headings(lines') = Headings(lines)
    BY <1>3
  <2>2. Headings(lines) # {} /\ lines = Normalized(doc)
    BY <1>1, <1>2 DEF StageInv
  <2>3. pc' \in {"memo", "report"}
    BY DEF Uses
  <2>4. parser' = "memo_protocol" /\ "memo_protocol" # Absent
    BY <1>1, <1>2, <1>3 DEF StageInv
  <2> HIDE DEF h
  <2>5. i' \in (Start(lines') + 1)..(Len(lines') + 1)
    BY <1>3, <1>4, <2>1 DEF h
  <2>6. lines' = Normalized(doc')
    BY <1>3, <2>2
  <2> QED
    BY <2>1, <2>2, <2>3, <2>4, <2>5, <2>6 DEF StageInv
<1>7. ((h + 1)..(i - 1)) \cup X = ((h + 1)..(i' - 1)) \cup (rejected' \cap {i'})
  <2> DEFINE old == (h + 1)..(i - 1)
  <2>1. rejected' \subseteq old \cup X
    BY DEF Uses, Placed
  <2> HIDE DEF h
  <2>2. CASE pc' = "memo" /\ X = {i} /\ i' = i + 1
    BY <1>1, <2>1, <2>2
  <2>3. CASE pc' = "memo" /\ X = {i, i + 1} /\ i' = i + 2
    BY <1>1, <2>1, <2>3
  <2>4. CASE pc' = "report" /\ i' = i /\ rejected' \cap {i} = X
    BY <1>1, <2>4
  <2> QED
    BY <2>2, <2>3, <2>4 DEF Uses
<1>8. LineInv'
  <2>1. \A n \in DOMAIN tasks' : tasks'[n].raw # <<>>
    BY DEF Uses, Lined
  <2>2. current' # Absent => current'.raw # <<>> /\ mode' # Absent
    BY DEF Uses, Lined
  <2>3. pc' = "memo" => i' \notin rejected'
    <3>1. rejected' \subseteq ((h + 1)..(i - 1)) \cup X
      BY DEF Uses, Placed
    <3> HIDE DEF h
    <3> QED
      BY <1>1, <3>1 DEF Uses
  <2>4. \A k \in dropped' : k < i'
    <3>1. dropped \subseteq Nat /\ \A k \in dropped : k < i
      BY <1>2 DEF PlacingInv, ParsingTypeOK, LineInv
    <3> QED
      BY <1>1, <1>3, <1>4, <3>1
  <2> QED
    BY <2>1, <2>2, <2>3, <2>4 DEF LineInv
<1>9. Passages' = ((h + 1)..(i - 1)) \cup X
  <2>1. Passages' = ((h + 1)..(i' - 1)) \cup (rejected' \cap {i'})
    BY <1>1, <1>3 DEF Passages
  <2> QED
    BY <1>7, <2>1
<1>10. \A k : NumberUsed(Parts, k)' <=> NumberUsed(Parts', k)
  BY <1>3 DEF NumberUsed, Line
<1>11. \A k \in Passages' : NumberUsed(Parts, k)'
  <2>1. Grown(Parts, Parts') /\ \A k \in X : NumberUsed(Parts', k)
    BY DEF Uses
  <2>2. ASSUME NEW k \in (h + 1)..(i - 1) PROVE NumberUsed(Parts', k)
    BY <1>1, <2>1, BegunGrows DEF NumberUsed
  <2> QED
    BY <1>9, <1>10, <2>1, <2>2
<1>12. LinesAccountedFor' /\ NumbersOpenTasks'
  <2>1. Lined(tasks', current') /\ Placed(Parts', rejected', titles', Passages')
    BY <1>9 DEF Uses
  <2>2. parser' = "memo_protocol"
    BY <1>1, <1>3
  <2>3. LinesAccountedFor' /\ MemoNumbersOpen'
    BY <1>11, <2>1, PlacedIsPlacedNext
  <2>4. UniversalNumbersOpen'
    BY <2>2 DEF UniversalNumbersOpen
  <2> QED
    BY <2>3, <2>4 DEF NumbersOpenTasks
<1> QED
  BY <1>5, <1>6, <1>8, <1>12 DEF PlacingInv

\* finish() moves the open instruction among the others and changes no piece.
LEMMA FinishStep ==
    ASSUME ParsingTypeOK, Lined(tasks, current), Finish
    PROVE  /\ tasks' \in Seq(Reported) /\ expected' \in Nat
           /\ Lined(tasks', Absent)
           /\ Pieces(tasks', Absent) = Parts
<1>1. CASE current = Absent
  <2>1. tasks' = tasks /\ expected' = expected
    BY <1>1 DEF Finish
  <2> QED
    BY <1>1, <2>1 DEF ParsingTypeOK, Lined, Parts
<1>2. CASE current # Absent
  <2> DEFINE t == [number |-> current.number, raw |-> current.raw, names |-> current.names,
                   date |-> current.date, block |-> current.block, warnings |-> Warnings(current)]
  <2>1. current \in Instructions /\ tasks \in Seq(Reported) /\ current.raw # <<>>
    BY <1>2 DEF Lined
  <2>2. Warnings(current) \subseteq {"assignee", "deadline", "sequence"}
    BY DEF Warnings
  <2>3. t \in Reported /\ t.raw = current.raw /\ Piece(t) = Piece(current) /\ current.number \in Nat
    BY <2>1, <2>2 DEF Instructions, Reported, Piece
  <2>4. tasks' = Append(tasks, t) /\ expected' = current.number + 1
    BY <1>2 DEF Finish
  <2> HIDE DEF t
  <2>5. tasks' \in Seq(Reported) /\ \A n \in DOMAIN tasks' : tasks'[n].raw # <<>>
    <3>1. /\ tasks' \in Seq(Reported) /\ DOMAIN tasks' = 1..(Len(tasks) + 1)
          /\ tasks'[Len(tasks) + 1] = t /\ \A n \in 1..Len(tasks) : tasks'[n] = tasks[n]
      BY <2>1, <2>3, <2>4
    <3>2. \A n \in 1..Len(tasks) : tasks[n].raw # <<>>
      BY <2>1 DEF Lined
    <3>3. \A n \in 1..(Len(tasks) + 1) : n \in 1..Len(tasks) \/ n = Len(tasks) + 1
      BY <2>1
    <3> QED
      BY <2>1, <2>3, <3>1, <3>2, <3>3
  <2>6. Pieces(tasks', Absent) = Parts
    BY <2>1, <2>3, <2>4, PieceFinished DEF Parts
  <2> QED
    BY <2>3, <2>4, <2>5, <2>6 DEF Lined
<1> QED
  BY <1>1, <1>2

\* Lines noted elsewhere than in an instruction leave the pieces as they are.
LEMMA Noted ==
    ASSUME PlacingInv, pc = "memo", i > 0, Parts' = Parts,
           NEW R, NEW T, R \cap T = {}, R \cup T \subseteq {i, i + 1},
           rejected' = rejected \cup R, titles' = titles \cup T
    PROVE  /\ Placed(Parts', rejected', titles', ((Start(lines) + 1)..(i - 1)) \cup (R \cup T))
           /\ Grown(Parts, Parts')
<1> DEFINE all == (Start(lines) + 1)..(i - 1)
<1>1. Placed(Parts, rejected, titles, all) /\ i \in Nat /\ Start(lines) \in Nat
  BY MemoState
<1>2. (R \cup T) \cap all = {}
  BY <1>1
<1> HIDE DEF all
<1>3. Placed(Parts, rejected \cup R, titles \cup T, all \cup R \cup T)
  BY <1>1, <1>2, PlacedElsewhere
<1>4. all \cup R \cup T = all \cup (R \cup T)
  OBVIOUS
<1>5. Placed(Parts, rejected \cup R, titles \cup T, all \cup (R \cup T))
  BY <1>3, <1>4
<1>6. Grown(Parts, Parts')
  BY DEF Grown
<1> QED
  BY <1>5, <1>6 DEF all

\* What a branch of the loop knows of the line it reads.
LEMMA Reading ==
    ASSUME PlacingInv, NEW kinds, Reads(kinds)
    PROVE  /\ ParsingTypeOK
           /\ pc = "memo" /\ i \in Nat /\ i > 0 /\ i \in DOMAIN lines
           /\ DOMAIN lines = 1..Len(lines) /\ Len(lines) \in Nat
           /\ \A k \in DOMAIN lines : Line(k) \in Words
           /\ Line(i).kind \in kinds
           /\ Lined(tasks, current)
<1>1. pc = "memo" /\ i \in DOMAIN lines /\ Line(i).kind \in kinds /\ ParsingTypeOK
  BY DEF Reads, PlacingInv
<1>2. lines \in Seq([element : Nat, line : Words]) /\ i \in Nat
  BY <1>1 DEF ParsingTypeOK
<1>3. DOMAIN lines = 1..Len(lines) /\ Len(lines) \in Nat /\ i > 0
  BY <1>1, <1>2
<1>4. \A k \in DOMAIN lines : Line(k) \in Words
  <2> DEFINE R == [element : Nat, line : Words]
  <2>1. \A x \in R : x.line \in Words
    OBVIOUS
  <2> HIDE DEF R
  <2>2. lines \in Seq(R)
    BY <1>2 DEF R
  <2>3. \A k \in DOMAIN lines : lines[k] \in R
    BY <2>2
  <2> QED
    BY <2>1, <2>3 DEF Line
<1>5. Lined(tasks, current)
  BY <1>1, <1>3, MemoState
<1> QED
  BY <1>1, <1>2, <1>3, <1>4, <1>5

\* A line that ends the resolutions is rejected.
LEMMA StopLineKeeps ==
    ASSUME PlacingInv, StopLine
    PROVE  PlacingInv'
<1>1. /\ ParsingTypeOK /\ pc = "memo" /\ i \in Nat /\ i > 0 /\ Line(i).kind = "stop"
      /\ Lined(tasks, current)
  BY Reading DEF StopLine
<1>2. /\ UNCHANGED <<doc, parser, lines, dropped>> /\ current' = Absent /\ mode' = mode /\ block' = block
      /\ rejected' = rejected \cup {i} /\ titles' = titles \cup {} /\ i' = i /\ pc' = "report"
  BY DEF StopLine, Unmoved
<1>3. /\ tasks' \in Seq(Reported) /\ expected' \in Nat
      /\ Lined(tasks', Absent) /\ Pieces(tasks', Absent) = Parts
  BY <1>1, FinishStep DEF StopLine
<1>4. Parts' = Parts /\ Lined(tasks', current')
  BY <1>2, <1>3 DEF Parts
<1>5. /\ Placed(Parts', rejected', titles', ((Start(lines) + 1)..(i - 1)) \cup ({i} \cup {}))
      /\ Grown(Parts, Parts')
  BY <1>1, <1>2, <1>4, Noted
<1>6. NumberUsed(Parts', i)
  BY <1>1 DEF NumberUsed
<1>7. Uses({i})
  <2>1. rejected' \cap {i} = {i} /\ rejected' \subseteq Nat /\ titles' \subseteq Nat
        /\ mode' \in Modes \cup {Absent} /\ block' \in Nat \cup {Absent}
    BY <1>1, <1>2 DEF ParsingTypeOK
  <2> QED
    BY <1>2, <1>3, <1>4, <1>5, <1>6, <2>1 DEF Uses
<1> QED
  BY <1>1, <1>7, UsesKeeps

\* The end of the document takes no line.
LEMMA EndOfLinesKeeps ==
    ASSUME PlacingInv, EndOfLines
    PROVE  PlacingInv'
<1>1. /\ ParsingTypeOK /\ pc = "memo" /\ i \in Nat /\ i > 0 /\ i \notin rejected
      /\ Lined(tasks, current)
  <2>1. ParsingTypeOK /\ LineInv
    BY DEF PlacingInv
  <2>2. pc = "memo" /\ i \in Nat /\ i = Len(lines) + 1 /\ Len(lines) \in Nat
    BY <2>1 DEF EndOfLines, ParsingTypeOK
  <2>3. i > 0
    BY <2>2
  <2> QED
    BY <2>1, <2>2, <2>3, MemoState DEF LineInv
<1>2. /\ UNCHANGED <<doc, parser, lines, dropped>> /\ current' = Absent /\ mode' = mode /\ block' = block
      /\ rejected' = rejected \cup {} /\ titles' = titles \cup {} /\ i' = i /\ pc' = "report"
  BY DEF EndOfLines, Unmoved
<1>3. /\ tasks' \in Seq(Reported) /\ expected' \in Nat
      /\ Lined(tasks', Absent) /\ Pieces(tasks', Absent) = Parts
  BY <1>1, FinishStep DEF EndOfLines
<1>4. Parts' = Parts /\ Lined(tasks', current')
  BY <1>2, <1>3 DEF Parts
<1>5. /\ Placed(Parts', rejected', titles', ((Start(lines) + 1)..(i - 1)) \cup ({} \cup {}))
      /\ Grown(Parts, Parts')
  BY <1>1, <1>2, <1>4, Noted
<1>6. Uses({})
  <2>1. rejected' \cap {i} = {} /\ rejected' \subseteq Nat /\ titles' \subseteq Nat
        /\ mode' \in Modes \cup {Absent} /\ block' \in Nat \cup {Absent}
    BY <1>1, <1>2 DEF ParsingTypeOK
  <2> QED
    BY <1>2, <1>3, <1>4, <1>5, <2>1 DEF Uses
<1> QED
  BY <1>1, <1>6, UsesKeeps

\* The heading of a block is rejected, and the line that names it a title.
LEMMA BlockLineKeeps ==
    ASSUME PlacingInv, BlockLine
    PROVE  PlacingInv'
<1>1. /\ ParsingTypeOK /\ pc = "memo" /\ i \in Nat /\ i > 0 /\ Line(i).kind = "block"
      /\ Lined(tasks, current) /\ i \in DOMAIN lines
  BY Reading DEF BlockLine
<1>2. /\ UNCHANGED <<doc, parser, lines, dropped>> /\ current' = Absent /\ mode' = Absent /\ pc' = pc
      /\ rejected' = rejected \cup {i}
  BY DEF BlockLine, Unmoved
<1>3. /\ tasks' \in Seq(Reported) /\ expected' \in Nat
      /\ Lined(tasks', Absent) /\ Pieces(tasks', Absent) = Parts
  BY <1>1, FinishStep DEF BlockLine
<1>4. Parts' = Parts /\ Lined(tasks', current')
  BY <1>2, <1>3 DEF Parts
<1>5. NumberUsed(Parts', i)
  BY <1>1 DEF NumberUsed
<1>6. rejected' \subseteq Nat
  BY <1>1, <1>2 DEF ParsingTypeOK
<1>7. CASE i' = i + 1 /\ titles' = titles /\ block' \in Nat \cup {Absent}
  <2>1. titles' = titles \cup {} /\ titles' \subseteq Nat
    BY <1>1, <1>7 DEF ParsingTypeOK
  <2>2. /\ Placed(Parts', rejected', titles', ((Start(lines) + 1)..(i - 1)) \cup ({i} \cup {}))
        /\ Grown(Parts, Parts')
    BY <1>1, <1>2, <1>4, <2>1, Noted
  <2>3. Uses({i})
    BY <1>1, <1>2, <1>3, <1>4, <1>5, <1>6, <1>7, <2>1, <2>2 DEF Uses
  <2> QED
    BY <1>1, <2>3, UsesKeeps
<1>8. CASE i' = i + 2 /\ titles' = titles \cup {i + 1} /\ block' = i + 1 /\ NamesBlock(i + 1)
  <2>1. titles' \subseteq Nat /\ {i} \cap {i + 1} = {}
    BY <1>1, <1>8 DEF ParsingTypeOK
  <2>2. /\ Placed(Parts', rejected', titles', ((Start(lines) + 1)..(i - 1)) \cup ({i} \cup {i + 1}))
        /\ Grown(Parts, Parts')
    BY <1>1, <1>2, <1>4, <1>8, <2>1, Noted
  <2>3. NumberUsed(Parts', i + 1) /\ i + 1 \in DOMAIN lines
    BY <1>8 DEF NamesBlock, NumberUsed
  <2>4. {i} \cup {i + 1} = {i, i + 1}
    OBVIOUS
  <2>5. Uses({i, i + 1})
    BY <1>1, <1>2, <1>3, <1>4, <1>5, <1>6, <1>8, <2>1, <2>2, <2>3, <2>4 DEF Uses
  <2> QED
    BY <1>1, <2>5, UsesKeeps
<1> QED
  BY <1>1, <1>7, <1>8 DEF BlockLine, Passed, ParsingTypeOK

\* A label without an instruction is rejected.
LEMMA LonelyLabelKeeps ==
    ASSUME PlacingInv, LonelyLabel
    PROVE  PlacingInv'
<1>1. /\ ParsingTypeOK /\ pc = "memo" /\ i \in Nat /\ i > 0 /\ Line(i).kind \in Labels
      /\ Lined(tasks, current) /\ i \in DOMAIN lines
  BY Reading DEF LonelyLabel
<1>2. /\ UNCHANGED <<doc, parser, lines, dropped, pc, current, mode, block, expected, tasks>>
      /\ current = Absent /\ rejected' = rejected \cup {i} /\ titles' = titles \cup {} /\ i' = i + 1
  BY DEF LonelyLabel, Unmoved, Passed
<1>3. Parts' = Parts /\ Lined(tasks', current')
  BY <1>1, <1>2 DEF Parts
<1>4. /\ Placed(Parts', rejected', titles', ((Start(lines) + 1)..(i - 1)) \cup ({i} \cup {}))
      /\ Grown(Parts, Parts')
  BY <1>1, <1>2, <1>3, Noted
<1>5. NumberUsed(Parts', i)
  BY <1>1 DEF NumberUsed, Labels
<1>6. Uses({i})
  <2>1. rejected' \subseteq Nat /\ titles' \subseteq Nat
        /\ mode' \in Modes \cup {Absent} /\ block' \in Nat \cup {Absent}
        /\ expected' \in Nat
    BY <1>1, <1>2 DEF ParsingTypeOK
  <2> QED
    BY <1>1, <1>2, <1>3, <1>4, <1>5, <2>1 DEF Uses
<1> QED
  BY <1>1, <1>6, UsesKeeps

\* A line that opens an instruction, after the one before is finished.
LEMMA OpenedKeeps ==
    ASSUME PlacingInv, pc = "memo", i > 0, i \in DOMAIN lines, Finish,
           NEW number \in Nat, Line(i).kind = "numbered" => number = Line(i).value,
           current' = Opened(number), mode' = "text", i' = i + 1, Unmoved,
           UNCHANGED <<pc, block, rejected, titles>>
    PROVE  PlacingInv'
<1>1. /\ i \in Nat /\ Start(lines) \in Nat /\ Parts \in Seq(AnyPiece)
      /\ Lined(tasks, current)
      /\ Placed(Parts, rejected, titles, (Start(lines) + 1)..(i - 1))
      /\ ParsingTypeOK
  BY MemoState DEF PlacingInv
<1>2. /\ tasks' \in Seq(Reported) /\ expected' \in Nat
      /\ Lined(tasks', Absent) /\ Pieces(tasks', Absent) = Parts
  BY <1>1, FinishStep
<1>3. current' \in Instructions /\ current' # Absent /\ current'.raw = <<i>> /\ current'.number = number
  <2>1. block \in Nat \cup {Absent}
    BY <1>1 DEF ParsingTypeOK
  <2>2. Opened(number) \in Instructions
    BY <1>1, <2>1 DEF Opened, Instructions
  <2> QED
    BY <2>2, AbsentAssumption DEF Opened
<1>4. current'.raw # <<>>
  BY <1>3
<1>5. Lined(tasks', current')
  BY <1>2, <1>3, <1>4 DEF Lined
<1>6. Parts' = Append(Parts, [number |-> number, raw |-> <<i>>])
  <2>1. Pieces(tasks', current') = Append(Parts, Piece(current'))
    BY <1>2, <1>3, <1>4, PieceBegun
  <2>2. Piece(current') = [number |-> number, raw |-> <<i>>]
    BY <1>3 DEF Piece
  <2> QED
    BY <2>1, <2>2 DEF Parts
<1>7. \A y \in (Start(lines) + 1)..(i - 1) : y \in Nat /\ y < i
  BY <1>1
<1>8. /\ Placed(Parts', rejected, titles, ((Start(lines) + 1)..(i - 1)) \cup {i})
      /\ Grown(Parts, Parts')
      /\ Begun(Parts', i, number)
  <2> DEFINE all == (Start(lines) + 1)..(i - 1)
             u == Parts'
  <2>1. \A y \in all : y \in Nat /\ y < i
    BY <1>7
  <2>2. Placed(Parts, rejected, titles, all)
    BY <1>1
  <2>3. u = Append(Parts, [number |-> number, raw |-> <<i>>])
    BY <1>6
  <2> HIDE DEF all, u
  <2>4. /\ Placed(u, rejected, titles, all \cup {i})
        /\ Grown(Parts, u)
        /\ Begun(u, i, number)
    BY <1>1, <2>1, <2>2, <2>3, PlacedOpened
  <2> QED
    BY <2>4 DEF all, u
<1>9. NumberUsed(Parts', i)
  BY <1>8 DEF NumberUsed
<1>10. Uses({i})
  <2>1. rejected' = rejected /\ titles' = titles /\ rejected' \subseteq Nat /\ titles' \subseteq Nat
        /\ block' \in Nat \cup {Absent} /\ mode' \in Modes /\ mode' # Absent
    BY <1>1, AbsentAssumption DEF ParsingTypeOK, Modes
  <2>2. UNCHANGED <<doc, parser, lines, dropped>> /\ pc' = "memo" /\ {i} \subseteq DOMAIN lines
    BY DEF Unmoved
  <2> QED
    BY <1>2, <1>3, <1>5, <1>8, <1>9, <2>1, <2>2 DEF Uses
<1> QED
  BY <1>10, UsesKeeps

\* A number opens an instruction with it.
LEMMA NumberedLineKeeps ==
    ASSUME PlacingInv, NumberedLine
    PROVE  PlacingInv'
<1>1. /\ pc = "memo" /\ i > 0 /\ i \in DOMAIN lines /\ Line(i) \in Words
      /\ Line(i).kind = "numbered"
  BY Reading DEF NumberedLine
<1>2. Line(i).value \in Nat
  BY <1>1 DEF Words
<1> QED
  BY <1>1, <1>2, OpenedKeeps DEF NumberedLine, Passed

\* Text opens an instruction where none is open, or after a deadline.
LEMMA TextOpensKeeps ==
    ASSUME PlacingInv, TextOpens
    PROVE  PlacingInv'
<1>1. /\ pc = "memo" /\ i > 0 /\ i \in DOMAIN lines /\ Line(i).kind \in Text
      /\ ParsingTypeOK /\ Lined(tasks, current)
  BY Reading DEF TextOpens
<1>2. Line(i).kind # "numbered"
  BY <1>1 DEF Text
<1>3. Len(tasks') + 1 \in Nat
  <2>1. tasks' \in Seq(Reported)
    BY <1>1, FinishStep DEF TextOpens
  <2> QED
    BY <2>1
<1> QED
  BY <1>1, <1>2, <1>3, OpenedKeeps DEF TextOpens, Passed

\* A line, or two, that the open instruction takes.
LEMMA ContinuedKeeps ==
    ASSUME PlacingInv, pc = "memo", i > 0, i \in DOMAIN lines, current \in Instructions,
           Line(i).kind # "numbered", NEW t,
           \/ t = <<i>> /\ i' = i + 1
           \/ /\ t = <<i, i + 1>> /\ i' = i + 2 /\ i + 1 \in DOMAIN lines
              /\ Line(i).kind = "deadline" /\ Line(i).value = Absent /\ Line(i + 1).date # "none",
           current' \in Instructions, current'.number = current.number,
           current'.raw = current.raw \o t,
           mode' \in Modes, Unmoved,
           UNCHANGED <<pc, block, expected, tasks, rejected, titles>>
    PROVE  PlacingInv'
<1>1. /\ i \in Nat /\ Start(lines) \in Nat /\ Parts \in Seq(AnyPiece)
      /\ Lined(tasks, current)
      /\ Placed(Parts, rejected, titles, (Start(lines) + 1)..(i - 1))
      /\ ParsingTypeOK
      /\ parser = "memo_protocol"
  BY MemoState DEF PlacingInv
<1>2. /\ t \in Seq(Nat)
      /\ \/ DOMAIN t = {1} /\ t[1] = i
         \/ DOMAIN t = {1, 2} /\ t[1] = i /\ t[2] = i + 1
      /\ Len(t) > 0
  <2>1. CASE t = <<i>>
    BY <1>1, <2>1
  <2>2. CASE t = <<i, i + 1>>
    <3>1. i + 1 \in Nat
      BY <1>1
    <3> QED
      BY <1>1, <2>2, <3>1
  <2> QED
    BY <2>1, <2>2
<1>3. t = <<i>> => Range(t) = {i}
  <2> SUFFICES ASSUME t = <<i>> PROVE {t[a] : a \in DOMAIN t} = {i}
    BY DEF Range
  <2>1. DOMAIN t = {1} /\ t[1] = i
    OBVIOUS
  <2> QED
    BY <2>1
<1>4. t = <<i, i + 1>> => Range(t) = {i, i + 1}
  <2> SUFFICES ASSUME t = <<i, i + 1>> PROVE {t[a] : a \in DOMAIN t} = {i, i + 1}
    BY DEF Range
  <2>1. DOMAIN t = {1, 2} /\ t[1] = i /\ t[2] = i + 1
    OBVIOUS
  <2> QED
    BY <2>1
<1>5. \A a, b \in DOMAIN t : a < b => t[a] < t[b]
  <2> SUFFICES ASSUME NEW a \in DOMAIN t, NEW b \in DOMAIN t, a < b PROVE t[a] < t[b]
    OBVIOUS
  <2>1. CASE DOMAIN t = {1}
    <3>1. a = 1 /\ b = 1
      BY <2>1
    <3> QED
      BY <3>1
  <2>2. CASE DOMAIN t = {1, 2} /\ t[1] = i /\ t[2] = i + 1
    <3>1. a = 1 /\ b = 2
      BY <2>2
    <3> QED
      BY <1>1, <2>2, <3>1
  <2> QED
    BY <1>2, <2>1, <2>2
<1>6. \A a \in DOMAIN t : t[a] \in Nat /\ i <= t[a]
  BY <1>1, <1>2
<1>7. Lined(tasks', current')
  <2>1. current.raw \in Seq(Nat) /\ current.raw # <<>>
    BY <1>1, AbsentAssumption DEF Lined, Instructions
  <2>2. current.raw \o t # <<>>
    BY <1>2, <2>1
  <2> QED
    BY <1>1, <2>2 DEF Lined
<1>8. Parts # <<>> /\ Parts' = Lengthened(Parts, t)
  BY <1>1, PieceContinued DEF Parts
<1>9. \A y \in (Start(lines) + 1)..(i - 1) : y \in Nat /\ y < i
  BY <1>1
<1>10. /\ Placed(Parts', rejected, titles, ((Start(lines) + 1)..(i - 1)) \cup Range(t))
       /\ Grown(Parts, Parts')
  <2> DEFINE all == (Start(lines) + 1)..(i - 1)
             u == Parts'
             s == Parts
  <2>1. \A y \in all : y \in Nat /\ \A a \in DOMAIN t : y < t[a]
    BY <1>1, <1>6, <1>9
  <2>2. Placed(s, rejected, titles, all) /\ s \in Seq(AnyPiece) /\ s # <<>>
    BY <1>1, <1>8
  <2>3. u = Lengthened(s, t)
    BY <1>8
  <2> HIDE DEF all, u, s
  <2>4. /\ Placed(u, rejected, titles, all \cup Range(t))
        /\ Grown(s, u)
    BY <1>2, <1>5, <2>1, <2>2, <2>3, PlacedLonger
  <2> QED
    BY <2>4 DEF all, u, s
<1>11. NumberUsed(Parts', i)
  BY DEF NumberUsed
<1>12. t = <<i, i + 1>> => NumberUsed(Parts', i + 1)
  <2> SUFFICES ASSUME t = <<i, i + 1>> PROVE NumberUsed(Parts', i + 1)
    OBVIOUS
  <2>1. t # <<i>>
    BY <1>1
  <2>2. (i + 1) - 1 = i
    BY <1>1
  <2> QED
    BY <2>1, <2>2 DEF NumberUsed
<1>13. /\ rejected' = rejected /\ titles' = titles /\ rejected' \subseteq Nat /\ titles' \subseteq Nat
       /\ block' \in Nat \cup {Absent} /\ expected' \in Nat
  BY <1>1 DEF ParsingTypeOK
<1>14. UNCHANGED <<doc, parser, lines, dropped>> /\ pc' = "memo"
  BY DEF Unmoved
<1>15. mode' \in Modes /\ mode' # Absent
  BY AbsentAssumption
<1>16. Uses(Range(t))
  <2>1. CASE t = <<i>> /\ i' = i + 1
    BY <1>3, <1>7, <1>10, <1>11, <1>13, <1>14, <1>15, <2>1 DEF Uses
  <2>2. CASE t = <<i, i + 1>> /\ i' = i + 2 /\ i + 1 \in DOMAIN lines
    <3>1. Range(t) \subseteq DOMAIN lines
      BY <1>4, <2>2
    <3>2. \A k \in Range(t) : NumberUsed(Parts', k)
      BY <1>4, <1>11, <1>12, <2>2
    <3> QED
      BY <1>4, <1>7, <1>10, <1>13, <1>14, <1>15, <2>2, <3>1, <3>2 DEF Uses
  <2> QED
    BY <2>1, <2>2
<1> QED
  BY <1>16, UsesKeeps

\* The label of an executive goes to the open instruction.
LEMMA AssigneeLabelKeeps ==
    ASSUME PlacingInv, AssigneeLabel
    PROVE  PlacingInv'
<1>1. /\ pc = "memo" /\ i > 0 /\ i \in Nat /\ i \in DOMAIN lines /\ Line(i).kind = "assignee"
      /\ current \in Instructions
  <2>1. /\ pc = "memo" /\ i > 0 /\ i \in Nat /\ i \in DOMAIN lines /\ Line(i).kind \in {"assignee"}
        /\ ParsingTypeOK
    BY Reading DEF AssigneeLabel
  <2> QED
    BY <2>1 DEF AssigneeLabel, ParsingTypeOK
<1> DEFINE n == IF Line(i).value = Absent THEN current.names ELSE Append(current.names, i)
<1>2. n \in Seq(Nat) /\ current.raw \o <<i>> \in Seq(Nat)
  BY <1>1 DEF Instructions
<1>3. current' = [[current EXCEPT !.raw = @ \o <<i>>] EXCEPT !.names = n]
  BY <1>1 DEF AssigneeLabel, Continue, Longer, Instructions
<1> HIDE DEF n
<1>4. /\ current' \in Instructions /\ current'.number = current.number
      /\ current'.raw = current.raw \o <<i>>
  BY <1>1, <1>2, <1>3 DEF Instructions
<1> DEFINE t == <<i>>
<1>5. t = <<i>> /\ i' = i + 1 /\ current'.raw = current.raw \o t /\ mode' \in Modes
  BY <1>4 DEF AssigneeLabel, Passed, Modes
<1> HIDE DEF t
<1> QED
  BY <1>1, <1>4, <1>5, ContinuedKeeps DEF AssigneeLabel, Continue

\* Longer and Dated keep what the pieces tell of the open instruction.
LEMMA LongerDated ==
    ASSUME current \in Instructions, NEW t \in Seq(Nat), NEW k \in Nat,
           NEW c, c = Longer(t) \/ c = Dated(Longer(t), k)
    PROVE  /\ c \in Instructions /\ c.number = current.number
           /\ c.raw = current.raw \o t
<1>1. current.raw \o t \in Seq(Nat)
  BY DEF Instructions
<1> DEFINE q == current.raw \o t
           l == [current EXCEPT !.raw = q]
<1>2. Longer(t) = l
  BY DEF Longer, Instructions
<1> HIDE DEF q
<1>3. l \in Instructions /\ l.number = current.number /\ l.raw = q
  BY <1>1 DEF q, Instructions
<1>4. [l EXCEPT !.date = k] \in Instructions /\ [l EXCEPT !.date = k].number = l.number
      /\ [l EXCEPT !.date = k].raw = l.raw
  <2> HIDE DEF l
  <2> QED
    BY <1>3 DEF Instructions
<1>5. c = l \/ c = [l EXCEPT !.date = k]
  BY <1>2 DEF Dated
<1> HIDE DEF l
<1> QED
  BY <1>3, <1>4, <1>5 DEF q

\* The label of a deadline goes to it too, an empty one with the line of its date.
LEMMA DeadlineLabelKeeps ==
    ASSUME PlacingInv, DeadlineLabel
    PROVE  PlacingInv'
<1>1. /\ pc = "memo" /\ i > 0 /\ i \in Nat /\ i \in DOMAIN lines /\ Line(i).kind = "deadline"
      /\ current \in Instructions
  <2>1. /\ pc = "memo" /\ i > 0 /\ i \in Nat /\ i \in DOMAIN lines /\ Line(i).kind \in {"deadline"}
        /\ ParsingTypeOK
    BY Reading DEF DeadlineLabel
  <2> QED
    BY <2>1 DEF DeadlineLabel, ParsingTypeOK
<1>2. mode' \in Modes
  BY DEF DeadlineLabel, Modes
<1>3. CASE Line(i).value = Absent /\ i + 1 \in DOMAIN lines /\ Line(i + 1).date # "none"
  <2> DEFINE t == <<i, i + 1>>
  <2>1. t \in Seq(Nat) /\ i + 1 \in Nat
    BY <1>1
  <2>2. current' = Dated(Longer(t), i + 1) /\ i' = i + 2
    BY <1>3 DEF DeadlineLabel, Continue, Passed
  <2>3. t = <<i, i + 1>>
    OBVIOUS
  <2> HIDE DEF t
  <2>4. /\ current' \in Instructions /\ current'.number = current.number
        /\ current'.raw = current.raw \o t
    BY <1>1, <2>1, <2>2, LongerDated
  <2>5. Unmoved /\ UNCHANGED <<pc, block, expected, tasks, rejected, titles>>
    BY <1>3 DEF DeadlineLabel, Continue
  <2> QED
    BY <1>1, <1>2, <1>3, <2>2, <2>3, <2>4, <2>5, ContinuedKeeps
<1>4. CASE ~(Line(i).value = Absent /\ i + 1 \in DOMAIN lines /\ Line(i + 1).date # "none")
  <2> DEFINE t == <<i>>
  <2>1. t \in Seq(Nat)
    BY <1>1
  <2>2. current' = Dated(Longer(t), i) /\ i' = i + 1
    BY <1>4 DEF DeadlineLabel, Continue, Passed
  <2>3. t = <<i>>
    OBVIOUS
  <2> HIDE DEF t
  <2>4. /\ current' \in Instructions /\ current'.number = current.number
        /\ current'.raw = current.raw \o t
    BY <1>1, <2>1, <2>2, LongerDated
  <2>5. Unmoved /\ UNCHANGED <<pc, block, expected, tasks, rejected, titles>>
    BY <1>4 DEF DeadlineLabel, Continue
  <2> QED
    BY <1>1, <1>2, <2>2, <2>3, <2>4, <2>5, ContinuedKeeps
<1> QED
  BY <1>3, <1>4

\* So does a line without a label.
LEMMA ContinuationKeeps ==
    ASSUME PlacingInv, Continuation
    PROVE  PlacingInv'
<1>1. /\ pc = "memo" /\ i > 0 /\ i \in Nat /\ i \in DOMAIN lines /\ Line(i).kind # "numbered"
      /\ current \in Instructions /\ mode \in Modes
  <2>1. /\ pc = "memo" /\ i > 0 /\ i \in Nat /\ i \in DOMAIN lines /\ Line(i).kind \in Text
        /\ ParsingTypeOK
    BY Reading DEF Continuation
  <2>2. LineInv
    BY DEF PlacingInv
  <2> QED
    BY <2>1, <2>2 DEF Continuation, ParsingTypeOK, LineInv, Text
<1> DEFINE t == <<i>>
           n == Append(current.names, i)
<1>2. t \in Seq(Nat) /\ n \in Seq(Nat) /\ current.raw \o t \in Seq(Nat)
  BY <1>1 DEF Instructions
<1>3. /\ \/ current' = [[current EXCEPT !.raw = @ \o t] EXCEPT !.names = n]
         \/ current' = Dated(Longer(t), i)
         \/ current' = Longer(t)
      /\ Unmoved /\ UNCHANGED <<pc, block, expected, tasks, rejected, titles>>
      /\ i' = i + 1 /\ mode' = mode
  <2>1. CASE mode = "assignee"
    BY <1>1, <2>1 DEF Continuation, Continue, Longer, Passed, Instructions
  <2>2. CASE mode = "deadline"
    BY <1>1, <2>2 DEF Continuation, Continue, Passed
  <2>3. CASE mode = "text"
    BY <1>1, <2>3 DEF Continuation, Continue, Passed
  <2> QED
    BY <1>1, <2>1, <2>2, <2>3 DEF Modes
<1>4. t = <<i>>
  OBVIOUS
<1> HIDE DEF t, n
<1>5. /\ current' \in Instructions /\ current'.number = current.number
      /\ current'.raw = current.raw \o t
  <2>1. CASE current' = [[current EXCEPT !.raw = @ \o t] EXCEPT !.names = n]
    BY <1>1, <1>2, <2>1 DEF Instructions
  <2>2. CASE current' = Dated(Longer(t), i) \/ current' = Longer(t)
    BY <1>1, <1>2, <2>2, LongerDated
  <2> QED
    BY <1>3, <2>1, <2>2
<1> QED
  BY <1>1, <1>3, <1>4, <1>5, ContinuedKeeps

\* Without a heading nothing is claimed of the lines: the scanner reads none.
LEMMA NoHeadingKeeps ==
    ASSUME PlacingInv, NoHeading
    PROVE  PlacingInv'
<1>1. /\ UNCHANGED <<doc, parser, lines, i, current, mode, block, expected, tasks, titles, dropped>>
      /\ rejected' = DOMAIN lines /\ pc' = "done" /\ i = 0 /\ pc = "memo"
  BY DEF NoHeading
<1>2. ParsingTypeOK /\ StageInv /\ LineInv
  BY DEF PlacingInv
<1>3. ParsingTypeOK'
  <2>1. DOMAIN lines \subseteq Nat
    BY <1>2 DEF ParsingTypeOK
  <2> QED
    BY <1>1, <1>2, <2>1 DEF ParsingTypeOK
<1>4. parser = "memo_protocol" /\ parser # Absent
  BY <1>1, <1>2 DEF StageInv
<1>5. StageInv' /\ LineInv'
  <2>1. StageInv'
    BY <1>1, <1>2, <1>4 DEF StageInv
  <2>2. LineInv'
    BY <1>1, <1>2 DEF LineInv
  <2> QED
    BY <2>1, <2>2
<1>6. LinesAccountedFor' /\ NumbersOpenTasks'
  <2>1. ~ (i' > 0)
    BY <1>1
  <2>2. parser' = "memo_protocol"
    BY <1>1, <1>4
  <2> QED
    BY <2>1, <2>2 DEF LinesAccountedFor, NumbersOpenTasks, MemoNumbersOpen, UniversalNumbersOpen
<1> QED
  BY <1>3, <1>5, <1>6 DEF PlacingInv

\* The report of the result changes none of it.
LEMMA ReportKeeps ==
    ASSUME PlacingInv, Report
    PROVE  PlacingInv'
<1>1. /\ UNCHANGED <<doc, parser, lines, i, current, mode, block, expected, tasks, rejected, titles,
                      dropped>>
      /\ pc' = "done" /\ pc = "report"
  BY DEF Report, Unmoved, scan
<1>2. ParsingTypeOK /\ StageInv /\ LineInv /\ LinesAccountedFor /\ MemoNumbersOpen
  BY DEF PlacingInv, NumbersOpenTasks
<1>3. ParsingTypeOK'
  BY <1>1, <1>2 DEF ParsingTypeOK
<1>4. parser = "memo_protocol" /\ parser # Absent
  BY <1>1, <1>2 DEF StageInv
<1>5. StageInv' /\ LineInv'
  BY <1>1, <1>2, <1>4 DEF StageInv, LineInv
<1>6. Result' = Result /\ Passages' = Passages
  BY <1>1 DEF Result, Open, Passages
<1>7. LinesAccountedFor'
  BY <1>1, <1>2, <1>4, <1>6 DEF LinesAccountedFor
<1>8. NumbersOpenTasks'
  <2>1. MemoNumbersOpen'
    BY <1>1, <1>2, <1>6 DEF MemoNumbersOpen, Line
  <2>2. UniversalNumbersOpen'
    BY <1>1, <1>4 DEF UniversalNumbersOpen
  <2> QED
    BY <2>1, <2>2 DEF NumbersOpenTasks
<1> QED
  BY <1>3, <1>5, <1>7, <1>8 DEF PlacingInv

\* A numbered element among the instructions is not dropped.
NumberTaken(ts, lost, k) ==
    Numbered(k) => /\ k \notin lost
                   /\ \E n \in DOMAIN ts : ts[n].raw = <<k>> /\ ts[n].number = First(doc[k]).value

\* What the invariant says of the universal scanner.
LEMMA UniversalState ==
    ASSUME PlacingInv, pc = "universal"
    PROVE  /\ ParsingTypeOK
           /\ parser # "memo_protocol" /\ parser # Absent
           /\ i \in Nat /\ i > 0 /\ i <= Len(doc) + 1 /\ Len(doc) \in Nat /\ DOMAIN doc = 1..Len(doc)
           /\ doc \in Seq(Elements)
           /\ current = Absent
           /\ Lined(tasks, Absent)
           /\ \A k \in dropped : k \in Nat /\ k < i
           /\ \A k \in 1..(i - 1) : NumberTaken(tasks, dropped, k)
<1>1. ParsingTypeOK /\ StageInv /\ LineInv /\ UniversalNumbersOpen
  BY DEF PlacingInv, NumbersOpenTasks
<1>2. parser # "memo_protocol" /\ parser # Absent
  BY <1>1 DEF StageInv
<1>3. current = Absent /\ i \in 1..(Len(doc) + 1)
  BY <1>1, <1>2 DEF StageInv
<1>4. doc \in Seq(Elements)
  BY <1>1, DocumentsAssumption DEF ParsingTypeOK
<1>5. Len(doc) \in Nat /\ DOMAIN doc = 1..Len(doc)
  BY <1>4
<1>6. i \in Nat /\ i > 0 /\ i <= Len(doc) + 1
  BY <1>1, <1>3, <1>5 DEF ParsingTypeOK
<1>7. Lined(tasks, Absent)
  BY <1>1, <1>3 DEF Lined, ParsingTypeOK, LineInv
<1>8. \A k \in dropped : k \in Nat /\ k < i
  BY <1>1 DEF ParsingTypeOK, LineInv
<1>9. \A k \in 1..(i - 1) : NumberTaken(tasks, dropped, k)
  BY <1>1, <1>2 DEF UniversalNumbersOpen, NumberTaken
<1> QED
  BY <1>1, <1>2, <1>3, <1>4, <1>5, <1>6, <1>7, <1>8, <1>9

\* What a step of the universal scanner leaves of the instructions and puts among the
\* dropped elements.
Takes ==
    /\ UNCHANGED <<doc, parser, lines, current, mode, expected, rejected, titles>>
    /\ block' \in Nat \cup {Absent}
    /\ Lined(tasks', Absent)
    /\ \A n \in DOMAIN tasks : n \in DOMAIN tasks' /\ tasks'[n] = tasks[n]
    /\ pc' \in {"universal", "done", "failed"}
    /\ \/ /\ i' = i + 1 /\ i \in DOMAIN doc
          /\ dropped' = dropped \/ dropped' = dropped \cup {i}
          /\ NumberTaken(tasks', dropped', i)
       \/ i' = i /\ dropped' = dropped

\* A step that puts the element read to one use keeps the invariant.
LEMMA TakesKeeps ==
    ASSUME PlacingInv, pc = "universal", Takes
    PROVE  PlacingInv'
<1>1. /\ ParsingTypeOK /\ parser # "memo_protocol" /\ parser # Absent
      /\ i \in Nat /\ i > 0 /\ i <= Len(doc) + 1 /\ Len(doc) \in Nat /\ DOMAIN doc = 1..Len(doc)
      /\ current = Absent
      /\ \A k \in dropped : k \in Nat /\ k < i
      /\ \A k \in 1..(i - 1) : NumberTaken(tasks, dropped, k)
  BY UniversalState
<1>2. /\ doc' = doc /\ parser' = parser /\ lines' = lines /\ current' = Absent
      /\ mode' = mode /\ expected' = expected /\ rejected' = rejected /\ titles' = titles
      /\ Lined(tasks', current') /\ pc' \in {"universal", "done", "failed"}
  BY <1>1 DEF Takes
<1>3. i' \in Nat /\ i' \in 1..(Len(doc) + 1) /\ i <= i'
  BY <1>1 DEF Takes
<1>4. \A k \in dropped' : k \in Nat /\ k < i'
  BY <1>1 DEF Takes
<1>5. ParsingTypeOK'
  BY <1>1, <1>2, <1>3, <1>4 DEF ParsingTypeOK, Takes, Lined
<1>6. StageInv'
  BY <1>1, <1>2, <1>3 DEF StageInv
<1>7. LineInv'
  BY <1>2, <1>4 DEF LineInv, Lined
<1>8. ASSUME NEW k \in 1..(i - 1) PROVE NumberTaken(tasks', dropped', k)
  <2>1. k \in Nat /\ k # i
    BY <1>1
  <2>2. k \in dropped' => k \in dropped
    BY <2>1 DEF Takes
  <2>3. \A n \in DOMAIN tasks : n \in DOMAIN tasks' /\ tasks'[n] = tasks[n]
    BY DEF Takes
  <2> QED
    BY <1>1, <2>2, <2>3 DEF NumberTaken
<1>9. \A k \in 1..(i' - 1) : NumberTaken(tasks', dropped', k)
  <2>1. CASE i' = i
    BY <1>8, <2>1
  <2>2. CASE i' = i + 1 /\ NumberTaken(tasks', dropped', i)
    <3>1. \A k \in 1..(i' - 1) : k \in 1..(i - 1) \/ k = i
      BY <1>1, <2>2
    <3> QED
      BY <1>8, <2>2, <3>1
  <2> QED
    BY <2>1, <2>2 DEF Takes
<1>10. UniversalNumbersOpen'
  <2>1. \A k : Numbered(k)' <=> Numbered(k)
    BY <1>2 DEF Numbered
  <2> QED
    BY <1>2, <1>9, <2>1 DEF UniversalNumbersOpen, NumberTaken
<1>11. LinesAccountedFor' /\ MemoNumbersOpen'
  <2>1. parser' # "memo_protocol"
    BY <1>1, <1>2
  <2> QED
    BY <2>1 DEF LinesAccountedFor, MemoNumbersOpen
<1> QED
  BY <1>5, <1>6, <1>7, <1>10, <1>11 DEF PlacingInv, NumbersOpenTasks

\* An element read by the universal scanner: a numbered one is no attendee and no section.
LEMMA ElementRead ==
    ASSUME PlacingInv, AtElement
    PROVE  /\ pc = "universal" /\ i \in DOMAIN doc
           /\ Numbered(i) => ~Skipped(i) /\ ~Section(i)
           /\ First(doc[i]) \in Words
<1>1. pc = "universal" /\ i \in DOMAIN doc
  BY DEF AtElement
<1>2. doc \in Seq(Elements)
  BY <1>1, UniversalState
<1>3. Numbered(i) => ~Skipped(i) /\ ~Section(i)
  <2>1. \A x \in AttendeeElements(doc) : First(doc[x]).kind # "numbered"
    BY <1>2, NumberedAreNoAttendees
  <2> QED
    BY <2>1 DEF Numbered, Skipped, Section
<1>4. doc[i] \in Elements
  BY <1>1, <1>2
<1>5. Filled(doc[i]) \in Seq(Words) /\ Filled(doc[i]) # <<>>
  BY <1>4, FilledCells
<1>6. Filled(doc[i])[1] \in Words
  <2> DEFINE s == Filled(doc[i])
  <2>1. s \in Seq(Words) /\ s # <<>>
    BY <1>5
  <2> HIDE DEF s
  <2>2. s[1] \in Words
    BY <2>1
  <2> QED
    BY <2>2 DEF s
<1> QED
  BY <1>1, <1>3, <1>6 DEF First

\* Attendees and section headings have no number, and no more has what is dropped.
LEMMA SkipKeeps ==
    ASSUME PlacingInv, Skip \/ SectionHeading \/ Drop
    PROVE  PlacingInv'
<1>1. AtElement /\ (Skipped(i) \/ Section(i) \/ ~IsTask(i))
  BY DEF Skip, SectionHeading, Drop
<1>2. pc = "universal" /\ i \in DOMAIN doc /\ ~Numbered(i)
  BY <1>1, ElementRead DEF IsTask
<1>3. /\ UNCHANGED <<doc, parser, lines, current, mode, expected, rejected, titles, tasks, pc>>
      /\ (block' = block \/ block' = i) /\ i' = i + 1
      /\ dropped' = dropped \/ dropped' = dropped \cup {i}
  BY DEF Skip, SectionHeading, Drop, Kept, Passed
<1>4. ParsingTypeOK /\ i \in Nat /\ Lined(tasks, Absent)
  BY <1>2, UniversalState
<1>5. NumberTaken(tasks', dropped', i)
  BY <1>2 DEF NumberTaken
<1>6. Takes
  BY <1>2, <1>3, <1>4, <1>5 DEF Takes, ParsingTypeOK
<1> QED
  BY <1>2, <1>6, TakesKeeps

\* An element becomes an instruction of its own, a numbered one with its number.
LEMMA TakeTaskKeeps ==
    ASSUME PlacingInv, TakeTask
    PROVE  PlacingInv'
<1>1. AtElement
  BY DEF TakeTask
<1>2. pc = "universal" /\ i \in DOMAIN doc /\ First(doc[i]) \in Words
  BY <1>1, ElementRead
<1>3. /\ ParsingTypeOK /\ i \in Nat /\ Lined(tasks, Absent)
      /\ \A k \in dropped : k \in Nat /\ k < i
  BY <1>2, UniversalState
<1> DEFINE number == IF Numbered(i) THEN First(doc[i]).value ELSE Len(tasks) + 1
           date == IF DateIn(i) = "valid" THEN i ELSE Absent
           t == [number |-> number, raw |-> <<i>>, block |-> block, date |-> date]
<1>4. number \in Nat
  <2>1. tasks \in Seq(Reported)
    BY <1>3 DEF Lined
  <2> QED
    BY <1>2, <2>1 DEF Numbered, Words
<1>5. date \in Nat \cup {Absent} /\ block \in Nat \cup {Absent}
  BY <1>3 DEF ParsingTypeOK
<1>6. tasks' = Append(tasks, t)
  BY DEF TakeTask
<1>7. Numbered(i) => number = First(doc[i]).value
  OBVIOUS
<1> HIDE DEF number, date
<1>8. t \in Reported /\ t.raw = <<i>> /\ t.raw # <<>> /\ t.number = number
  BY <1>3, <1>4, <1>5 DEF Reported
<1> HIDE DEF t
<1>9. /\ tasks' \in Seq(Reported) /\ DOMAIN tasks = 1..Len(tasks) /\ Len(tasks) \in Nat
      /\ DOMAIN tasks' = 1..(Len(tasks) + 1)
      /\ tasks'[Len(tasks) + 1] = t /\ \A n \in DOMAIN tasks : tasks'[n] = tasks[n]
  <2>1. tasks \in Seq(Reported)
    BY <1>3 DEF Lined
  <2> QED
    BY <1>6, <1>8, <2>1
<1>10. Lined(tasks', Absent)
  <2>1. \A n \in DOMAIN tasks : tasks[n].raw # <<>>
    BY <1>3 DEF Lined
  <2>2. \A n \in DOMAIN tasks' : n \in DOMAIN tasks \/ n = Len(tasks) + 1
    BY <1>9
  <2>3. \A n \in DOMAIN tasks' : tasks'[n].raw # <<>>
    BY <1>8, <1>9, <2>1, <2>2
  <2> QED
    BY <1>9, <2>3 DEF Lined
<1>11. \A n \in DOMAIN tasks : n \in DOMAIN tasks' /\ tasks'[n] = tasks[n]
  BY <1>9
<1>12. /\ UNCHANGED <<doc, parser, lines, current, mode, expected, rejected, titles, pc, block,
                       dropped>>
       /\ i' = i + 1
  BY DEF TakeTask, Kept, Passed
<1>13. NumberTaken(tasks', dropped', i)
  <2>1. i \notin dropped'
    BY <1>3, <1>12
  <2>2. Len(tasks) + 1 \in DOMAIN tasks' /\ tasks'[Len(tasks) + 1] = t
    BY <1>9
  <2> QED
    BY <1>7, <1>8, <2>1, <2>2 DEF NumberTaken
<1>14. Takes
  BY <1>2, <1>5, <1>10, <1>11, <1>12, <1>13 DEF Takes
<1> QED
  BY <1>2, <1>14, TakesKeeps

\* The end of the document takes no element, and neither does a date that is none.
LEMMA UniversalEndKeeps ==
    ASSUME PlacingInv, BadDate \/ EndOfElements
    PROVE  PlacingInv'
<1>1. pc = "universal"
  BY DEF BadDate, EndOfElements, AtElement
<1>2. ParsingTypeOK /\ Lined(tasks, Absent)
  BY <1>1, UniversalState
<1>3. /\ UNCHANGED <<doc, parser, lines, current, mode, expected, rejected, titles, tasks, block, i,
                      dropped>>
      /\ pc' \in {"done", "failed"}
  BY DEF BadDate, EndOfElements, Kept
<1>4. block' \in Nat \cup {Absent}
  BY <1>2, <1>3 DEF ParsingTypeOK
<1>5. Takes
  BY <1>2, <1>3, <1>4 DEF Takes
<1> QED
  BY <1>1, <1>5, TakesKeeps

\* An empty result.
LEMMA NothingPlaced ==
    Placed(Pieces(<<>>, Absent), {}, {}, {})
<1>1. Pieces(<<>>, Absent) = [n \in 1..0 |-> IF n <= 0 THEN Piece(<<>>[n]) ELSE Piece(Absent)]
  BY DEF Pieces
<1>2. DOMAIN Pieces(<<>>, Absent) = {}
  BY <1>1
<1> DEFINE s == Pieces(<<>>, Absent)
<1>3. DOMAIN s = {}
  BY <1>2
<1> HIDE DEF s
<1>4. Ordered(s) /\ Used(s) = {}
  BY <1>3 DEF Ordered, Used
<1> QED
  BY <1>4 DEF Placed, s

\* The lines of a document.
LEMMA LinesTyped ==
    ASSUME ParsingTypeOK
    PROVE  /\ doc \in Seq(Elements)
           /\ Normalized(doc) \in DocLines(Len(doc))
           /\ Normalized(doc) \in Seq([element : Nat, line : Words])
<1>1. doc \in Seq(Elements)
  BY DocumentsAssumption DEF ParsingTypeOK
<1>2. Normalized(doc) \in DocLines(Len(doc))
  BY <1>1, NormalizedLines
<1>3. Len(doc) \in Nat
  BY <1>1
<1> DEFINE n == Len(doc)
           A == [element : 1..n, line : Words]
           B == [element : Nat, line : Words]
<1>4. A \subseteq B
  BY <1>3
<1>5. Normalized(doc) \in Seq(A)
  BY <1>2 DEF DocLines
<1> HIDE DEF A, B
<1>6. Normalized(doc) \in Seq(B)
  BY <1>4, <1>5
<1> QED
  BY <1>1, <1>2, <1>6 DEF B

\* Whatever parser is chosen, it starts in the invariant, before the first line.
LEMMA ChooseKeeps ==
    ASSUME PlacingInv, Choose
    PROVE  PlacingInv'
<1>1. ParsingTypeOK /\ StageInv
  BY DEF PlacingInv
<1>2. /\ parser = Absent /\ i = 1 /\ current = Absent /\ tasks = <<>>
      /\ rejected = {} /\ titles = {} /\ dropped = {}
  BY <1>1 DEF Choose, StageInv
<1>3. UNCHANGED <<doc, marks, current, mode, block, expected, tasks, rejected, titles, dropped,
                  errors>>
  BY DEF Choose
<1>4. parser' \in ParserTypes /\ parser' # Absent
  <2>1. PICK r \in Requested : parser' = IF r = Absent THEN Automatic ELSE r
    BY DEF Choose
  <2>2. r # Absent => r \in ParserTypes
    BY RequestedAssumption
  <2>3. Automatic \in ParserTypes
    <3>1. \A c \in Confident : c[2] \in ParserTypes
      BY DEF Confident, ParserTypes
    <3>2. CASE Confident = {}
      BY <3>2 DEF Automatic, ParserTypes
    <3>3. CASE Confident # {}
      <4>1. \E c \in Confident : \A d \in Confident : c[1] >= d[1]
        <5> DEFINE T == {<<95, "memo_protocol">>, <<90, "memo">>, <<88, "ceo_protocol">>,
                         <<86, "deputy_ceo_protocol">>}
        <5>2. Confident \subseteq T
          BY DEF Confident
        <5> HIDE DEF T
        <5>3. \A c \in T : c[1] \in {95, 90, 88, 86}
          BY DEF T
        <5> DEFINE N == {c[1] : c \in Confident}
        <5>4. N \subseteq {95, 90, 88, 86} /\ N # {}
          BY <3>3, <5>2, <5>3
        <5>5. \E x \in N : \A y \in N : x >= y
          <6> HIDE DEF N
          <6>1. CASE 95 \in N
            BY <5>4, <6>1
          <6>2. CASE 95 \notin N /\ 90 \in N
            BY <5>4, <6>2
          <6>3. CASE 95 \notin N /\ 90 \notin N /\ 88 \in N
            BY <5>4, <6>3
          <6>4. CASE 95 \notin N /\ 90 \notin N /\ 88 \notin N
            <7>1. \A y \in N : y = 86
              BY <5>4, <6>4
            <7>2. 86 \in N
              BY <5>4, <7>1
            <7>3. \A y \in N : 86 >= y
              BY <7>1
            <7> QED
              BY <7>2, <7>3
          <6> QED
            BY <6>1, <6>2, <6>3, <6>4
        <5> QED
          BY <5>5
      <4> QED
        BY <3>1, <3>3, <4>1 DEF Automatic
    <3> QED
      BY <3>2, <3>3
  <2> QED
    BY <2>1, <2>2, <2>3, AbsentAssumption
<1>5. Lined(tasks', current') /\ Placed(Parts', rejected', titles', {})
  <2>1. tasks' = <<>> /\ current' = Absent /\ rejected' = {} /\ titles' = {}
    BY <1>2, <1>3
  <2>2. Lined(<<>>, Absent)
    BY <1>1, <1>2 DEF Lined, ParsingTypeOK
  <2> QED
    BY <2>1, <2>2, NothingPlaced DEF Parts
<1>6. LineInv'
  BY <1>2, <1>3 DEF LineInv
<1>7. CASE parser' = "memo_protocol"
  <2> DEFINE ls == Normalized(doc)
             h == Start(ls)
  <2>1. ls \in Seq([element : Nat, line : Words])
    BY <1>1, LinesTyped
  <2>2. lines' = ls /\ pc' = "memo" /\ i' = IF Headings(ls) = {} THEN 0 ELSE h + 1
    BY <1>7 DEF Choose
  <2> HIDE DEF ls
  <2>3. i' \in Nat /\ (i' > 0 => /\ Headings(ls) # {} /\ i' = h + 1 /\ h \in Nat
                                 /\ i' \in (h + 1)..(Len(ls) + 1))
    <3>1. CASE Headings(ls) = {}
      BY <2>2, <3>1
    <3>2. CASE Headings(ls) # {}
      <4>1. h \in Nat /\ h \in DOMAIN ls
        BY <2>1, <3>2, StartIsHeading
      <4>2. DOMAIN ls = 1..Len(ls) /\ Len(ls) \in Nat
        BY <2>1
      <4> HIDE DEF h
      <4> QED
        BY <2>2, <3>2, <4>1, <4>2
    <3> QED
      BY <3>1, <3>2
  <2>4. ParsingTypeOK'
    BY <1>1, <1>3, <1>4, <2>1, <2>2, <2>3 DEF ParsingTypeOK
  <2>5. Headings(lines') = Headings(ls) /\ Start(lines') = h /\ Len(lines') = Len(ls)
    BY <2>2
  <2>6. StageInv'
    <3>1. lines' = Normalized(doc')
      BY <1>3, <2>2 DEF ls
    <3> HIDE DEF h
    <3>2. i' > 0 => Headings(lines') # {} /\ i' \in (Start(lines') + 1)..(Len(lines') + 1)
      BY <2>3, <2>5
    <3> QED
      BY <1>4, <1>7, <2>2, <3>1, <3>2 DEF StageInv
  <2>7. i' > 0 => Passages' = {}
    <3>1. Passages' = (h + 1)..(i' - 1) \cup (rejected' \cap {i'})
      BY <2>5 DEF Passages
    <3> HIDE DEF h
    <3> QED
      BY <1>2, <1>3, <2>3, <3>1
  <2>8. LinesAccountedFor' /\ NumbersOpenTasks'
    <3>1. i' > 0 => Placed(Parts', rejected', titles', Passages')
      BY <1>5, <2>7
    <3>2. LinesAccountedFor' /\ MemoNumbersOpen'
      BY <1>5, <2>7, <3>1, PlacedIsPlacedNext
    <3>3. UniversalNumbersOpen'
      BY <1>7 DEF UniversalNumbersOpen
    <3> QED
      BY <3>2, <3>3 DEF NumbersOpenTasks
  <2> QED
    BY <1>6, <2>4, <2>6, <2>8 DEF PlacingInv
<1>8. CASE parser' # "memo_protocol"
  <2>1. lines' = lines /\ i' = 1 /\ pc' = "universal"
    BY <1>2, <1>8 DEF Choose
  <2>2. ParsingTypeOK'
    BY <1>1, <1>3, <1>4, <2>1 DEF ParsingTypeOK
  <2>3. StageInv'
    <3>1. Len(doc') \in Nat
      BY <1>1, <1>3, LinesTyped
    <3>2. i' \in 1..(Len(doc') + 1)
      BY <2>1, <3>1
    <3> QED
      BY <1>2, <1>3, <1>4, <1>8, <2>1, <3>2 DEF StageInv
  <2>4. LinesAccountedFor' /\ MemoNumbersOpen'
    BY <1>8 DEF LinesAccountedFor, MemoNumbersOpen
  <2>5. UniversalNumbersOpen'
    <3>1. 1..(i' - 1) = {}
      BY <2>1
    <3> QED
      BY <3>1 DEF UniversalNumbersOpen
  <2> QED
    BY <1>6, <2>2, <2>3, <2>4, <2>5 DEF PlacingInv, NumbersOpenTasks
<1> QED
  BY <1>7, <1>8

\* A request starts in the invariant.
LEMMA ParsingStarts ==
    ASSUME ParsingInit
    PROVE  ParsingInv
<1>1. ParsingTypeOK
  <2>1. lines \in Seq([element : Nat, line : Words])
    BY DEF ParsingInit
  <2>2. tasks \in Seq(Reported)
    BY DEF ParsingInit
  <2> QED
    BY <2>1, <2>2 DEF ParsingInit, ParsingTypeOK
<1>2. StageInv
  BY AbsentAssumption DEF ParsingInit, StageInv, ParserTypes
<1>3. LineInv
  BY DEF ParsingInit, LineInv
<1>4. parser = Absent /\ parser # "memo_protocol"
  BY AbsentAssumption DEF ParsingInit, ParserTypes
<1>5. EveryLineIsPlaced /\ NumbersOpenTasks
  BY <1>4 DEF EveryLineIsPlaced, LinesAccountedFor, ServiceRejected, ReadToTheEnd,
              NumbersOpenTasks, MemoNumbersOpen, UniversalNumbersOpen
<1> QED
  BY <1>1, <1>2, <1>3, <1>5 DEF ParsingInv

\* Every step of the recognition keeps that part of the invariant.
LEMMA PlacingSteps ==
    ASSUME PlacingInv, [ParsingNext]_parsingVars
    PROVE  PlacingInv'
<1>1. CASE UNCHANGED parsingVars
  <2>1. UNCHANGED <<doc, parser, pc, lines, i, current, mode, block, expected, tasks, rejected, titles,
                    dropped>>
    BY <1>1 DEF parsingVars, scan
  <2>2. ParsingTypeOK' /\ LineInv'
    BY <2>1 DEF PlacingInv, ParsingTypeOK, LineInv
  <2>3. StageInv'
    BY <2>1 DEF PlacingInv, StageInv
  <2>4. Result' = Result /\ Passages' = Passages
    <3>1. Result' = Result
      BY <2>1 DEF Result, Open
    <3>2. Passages' = Passages
      BY <2>1 DEF Passages
    <3> QED
      BY <3>1, <3>2
  <2>5. LinesAccountedFor'
    BY <2>1, <2>4 DEF PlacingInv, LinesAccountedFor
  <2>6. MemoNumbersOpen'
    BY <2>1, <2>4 DEF PlacingInv, NumbersOpenTasks, MemoNumbersOpen, Line
  <2>7. UniversalNumbersOpen'
    BY <2>1 DEF PlacingInv, NumbersOpenTasks, UniversalNumbersOpen, Numbered
  <2> QED
    BY <2>2, <2>3, <2>5, <2>6, <2>7 DEF PlacingInv, NumbersOpenTasks
<1>2. CASE Choose
  BY <1>2, ChooseKeeps
<1>3. CASE MemoStep
  BY <1>3, NoHeadingKeeps, StopLineKeeps, BlockLineKeeps, NumberedLineKeeps, LonelyLabelKeeps,
     TextOpensKeeps, AssigneeLabelKeeps, DeadlineLabelKeeps, ContinuationKeeps, EndOfLinesKeeps,
     ReportKeeps DEF MemoStep
<1>4. CASE UniversalStep
  BY <1>4, SkipKeeps, TakeTaskKeeps, UniversalEndKeeps DEF UniversalStep
<1> QED
  BY <1>1, <1>2, <1>3, <1>4 DEF ParsingNext

\* A branch that stays in the loop rejects nothing but the service line it reads.
LEMMA ServiceStays ==
    ASSUME ParsingInv, pc = "memo", pc' = "memo", i \in DOMAIN lines, Unmoved,
           \/ rejected' = rejected
           \/ rejected' = rejected \cup {i} /\ Line(i).kind \in {"block"} \cup Labels
    PROVE  ServiceRejected' /\ ReadToTheEnd'
<1>1. ParsingTypeOK /\ StageInv /\ ServiceRejected
  BY DEF ParsingInv, EveryLineIsPlaced
<1>2. parser = "memo_protocol" /\ i > 0
  BY <1>1 DEF StageInv, ParsingTypeOK
<1>3. lines' = lines
  BY DEF Unmoved
<1>4. ServiceRejected'
  BY <1>1, <1>2, <1>3 DEF ServiceRejected, Line
<1>5. ReadToTheEnd'
  BY DEF ReadToTheEnd
<1> QED
  BY <1>4, <1>5

\* Only service lines are ever rejected, and no scan ends before the last line without one
\* that ends the resolutions.
LEMMA ServiceSteps ==
    ASSUME ParsingInv, [ParsingNext]_parsingVars
    PROVE  ServiceRejected' /\ ReadToTheEnd'
<1>1. ParsingTypeOK /\ StageInv /\ LineInv /\ ServiceRejected /\ ReadToTheEnd
  BY DEF ParsingInv, EveryLineIsPlaced
<1>2. CASE UNCHANGED parsingVars
  <2>1. UNCHANGED <<parser, pc, lines, i, rejected>>
    BY <1>2 DEF parsingVars, scan
  <2> QED
    BY <1>1, <2>1 DEF ServiceRejected, ReadToTheEnd, Line
<1>3. CASE Choose
  <2>1. rejected' = {} /\ pc' \in {"memo", "universal"}
    BY <1>1, <1>3 DEF Choose, StageInv
  <2> QED
    BY <2>1 DEF ServiceRejected, ReadToTheEnd
<1>4. CASE NoHeading
  <2>1. i' = 0 /\ lines' \in Seq([element : Nat, line : Words])
    BY <1>1, <1>4 DEF NoHeading, ParsingTypeOK
  <2>2. i' \notin DOMAIN lines' /\ ~(i' > 0)
    BY <2>1
  <2> QED
    BY <2>2 DEF ServiceRejected, ReadToTheEnd
<1>5. CASE StopLine
  <2>1. /\ UNCHANGED <<lines, parser, i>> /\ Line(i).kind = "stop"
        /\ rejected' = rejected \cup {i}
    BY <1>5 DEF StopLine, Reads, Unmoved
  <2> QED
    BY <1>1, <2>1 DEF ServiceRejected, ReadToTheEnd, Line
<1>6. CASE EndOfLines
  <2>1. UNCHANGED <<lines, parser, i, rejected>> /\ i = Len(lines) + 1
    BY <1>6 DEF EndOfLines, Unmoved
  <2>2. i' \notin DOMAIN lines'
    BY <1>1, <2>1 DEF ParsingTypeOK
  <2> QED
    BY <1>1, <2>1, <2>2 DEF ServiceRejected, ReadToTheEnd, Line
<1>7. CASE Report
  <2>1. UNCHANGED <<lines, parser, i, rejected>> /\ pc = "report"
    BY <1>7 DEF Report, Unmoved, scan
  <2> QED
    BY <1>1, <2>1 DEF ServiceRejected, ReadToTheEnd, Line
<1>8. CASE BlockLine
  BY <1>8, ServiceStays DEF BlockLine, Reads
<1>9. CASE LonelyLabel
  BY <1>9, ServiceStays DEF LonelyLabel, Reads
<1>10. CASE NumberedLine
  BY <1>10, ServiceStays DEF NumberedLine, Reads
<1>11. CASE TextOpens
  BY <1>11, ServiceStays DEF TextOpens, Reads
<1>12. CASE AssigneeLabel
  BY <1>12, ServiceStays DEF AssigneeLabel, Reads, Continue
<1>13. CASE DeadlineLabel
  BY <1>13, ServiceStays DEF DeadlineLabel, Reads, Continue
<1>14. CASE Continuation
  <2>1. pc = "memo" /\ i \in DOMAIN lines /\ current # Absent
    BY <1>14 DEF Continuation, Reads
  <2>2. mode \in Modes
    BY <1>1, <2>1 DEF ParsingTypeOK, LineInv
  <2>3. Unmoved /\ pc' = pc /\ rejected' = rejected
    BY <1>14, <2>2 DEF Continuation, Continue, Modes
  <2> QED
    BY <2>1, <2>3, ServiceStays
<1>15. CASE UniversalStep
  <2>1. pc = "universal" /\ parser' = parser
    BY <1>15 DEF UniversalStep, Skip, SectionHeading, TakeTask, BadDate, Drop, EndOfElements,
                 AtElement, Kept
  <2>2. parser' # "memo_protocol"
    BY <1>1, <2>1 DEF StageInv
  <2> QED
    BY <2>2 DEF ServiceRejected, ReadToTheEnd
<1> QED
  BY <1>2, <1>3, <1>4, <1>5, <1>6, <1>7, <1>8, <1>9, <1>10, <1>11, <1>12, <1>13, <1>14, <1>15
     DEF ParsingNext, MemoStep

\* The invariant is that part and the two about the rejected lines and the end.
LEMMA InvIsPlacing ==
    ParsingInv <=> PlacingInv /\ ServiceRejected /\ ReadToTheEnd
BY DEF ParsingInv, PlacingInv, EveryLineIsPlaced

\* Every step of the recognition keeps the invariant.
LEMMA ParsingSteps ==
    ASSUME ParsingInv, [ParsingNext]_parsingVars
    PROVE  ParsingInv'
<1>1. PlacingInv'
  BY InvIsPlacing, PlacingSteps
<1>2. ServiceRejected' /\ ReadToTheEnd'
  BY ServiceSteps
<1> QED
  BY <1>1, <1>2 DEF ParsingInv, PlacingInv, EveryLineIsPlaced

\* The invariant holds of every document, whatever its length and lines, for every set of
\* marks and every parser a request may ask for.
THEOREM ParsingInvariance == ParsingSpec => []ParsingInv
<1>1. ParsingInit => ParsingInv
  BY ParsingStarts
<1>2. ParsingInv /\ [ParsingNext]_parsingVars => ParsingInv'
  BY ParsingSteps
<1> QED
  BY <1>1, <1>2, PTL DEF ParsingSpec

\* No line of the resolutions of a МЕМО is lost or used twice: each is part of one instruction,
\* names a block, or is rejected, which no line with a number or with text is; the
\* instructions keep the order of the document, and the scan leaves no line behind
\* (MemoProtocolParser.parse of parsers/protocol.py).
THEOREM EveryLineOnce == ParsingSpec => []EveryLineIsPlaced
<1>1. ParsingInv => EveryLineIsPlaced
  BY DEF ParsingInv
<1> QED
  BY <1>1, ParsingInvariance, PTL

\* A numbered line of a МЕМО opens an instruction with its number, unless an empty deadline
\* label stands before it and a date in it (parsers/protocol.py:598); the universal scanner
\* makes one of every numbered element, and neither drops it nor takes it for a heading or
\* an attendee (353-377).
THEOREM NumbersOpen == ParsingSpec => []NumbersOpenTasks
<1>1. ParsingInv => NumbersOpenTasks
  BY DEF ParsingInv
<1> QED
  BY <1>1, ParsingInvariance, PTL

\* Attendees are found before the heading, and instructions hold lines after it only.
LEMMA AttendeesOutside ==
    ASSUME ParsingInv
    PROVE  AttendeesStayOutOfBody
<1> DEFINE h == Start(lines)
           head == lines[h].element
<1>1. SUFFICES ASSUME parser = "memo_protocol", pc = "done", i > 0,
                      First(doc[head]).kind = "heading",
                      \A k \in DOMAIN doc : First(doc[k]).kind = "attendees" => k < head,
                      NEW k \in LinesOf(Result), lines[k].element \in AttendeeElements(doc)
               PROVE  FALSE
  BY DEF AttendeesStayOutOfBody
<1>2. ParsingTypeOK /\ StageInv /\ LineInv /\ LinesAccountedFor
  BY DEF ParsingInv, EveryLineIsPlaced
<1>3. /\ lines = Normalized(doc) /\ Headings(lines) # {}
      /\ i \in (h + 1)..(Len(lines) + 1)
  BY <1>1, <1>2 DEF StageInv
<1>4. doc \in Seq(Elements) /\ lines \in DocLines(Len(doc)) /\ lines \in Seq([element : Nat, line : Words])
  BY <1>2, <1>3, LinesTyped
<1>5. h \in Nat /\ h \in DOMAIN lines
  BY <1>3, <1>4, StartIsHeading
<1>6. DOMAIN lines = 1..Len(lines) /\ Len(lines) \in Nat /\ i \in Nat
  BY <1>2, <1>4 DEF ParsingTypeOK
<1>7. k \in Passages /\ k \notin rejected
  <2>1. LinesOf(Result) \cap (rejected \cup titles) = {}
        /\ LinesOf(Result) \cup rejected \cup titles = Passages
    BY <1>1, <1>2 DEF LinesAccountedFor
  <2> QED
    BY <1>1, <2>1
<1>8. k \in (h + 1)..(i - 1)
  BY <1>1, <1>7 DEF Passages
<1> HIDE DEF h
<1>9. k \in DOMAIN lines /\ h <= k
  BY <1>3, <1>5, <1>6, <1>8
<1>10. lines[h].element <= lines[k].element /\ lines[h].element \in 1..Len(doc)
       /\ lines[k].element \in 1..Len(doc)
  <2> DEFINE L == [element : 1..Len(doc), line : Words]
  <2>1. lines \in Seq(L) /\ \A x, y \in DOMAIN lines : x <= y => lines[x].element <= lines[y].element
    BY <1>4 DEF DocLines
  <2>2. \A x \in L : x.element \in 1..Len(doc)
    OBVIOUS
  <2> HIDE DEF L
  <2>3. lines[h] \in L /\ lines[k] \in L
    BY <1>5, <1>9, <2>1
  <2> QED
    BY <1>5, <1>9, <2>1, <2>2, <2>3
<1>11. lines[k].element < lines[h].element
  <2>1. \A x \in AttendeeElements(doc) : x < lines[h].element
    BY <1>1, <1>4, <1>10, AttendeesComeFirst
  <2> QED
    BY <1>1, <2>1
<1>12. Len(doc) \in Nat
  BY <1>4
<1> QED
  BY <1>10, <1>11, <1>12

\* No line of the resolutions makes an attendee, provided the list began before "РЕШИЛИ" and
\* that heading is neither spaced out nor in quotes (extract_attendees of parsers/protocol.py).
THEOREM AttendeesOutsideBody == ParsingSpec => []AttendeesStayOutOfBody
<1>1. ParsingInv => AttendeesStayOutOfBody
  BY AttendeesOutside
<1> QED
  BY <1>1, ParsingInvariance, PTL

\* A branch of the memo scanner that stays in its loop passes a line or two.
LEMMA MemoMoves ==
    ASSUME ParsingInv, ParsingInv', MemoStep
    PROVE  \/ Stage' > Stage
           \/ Stage' = Stage /\ i' > i /\ i' <= Len(lines) + 1 /\ parser = "memo_protocol"
<1>1. CASE NoHeading
  <2>1. pc = "memo" /\ pc' = "done"
    BY <1>1 DEF NoHeading
  <2> QED
    BY <2>1 DEF Stage
<1>2. CASE StopLine
  BY <1>2 DEF StopLine, Reads, Stage
<1>3. CASE EndOfLines
  BY <1>3 DEF EndOfLines, Stage
<1>4. CASE Report
  <2>1. pc = "report" /\ pc' = "done"
    BY <1>4 DEF Report
  <2> QED
    BY <2>1 DEF Stage
<1>5. ASSUME pc = "memo", pc' = pc, i \in DOMAIN lines, i' = i + 1 \/ i' = i + 2, Unmoved
      PROVE  Stage' = Stage /\ i' > i /\ i' <= Len(lines) + 1 /\ parser = "memo_protocol"
  <2>1. /\ ParsingTypeOK /\ StageInv' /\ parser = "memo_protocol" /\ Len(lines) \in Nat
        /\ lines' = lines /\ parser' = parser
    <3>1. ParsingTypeOK /\ StageInv /\ StageInv'
      BY DEF ParsingInv
    <3>2. lines \in Seq([element : Nat, line : Words])
      BY <3>1 DEF ParsingTypeOK
    <3> QED
      BY <1>5, <3>1, <3>2 DEF StageInv, Unmoved
  <2>2. i \in Nat /\ i' \in Nat /\ i' > i /\ i' > 0
    BY <1>5, <2>1 DEF ParsingTypeOK
  <2>3. Headings(lines) # {}
    BY <2>1, <2>2 DEF StageInv
  <2>4. Start(lines) \in Nat
    BY <2>1, <2>3, StartIsHeading DEF ParsingTypeOK
  <2>5. i' \in (Start(lines) + 1)..(Len(lines) + 1)
    BY <2>1, <2>2 DEF StageInv
  <2>6. Stage' = Stage
    BY <1>5 DEF Stage
  <2> QED
    BY <2>1, <2>2, <2>4, <2>5, <2>6
<1>6. CASE BlockLine
  BY <1>5, <1>6 DEF BlockLine, Reads, Passed
<1>7. CASE NumberedLine
  BY <1>5, <1>7 DEF NumberedLine, Reads, Passed
<1>8. CASE LonelyLabel
  BY <1>5, <1>8 DEF LonelyLabel, Reads, Passed
<1>9. CASE TextOpens
  BY <1>5, <1>9 DEF TextOpens, Reads, Passed
<1>10. CASE AssigneeLabel
  BY <1>5, <1>10 DEF AssigneeLabel, Reads, Passed, Continue
<1>11. CASE DeadlineLabel
  BY <1>5, <1>11 DEF DeadlineLabel, Reads, Passed, Continue
<1>12. CASE Continuation
  <2>1. /\ pc = "memo" /\ i \in DOMAIN lines /\ current # Absent /\ i' = i + 1
    BY <1>12 DEF Continuation, Reads, Passed
  <2>2. mode \in Modes
    BY <2>1 DEF ParsingInv, ParsingTypeOK, LineInv
  <2>3. Unmoved /\ pc' = pc
    BY <1>12, <2>2 DEF Continuation, Continue, Modes
  <2> QED
    BY <1>5, <2>1, <2>3
<1> QED
  BY <1>1, <1>2, <1>3, <1>4, <1>6, <1>7, <1>8, <1>9, <1>10, <1>11, <1>12 DEF MemoStep

\* So does the universal scanner with an element.
LEMMA UniversalMoves ==
    ASSUME ParsingInv, ParsingInv', UniversalStep
    PROVE  \/ Stage' > Stage
           \/ Stage' = Stage /\ i' > i /\ i' <= Len(doc) + 1 /\ parser # "memo_protocol"
<1>1. CASE BadDate \/ EndOfElements
  BY <1>1 DEF BadDate, EndOfElements, AtElement, Stage
<1>2. CASE Skip \/ SectionHeading \/ TakeTask \/ Drop
  <2>1. pc = "universal" /\ pc' = pc /\ i' = i + 1 /\ i \in DOMAIN doc
    BY <1>2 DEF Skip, SectionHeading, TakeTask, Drop, AtElement, Passed
  <2>2. /\ i \in Nat /\ Len(doc) \in Nat /\ DOMAIN doc = 1..Len(doc) /\ parser # "memo_protocol"
    BY <2>1, InvIsPlacing, UniversalState
  <2>3. Stage' = Stage
    BY <2>1 DEF Stage
  <2> QED
    BY <2>1, <2>2, <2>3
<1> QED
  BY <1>1, <1>2 DEF UniversalStep

\* Every step of the recognition of any document leaves a stage or passes a line, and never
\* goes beyond its end: no document keeps the scanners busy for ever (protocol.py:567).
THEOREM StepsMoveOn == ParsingSpec => EveryStepMovesOn
<1> DEFINE Moves == \/ Stage' > Stage
                    \/ /\ Stage' = Stage
                       /\ i' > i
                       /\ i' <= Len(IF parser = "memo_protocol" THEN lines ELSE doc) + 1
<1>1. ParsingInv /\ ParsingInv' /\ ParsingNext => Moves
  <2> SUFFICES ASSUME ParsingInv, ParsingInv', ParsingNext PROVE Moves
    OBVIOUS
  <2>1. CASE Choose
    BY <2>1 DEF Choose, Stage
  <2>2. CASE MemoStep
    BY <2>2, MemoMoves
  <2>3. CASE UniversalStep
    BY <2>3, UniversalMoves
  <2> QED
    BY <2>1, <2>2, <2>3 DEF ParsingNext
<1>2. ParsingInv /\ ParsingInv' /\ [ParsingNext]_parsingVars => [Moves]_parsingVars
  BY <1>1
<1> QED
  BY <1>2, ParsingInvariance, PTL DEF ParsingSpec, EveryStepMovesOn
=============================================================================
