------------------------ MODULE DocumentVersion_proofs ------------------------
(***************************************************************************)
(* For any number of pages, edits and workers: what protect_mutation       *)
(* checked holds until the handler commits, and until a worker writes a    *)
(* number that follows an old one, nothing is silently overwritten.        *)
(***************************************************************************)
EXTENDS DocumentVersion, TLAPS

-----------------------------------------------------------------------------
(***************************************************************************)
(* Types, the claim, and what pages and requests know, with workers.       *)
(***************************************************************************)

\* Every step keeps the type of every variable.
LEMMA TypeStep == BaseInv /\ [Next]_vars => TypeOK'
<1> SUFFICES ASSUME BaseInv, [Next]_vars PROVE TypeOK'
  OBVIOUS
<1> USE BoundsAssumption DEF server, client, BaseInv
<1>1. ASSUME NEW p \in Pages, OpenRow(p) PROVE TypeOK'
  BY <1>1 DEF TypeOK, OpenRow, Phases
<1>2. ASSUME NEW p \in Pages, OpenText(p) PROVE TypeOK'
  BY <1>2 DEF TypeOK, OpenText, Phases
<1>3. ASSUME NEW p \in Pages, Edit(p) PROVE TypeOK'
  <2>1. edits + 1 \in Edits /\ edits' \in 0..MaxEdits
    BY <1>3 DEF Edit, TypeOK, Edits
  <2>2. net' \subseteq Requests
    BY <1>3, <2>1 DEF Edit, TypeOK, Requests
  <2> QED
    BY <1>3, <2>1, <2>2 DEF TypeOK, Edit
<1>4. ASSUME NEW p \in Pages, Receive(p) PROVE TypeOK'
  <2>1. acked' \subseteq Edits /\ phase' \in [Pages -> Phases]
    BY <1>4 DEF TypeOK, Receive, Phases, WaitInv
  <2>2. meta' \in [Pages -> Nat]
    BY <1>4 DEF TypeOK, Receive, Replies
  <2> QED
    BY <1>4, <2>1, <2>2 DEF TypeOK, Receive
<1>5. ASSUME NEW p \in Pages, GiveUp(p) PROVE TypeOK'
  BY <1>5 DEF TypeOK, GiveUp
<1>6. ASSUME NEW m \in net, Refuse(m) PROVE TypeOK'
  BY <1>6 DEF TypeOK, Refuse, Respond, Replies, Requests
<1>7. ASSUME NEW m \in net, Accept(m) PROVE TypeOK'
  BY <1>7 DEF TypeOK, Accept, Requests
<1>8. ASSUME Commit PROVE TypeOK'
  BY <1>8 DEF TypeOK, Commit, Respond, Replies, Requests
<1>9. ASSUME Fail PROVE TypeOK'
  BY <1>9 DEF TypeOK, Fail, Respond, Replies, Requests
<1>10. ASSUME Release PROVE TypeOK'
  BY <1>10 DEF TypeOK, Release
<1>11. ASSUME NEW w \in Workers, WorkerLoad(w) PROVE TypeOK'
  BY <1>11 DEF TypeOK, WorkerLoad
<1>12. ASSUME NEW w \in Workers, WorkerLock(w) PROVE TypeOK'
  BY <1>12 DEF TypeOK, WorkerLock
<1>13. ASSUME NEW w \in Workers, WorkerCommit(w) PROVE TypeOK'
  BY <1>13 DEF TypeOK, WorkerCommit, WaitInv
<1>14. ASSUME NEW w \in Workers, WorkerFail(w) PROVE TypeOK'
  BY <1>14 DEF TypeOK, WorkerFail
<1>15. CASE UNCHANGED vars
  BY <1>15 DEF TypeOK, vars
<1> QED
  BY <1>1, <1>2, <1>3, <1>4, <1>5, <1>6, <1>7, <1>8, <1>9, <1>10, <1>11, <1>12,
     <1>13, <1>14, <1>15 DEF Next, PageStep, RequestStep, WorkerStep

\* No step of another page, or of a worker, falls between a claim and its commit.
LEMMA ClaimStep == BaseInv /\ [Next]_vars => ClaimHolds'
<1> SUFFICES ASSUME BaseInv, [Next]_vars PROVE ClaimHolds'
  OBVIOUS
<1> USE PagesAssumption DEF server, BaseInv, ClaimHolds
<1>1. ASSUME NEW p \in Pages, OpenRow(p) \/ OpenText(p) \/ Edit(p) \/ Receive(p) \/ GiveUp(p)
      PROVE  ClaimHolds'
  BY <1>1 DEF OpenRow, OpenText, Edit, Receive, GiveUp
<1>2. ASSUME NEW m \in net, Refuse(m) \/ Accept(m) PROVE ClaimHolds'
  BY <1>2 DEF Refuse, Accept
<1>3. ASSUME Commit \/ Fail \/ Release PROVE ClaimHolds'
  BY <1>3 DEF Commit, Fail, Release
<1>4. ASSUME NEW w \in Workers, WorkerLoad(w) \/ WorkerLock(w) PROVE ClaimHolds'
  BY <1>4 DEF WorkerLoad, WorkerLock, TypeOK, Requests
<1>5. ASSUME NEW w \in Workers, WorkerCommit(w) \/ WorkerFail(w) PROVE ClaimHolds'
  BY <1>5 DEF WorkerCommit, WorkerFail, TypeOK, Requests
<1>6. CASE UNCHANGED vars
  BY <1>6 DEF vars
<1> QED
  BY <1>1, <1>2, <1>3, <1>4, <1>5, <1>6 DEF Next, PageStep, RequestStep, WorkerStep

\* Answers only travel to pages that await them.
LEMMA WaitStep == BaseInv /\ [Next]_vars => WaitInv'
<1> SUFFICES ASSUME BaseInv, [Next]_vars PROVE WaitInv'
  OBVIOUS
<1> USE PagesAssumption DEF server, client, BaseInv, WaitInv
<1>1. ASSUME NEW p \in Pages, OpenRow(p) \/ OpenText(p) PROVE WaitInv'
  BY <1>1 DEF OpenRow, OpenText, TypeOK
<1>2. ASSUME NEW p \in Pages, Edit(p) PROVE WaitInv'
  BY <1>2 DEF Edit, TypeOK
<1>3. ASSUME NEW p \in Pages, Receive(p) \/ GiveUp(p) PROVE WaitInv'
  BY <1>3 DEF Receive, GiveUp, TypeOK
<1>4. ASSUME NEW m \in net, Refuse(m) \/ Accept(m) PROVE WaitInv'
  BY <1>4 DEF Refuse, Accept, Respond, TypeOK, Requests, Edits
<1>5. ASSUME Commit \/ Fail \/ Release PROVE WaitInv'
  BY <1>5 DEF Commit, Fail, Release, Respond, TypeOK, Requests, Edits
<1>6. ASSUME NEW w \in Workers, WorkerLoad(w) \/ WorkerLock(w) PROVE WaitInv'
  BY <1>6 DEF WorkerLoad, WorkerLock, TypeOK
<1>7. ASSUME NEW w \in Workers, WorkerCommit(w) \/ WorkerFail(w) PROVE WaitInv'
  BY <1>7 DEF WorkerCommit, WorkerFail, TypeOK
<1>8. CASE UNCHANGED vars
  BY <1>8 DEF vars
<1> QED
  BY <1>1, <1>2, <1>3, <1>4, <1>5, <1>6, <1>7, <1>8
     DEF Next, PageStep, RequestStep, WorkerStep

\* What travels was shown, and is still shown, by the page that sent it.
LEMMA SentStep == BaseInv /\ [Next]_vars => SentInv'
<1> SUFFICES ASSUME BaseInv, [Next]_vars PROVE SentInv'
  OBVIOUS
<1> USE DEF server, client, BaseInv, SentInv, Sent
<1>1. ASSUME NEW p \in Pages, OpenRow(p) \/ OpenText(p) PROVE SentInv'
  BY <1>1 DEF OpenRow, OpenText, TypeOK, Requests
<1>2. ASSUME NEW p \in Pages, Edit(p) PROVE SentInv'
  BY <1>2 DEF Edit, TypeOK, Requests
<1>3. ASSUME NEW p \in Pages, Receive(p) \/ GiveUp(p) PROVE SentInv'
  BY <1>3 DEF Receive, GiveUp, TypeOK, Requests
<1>4. ASSUME NEW m \in net, Refuse(m) \/ Accept(m) PROVE SentInv'
  BY <1>4 DEF Refuse, Accept
<1>5. ASSUME Commit \/ Fail \/ Release PROVE SentInv'
  BY <1>5 DEF Commit, Fail, Release
<1>6. ASSUME NEW w \in Workers,
             WorkerLoad(w) \/ WorkerLock(w) \/ WorkerCommit(w) \/ WorkerFail(w)
      PROVE  SentInv'
  BY <1>6 DEF WorkerLoad, WorkerLock, WorkerCommit, WorkerFail
<1>7. CASE UNCHANGED vars
  BY <1>7 DEF vars
<1> QED
  BY <1>1, <1>2, <1>3, <1>4, <1>5, <1>6, <1>7
     DEF Next, PageStep, RequestStep, WorkerStep

\* The initial document has version 1, no text and no request.
LEMMA InitBase == Init => BaseInv
<1>1. Init => stale \in BOOLEAN
  BY DEF Init
<1> QED
  BY <1>1, PagesAssumption, BoundsAssumption
     DEF Init, BaseInv, TypeOK, ClaimHolds, WaitInv, SentInv, Sent, Phases

\* The invariant that always holds.
THEOREM BaseInvariance == Spec => []BaseInv
<1>1. Init => BaseInv
  BY InitBase
<1>2. BaseInv /\ [Next]_vars => BaseInv'
  BY TypeStep, ClaimStep, WaitStep, SentStep DEF BaseInv
<1> QED
  BY <1>1, <1>2, PTL DEF Spec

\* Every variable keeps its type.
THEOREM TypeCorrectness == Spec => []TypeOK
<1>1. BaseInv => TypeOK
  BY DEF BaseInv
<1> QED
  BY <1>1, BaseInvariance, PTL

\* What protect_mutation checked still holds when the handler commits, whatever the
\* pages and the workers do meanwhile.
THEOREM ClaimsHold == Spec => []ClaimHolds
<1>1. BaseInv => ClaimHolds
  BY DEF BaseInv
<1> QED
  BY <1>1, BaseInvariance, PTL
-----------------------------------------------------------------------------
(***************************************************************************)
(* Until a worker sets it back, a version number determines the document.  *)
(***************************************************************************)

\* The history variable is never reset.
LEMMA StaleStays == [Next]_vars /\ stale => stale'
BY DEF Next, PageStep, RequestStep, WorkerStep, OpenRow, OpenText, Edit, Receive, GiveUp,
       Refuse, Accept, Commit, Fail, Release, WorkerLoad, WorkerLock, WorkerCommit,
       WorkerFail, vars

\* A commit adds to the document; a worker with a fresh row raises its number; nothing
\* else changes either.
LEMMA GrowStep ==
    ASSUME ~stale', IInv, [Next]_vars
    PROVE  /\ content \subseteq content'
           /\ \/ version' = version /\ content' = content
              \/ Commit /\ version' = version + 1
              \/ (\E w \in Workers : WorkerCommit(w)) /\ version' = version + 1
                 /\ content' = content
<1> USE DEF server, client
<1>1. ASSUME NEW p \in Pages, OpenRow(p) \/ OpenText(p) \/ Edit(p) \/ Receive(p) \/ GiveUp(p)
      PROVE  version' = version /\ content' = content
  BY <1>1 DEF OpenRow, OpenText, Edit, Receive, GiveUp
<1>2. ASSUME NEW m \in net, Refuse(m) \/ Accept(m)
      PROVE  version' = version /\ content' = content
  BY <1>2 DEF Refuse, Accept
<1>3. ASSUME Fail \/ Release PROVE version' = version /\ content' = content
  BY <1>3 DEF Fail, Release
<1>0. ~stale
  BY StaleStays
<1>4. ASSUME Commit PROVE content \subseteq content' /\ version' = version + 1
  BY <1>0, <1>4 DEF Commit, IInv, BaseInv, ClaimHolds, VersionInv, Covers, Sent
<1>5. CASE UNCHANGED vars
  BY <1>5 DEF vars
<1>6. ASSUME NEW w \in Workers, WorkerLoad(w) \/ WorkerLock(w) \/ WorkerFail(w)
      PROVE  version' = version /\ content' = content
  BY <1>6 DEF WorkerLoad, WorkerLock, WorkerFail
<1>7. ASSUME NEW w \in Workers, WorkerCommit(w)
      PROVE  version' = version + 1 /\ content' = content
  BY <1>7 DEF WorkerCommit
<1> QED
  BY <1>1, <1>2, <1>3, <1>4, <1>5, <1>6, <1>7 DEF Next, PageStep, RequestStep, WorkerStep

\* A version number, wherever it is kept, never claims more than the text beside it.
LEMMA VersionStep ==
    ASSUME ~stale', IInv, [Next]_vars PROVE VersionInv'
<1> USE DEF server, client
<1>g. \/ version' = version /\ content' = content
      \/ Commit /\ version' = version + 1
      \/ (\E w \in Workers : WorkerCommit(w)) /\ version' = version + 1
         /\ content' = content
  BY GrowStep
<1>t. TypeOK /\ ClaimHolds /\ WaitInv /\ SentInv /\ VersionInv
  BY StaleStays DEF IInv, BaseInv
<1>1. ASSUME NEW p \in Pages, OpenRow(p) PROVE VersionInv'
  BY <1>t, <1>1 DEF OpenRow, VersionInv, Covers, Sent, TypeOK
<1>2. ASSUME NEW p \in Pages, OpenText(p) PROVE VersionInv'
  BY <1>t, <1>2 DEF OpenText, VersionInv, Covers, Sent, TypeOK
<1>3. ASSUME NEW p \in Pages, Edit(p) PROVE VersionInv'
  <2>1. \A q \in Pages : view[q] \subseteq view'[q]
    BY <1>t, <1>3 DEF Edit, TypeOK
  <2>2. \A m \in Sent' : Covers(m.base, m.text)'
    BY <1>t, <1>3, <1>g DEF Edit, VersionInv, Covers, Sent, WaitInv
  <2>3. ASSUME NEW q \in Pages, phase[q] \in {"open", "conflicted"}
        PROVE  Covers(meta[q], view[q])'
    BY <1>t, <1>3, <2>1, <2>3 DEF Edit, VersionInv, Covers
  <2>4. ASSUME NEW q \in Pages, reply[q] # None, reply[q].status = "ok"
        PROVE  Covers(reply[q].version, view[q])' /\ waiting'[q] \in content'
    BY <1>t, <1>3, <2>1, <2>4 DEF Edit, VersionInv, Covers, WaitInv, TypeOK
  <2> QED
    BY <1>t, <1>3, <2>2, <2>3, <2>4 DEF Edit, VersionInv
<1>4. ASSUME NEW p \in Pages, Receive(p) PROVE VersionInv'
  BY <1>t, <1>4 DEF Receive, VersionInv, Covers, Sent, TypeOK, WaitInv
<1>5. ASSUME NEW p \in Pages, GiveUp(p) PROVE VersionInv'
  BY <1>t, <1>5 DEF GiveUp, VersionInv, Covers, Sent, TypeOK
<1>6. ASSUME NEW m \in net, Refuse(m) PROVE VersionInv'
  BY <1>t, <1>6 DEF Refuse, Respond, VersionInv, Covers, Sent, TypeOK, Requests
<1>7. ASSUME NEW m \in net, Accept(m) PROVE VersionInv'
  BY <1>t, <1>7 DEF Accept, VersionInv, Covers, Sent
<1>8. ASSUME Commit PROVE VersionInv'
  <2> DEFINE h == handling
  <2>1. /\ h \in Requests /\ h \in Sent /\ h.base = version
        /\ h.edit \in h.text /\ h.text \subseteq view[h.page]
        /\ version' = version + 1 /\ content' = h.text
    BY <1>t, <1>8 DEF Commit, TypeOK, ClaimHolds, SentInv, Sent
  <2>2. \A m \in Sent' : Covers(m.base, m.text)'
    BY <1>t, <1>8, <2>1 DEF Commit, VersionInv, Covers, Sent, TypeOK, Requests
  <2>3. ASSUME NEW q \in Pages
        PROVE  /\ phase[q] = "opening" => meta[q] <= version'
               /\ phase[q] \in {"open", "conflicted"} => Covers(meta[q], view[q])'
    BY <1>t, <1>8, <2>1 DEF Commit, VersionInv, Covers, TypeOK
  <2>4. ASSUME NEW q \in Pages, reply'[q] # None, reply'[q].status = "ok"
        PROVE  Covers(reply[q].version, view[q])' /\ waiting[q] \in content'
    <3>1. CASE reply'[q] = reply[q]
      <4>1. Covers(reply[q].version, view[q]) /\ waiting[q] \in content
        BY <1>t, <2>4, <3>1 DEF VersionInv
      <4>2. content \subseteq content'
        BY GrowStep
      <4>3. reply[q].version \in Nat /\ version \in Nat
        BY <1>t, <2>4, <3>1 DEF TypeOK, Replies
      <4>4. waiting[q] \in content' /\ view' = view
        BY <1>t, <1>8, <4>1, <4>2 DEF Commit
      <4>5. reply'[q].version <= version' /\ reply'[q].version # version'
        BY <1>t, <2>1, <3>1, <4>1, <4>3 DEF Covers
      <4> QED
        BY <4>4, <4>5 DEF Covers
    <3>2. CASE /\ q = h.page /\ waiting[q] = h.edit
               /\ reply'[q] = [status |-> "ok", version |-> h.base + 1]
      <4>1. reply'[q].version = version'
        BY <1>t, <2>1, <3>2
      <4>2. content' \subseteq view[q] /\ view' = view /\ waiting[q] \in content'
        BY <1>t, <1>8, <2>1, <3>2 DEF Commit
      <4>3. version' \in Nat
        BY <1>t, <2>1 DEF TypeOK
      <4> QED
        BY <4>1, <4>2, <4>3 DEF Covers
    <3> QED
      BY <1>t, <1>8, <2>1, <3>1, <3>2 DEF Commit, Respond, TypeOK
  <2>5. phase' = phase /\ meta' = meta /\ waiting' = waiting
    BY <1>t, <1>8 DEF Commit
  <2> HIDE DEF h
  <2> QED
    BY <1>t, <2>2, <2>3, <2>4, <2>5 DEF VersionInv
<1>9. ASSUME Fail PROVE VersionInv'
  BY <1>t, <1>9 DEF Fail, Respond, VersionInv, Covers, Sent, TypeOK, Requests
<1>10. ASSUME Release PROVE VersionInv'
  BY <1>t, <1>10 DEF Release, VersionInv, Covers, Sent
<1>12. ASSUME NEW w \in Workers, WorkerLoad(w) \/ WorkerLock(w) \/ WorkerFail(w)
       PROVE  VersionInv'
  BY <1>t, <1>12 DEF WorkerLoad, WorkerLock, WorkerFail, VersionInv, Covers, Sent
<1>13. ASSUME NEW w \in Workers, WorkerCommit(w) PROVE VersionInv'
  <2>1. version' = version + 1 /\ version \in Nat
    BY <1>t, <1>13 DEF WorkerCommit, TypeOK
  <2>2. \A m \in Sent : m.base \in Nat
    BY <1>t DEF Sent, TypeOK, Requests
  <2>3. \A p \in Pages : meta[p] \in Nat /\ (reply[p] # None => reply[p].version \in Nat)
    BY <1>t DEF TypeOK, Replies
  <2> QED
    BY <1>t, <1>13, <2>1, <2>2, <2>3 DEF WorkerCommit, VersionInv, Covers, Sent
<1>11. CASE UNCHANGED vars
  BY <1>t, <1>11 DEF vars, VersionInv, Covers, Sent
<1> QED
  BY <1>t, <1>1, <1>2, <1>3, <1>4, <1>5, <1>6, <1>7, <1>8, <1>9, <1>10, <1>11,
     <1>12, <1>13
     DEF Next, PageStep, RequestStep, WorkerStep

\* An edit is acknowledged once it is in the document, and stays in it.
LEMMA AckStep ==
    ASSUME ~stale', IInv, [Next]_vars PROVE AcknowledgedEditsKept'
<1> USE DEF server, client, AcknowledgedEditsKept
<1>g. content \subseteq content'
  BY GrowStep
<1>t. VersionInv /\ acked \subseteq content
  BY StaleStays DEF IInv
<1>1. ASSUME NEW p \in Pages, Receive(p) PROVE acked' \subseteq content'
  BY <1>1, <1>g, <1>t DEF Receive, VersionInv
<1>2. ASSUME NEW p \in Pages, OpenRow(p) \/ OpenText(p) \/ Edit(p) \/ GiveUp(p)
      PROVE  acked' = acked
  BY <1>2 DEF OpenRow, OpenText, Edit, GiveUp
<1>3. ASSUME RequestStep PROVE acked' = acked
  BY <1>3 DEF RequestStep, Commit, Fail, Release, Refuse, Accept
<1>4. CASE UNCHANGED vars
  BY <1>t, <1>4 DEF vars
<1>5. ASSUME WorkerStep PROVE acked' = acked
  BY <1>5 DEF WorkerStep, WorkerLoad, WorkerLock, WorkerCommit, WorkerFail
<1> QED
  BY <1>g, <1>t, <1>1, <1>2, <1>3, <1>4, <1>5 DEF Next, PageStep

\* The whole invariant.
THEOREM Invariance == Spec => []IInv
<1>1. Init => IInv
  <2>1. Init => BaseInv
    BY InitBase
  <2> QED
    BY <2>1, PagesAssumption
       DEF Init, IInv, VersionInv, Sent, Covers, AcknowledgedEditsKept
<1>2. IInv /\ [Next]_vars => IInv'
  <2> SUFFICES ASSUME IInv, [Next]_vars PROVE IInv'
    OBVIOUS
  <2>1. BaseInv'
    BY TypeStep, ClaimStep, WaitStep, SentStep DEF IInv, BaseInv
  <2>2. CASE stale'
    BY <2>1, <2>2 DEF IInv, AcknowledgedEditsKept
  <2>3. CASE ~stale'
    BY <2>1, <2>3, VersionStep, AckStep DEF IInv
  <2> QED
    BY <2>2, <2>3
<1> QED
  BY <1>1, <1>2, PTL DEF Spec

\* No save overwrites what another page saved until a worker has set the number back:
\* requests that were checked against a version carry all of the document with it.
THEOREM NoEditOverwritten == Spec => OverwriteNeedsStaleWorker
<1>1. IInv /\ [Next]_vars => (~stale' => content \subseteq content')
  BY GrowStep
<1>2. IInv /\ [Next]_vars => [~stale' => content \subseteq content']_vars
  BY <1>1
<1> QED
  BY <1>2, Invariance, PTL DEF Spec, OverwriteNeedsStaleWorker

\* Until then what a page was told is saved stays in the document.
THEOREM AcknowledgedStays == Spec => []AcknowledgedEditsKept
<1>1. IInv => AcknowledgedEditsKept
  BY DEF IInv
<1> QED
  BY <1>1, Invariance, PTL

\* Until then a page whose version is the document's shows all of it.
THEOREM CurrentMeansComplete == Spec => []CurrentPagesAreComplete
<1>1. IInv => CurrentPagesAreComplete
  BY DEF IInv, VersionInv, Covers, CurrentPagesAreComplete
<1> QED
  BY <1>1, Invariance, PTL
=============================================================================
