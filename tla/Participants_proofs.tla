------------------------- MODULE Participants_proofs -------------------------
(***************************************************************************)
(* The assignees of an instruction and the demonstration tasks made for    *)
(* them, for any directory, lists and names.                               *)
(***************************************************************************)
EXTENDS Participants, DemoPublication, FiniteSetTheorems, SequenceTheorems, TLAPS

\* The two invariants are inductive together.
IInv == TypeOK /\ SourcesAreChosen

\* What an expansion of the lists G contains, whichever list somebody is put down to:
\* the rows picked by hand, and one row of a list in G for every other member.
LEMMA ExpansionFacts ==
    ASSUME TypeOK, NEW R \in SUBSET Rows, NEW G \in SUBSET Lists, NEW X \in Expansions(R, G)
    PROVE  /\ X \in SUBSET Rows
           /\ Direct(X) = Direct(R)
           /\ Sources(X) \subseteq G
           /\ People(X) = People(Direct(R)) \cup (UNION {members[g] : g \in G})
           /\ \A r, s \in X : r.list # None /\ s.list # None /\ r.person = s.person => r = s
           /\ \A r \in X : r.list # None => r.person # None
<1> DEFINE joining == (UNION {members[g] : g \in G}) \ People(Direct(R))
<1>1. PICK from \in [joining -> G] :
         /\ \A e \in joining : e \in members[from[e]]
         /\ X = Direct(R) \cup {Row(e, from[e]) : e \in joining}
  BY DEF Expansions
<1>2. joining \subseteq Employees
  BY DEF TypeOK
<1>3. \A e \in joining : from[e] \in Lists /\ from[e] # None /\ e # None
  BY <1>2, ParticipantsAssumption, DirectoryAssumption
<1>4. \A r \in X : r \in Direct(R) \/ \E e \in joining : r = Row(e, from[e])
  BY <1>1
<1>5. \A e \in joining : /\ Row(e, from[e]) \in X
                         /\ Row(e, from[e]) \in Rows
                         /\ Row(e, from[e]).person = e
                         /\ Row(e, from[e]).list = from[e]
  BY <1>1, <1>2, <1>3 DEF Row, Rows
<1>6. Direct(R) \subseteq X /\ Direct(R) \subseteq Rows /\ \A r \in Direct(R) : r.list = None
  BY <1>1 DEF Direct
<1>7. X \in SUBSET Rows
  BY <1>4, <1>5, <1>6
<1>8. Direct(X) = Direct(R)
  <2>1. \A r \in X : r.list = None => r \in Direct(R)
    BY <1>3, <1>4, <1>5
  <2>2. \A r \in Direct(R) : r \in X /\ r.list = None
    BY <1>6
  <2>3. Direct(X) = {r \in X : r.list = None}
    BY DEF Direct
  <2> QED
    BY <2>1, <2>2, <2>3
<1>9. Sources(X) \subseteq G
  BY <1>1, <1>4, <1>5, <1>6 DEF Sources
<1>10. People(X) = People(Direct(R)) \cup (UNION {members[g] : g \in G})
  <2>1. People(X) \subseteq People(Direct(R)) \cup joining
    BY <1>4, <1>5 DEF People
  <2>2. joining \subseteq People(X)
    BY <1>3, <1>5 DEF People
  <2>3. People(Direct(R)) \subseteq People(X)
    BY <1>6 DEF People
  <2> QED
    BY <2>1, <2>2, <2>3
<1>11. \A r, s \in X : r.list # None /\ s.list # None /\ r.person = s.person => r = s
  BY <1>4, <1>5, <1>6
<1>12. \A r \in X : r.list # None => r.person # None
  BY <1>3, <1>4, <1>5, <1>6
<1> QED
  BY <1>7, <1>8, <1>9, <1>10, <1>11, <1>12

\* Rows picked by hand have no list, and exactly the people they were made for.
LEMMA ByHandFacts ==
    ASSUME NEW S \in SUBSET Employees
    PROVE  /\ ByHand(S) \in SUBSET Rows
           /\ Direct(ByHand(S)) = ByHand(S)
           /\ Sources(ByHand(S)) = {}
           /\ People(ByHand(S)) = S
<1>1. \A e \in S : /\ Row(e, None) \in Rows
                   /\ Row(e, None).person = e
                   /\ Row(e, None).list = None
                   /\ e # None
  BY ParticipantsAssumption, DirectoryAssumption DEF Row, Rows
<1>2. \A r \in ByHand(S) : \E e \in S : r = Row(e, None)
  BY DEF ByHand
<1>3. \A e \in S : Row(e, None) \in ByHand(S)
  BY DEF ByHand
<1>4. ByHand(S) \in SUBSET Rows
  BY <1>1, <1>2
<1>5. Direct(ByHand(S)) = ByHand(S) /\ Sources(ByHand(S)) = {}
  BY <1>1, <1>2 DEF Direct, Sources
<1>6. People(ByHand(S)) = S
  BY <1>1, <1>2, <1>3 DEF People
<1> QED
  BY <1>4, <1>5, <1>6

\* The only assignee is an assignee.
LEMMA OnlyOneFacts ==
    ASSUME NEW R
    PROVE  /\ OnlyOne(R) \in Employees \cup {None}
           /\ OnlyOne(R) \in People(R) \cup {None}
<1>1. CASE \E e \in Employees : People(R) = {e}
  <2>1. /\ (CHOOSE e \in Employees : People(R) = {e}) \in Employees
        /\ People(R) = {CHOOSE e \in Employees : People(R) = {e}}
    BY <1>1
  <2> QED
    BY <1>1, <2>1 DEF OnlyOne
<1>2. CASE ~ \E e \in Employees : People(R) = {e}
  BY <1>2 DEF OnlyOne
<1> QED
  BY <1>1, <1>2

\* Resolving a name takes nobody away.
LEMMA MatchFacts ==
    ASSUME TypeOK, NEW n \in Names, NEW e \in Employees, MatchAssignee(n, e)
    PROVE  /\ rows' \in SUBSET Rows
           /\ People(rows) \subseteq People(rows')
           /\ Sources(rows') = Sources(rows)
<1> DEFINE open == {r \in rows : r.name = n /\ r.person = None}
<1>1. CASE open # {}
  <2>1. rows' = (rows \ open) \cup {[r EXCEPT !.person = e] : r \in open}
    BY <1>1 DEF MatchAssignee
  <2>2. \A r \in open : /\ r \in Rows
                        /\ [r EXCEPT !.person = e] \in Rows
                        /\ [r EXCEPT !.person = e].list = r.list
    BY DEF TypeOK, Rows
  <2>3. rows' \in SUBSET Rows
    BY <2>1, <2>2 DEF TypeOK
  <2>4. People(rows) \subseteq People(rows')
    BY <2>1 DEF People
  <2>5. Sources(rows') = Sources(rows)
    <3>1. \A r \in rows' : \E s \in rows : r.list = s.list
      BY <2>1, <2>2
    <3>2. \A r \in rows : \E s \in rows' : r.list = s.list
      BY <2>1, <2>2
    <3> QED
      BY <3>1, <3>2 DEF Sources
  <2> QED
    BY <2>3, <2>4, <2>5
<1>2. CASE open = {} /\ e \in People(rows)
  BY <1>2 DEF MatchAssignee, TypeOK
<1>3. CASE open = {} /\ e \notin People(rows)
  <2>1. rows' = rows \cup {Row(e, None)}
    BY <1>3 DEF MatchAssignee
  <2> QED
    BY <2>1 DEF Row, Rows, People, Sources, TypeOK
<1> QED
  BY <1>1, <1>2, <1>3

\* Nor does it put anybody down to a second list: a row that gets its employee was
\* written by the import, and those have no list.
LEMMA MatchOneList ==
    ASSUME TypeOK, SourcesAreChosen,
           NEW n \in Names, NEW e \in Employees, MatchAssignee(n, e)
    PROVE  /\ \A r, s \in rows' : r.list # None /\ s.list # None /\ r.person = s.person => r = s
           /\ \A r \in rows' : r.list # None => r.person # None
<1> DEFINE open == {r \in rows : r.name = n /\ r.person = None}
<1>1. \A r \in rows' : r \in rows \/ r.list = None
  <2>1. \A r \in open : [r EXCEPT !.person = e].list = r.list /\ r.list = None
    BY DEF TypeOK, Rows, SourcesAreChosen
  <2>2. Row(e, None).list = None
    BY DEF Row
  <2> QED
    BY <2>1, <2>2 DEF MatchAssignee
<1> QED
  BY <1>1 DEF SourcesAreChosen

\* Deleting a list turns its rows into rows picked by hand and takes nobody away.
LEMMA RemovalFacts ==
    ASSUME TypeOK, NEW g \in Lists, RemoveList(g)
    PROVE  /\ rows' \in SUBSET Rows
           /\ People(rows') = People(rows)
           /\ Sources(rows') = Sources(rows) \ {g}
           /\ Direct(rows) \subseteq Direct(rows')
<1> DEFINE moved(r) == IF r.list = g THEN [r EXCEPT !.list = None] ELSE r
<1>1. rows' = {moved(r) : r \in rows}
  BY DEF RemoveList
<1>2. g # None
  BY ParticipantsAssumption, DirectoryAssumption
<1>3. \A r \in rows : /\ moved(r) \in Rows
                      /\ moved(r).person = r.person
                      /\ moved(r).list = IF r.list = g THEN None ELSE r.list
                      /\ r.list = None => moved(r) = r
  BY <1>2 DEF TypeOK, Rows
<1> HIDE DEF moved
<1>4. rows' \in SUBSET Rows
  BY <1>1, <1>3
<1>5. People(rows') = People(rows)
  BY <1>1, <1>3 DEF People
<1>6. Sources(rows') = Sources(rows) \ {g}
  BY <1>1, <1>2, <1>3 DEF Sources
<1>7. Direct(rows) \subseteq Direct(rows')
  BY <1>1, <1>3 DEF Direct
<1> QED
  BY <1>4, <1>5, <1>6, <1>7
\* An instruction starts without a responsible, and its rows name lists that exist.
LEMMA InitInv == Init => IInv
<1> SUFFICES ASSUME Init PROVE IInv
  OBVIOUS
<1>1. /\ lists \subseteq Lists
      /\ members \in [Lists -> SUBSET Employees]
      /\ chosen = {} /\ primary = None /\ handed = {}
  BY DEF Init
<1>2. CASE \E e \in Employees : rows = ByHand({e})
  <2>1. PICK e \in Employees : rows = ByHand({e})
    BY <1>2
  <2>2. rows \in SUBSET Rows /\ Sources(rows) = {} /\ Direct(rows) = rows
    BY <2>1, ByHandFacts, {e} \in SUBSET Employees
  <2> QED
    BY <1>1, <2>2 DEF IInv, TypeOK, SourcesAreChosen, Direct
<1>3. CASE \E g \in lists : rows = WizardRows(members, g)
  <2>1. PICK g \in lists : rows = {Row(e, g) : e \in members[g]}
    BY <1>3 DEF WizardRows
  <2>2. \A r \in rows : r \in Rows /\ r.list = g /\ r = Row(r.person, g) /\ r.person # None
    BY <1>1, <2>1, ParticipantsAssumption, DirectoryAssumption DEF Row, Rows
  <2>3. Sources(rows) \subseteq lists
    BY <2>2 DEF Sources
  <2>4. \A r, s \in rows : r.person = s.person => r = s
    BY <2>2
  <2> QED
    BY <1>1, <2>2, <2>3, <2>4 DEF IInv, TypeOK, SourcesAreChosen
<1>4. CASE rows \in ImportRows
  <2>1. PICK S \in SUBSET Names :
          rows \in {{[person |-> who[n], list |-> None, name |-> n] : n \in S} :
                       who \in [S -> Employees \cup {None}]}
    BY <1>4 DEF ImportRows
  <2>2. PICK who \in [S -> Employees \cup {None}] :
          rows = {[person |-> who[n], list |-> None, name |-> n] : n \in S}
    BY <2>1
  <2>3. \A r \in rows : r \in Rows /\ r.list = None
    BY <2>2 DEF Rows
  <2>4. Sources(rows) = {}
    BY <2>3 DEF Sources
  <2> QED
    BY <1>1, <2>3, <2>4 DEF IInv, TypeOK, SourcesAreChosen
<1> QED
  BY <1>2, <1>3, <1>4 DEF Init

\* What the rows of the next state need for the invariant to hold again.
LEMMA RowsOK ==
    ASSUME TypeOK, SourcesAreChosen, lists' \subseteq Lists, chosen' \subseteq lists',
           members' \in [Lists -> SUBSET Employees], handed' \subseteq Employees,
           rows' \in SUBSET Rows,
           Sources(rows') \subseteq lists',
           chosen' # {} => Sources(rows') \subseteq chosen',
           \A r, s \in rows' : r.list # None /\ s.list # None /\ r.person = s.person => r = s,
           \A r \in rows' : r.list # None => r.person # None,
           primary' \in Employees \cup {None}
    PROVE  IInv'
BY DEF IInv, TypeOK, SourcesAreChosen

\* Rows picked by hand satisfy it whatever was chosen.
LEMMA ByHandOK ==
    ASSUME TypeOK, SourcesAreChosen, NEW S \in SUBSET Employees, rows' = ByHand(S),
           UNCHANGED <<lists, members, chosen, handed>>,
           primary' \in People(rows') \cup {None}
    PROVE  IInv'
<1>1. /\ rows' \in SUBSET Rows
      /\ Direct(rows') = rows'
      /\ Sources(rows') = {}
      /\ People(rows') = S
  BY ByHandFacts
<1>2. \A r \in rows' : r.list = None
  BY <1>1 DEF Direct
<1> QED
  BY <1>1, <1>2, RowsOK DEF TypeOK, SourcesAreChosen

\* Every step keeps the invariant.
LEMMA NextInv == IInv /\ [Next]_vars => IInv'
<1> SUFFICES ASSUME IInv, [Next]_vars PROVE IInv'
  OBVIOUS
<1> USE DEF IInv
<1>1. ASSUME NEW people \in SUBSET Employees, NEW G \in SUBSET Lists,
             NEW p \in Employees \cup {None}, EditorSave(people, G, p)
      PROVE  IInv'
  <2>1. ByHand(people) \in SUBSET Rows
    BY ByHandFacts
  <2>2. PICK R \in Expansions(ByHand(people), G) :
          p \in People(R) \cup {None} /\ rows' = R /\ primary' = Named(p, R)
    BY <1>1 DEF EditorSave
  <2>3. /\ rows' \in SUBSET Rows
        /\ Sources(rows') \subseteq G
        /\ \A r, s \in rows' : r.list # None /\ s.list # None /\ r.person = s.person => r = s
        /\ \A r \in rows' : r.list # None => r.person # None
    BY <2>1, <2>2, ExpansionFacts
  <2>4. primary' \in Employees \cup {None} /\ primary' \in People(rows') \cup {None}
    BY <2>2, OnlyOneFacts DEF Named
  <2> QED
    BY <1>1, <2>3, <2>4, RowsOK DEF EditorSave, TypeOK
<1>2. ASSUME NEW people \in SUBSET Employees, NEW p \in Employees \cup {None},
             CardSave(people, p)
      PROVE  IInv'
  <2>1. primary' \in People(rows') \cup {None}
    BY <1>2, ByHandFacts, OnlyOneFacts DEF CardSave, Named
  <2> QED
    BY <1>2, <2>1, ByHandOK DEF CardSave
<1>3. ASSUME NEW e \in Employees, BulkAssign(e) PROVE IInv'
  <2>1. People(rows) \cup {e} \in SUBSET Employees
    BY DEF TypeOK, People, Rows
  <2>2. primary' \in People(rows') \cup {None}
    BY <1>3, OnlyOneFacts DEF BulkAssign, Kept
  <2> QED
    BY <1>3, <2>1, <2>2, ByHandOK DEF BulkAssign
<1>4. CASE BulkOther
  <2>1. primary' \in Employees \cup {None} /\ primary' \in People(rows) \cup {None}
    BY <1>4, OnlyOneFacts DEF BulkOther, Kept, TypeOK
  <2> QED
    BY <1>4, <2>1 DEF BulkOther, TypeOK, SourcesAreChosen
<1>5. ASSUME NEW n \in Names, NEW e \in Employees, MatchAssignee(n, e) PROVE IInv'
  <2>1. /\ rows' \in SUBSET Rows
        /\ People(rows) \subseteq People(rows')
        /\ Sources(rows') = Sources(rows)
    BY <1>5, MatchFacts
  <2>2. /\ \A r, s \in rows' : r.list # None /\ s.list # None /\ r.person = s.person => r = s
        /\ \A r \in rows' : r.list # None => r.person # None
    BY <1>5, MatchOneList
  <2> QED
    BY <1>5, <2>1, <2>2, RowsOK
       DEF MatchAssignee, TypeOK, SourcesAreChosen
<1>6. ASSUME NEW g \in Lists, NEW S \in SUBSET Employees,
             CreateList(g, S) \/ ReplaceMembers(g, S)
      PROVE  IInv'
  BY <1>6 DEF CreateList, ReplaceMembers, TypeOK, SourcesAreChosen
<1>7. ASSUME NEW g \in Lists, NEW e \in Employees, AddManualMember(g, e) PROVE IInv'
  BY <1>7 DEF AddManualMember, TypeOK, SourcesAreChosen
<1>8. ASSUME NEW g \in Lists, CopyAttendees(g) PROVE IInv'
  BY <1>8, ParticipantsAssumption, DirectoryAssumption
     DEF CopyAttendees, TypeOK, SourcesAreChosen
<1>9. ASSUME NEW g \in Lists, RemoveList(g) PROVE IInv'
  <2>1. /\ rows' \in SUBSET Rows
        /\ People(rows') = People(rows)
        /\ Sources(rows') = Sources(rows) \ {g}
    BY <1>9, RemovalFacts
  <2>2. /\ \A r, s \in rows' : r.list # None /\ s.list # None /\ r.person = s.person => r = s
        /\ \A r \in rows' : r.list # None => r.person # None
    BY <1>9 DEF RemoveList, SourcesAreChosen, TypeOK, Rows
  <2> QED
    BY <1>9, <2>1, <2>2, RowsOK
       DEF RemoveList, TypeOK, SourcesAreChosen
<1>10. ASSUME NEW H \in SUBSET Employees, Publish(H) PROVE IInv'
  <2>1. PICK R \in Expansions(rows, Effective) : rows' = R
    BY <1>10 DEF Publish
  <2>2. Effective \in SUBSET Lists /\ Effective \subseteq lists
    BY DEF Effective, SourcesAreChosen, TypeOK
  <2>3. /\ rows' \in SUBSET Rows
        /\ Sources(rows') \subseteq Effective
        /\ \A r, s \in rows' : r.list # None /\ s.list # None /\ r.person = s.person => r = s
        /\ \A r \in rows' : r.list # None => r.person # None
    <3>1. rows \in SUBSET Rows
      BY DEF TypeOK
    <3> QED
      BY <2>1, <2>2, <3>1, ExpansionFacts
  <2>4. handed' \subseteq Employees
    BY <1>10 DEF Publish, TypeOK
  <2> QED
    BY <1>10, <2>2, <2>3, <2>4, RowsOK DEF Publish, TypeOK
<1>11. CASE UNCHANGED vars
  BY <1>11 DEF vars, TypeOK, SourcesAreChosen
<1> QED
  BY <1>1, <1>2, <1>3, <1>4, <1>5, <1>6, <1>7, <1>8, <1>9, <1>10, <1>11
     DEF Next, EditStep, ListStep, PublishStep

LEMMA Invariance == Spec => []IInv
BY InitInv, NextInv, PTL DEF Spec

\* Lists, rows, the choice and the responsible keep their types.
THEOREM ParticipantsTyped == Spec => []TypeOK
BY Invariance, PTL DEF IInv

\* The lists of the assignments exist and are the ones the instruction is assigned to.
THEOREM SourcesChosen == Spec => []SourcesAreChosen
BY Invariance, PTL DEF IInv

\* No edit of people or lists leaves a responsible who is no assignee.
THEOREM ResponsibleAssigned == Spec => ResponsibleIsAssigned
<1>1. IInv /\ [Next]_vars => [HasResponsible /\ ~ HasResponsible' => PublishStep]_vars
  <2> SUFFICES ASSUME IInv, EditStep \/ ListStep, HasResponsible PROVE HasResponsible'
    BY DEF Next
  <2> USE DEF HasResponsible
  <2>1. ASSUME NEW people \in SUBSET Employees, NEW G \in SUBSET Lists,
               NEW p \in Employees \cup {None}, EditorSave(people, G, p)
        PROVE  HasResponsible'
    BY <2>1, OnlyOneFacts DEF EditorSave, Named
  <2>2. ASSUME NEW people \in SUBSET Employees, NEW p \in Employees \cup {None},
               CardSave(people, p)
        PROVE  HasResponsible'
    BY <2>2, ByHandFacts, OnlyOneFacts DEF CardSave, Named
  <2>3. ASSUME NEW e \in Employees, BulkAssign(e) PROVE HasResponsible'
    BY <2>3, OnlyOneFacts DEF BulkAssign, Kept
  <2>4. CASE BulkOther
    BY <2>4, OnlyOneFacts DEF BulkOther, Kept, People
  <2>5. ASSUME NEW n \in Names, NEW e \in Employees, MatchAssignee(n, e)
        PROVE  HasResponsible'
    BY <2>5, MatchFacts DEF MatchAssignee, IInv
  <2>6. ASSUME NEW g \in Lists, RemoveList(g) PROVE HasResponsible'
    BY <2>6, RemovalFacts DEF RemoveList, IInv
  <2>7. CASE ListStep /\ ~ \E g \in Lists : RemoveList(g)
    <3>1. UNCHANGED <<rows, primary>>
      BY <2>7 DEF ListStep, CreateList, ReplaceMembers, AddManualMember, CopyAttendees
    <3> QED
      BY <3>1 DEF People
  <2> QED
    BY <2>1, <2>2, <2>3, <2>4, <2>5, <2>6, <2>7 DEF EditStep
<1> QED
  BY <1>1, Invariance, PTL DEF Spec, ResponsibleIsAssigned

\* Neither editing lists nor publishing takes away somebody picked by hand.
THEOREM HandPicked == Spec => HandPickedStay
<1>1. IInv /\ [Next]_vars => [Direct(rows) \ Direct(rows') # {} => EditStep]_vars
  <2> SUFFICES ASSUME IInv, ListStep \/ PublishStep PROVE Direct(rows) \subseteq Direct(rows')
    BY DEF Next
  <2>1. ASSUME NEW H \in SUBSET Employees, Publish(H)
        PROVE  Direct(rows) \subseteq Direct(rows')
    <3>1. rows \in SUBSET Rows /\ Effective \in SUBSET Lists /\ TypeOK
      BY DEF IInv, TypeOK, SourcesAreChosen, Effective
    <3>2. rows' \in Expansions(rows, Effective)
      BY <2>1 DEF Publish
    <3> QED
      BY <3>1, <3>2, ExpansionFacts
  <2>2. ASSUME NEW g \in Lists, RemoveList(g) PROVE Direct(rows) \subseteq Direct(rows')
    BY <2>2, RemovalFacts DEF IInv
  <2>3. CASE ListStep /\ ~ \E g \in Lists : RemoveList(g)
    <3>1. UNCHANGED rows
      BY <2>3 DEF ListStep, CreateList, ReplaceMembers, AddManualMember, CopyAttendees
    <3> QED
      BY <3>1 DEF Direct
  <2> QED
    BY <2>1, <2>2, <2>3 DEF PublishStep
<1> QED
  BY <1>1, Invariance, PTL DEF Spec, HandPickedStay

\* A publication hands out what the page promises at that moment.
THEOREM PublishedFresh == Spec => PublishedPlanIsFresh
<1> DEFINE Fresh ==
      /\ People(rows') = People(Direct(rows)) \cup (UNION {members[g] : g \in chosen'})
      /\ chosen \cup Sources(rows) \subseteq chosen'
      /\ Several(People(rows')) => primary' \in People(rows')
      /\ handed \subseteq handed' /\ handed' \subseteq People(rows')
<1>1. IInv /\ [Next]_vars => [handed' # handed => Fresh]_vars
  <2> SUFFICES ASSUME IInv, Next, handed' # handed PROVE Fresh
    OBVIOUS
  <2>1. PICK H \in SUBSET Employees : Publish(H)
    BY DEF Next, EditStep, ListStep, PublishStep, EditorSave, CardSave, BulkAssign,
           BulkOther, MatchAssignee, CreateList, ReplaceMembers, AddManualMember,
           CopyAttendees, RemoveList
  <2>2. rows \in SUBSET Rows /\ Effective \in SUBSET Lists /\ TypeOK
    BY DEF IInv, TypeOK, SourcesAreChosen, Effective
  <2>3. /\ rows' \in Expansions(rows, Effective)
        /\ Publishable(rows')
        /\ handed \cup H \subseteq People(rows')
        /\ handed' = handed \cup H
        /\ chosen' = Effective
        /\ UNCHANGED <<members, primary>>
    BY <2>1 DEF Publish
  <2>4. People(rows') = People(Direct(rows)) \cup (UNION {members[g] : g \in Effective})
    BY <2>2, <2>3, ExpansionFacts
  <2>5. chosen \cup Sources(rows) \subseteq Effective
    BY DEF Effective, IInv, SourcesAreChosen
  <2> QED
    BY <2>3, <2>4, <2>5 DEF Publishable
<1> QED
  BY <1>1, Invariance, PTL DEF Spec, PublishedPlanIsFresh
-----------------------------------------------------------------------------
(***************************************************************************)
(* Demonstration publication: what its planned, overlapping and repeated   *)
(* runs leave behind, for any number of requests, instructions and people. *)
(***************************************************************************)

\* People are numbered in some order that leaves nobody out (SetToSeq).
LEMMA PeopleInOrder ==
    ASSUME NEW S, IsFiniteSet(S)
    PROVE  SetToSeq(S) \in [1..Cardinality(S) -> S]
<1>1. \E f \in [1..Cardinality(S) -> S] : IsInjective(f)
  BY FS_CardinalityType DEF ExistsBijection, Bijection, Injection, IsInjective
<1>2. QED
  BY <1>1 DEF SetToSeq

\* What the settings' form, the group refresh and the import write are assignment rows,
\* as many as people at most.
LEMMA RowsTyped ==
    ASSUME NEW whos \in SUBSET (Employees \cup Names), NEW group \in BOOLEAN,
           NEW first \in Nat
    PROVE  /\ NumberedRows(whos, group, first) \subseteq AssignmentRows
           /\ Cardinality(NumberedRows(whos, group, first)) \in Nat
<1>1. IsFiniteSet(whos)
  BY DirectoryAssumption, FS_Union, FS_Subset
<1> DEFINE order  == SetToSeq(whos)
           row(i) == [id |-> first + i - 1, who |-> order[i], group |-> group]
           n      == Cardinality(whos)
<1>2. n \in Nat /\ order \in [1..n -> whos]
  BY <1>1, PeopleInOrder, FS_CardinalityType
<1>3. NumberedRows(whos, group, first) = {row(i) : i \in 1..n}
  BY <1>2 DEF NumberedRows
<1> HIDE DEF order, n
<1>4. \A i \in 1..n : row(i) \in AssignmentRows
  BY <1>2 DEF AssignmentRows
<1>5. IsFiniteSet({row(i) : i \in 1..n})
  <2> HIDE DEF row
  <2> DEFINE R == {row(i) : i \in 1..n}
             s == [i \in 1..n |-> row(i)]
  <2>1. s \in Seq(R) /\ Len(s) = n
    BY <1>2
  <2>2. \A r \in R : \E i \in 1..Len(s) : s[i] = r
    BY <1>2, <2>1
  <2>3. QED
    BY <2>1, <2>2 DEF IsFiniteSet
<1>6. QED
  BY <1>3, <1>4, <1>5, FS_CardinalityType

\* The refresh of the group's rows before a plan.
LEMMA RefreshTyped ==
    ASSUME DemoTypeOK, NEW t \in Live
    PROVE  /\ Added(t) \subseteq AssignmentRows
           /\ Cardinality(Added(t)) \in Nat
           /\ Refreshed(t) \in [subtasks : BOOLEAN, rows : SUBSET AssignmentRows]
<1>1. nextId[t] \in Nat /\ tasks[t] \in [subtasks : BOOLEAN, rows : SUBSET AssignmentRows]
  BY DEF DemoTypeOK
<1>2. Missing(t) \subseteq Employees \cup Names
  BY DemoAssumption DEF Missing
<1>3. Cardinality({}) \in Nat
  BY FS_EmptySet
<1>4. Added(t) \subseteq AssignmentRows /\ Cardinality(Added(t)) \in Nat
  BY <1>1, <1>2, <1>3, RowsTyped DEF Added
<1>5. QED
  BY <1>1, <1>4 DEF Refreshed

\* A plan asks everybody once for an instruction, and nobody for one with links.
LEMMA PlanSound ==
    ASSUME DemoTypeOK
    PROVE  /\ Planned \subseteq PlanRows
           /\ \A p \in Planned : p.task \in Live /\ ~Linked(p.task)
           /\ \A p, q \in Planned : p.task = q.task /\ p.who = q.who => p = q
<1> DEFINE Plan(t) == BuildPlan(project, t, Refreshed(t), Linked(t))
<1>1. Planned = UNION {Plan(t) : t \in Live}
  BY DEF Planned
<1>2. ASSUME NEW t \in Live
      PROVE  /\ \A p \in Plan(t) : p \in PlanRows /\ p.task = t
             /\ Plan(t) # {} => ~Linked(t)
             /\ \A p, q \in Plan(t) : p.who = q.who => p = q
  <2> DEFINE r    == Refreshed(t)
             asked == UniqueAssignments(r.rows)
             type == IF r.subtasks THEN "subtask" ELSE "independent"
             root == [key |-> <<t, 0, "root">>, task |-> t, who |-> "technical"]
             ask(x) == [key |-> <<t, x.id, type>>, task |-> t, who |-> x.who]
  <2>1. r.rows \subseteq AssignmentRows
    BY RefreshTyped
  <2>2. /\ \A x \in asked : x.id \in Nat /\ x.who \in Employees \cup Names
        /\ \A x, y \in asked : x.who = y.who => x.id = y.id
    BY <2>1 DEF UniqueAssignments, AssignmentRows
  <2>3. /\ Plan(t) \subseteq {ask(x) : x \in asked} \cup {root}
        /\ Plan(t) # {} => ~Linked(t)
    BY DEF BuildPlan, PlannedTasks, PlanErrors
  <2>4. t \in Tasks
    BY DEF DemoTypeOK
  <2>5. type \in {"root", "subtask", "independent"} 
    OBVIOUS
  <2> HIDE DEF asked, type, Plan
  <2>6. \A x \in asked : ask(x) \in PlanRows
    BY <2>2, <2>4, <2>5 DEF PlanRows, Keys, Assignees
  <2>7. root \in PlanRows
    BY <2>4 DEF PlanRows, Keys, Assignees
  <2>8. \A x \in asked : ask(x).who # root.who
    BY <2>2, DemoAssumption
  <2>9. \A x, y \in asked : ask(x).who = ask(y).who => ask(x) = ask(y)
    BY <2>2
  <2>10. \A p, q \in Plan(t) : p.who = q.who => p = q
    <3> HIDE DEF ask, root
    <3>1. QED
      BY <2>3, <2>8, <2>9
  <2>11. \A p \in Plan(t) : p \in PlanRows /\ p.task = t
    BY <2>3, <2>6, <2>7
  <2>12. QED
    BY <2>3, <2>10, <2>11
<1> HIDE DEF Plan
<1>3. QED
  BY <1>1, <1>2

\* What is said of links, runs and plans alone survives what leaves those alone.
LEMMA RunsKept ==
    ASSUME UNCHANGED <<links, runs, overlapped>>, DemoInv
    PROVE  /\ RunInv' /\ NobodyIsAskedTwice' /\ EveryTaskIsReportedOnce'
           /\ RetryRepeatsFailures'
<1>1. links' = links /\ runs' = runs /\ overlapped' = overlapped
  OBVIOUS
<1>2. RunInv'
  BY <1>1 DEF DemoInv, RunInv
<1>3. NobodyIsAskedTwice'
  BY <1>1 DEF DemoInv, NobodyIsAskedTwice
<1>4. EveryTaskIsReportedOnce'
  BY <1>1 DEF DemoInv, EveryTaskIsReportedOnce, LinkedKeys, Failed
<1>5. RetryRepeatsFailures'
  BY <1>1 DEF DemoInv, RetryRepeatsFailures, FailedKeys, Failed
<1>6. QED
  BY <1>2, <1>3, <1>4, <1>5

\* A request that has planned keeps what it needs: the actions that begin a publication
\* or a retry.
LEMMA BeginStep ==
    ASSUME DemoInv, NEW c \in Clients, NEW kind \in {"publish", "retry"},
           NEW old, NEW planned \in SUBSET Planned,
           kind = "publish" => old = 0,
           kind = "retry" => /\ old \in DOMAIN runs
                             /\ {p.key : p \in planned} \subseteq FailedKeys(runs[old]),
           MayPlan(c), work' = [work EXCEPT ![c] = Work(kind, old, planned)]
    PROVE  DemoInv'
<1> USE DEF DemoInv
<1>1. UNCHANGED <<project, tasks, grouped, links, runs, overlapped>>
  BY DEF MayPlan
<1>2. Live' = Live /\ (\A t : Linked(t)' <=> Linked(t))
  BY <1>1 DEF Live, Linked
<1> DEFINE w == Work(kind, old, planned)
<1>3. /\ w.kind = kind /\ w.old = old /\ w.rows = planned
      /\ w.linked = {t \in Live : Linked(t)}
      /\ \A t \in Live : w.added[t] = Added(t)
  BY DEF Work
<1>4. /\ work'[c] = w
      /\ \A d \in Clients \ {c} : work'[d] = work[d]
      /\ DOMAIN work' = Clients
  BY DEF DemoTypeOK
<1> HIDE DEF w
<1>5. nextId' \in [Tasks -> Nat]
  <2>1. \A t \in Live : Cardinality(Added(t)) \in Nat
    BY RefreshTyped
  <2>2. nextId \in [Tasks -> Nat]
    BY DEF DemoTypeOK
  <2>3. nextId' = [t \in Tasks |-> IF t \in Live THEN nextId[t] + Cardinality(Added(t))
                                   ELSE nextId[t]]
    BY DEF MayPlan
  <2>4. \A t \in Tasks : (IF t \in Live THEN nextId[t] + Cardinality(Added(t))
                          ELSE nextId[t]) \in Nat
    BY <2>1, <2>2
  <2>5. QED
    BY <2>3, <2>4
<1>6. DemoTypeOK'
  <2>1. planned \subseteq PlanRows
    BY PlanSound
  <2>2. \A t \in Live : w.added[t] \subseteq AssignmentRows
    BY <1>3, RefreshTyped
  <2>3. QED
    BY <1>1, <1>2, <1>3, <1>4, <1>5, <2>1, <2>2 DEF DemoTypeOK
<1>7. WorkInv'
  <2>1. \A p, q \in planned : p.task = q.task /\ p.who = q.who => p = q
    BY PlanSound
  <2>2. \A p \in planned : p.task \notin w.linked
    BY <1>3, PlanSound
  <2>3. QED
    BY <1>1, <1>3, <1>4, <2>1, <2>2 DEF WorkInv, FailedKeys, Failed
<1>8. RunInv' /\ NobodyIsAskedTwice' /\ EveryTaskIsReportedOnce'
      /\ RetryRepeatsFailures'
  BY <1>1, RunsKept
<1>9. QED
  BY <1>6, <1>7, <1>8

\* The editor changes instructions and their rows, not what was planned or published.
LEMMA EditorStep ==
    ASSUME DemoInv, Editor
    PROVE  DemoInv'
<1> USE DEF DemoInv
<1>1. UNCHANGED <<project, links, runs, work, overlapped>>
  BY DEF Editor, SetEmployees, SetMode, BindName, DeleteTask,
     Edited
<1>2. /\ Live' \subseteq Live
      /\ tasks' \in [Live' -> [subtasks : BOOLEAN, rows : SUBSET AssignmentRows]]
      /\ nextId' \in [Tasks -> Nat]
  <2> PICK t \in Live :
          \/ \E whos \in SUBSET Employees : SetEmployees(t, whos)
          \/ SetMode(t)
          \/ \E r \in tasks[t].rows, e \in Employees : BindName(t, r, e)
          \/ DeleteTask(t)
    BY DEF Editor
  <2> DEFINE Record == [subtasks : BOOLEAN, rows : SUBSET AssignmentRows]
  <2>1. tasks[t] \in Record /\ t \in Tasks /\ nextId[t] \in Nat /\ nextId \in [Tasks -> Nat]
    BY DEF DemoTypeOK
  <2>2. ASSUME NEW record \in Record, Edited(t, record)
        PROVE  Live' = Live /\ tasks' \in [Live' -> Record]
    BY <2>2 DEF Edited, DemoTypeOK, Live
  <2>3. ASSUME NEW whos \in SUBSET Employees, SetEmployees(t, whos)
        PROVE  Live' = Live /\ tasks' \in [Live' -> Record] /\ nextId' \in [Tasks -> Nat]
    <3>1. NumberedRows(whos, FALSE, nextId[t]) \subseteq AssignmentRows
      BY <2>1, RowsTyped
    <3>2. [tasks[t] EXCEPT !.rows = NumberedRows(whos, FALSE, nextId[t])] \in Record
      BY <2>1, <3>1
    <3>3. Cardinality(whos) \in Nat
      BY DirectoryAssumption, FS_Subset, FS_CardinalityType
    <3>4. nextId' = [nextId EXCEPT ![t] = @ + Cardinality(whos)]
      BY <2>3 DEF SetEmployees
    <3>5. Edited(t, [tasks[t] EXCEPT !.rows = NumberedRows(whos, FALSE, nextId[t])])
      BY <2>3 DEF SetEmployees
    <3>6. nextId' \in [Tasks -> Nat]
      BY <2>1, <3>3, <3>4
    <3>7. QED
      BY <2>2, <3>2, <3>5, <3>6
  <2>4. ASSUME SetMode(t)
        PROVE  Live' = Live /\ tasks' \in [Live' -> Record] /\ nextId' = nextId
    <3>1. [tasks[t] EXCEPT !.subtasks = ~@] \in Record
      BY <2>1
    <3>2. QED
      BY <2>2, <2>4, <3>1 DEF SetMode
  <2>5. ASSUME NEW r \in tasks[t].rows, NEW e \in Employees, BindName(t, r, e)
        PROVE  Live' = Live /\ tasks' \in [Live' -> Record] /\ nextId' = nextId
    <3>1. [r EXCEPT !.who = e] \in AssignmentRows
      BY <2>1 DEF AssignmentRows
    <3>2. [tasks[t] EXCEPT !.rows = (@ \ {r}) \cup {[r EXCEPT !.who = e]}] \in Record
      BY <2>1, <3>1
    <3>3. QED
      BY <2>2, <2>5, <3>2 DEF BindName
  <2>6. ASSUME DeleteTask(t)
        PROVE  Live' \subseteq Live /\ tasks' \in [Live' -> Record] /\ nextId' = nextId
    BY <2>6 DEF DeleteTask, DemoTypeOK, Live
  <2>7. QED
    BY <2>1, <2>3, <2>4, <2>5, <2>6
<1>3. DemoTypeOK'
  BY <1>1, <1>2 DEF DemoTypeOK
<1>4. WorkInv'
  BY <1>1 DEF WorkInv, FailedKeys, Failed
<1>5. QED
  BY <1>1, <1>3, <1>4, RunsKept

\* Nothing is planned by a client between requests.
LEMMA NothingPlanned ==
    /\ NoWork.kind = "none" /\ NoWork.rows = {} /\ NoWork.linked = {}
BY DEF NoWork

\* The commit of a run (demo_publication.py, run_publication).
LEMMA CommitStep ==
    ASSUME DemoInv, NEW c \in Clients, NEW fails, Commit(c, fails)
    PROVE  DemoInv'
<1> DEFINE w   == work[c]
           its == Items(w.rows, fails)
           new == {x \in its : x.status = "created"}
           run == [items |-> its, retryOf |-> w.old]
           Run == [items : SUBSET RunItems, retryOf : Nat]
           n   == Len(runs) + 1
<1> USE DEF DemoInv
<1>1. /\ w.kind \in {"publish", "retry"}
      /\ w.rows \subseteq PlanRows
      /\ \A p, q \in w.rows : p.task = q.task /\ p.who = q.who => p = q
      /\ \A p \in w.rows : p.task \notin w.linked
      /\ w.kind = "publish" => w.old = 0
      /\ w.kind = "retry" => /\ w.old \in DOMAIN runs
                             /\ {p.key : p \in w.rows} \subseteq FailedKeys(runs[w.old])
  BY DEF Commit, DemoTypeOK, WorkInv
<1>2. /\ links' = links \cup {[key |-> x.key, task |-> x.task, who |-> x.who] : x \in new}
      /\ runs' = Append(runs, run)
      /\ overlapped' = (overlapped \/ \E p \in w.rows : Linked(p.task) /\ p.task \notin w.linked)
      /\ work' = [work EXCEPT ![c] = NoWork]
      /\ nextId' = nextId
      /\ tasks' = [t \in Live |-> [tasks[t] EXCEPT !.rows = (@ \ w.gone[t]) \cup w.added[t]]]
  BY DEF Commit
<1>3. /\ its \in SUBSET RunItems
      /\ \A x \in its : \E p \in w.rows : /\ x.key = p.key /\ x.task = p.task /\ x.who = p.who
                                          /\ x.status = Status(p, fails)
      /\ \A p \in w.rows : \E x \in its : x.key = p.key
  <2> DEFINE item(p) == [key |-> p.key, task |-> p.task, who |-> p.who,
                         status |-> Status(p, fails)]
  <2>1. its = {item(p) : p \in w.rows}
    BY DEF Items
  <2>2. \A p : Status(p, fails) \in {"created", "reused", "failed"}
    BY DEF Status
  <2>3. \A p \in w.rows : item(p) \in RunItems
    BY <1>1, <2>2 DEF PlanRows, RunItems
  <2>4. \A p : /\ item(p).key = p.key /\ item(p).task = p.task /\ item(p).who = p.who
               /\ item(p).status = Status(p, fails)
    OBVIOUS
  <2> HIDE DEF its, w, item
  <2>5. QED
    BY <2>1, <2>3, <2>4
<1>4. /\ runs \in Seq(Run) /\ n \in Nat /\ DOMAIN runs = 1..Len(runs) /\ DOMAIN runs' = 1..n
      /\ run \in Run
      /\ runs' \in Seq(Run) /\ runs'[n] = run
      /\ \A j \in DOMAIN runs : runs'[j] = runs[j] /\ j \in DOMAIN runs' /\ j # n
  <2>1. runs \in Seq(Run) /\ Len(runs) \in Nat /\ DOMAIN runs = 1..Len(runs)
    BY DEF DemoTypeOK
  <2>2. w.old \in Nat
    BY <1>1, <2>1
  <2>3. run \in Run
    BY <1>3, <2>2
  <2> HIDE DEF Run, run, w
  <2>4. QED
    BY <1>2, <2>1, <2>3, AppendProperties
<1> HIDE DEF Run, its, new, w
<1>5. /\ DOMAIN work' = Clients /\ work'[c] = NoWork
      /\ \A d \in Clients \ {c} : work'[d] = work[d]
  BY <1>2 DEF DemoTypeOK
<1>6. DemoTypeOK'
  <2>1. Live' = Live
    BY <1>2 DEF Live
  <2>2. tasks' \in [Live -> [subtasks : BOOLEAN, rows : SUBSET AssignmentRows]]
    <3>1. ASSUME NEW t \in Live
          PROVE  [tasks[t] EXCEPT !.rows = (@ \ w.gone[t]) \cup w.added[t]]
                   \in [subtasks : BOOLEAN, rows : SUBSET AssignmentRows]
      <4>1. tasks[t] \in [subtasks : BOOLEAN, rows : SUBSET AssignmentRows]
        BY DEF DemoTypeOK
      <4>2. w.added[t] \subseteq AssignmentRows
        BY <1>1 DEF DemoTypeOK, w
      <4>3. QED
        BY <4>1, <4>2
    <3>2. QED
      BY <1>2, <3>1
  <2>3. QED
    BY <1>2, <1>4, <1>5, <2>1, <2>2, NothingPlanned DEF DemoTypeOK, Run
<1>7. WorkInv'
  <2>1. \A i \in DOMAIN runs : FailedKeys(runs'[i]) = FailedKeys(runs[i])
    BY <1>4
  <2>2. ASSUME NEW d \in Clients \ {c}
        PROVE  /\ \A p, q \in work[d].rows : p.task = q.task /\ p.who = q.who => p = q
               /\ \A p \in work[d].rows : p.task \notin work[d].linked
               /\ work[d].kind = "publish" => work[d].old = 0
               /\ work[d].kind = "retry" =>
                      /\ work[d].old \in DOMAIN runs'
                      /\ {p.key : p \in work[d].rows} \subseteq FailedKeys(runs'[work[d].old])
    BY <1>4, <2>1 DEF WorkInv
  <2>3. QED
    BY <1>5, <2>2, NothingPlanned DEF WorkInv, FailedKeys, Failed
<1>8. RunInv'
  <2>1. run.retryOf < n
    BY <1>1, <1>4
  <2>2. QED
    BY <1>4, <2>1 DEF RunInv
<1>9. NobodyIsAskedTwice'
  <2> SUFFICES ASSUME ~overlapped', NEW l \in links', NEW m \in links', l.task = m.task, l.who = m.who
               PROVE  l = m
    BY DEF NobodyIsAskedTwice
  <2>1. /\ ~overlapped
        /\ \A p \in w.rows : ~Linked(p.task)
    BY <1>1, <1>2
  <2>2. \A x \in new : \E p \in w.rows : x.key = p.key /\ x.task = p.task /\ x.who = p.who
    BY <1>3 DEF new
  <2>3. \A k \in links' : \/ k \in links
                          \/ \E p \in w.rows : k = [key |-> p.key, task |-> p.task, who |-> p.who]
    BY <1>2, <2>2
  <2>4. CASE l \in links /\ m \in links
    BY <2>1, <2>4 DEF NobodyIsAskedTwice
  <2>5. CASE l \in links /\ m \notin links
    BY <2>1, <2>3, <2>5 DEF Linked
  <2>6. CASE l \notin links /\ m \in links
    BY <2>1, <2>3, <2>6 DEF Linked
  <2>7. CASE l \notin links /\ m \notin links
    BY <1>1, <2>3, <2>7
  <2>8. QED
    BY <2>4, <2>5, <2>6, <2>7
<1>10. EveryTaskIsReportedOnce'
  <2>1. \A x \in its : /\ x.status # "failed" => x.key \in LinkedKeys \/ x \in new
                       /\ x.status = "created" => x.key \notin LinkedKeys
    BY <1>3 DEF Status, new
  <2>2. ASSUME NEW x \in new
        PROVE  \E l \in links' : l.key = x.key
    <3>1. [key |-> x.key, task |-> x.task, who |-> x.who] \in links'
      BY <1>2
    <3>2. QED
      BY <3>1
  <2>3. LinkedKeys \subseteq LinkedKeys'
    BY <1>2 DEF LinkedKeys
  <2>4. \A l \in links' : l \in links \/ \E x \in new : l.key = x.key
    BY <1>2
  <2>5. ASSUME NEW l \in links'
        PROVE  \E i \in DOMAIN runs' : \A j \in DOMAIN runs' :
                   i = j <=> \E x \in runs'[j].items : x.key = l.key /\ x.status = "created"
    <3>1. CASE l \in links
      <4>1. PICK i \in DOMAIN runs : \A j \in DOMAIN runs :
                i = j <=> \E x \in runs[j].items : x.key = l.key /\ x.status = "created"
        BY <3>1 DEF EveryTaskIsReportedOnce
      <4>2. ~\E x \in its : x.key = l.key /\ x.status = "created"
        BY <2>1, <3>1 DEF LinkedKeys
      <4>3. QED
        BY <1>4, <4>1, <4>2
    <3>2. CASE l \notin links
      <4>1. PICK y \in new : l.key = y.key
        BY <2>4, <3>2
      <4>2. y \in its /\ y.status = "created" /\ y.key \notin LinkedKeys
        BY <2>1 DEF new
      <4>3. \A j \in DOMAIN runs : ~\E x \in runs[j].items : x.key = l.key /\ x.status = "created"
        BY <4>1, <4>2 DEF EveryTaskIsReportedOnce, Failed
      <4>4. n \in DOMAIN runs'
        BY <1>4
      <4>5. \A j \in DOMAIN runs' : j = n \/ j \in DOMAIN runs
        BY <1>4
      <4>6. \A j \in DOMAIN runs' :
                n = j <=> \E x \in runs'[j].items : x.key = l.key /\ x.status = "created"
        BY <1>4, <4>1, <4>2, <4>3, <4>5
      <4>7. QED
        BY <4>4, <4>6
    <3>3. QED
      BY <3>1, <3>2
  <2>6. ASSUME NEW i \in DOMAIN runs', NEW x \in runs'[i].items, x.status # "failed"
        PROVE  x.key \in LinkedKeys'
    <3>1. CASE i \in DOMAIN runs
      BY <1>4, <2>3, <2>6, <3>1 DEF EveryTaskIsReportedOnce, Failed
    <3>2. CASE i \notin DOMAIN runs
      <4>1. i = n
        BY <1>4, <3>2
      <4>2. x \in its
        BY <1>4, <4>1
      <4>3. QED
        BY <2>1, <2>2, <2>3, <2>6, <4>2 DEF LinkedKeys
    <3>3. QED
      BY <3>1, <3>2
  <2>7. QED
    BY <2>5, <2>6 DEF EveryTaskIsReportedOnce, Failed
<1>11. RetryRepeatsFailures'
  <2> SUFFICES ASSUME NEW i \in DOMAIN runs', runs'[i].retryOf # 0
               PROVE  {x.key : x \in runs'[i].items} \subseteq FailedKeys(runs'[runs'[i].retryOf])
    BY DEF RetryRepeatsFailures, FailedKeys, Failed
  <2>1. CASE i \in DOMAIN runs
    <3>1. runs'[i] = runs[i] /\ i \in 1..Len(runs) /\ Len(runs) \in Nat
      BY <1>4, <2>1
    <3>2. runs[i] \in Run /\ runs[i].retryOf < i
      BY <1>4, <2>1 DEF RunInv
    <3>3. runs[i].retryOf \in Nat
      BY <3>2 DEF Run
    <3>4. runs[i].retryOf \in DOMAIN runs
      BY <1>4, <3>1, <3>2, <3>3
    <3>5. runs'[runs[i].retryOf] = runs[runs[i].retryOf]
      BY <1>4, <3>4
    <3>6. {x.key : x \in runs[i].items} \subseteq FailedKeys(runs[runs[i].retryOf])
      BY <2>1, <3>1 DEF RetryRepeatsFailures
    <3>7. QED
      BY <3>1, <3>5, <3>6
  <2>2. CASE i \notin DOMAIN runs
    <3>1. i = n /\ runs'[i] = run
      BY <1>4, <2>2
    <3>2. w.old \in DOMAIN runs /\ {p.key : p \in w.rows} \subseteq FailedKeys(runs[w.old])
      BY <1>1, <3>1
    <3>3. {x.key : x \in its} \subseteq {p.key : p \in w.rows}
      BY <1>3
    <3>4. runs'[i].items = its /\ runs'[i].retryOf = w.old /\ runs'[w.old] = runs[w.old]
      BY <1>4, <3>1, <3>2
    <3>5. QED
      BY <3>2, <3>3, <3>4
  <2>3. QED
    BY <2>1, <2>2
<1>12. QED
  BY <1>6, <1>7, <1>8, <1>9, <1>10, <1>11

\* A request that fails has done nothing.
LEMMA AbandonStep ==
    ASSUME DemoInv, NEW c \in Clients, Abandon(c)
    PROVE  DemoInv'
<1>1. UNCHANGED <<project, tasks, grouped, nextId, links, runs, overlapped>>
  BY DEF Abandon
<1>2. /\ DOMAIN work' = Clients /\ work'[c] = NoWork
      /\ \A d \in Clients \ {c} : work'[d] = work[d]
  BY DEF Abandon, DemoInv, DemoTypeOK
<1>3. DemoTypeOK'
  BY <1>1, <1>2, NothingPlanned DEF DemoInv, DemoTypeOK, Live
<1>4. WorkInv'
  BY <1>1, <1>2, NothingPlanned DEF DemoInv, WorkInv, FailedKeys, Failed
<1>5. QED
  BY <1>1, <1>3, <1>4, RunsKept DEF DemoInv

\* The start: imported rows, numbered from one, and nothing published.
LEMMA DemoStarts ==
    ASSUME DemoInit
    PROVE  DemoInv
<1>1. PICK whos \in SUBSET (Employees \cup Names), sub \in BOOLEAN :
          /\ tasks = [t \in Tasks |-> [subtasks |-> sub, rows |-> NumberedRows(whos, FALSE, 1)]]
          /\ nextId = [t \in Tasks |-> Cardinality(whos) + 1]
  BY DEF DemoInit
<1>2. NumberedRows(whos, FALSE, 1) \subseteq AssignmentRows
  BY RowsTyped
<1>3. Cardinality(whos) \in Nat
  BY DirectoryAssumption, FS_Union, FS_Subset, FS_CardinalityType
<1>4. links = {} /\ runs = <<>> /\ work = [d \in Clients |-> NoWork]
  BY DEF DemoInit
<1>5. DemoTypeOK
  <2>1. Live = Tasks
    BY <1>1 DEF Live
  <2>2. tasks \in [Tasks -> [subtasks : BOOLEAN, rows : SUBSET AssignmentRows]]
    BY <1>1, <1>2
  <2>3. nextId \in [Tasks -> Nat]
    BY <1>1, <1>3
  <2>4. runs \in Seq([items : SUBSET RunItems, retryOf : Nat])
    BY <1>4
  <2>5. QED
    BY <1>4, <2>1, <2>2, <2>3, <2>4, NothingPlanned DEF DemoTypeOK
<1>6. WorkInv
  BY <1>4, NothingPlanned DEF WorkInv
<1>7. QED
  BY <1>4, <1>5, <1>6 DEF DemoInv, RunInv, NobodyIsAskedTwice,
     EveryTaskIsReportedOnce, RetryRepeatsFailures

\* Together: the inductive invariant of demonstration publication.
THEOREM DemoInvariance == DemoSpec => []DemoInv
<1>1. DemoInit => DemoInv
  BY DemoStarts
<1>2. DemoInv /\ [DemoNext]_demoVars => DemoInv'
  <2> SUFFICES ASSUME DemoInv, [DemoNext]_demoVars PROVE DemoInv'
    OBVIOUS
  <2>1. CASE Editor
    BY <2>1, EditorStep
  <2>2. ASSUME NEW c \in Clients, BeginPublish(c) PROVE DemoInv'
    <3>1. MayPlan(c) /\ work' = [work EXCEPT ![c] = Work("publish", 0, Planned)]
      BY <2>2 DEF BeginPublish
    <3>2. QED
      BY <3>1, BeginStep
  <2>3. ASSUME NEW c \in Clients, NEW i \in DOMAIN runs, BeginRetry(c, i) PROVE DemoInv'
    <3> DEFINE planned == {p \in Planned : p.key \in FailedKeys(runs[i])}
    <3>1. MayPlan(c) /\ work' = [work EXCEPT ![c] = Work("retry", i, planned)]
      BY <2>3 DEF BeginRetry
    <3>2. {p.key : p \in planned} \subseteq FailedKeys(runs[i]) /\ planned \subseteq Planned
      OBVIOUS
    <3> HIDE DEF planned
    <3>3. QED
      BY <3>1, <3>2, BeginStep
  <2>4. ASSUME NEW c \in Clients, NEW fails, Commit(c, fails) PROVE DemoInv'
    BY <2>4, CommitStep
  <2>5. ASSUME NEW c \in Clients, Abandon(c) PROVE DemoInv'
    BY <2>5, AbandonStep
  <2>6. CASE UNCHANGED demoVars
    <3>1. /\ links' = links /\ runs' = runs /\ overlapped' = overlapped
          /\ tasks' = tasks /\ nextId' = nextId /\ work' = work
      BY <2>6 DEF demoVars
    <3>2. DemoTypeOK'
      BY <3>1 DEF DemoInv, DemoTypeOK, Live
    <3>3. WorkInv'
      BY <3>1 DEF DemoInv, WorkInv, FailedKeys, Failed
    <3>4. QED
      BY <3>1, <3>2, <3>3, RunsKept DEF DemoInv
  <2>7. QED
    BY <2>1, <2>2, <2>3, <2>4, <2>5, <2>6 DEF DemoNext
<1>3. QED
  BY <1>1, <1>2, PTL DEF DemoSpec

\* Nobody gets two demonstration tasks for one instruction, unless a retry overlapped a
\* publication (planner.py:12).
THEOREM AskedOnce == DemoSpec => []NobodyIsAskedTwice
<1>1. DemoInv => NobodyIsAskedTwice
  BY DEF DemoInv
<1>2. QED
  BY <1>1, DemoInvariance, PTL

\* Links and the reports of runs agree, whatever runs overlap (demo_publication.py:100).
THEOREM ReportedOnce == DemoSpec => []EveryTaskIsReportedOnce
<1>1. DemoInv => EveryTaskIsReportedOnce
  BY DEF DemoInv
<1>2. QED
  BY <1>1, DemoInvariance, PTL

\* A retry creates no task that the run it repeats did not fail on
\* (demo_publication.py:161).
THEOREM FailuresRepeated == DemoSpec => []RetryRepeatsFailures
<1>1. DemoInv => RetryRepeatsFailures
  BY DEF DemoInv
<1>2. QED
  BY <1>1, DemoInvariance, PTL
=============================================================================
