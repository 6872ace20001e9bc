----------------------------- MODULE Participants -----------------------------
(***************************************************************************)
(* Who carries out an instruction (services/protocols/participants.py,     *)
(* apply_task_data of services/protocols/editor.py): people picked by hand,*)
(* names an import could not resolve, and lists of participants that are   *)
(* chosen as a whole and expanded again when the protocol is published.    *)
(* One instruction of one protocol.  Requests are atomic: they hold the    *)
(* protocol's lock and claim its version (module DocumentVersion).         *)
(* Every employee has a Bitrix24 account here.                             *)
(***************************************************************************)
EXTENDS Directory

CONSTANTS
    Lists,        \* identifiers of ProtocolParticipantGroup
    Attendees     \* the list every protocol has, which cannot be deleted

ASSUME ParticipantsAssumption == Attendees \in Lists /\ None \notin Lists

VARIABLES
    lists,      \* the participant lists of the protocol
    members,    \* their members
    rows,       \* the ProtocolTaskAssignment rows of the instruction
    chosen,     \* its ProtocolTaskParticipantGroup rows
    primary,    \* ProtocolTask.primary_employee_id
    handed      \* employees with a published link of the instruction

vars == <<lists, members, rows, chosen, primary, handed>>

\* ProtocolTaskAssignment: employee_id, source_participant_group_id and
\* individual_title.  The order of the rows is left out.
Rows == [person : Employees \cup {None}, list : Lists \cup {None}, name : Names \cup {None}]

Row(e, g) == [person |-> e, list |-> g, name |-> None]

People(R)     == {r.person : r \in R} \ {None}
Direct(R)     == {r \in R : r.list = None}
Sources(R)    == {r.list : r \in R} \ {None}
Unresolved(R) == {r.name : r \in {s \in R : s.person = None}}
ByHand(S)     == {Row(e, None) : e \in S}
Several(S)    == \E a, b \in S : a # b

TypeOK ==
    /\ lists \subseteq Lists
    /\ members \in [Lists -> SUBSET Employees]
    /\ rows \subseteq Rows
    /\ chosen \subseteq Lists
    /\ primary \in Employees \cup {None}
    /\ handed \subseteq Employees
-----------------------------------------------------------------------------
(***************************************************************************)
(* Where an instruction comes from.                                        *)
(***************************************************************************)

\* The wizard assigns one employee, or copies the members of a list into rows
\* that name the list without choosing it.
WizardRows(mem, g) == {Row(e, g) : e \in mem[g]}

\* The import writes a row per name of the document, resolved or not.
ImportRows == UNION {{{[person |-> who[n], list |-> None, name |-> n] : n \in S} :
                         who \in [S -> Employees \cup {None}]} : S \in SUBSET Names}

Init ==
    /\ lists \in {L \in SUBSET Lists : Attendees \in L}
    /\ members \in {m \in [Lists -> SUBSET Employees] : \A g \in Lists \ lists : m[g] = {}}
    /\ rows \in {ByHand({e}) : e \in Employees} \cup {WizardRows(members, g) : g \in lists}
                \cup ImportRows
    /\ chosen = {}
    /\ primary = None
    /\ handed = {}
-----------------------------------------------------------------------------
(***************************************************************************)
(* Editing the instruction.                                                *)
(***************************************************************************)

\* The definitions named "...Bug" are the one that follows them with a plausible
\* mistake; nothing uses them but the checks that a property notices the mistake.
\* Here: whoever is on a list is put down to the list, picked by hand or not.
ExpansionsClearBug(R, G) ==
    LET joining == UNION {members[g] : g \in G}
    IN  {{r \in Direct(R) : r.person \notin joining} \cup {Row(e, from[e]) : e \in joining} :
           from \in {f \in [joining -> G] : \A e \in joining : e \in members[f[e]]}}

\* expand_selected_groups: rows that come from a list are replaced by the present
\* members of the lists in G who are not assigned yet.  Somebody in two lists is
\* put down to the first; which one that is depends on an order left out here.
Expansions(R, G) ==
    LET joining == (UNION {members[g] : g \in G}) \ People(Direct(R))
    IN  {Direct(R) \cup {Row(e, from[e]) : e \in joining} :
           from \in {f \in [joining -> G] : \A e \in joining : e \in members[f[e]]}}

\* Without a responsible the only assignee is the responsible.
OnlyOne(R) == IF \E e \in Employees : People(R) = {e}
              THEN CHOOSE e \in Employees : People(R) = {e}
              ELSE None

\* "primary_employee_id" was sent, or was not.
Named(p, R) == IF p # None THEN p ELSE OnlyOne(R)
Kept(R)     == IF primary \in People(R) THEN primary ELSE OnlyOne(R)

\* The editor page sends everything it shows: the people picked by hand, the
\* lists, the responsible.  All rows are written anew.
EditorSave(people, G, p) ==
    /\ G \subseteq lists
    /\ \E R \in Expansions(ByHand(people), G) :
          /\ p \in People(R) \cup {None}
          /\ rows' = R
          /\ primary' = Named(p, R)
    /\ chosen' = G
    /\ UNCHANGED <<lists, members, handed>>

\* Here: the responsible of the form is not checked.
CardSaveBug(people, p) ==
    /\ rows' = ByHand(people)
    /\ primary' = Named(p, rows')
    /\ UNCHANGED <<lists, members, chosen, handed>>

\* The page of one instruction sends people only, members of lists included.
CardSave(people, p) ==
    /\ p \in people \cup {None}
    /\ rows' = ByHand(people)
    /\ primary' = Named(p, rows')
    /\ UNCHANGED <<lists, members, chosen, handed>>

\* Bulk editing adds an employee to everybody assigned, ...
BulkAssign(e) ==
    /\ rows' = ByHand(People(rows) \cup {e})
    /\ primary' = Kept(rows')
    /\ UNCHANGED <<lists, members, chosen, handed>>

\* ... or changes another field, which still looks at the responsible.
BulkOther ==
    /\ primary' = Kept(rows)
    /\ UNCHANGED <<lists, members, rows, chosen, handed>>

\* match_source_name: the unresolved row gets its employee; a name that has no row
\* any more gets a new one.  The responsible is not looked at.
MatchAssignee(n, e) ==
    LET open == {r \in rows : r.name = n /\ r.person = None}
    IN  /\ rows' = IF open # {} THEN (rows \ open) \cup {[r EXCEPT !.person = e] : r \in open}
                   ELSE IF e \in People(rows) THEN rows
                   ELSE rows \cup {Row(e, None)}
        /\ UNCHANGED <<lists, members, chosen, primary, handed>>
-----------------------------------------------------------------------------
(***************************************************************************)
(* Editing the lists.  None of it touches the instruction, but deletion.   *)
(***************************************************************************)

\* From the page, a template, the attendees or as a copy of a list.
CreateList(g, S) ==
    /\ g \notin lists
    /\ lists' = lists \cup {g}
    /\ members' = [members EXCEPT ![g] = S]
    /\ UNCHANGED <<rows, chosen, primary, handed>>

ReplaceMembers(g, S) ==
    /\ g \in lists
    /\ members' = [members EXCEPT ![g] = S]
    /\ UNCHANGED <<lists, rows, chosen, primary, handed>>

\* A new employee of the directory, so one no list has.
AddManualMember(g, e) ==
    /\ g \in lists
    /\ \A h \in lists : e \notin members[h]
    /\ e \notin People(rows)
    /\ members' = [members EXCEPT ![g] = @ \cup {e}]
    /\ UNCHANGED <<lists, rows, chosen, primary, handed>>

CopyAttendees(g) ==
    /\ g \in lists
    /\ members' = [members EXCEPT ![g] = @ \cup members[Attendees]]
    /\ UNCHANGED <<lists, rows, chosen, primary, handed>>

\* The choice is deleted with the list (CASCADE); its rows stay, without their
\* source (SET NULL): the members become people picked by hand.
RemoveList(g) ==
    /\ g \in lists \ {Attendees}
    /\ lists' = lists \ {g}
    /\ members' = [members EXCEPT ![g] = {}]
    /\ chosen' = chosen \ {g}
    /\ rows' = {IF r.list = g THEN [r EXCEPT !.list = None] ELSE r : r \in rows}
    /\ UNCHANGED <<primary, handed>>
-----------------------------------------------------------------------------
(***************************************************************************)
(* Publication: protocol_plan refreshes the rows, then the protocol is     *)
(* validated and the plan compared with the links there are.  A refusal    *)
(* rolls the refresh back; a run that breaks off at the first assignee or  *)
(* at a later one (module TaskPublication) has committed it already.       *)
(***************************************************************************)

\* refresh_protocol_group_assignments: chosen lists, else the lists of old rows.
Effective == IF chosen # {} THEN chosen ELSE Sources(rows)

\* Validation and plan: assignees, all resolved, and a responsible among several.
Publishable(R) ==
    /\ R # {}
    /\ Unresolved(R) = {}
    /\ Several(People(R)) => primary \in People(R)

\* Here: validation looks at the rows before they are refreshed.
PublishStaleBug(H) ==
    \E R \in Expansions(rows, Effective) :
        /\ Publishable(rows)
        /\ handed \cup H \subseteq People(R)
        /\ rows' = R
        /\ chosen' = Effective
        /\ handed' = handed \cup H
        /\ UNCHANGED <<lists, members, primary>>

\* The run links the employees in H, all that are left if nothing goes wrong.
Publish(H) ==
    \E R \in Expansions(rows, Effective) :
        /\ Publishable(R)
        /\ handed \cup H \subseteq People(R)
        /\ rows' = R
        /\ chosen' = Effective
        /\ handed' = handed \cup H
        /\ UNCHANGED <<lists, members, primary>>
-----------------------------------------------------------------------------
EditStep ==
    \/ \E people \in SUBSET Employees, G \in SUBSET Lists, p \in Employees \cup {None} :
          EditorSave(people, G, p)
    \/ \E people \in SUBSET Employees, p \in Employees \cup {None} : CardSave(people, p)
    \/ \E e \in Employees : BulkAssign(e)
    \/ BulkOther
    \/ \E n \in Names, e \in Employees : MatchAssignee(n, e)

ListStep ==
    \/ \E g \in Lists, S \in SUBSET Employees : CreateList(g, S) \/ ReplaceMembers(g, S)
    \/ \E g \in Lists, e \in Employees : AddManualMember(g, e)
    \/ \E g \in Lists : CopyAttendees(g) \/ RemoveList(g)

PublishStep == \E H \in SUBSET Employees : Publish(H)

Next == EditStep \/ ListStep \/ PublishStep

Spec == Init /\ [][Next]_vars
-----------------------------------------------------------------------------
(***************************************************************************)
(* Properties.                                                             *)
(***************************************************************************)

\* A list an assignment comes from exists, and is one of the lists the instruction
\* is assigned to, except for the rows of the wizard, which chooses none; nobody
\* is assigned through two lists, and only employees are assigned through one.
SourcesAreChosen ==
    /\ chosen \cup Sources(rows) \subseteq lists
    /\ chosen # {} => Sources(rows) \subseteq chosen
    /\ \A r, s \in rows : r.list # None /\ s.list # None /\ r.person = s.person => r = s
    /\ \A r \in rows : r.list # None => r.person # None

\* The responsible is an assignee, or there is none.
HasResponsible == primary \in People(rows) \cup {None}

\* However the people and the lists are edited, by whichever page, a responsible who
\* is an assignee does not stop being one.  Only the refresh of a publication may
\* take the responsible away with a list: validation accepts a single assignee.
ResponsibleIsAssigned ==
    [][HasResponsible /\ ~ HasResponsible' => PublishStep]_vars

\* Only an edit of the instruction takes away a person picked by hand or a name not
\* yet resolved: editing lists, deleting one, and publishing do not.
HandPickedStay ==
    [][Direct(rows) \ Direct(rows') # {} => EditStep]_vars

\* What is published is what the page promises at that moment: everybody picked by
\* hand, and exactly the present members of the lists, those of the wizard
\* included; several people have a responsible among them; and nobody who has a
\* task already is left out, not even after a run that broke off.
PublishedPlanIsFresh ==
    [][handed' # handed =>
          /\ People(rows') = People(Direct(rows)) \cup (UNION {members[g] : g \in chosen'})
          /\ chosen \cup Sources(rows) \subseteq chosen'
          /\ Several(People(rows')) => primary' \in People(rows')
          /\ handed \subseteq handed' /\ handed' \subseteq People(rows')]_vars

=============================================================================
