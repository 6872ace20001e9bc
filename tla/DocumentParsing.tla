---------------------------- MODULE DocumentParsing ----------------------------
(***************************************************************************)
(* Recognition of one imported DOCX file (parsers/protocol.py, called by   *)
(* parse_file of services/imports/service.py): the choice of a parser, the *)
(* scanner of МЕМО documents, the universal scanner, and the attendance    *)
(* list, which is extracted separately and laid over either result.        *)
(*                                                                         *)
(* A line is what the regular expressions tell of its text: the kind they  *)
(* give it, the value after a label, whether a date stands in it, and its  *)
(* letters.  An element of a document is a paragraph (one line), perhaps   *)
(* in the style of a heading, or a table row.                              *)
(***************************************************************************)
EXTENDS Naturals, FiniteSets, Sequences, Functions

CONSTANTS
    Documents,  \* sequences of elements [row, styled, cells]
    MarkSets,   \* words found in the name and the text of a file
    Requested,  \* parser types a request may ask for, Absent for the automatic choice
    Absent      \* the value of a field that holds none

Dates == {"none", "valid", "invalid"}
Letters == {"capital", "mixed", "none"}
Kinds == {"attendees", "agenda", "heading", "spaced", "columns", "fio", "stop",
          "block", "numbered", "assignee", "deadline", "plain", "blank"}
ParserTypes == {"memo_protocol", "memo", "ceo_protocol", "deputy_ceo_protocol", "universal"}

\* A line is named by its place among the lines, its value by a number; a numbered line
\* has its number, which also names the text behind it.
Words == {w \in [kind : Kinds, value : Nat \cup {Absent}, date : Dates, letters : Letters] :
            w.kind = "numbered" => w.value # Absent}

\* An element without any text is not read; the empty cells of a row are, and rows have
\* no style (docx.py:60).
Elements == {e \in [row : BOOLEAN, styled : BOOLEAN, cells : Seq(Words)] :
                /\ IF e.row THEN ~e.styled ELSE Len(e.cells) = 1
                /\ \E c \in DOMAIN e.cells : e.cells[c].kind # "blank"}

ASSUME DocumentsAssumption == Documents \subseteq Seq(Elements)
ASSUME RequestedAssumption == Requested \subseteq ParserTypes \cup {Absent}

\* The open instruction.
Instructions == [number : Nat, raw : Seq(Nat), names : Seq(Nat), date : Nat \cup {Absent},
                 block : Nat \cup {Absent}]

\* What a continuation line of it means.
Modes == {"text", "assignee", "deadline"}
ASSUME AbsentAssumption == Absent \notin Nat \cup Instructions \cup Modes \cup ParserTypes

VARIABLES
    doc,      \* the elements of the file
    marks,    \* its marks
    parser,   \* the parser chosen, Absent before
    pc,       \* "choose", "memo", "report", "universal", "done", "failed"
    lines,    \* norm_elements: the lines of the document with their elements
    i,        \* the line (memo) or element (universal) read next
    current,  \* the open instruction, Absent without one
    mode,     \* what a continuation line of it means
    block,    \* the line or element that gave the present section
    expected, \* the next number of an instruction
    tasks,    \* finished instructions
    rejected, \* lines of rejection_reasons, which a successful scan throws away (686)
    titles,   \* lines taken for the name of the block before them
    dropped,  \* history: elements the universal scanner passes without any note
    errors    \* errors of the result

scan == <<i, current, mode, block, expected, tasks, rejected, titles, dropped>>
parsingVars == <<doc, marks, parser, pc, lines, scan, errors>>

ParsingInit ==
    /\ doc \in Documents
    /\ marks \in MarkSets
    /\ parser = Absent
    /\ pc = "choose"
    /\ lines = <<>>
    /\ i = 1
    /\ current = Absent
    /\ mode = Absent
    /\ block = Absent
    /\ expected = 1
    /\ tasks = <<>>
    /\ rejected = {}
    /\ titles = {}
    /\ dropped = {}
    /\ errors = {}
-----------------------------------------------------------------------------
(***************************************************************************)
(* The choice of a parser.                                                 *)
(***************************************************************************)

Filled(e) ==
    LET upTo[c \in 0..Len(e.cells)] ==
          IF c = 0 THEN <<>>
          ELSE IF e.cells[c].kind = "blank" THEN upTo[c - 1]
          ELSE Append(upTo[c - 1], e.cells[c])
    IN  upTo[Len(e.cells)]

\* Table cells become lines of their own, in reading order; empty ones go.
Normalized(d) ==
    LET upTo[k \in 0..Len(d)] ==
          IF k = 0 THEN <<>>
          ELSE upTo[k - 1] \o
               [c \in DOMAIN Filled(d[k]) |-> [element |-> k, line |-> Filled(d[k])[c]]]
    IN  upTo[Len(d)]

Has(d, kind) == \E k \in DOMAIN d : \E c \in DOMAIN d[k].cells : d[k].cells[c].kind = kind

\* The heading "РЕШИЛИ", alone in its line; "spaced" if it is spaced out or in quotes.
Heads == {"heading", "spaced"}

\* The heading counts when nothing else stands in its row.
MemoFeatures ==
    {f \in {"filename_memo", "memo"} : f \in marks \/ "filename_memo" \in marks}
    \cup {f \in {"assignee", "deadline", "block", "stop"} : Has(doc, f)}
    \cup {f \in {"heading"} : \E k \in DOMAIN doc :
             Len(Filled(doc[k])) = 1 /\ Filled(doc[k])[1].kind \in Heads}

\* The confidences of the parsers that reach 75 percent.
Confident ==
    {c \in {<<95, "memo_protocol">>} :
        Cardinality(MemoFeatures) >= 4 /\ "heading" \in MemoFeatures}
    \cup {c \in {<<90, "memo">>} : "letter" \in marks}
    \cup {c \in {<<88, "ceo_protocol">>} : "ceo" \in marks}
    \cup {c \in {<<86, "deputy_ceo_protocol">>} : "deputy" \in marks}

\* Without a confident parser the best is the universal one, with a warning.
Automatic ==
    IF Confident = {} THEN "universal"
    ELSE (CHOOSE c \in Confident : \A d \in Confident : c[1] >= d[1])[2]

Headings(ls) == {k \in DOMAIN ls : ls[k].line.kind \in Heads}
Start(ls)    == CHOOSE k \in Headings(ls) : \A n \in Headings(ls) : k <= n

\* parse_file; only МЕМО has a parse() of its own.
Choose ==
    /\ pc = "choose"
    /\ \E r \in Requested : parser' = IF r = Absent THEN Automatic ELSE r
    /\ IF parser' = "memo_protocol"
       THEN /\ lines' = Normalized(doc)
            /\ pc' = "memo"
            /\ i' = IF Headings(lines') = {} THEN 0 ELSE Start(lines') + 1
       ELSE /\ pc' = "universal"
            /\ UNCHANGED <<lines, i>>
    /\ UNCHANGED <<doc, marks, current, mode, block, expected, tasks, rejected, titles, dropped,
                   errors>>
-----------------------------------------------------------------------------
(***************************************************************************)
(* The scanner of МЕМО documents.                                          *)
(***************************************************************************)

\* MemoProtocolParser.parse without the heading "РЕШИЛИ".
NoHeading ==
    /\ pc = "memo"
    /\ i = 0
    /\ errors' = {"no heading"}
    /\ rejected' = DOMAIN lines
    /\ pc' = "done"
    /\ UNCHANGED <<doc, marks, parser, lines, i, current, mode, block, expected, tasks, titles,
                   dropped>>

Labels  == {"assignee", "deadline"}
Line(k) == lines[k].line
Reads(kinds) == pc = "memo" /\ i \in DOMAIN lines /\ Line(i).kind \in kinds

\* Kinds that mean nothing to this scanner.
Text == Kinds \ ({"stop", "block", "numbered"} \cup Labels)

Warnings(c) ==
    {w \in {"assignee"} : c.names = <<>>} \cup {w \in {"deadline"} : c.date = Absent}
    \cup {w \in {"sequence"} : c.number # expected}

\* finish(): the open instruction, if there is one, is added to the result.
Finish ==
    IF current = Absent THEN UNCHANGED <<tasks, expected>>
    ELSE /\ tasks' = Append(tasks,
              [number |-> current.number, raw |-> current.raw, names |-> current.names,
               date |-> current.date, block |-> current.block, warnings |-> Warnings(current)])
         /\ expected' = current.number + 1

\* begin(), after Finish.
Opened(number) ==
    [number |-> number, raw |-> <<i>>, names |-> <<>>, date |-> Absent, block |-> block]

Passed(n) == i' = i + n
Unmoved   == UNCHANGED <<doc, marks, parser, lines, dropped>>

\* The definitions named "...Bug" are the one that follows them with a plausible
\* mistake; nothing uses them but the checks that a property notices the mistake.
\* Here: the scanner goes on after the line.
StopLineBug ==
    /\ Reads({"stop"})
    /\ rejected' = rejected \cup {i}
    /\ Finish
    /\ current' = Absent
    /\ Unmoved
    /\ UNCHANGED <<pc, i, mode, block, titles, errors>>

\* A line such as "Мемо подготовил" ends the resolutions.
StopLine ==
    /\ Reads({"stop"})
    /\ rejected' = rejected \cup {i}
    /\ Finish
    /\ current' = Absent
    /\ pc' = "report"
    /\ Unmoved
    /\ UNCHANGED <<i, mode, block, titles, errors>>

\* Here: any next line is taken for the name.
NamesBlockBug(k) == k \in DOMAIN lines

\* An empty block heading takes its name from the next line, whatever that is, unless
\* it is numbered.
NamesBlock(k) == k \in DOMAIN lines /\ Line(k).kind # "numbered"

BlockLine ==
    /\ Reads({"block"})
    /\ rejected' = rejected \cup {i}
    /\ Finish
    /\ current' = Absent
    /\ mode' = Absent
    /\ CASE Line(i).value # Absent -> block' = i /\ Passed(1) /\ UNCHANGED titles
         [] Line(i).value = Absent /\ NamesBlock(i + 1) ->
              block' = i + 1 /\ Passed(2) /\ titles' = titles \cup {i + 1}
         [] OTHER -> block' = Absent /\ Passed(1) /\ UNCHANGED titles
    /\ Unmoved
    /\ UNCHANGED <<pc, errors>>

\* A number starts an instruction; what the one before it lacks is only logged.
NumberedLine ==
    /\ Reads({"numbered"})
    /\ Finish
    /\ current' = Opened(Line(i).value)
    /\ mode' = "text"
    /\ Passed(1)
    /\ Unmoved
    /\ UNCHANGED <<pc, block, rejected, titles, errors>>

\* Here: the scanner does not go on.
LonelyLabelBug ==
    /\ Reads(Labels)
    /\ current = Absent
    /\ rejected' = rejected \cup {i}
    /\ Unmoved
    /\ UNCHANGED <<pc, i, current, mode, block, expected, tasks, titles, errors>>

\* A label before the first instruction of a block.
LonelyLabel ==
    /\ Reads(Labels)
    /\ current = Absent
    /\ rejected' = rejected \cup {i}
    /\ Passed(1)
    /\ Unmoved
    /\ UNCHANGED <<pc, current, mode, block, expected, tasks, titles, errors>>

\* Text starts an instruction where none is open, or after a deadline.
TextOpens ==
    /\ Reads(Text)
    /\ current # Absent => current.date # Absent
    /\ Finish
    /\ current' = Opened(Len(tasks') + 1)
    /\ mode' = "text"
    /\ Passed(1)
    /\ Unmoved
    /\ UNCHANGED <<pc, block, rejected, titles, errors>>

\* current["raw"] and the fields of the open instruction.
Continue(c) ==
    /\ current' = c
    /\ Unmoved
    /\ UNCHANGED <<pc, block, expected, tasks, rejected, titles, errors>>

Longer(taken) == [current EXCEPT !.raw = @ \o taken]

\* _parse_numeric_date: a date that is none leaves the field as it was.
Dated(c, k) == IF Line(k).date = "valid" THEN [c EXCEPT !.date = k] ELSE c

AssigneeLabel ==
    /\ Reads({"assignee"})
    /\ current # Absent
    /\ mode' = "assignee"
    /\ Continue([Longer(<<i>>) EXCEPT !.names = IF Line(i).value = Absent THEN @ ELSE Append(@, i)])
    /\ Passed(1)

\* Here: the date of the next line is read and the line left for the next turn.
DeadlineLabelBug ==
    /\ Reads({"deadline"})
    /\ current # Absent
    /\ mode' = "deadline"
    /\ IF Line(i).value = Absent /\ i + 1 \in DOMAIN lines /\ Line(i + 1).date # "none"
       THEN Continue(Dated(Longer(<<i, i + 1>>), i + 1)) /\ Passed(1)
       ELSE Continue(Dated(Longer(<<i>>), i)) /\ Passed(1)

\* An empty label takes the next line, whatever it is, if a date stands in it.
DeadlineLabel ==
    /\ Reads({"deadline"})
    /\ current # Absent
    /\ mode' = "deadline"
    /\ IF Line(i).value = Absent /\ i + 1 \in DOMAIN lines /\ Line(i + 1).date # "none"
       THEN Continue(Dated(Longer(<<i, i + 1>>), i + 1)) /\ Passed(2)
       ELSE Continue(Dated(Longer(<<i>>), i)) /\ Passed(1)

\* A line without a label continues the last label or the text.
Continuation ==
    /\ Reads(Text)
    /\ current # Absent
    /\ current.date = Absent
    /\ CASE mode = "assignee" -> Continue([Longer(<<i>>) EXCEPT !.names = Append(@, i)])
         [] mode = "deadline" -> Continue(Dated(Longer(<<i>>), i))
         [] mode = "text"     -> Continue(Longer(<<i>>))
    /\ Passed(1)
    /\ UNCHANGED mode

\* Here: the end is looked for one line too early.
EndOfLinesBug ==
    /\ pc = "memo"
    /\ i = Len(lines)
    /\ Finish
    /\ current' = Absent
    /\ pc' = "report"
    /\ Unmoved
    /\ UNCHANGED <<i, mode, block, rejected, titles, errors>>

EndOfLines ==
    /\ pc = "memo"
    /\ i = Len(lines) + 1
    /\ Finish
    /\ current' = Absent
    /\ pc' = "report"
    /\ Unmoved
    /\ UNCHANGED <<i, mode, block, rejected, titles, errors>>

\* Labels count wherever they stand in the document, before the heading too.
Report ==
    /\ pc = "report"
    /\ errors' =
         IF Has(doc, "assignee") /\ \E n \in DOMAIN tasks : tasks[n].names = <<>>
         THEN {"unassigned"}
         ELSE {e \in {"no tasks"} : tasks = <<>>}
    /\ pc' = "done"
    /\ Unmoved
    /\ UNCHANGED scan

MemoStep ==
    \/ NoHeading \/ StopLine \/ BlockLine \/ NumberedLine \/ LonelyLabel \/ TextOpens
    \/ AssigneeLabel \/ DeadlineLabel \/ Continuation \/ EndOfLines \/ Report
-----------------------------------------------------------------------------
(***************************************************************************)
(* The attendance list.                                                    *)
(***************************************************************************)

First(e) == Filled(e)[1]

\* Here: "РЕШИЛИ" is missing among the stop words.
EndsListBug(e, found) == First(e).kind \in {"agenda", "numbered"} \/ (e.styled /\ found # {})

\* Numbers end the list; so do its stop words, which "РЕШИЛИ" is among unless it is
\* spaced out or in quotes, and a heading by style once a name was found.
EndsList(e, found) ==
    First(e).kind \in {"agenda", "heading", "numbered"} \/ (e.styled /\ found # {})

\* add(): a number before a name is cut off (protocol.py:270); a name is listed once, with
\* the element that gave it first.
Name(l) == IF l.kind = "numbered" THEN [l EXCEPT !.kind = "plain"] ELSE l

Listed(found, cells, k) ==
    found \cup {[name |-> n, element |-> k] :
        n \in {Name(l) : l \in {c \in cells : c.kind # "blank"}} \ {a.name : a \in found}}

\* Names after the heading itself, in its line or in the other cells of its row.
InHeading(e) ==
    IF Len(e.cells) > 1 THEN {e.cells[c] : c \in 2..Len(e.cells)}
    ELSE {[e.cells[1] EXCEPT !.kind = "plain", !.value = v] : v \in {e.cells[1].value} \ {Absent}}

\* One turn of the loop of extract_attendees.
Attend(a, d, k) ==
    LET l == First(d[k]) IN
    IF a.phase = "over" THEN a
    ELSE IF l.kind = "attendees"
    THEN [phase |-> "active", found |-> Listed(a.found, InHeading(d[k]), k)]
    ELSE IF a.phase = "before" THEN a
    ELSE IF EndsList(d[k], a.found) THEN [a EXCEPT !.phase = "over"]
    ELSE IF d[k].row /\ l.kind = "fio" THEN a
    ELSE [a EXCEPT !.found = Listed(@, {d[k].cells[1]}, k)]

Attendees(d) ==
    LET upTo[k \in 0..Len(d)] ==
          IF k = 0 THEN [phase |-> "before", found |-> {}] ELSE Attend(upTo[k - 1], d, k)
    IN  upTo[Len(d)].found

AttendeeElements(d) == {a.element : a \in Attendees(d)}
-----------------------------------------------------------------------------
(***************************************************************************)
(* The universal scanner.                                                  *)
(***************************************************************************)

AtElement == pc = "universal" /\ i \in DOMAIN doc
Skipped(k) == First(doc[k]).kind = "attendees" \/ k \in AttendeeElements(doc)

Numbered(k) == First(doc[k]).kind = "numbered"

\* More than three letters, all of them capitals.
Capital(k) ==
    LET letters == {w.letters : w \in Range(Filled(doc[k]))} IN
    "capital" \in letters /\ "mixed" \notin letters

\* Here: numbered lines are headings too.
SectionBug(k) == doc[k].styled \/ Capital(k)

\* _is_section: a heading by style or in capitals, unless it is numbered; the words do not
\* matter.
Section(k) == ~Numbered(k) /\ (doc[k].styled \/ Capital(k))

\* A row is an instruction unless its first cell speaks of "поручения".
TableTask(k) == doc[k].row /\ Len(doc[k].cells) >= 2 /\ doc[k].cells[1].kind # "columns"

IsTask(k) == Numbered(k) \/ TableTask(k) \/ (~doc[k].row /\ k > 1)

\* The date in the third cell of a table, or anywhere in the text.
DateIn(k) ==
    IF TableTask(k) /\ Len(doc[k].cells) > 2 THEN doc[k].cells[3].date
    ELSE LET dated == {c \in DOMAIN doc[k].cells : doc[k].cells[c].date # "none"} IN
         IF dated = {} THEN "none"
         ELSE doc[k].cells[CHOOSE c \in dated : \A n \in dated : c <= n].date

Kept == UNCHANGED <<doc, marks, parser, lines, current, mode, expected, rejected, titles, errors>>

Skip ==
    /\ AtElement
    /\ Skipped(i)
    /\ Passed(1)
    /\ Kept
    /\ UNCHANGED <<pc, block, tasks, dropped>>

SectionHeading ==
    /\ AtElement
    /\ ~Skipped(i)
    /\ Section(i)
    /\ block' = i
    /\ Passed(1)
    /\ Kept
    /\ UNCHANGED <<pc, tasks, dropped>>

TakeTask ==
    /\ AtElement
    /\ ~Skipped(i)
    /\ ~Section(i)
    /\ IsTask(i)
    /\ DateIn(i) # "invalid"
    /\ tasks' = Append(tasks,
         [number |-> IF Numbered(i) THEN First(doc[i]).value ELSE Len(tasks) + 1,
          raw |-> <<i>>, block |-> block, date |-> IF DateIn(i) = "valid" THEN i ELSE Absent])
    /\ Passed(1)
    /\ Kept
    /\ UNCHANGED <<pc, block, dropped>>

\* parse_deadline raises on 31.02; so does the second attempt of parse_file, with the
\* same parser, and the request fails.
BadDate ==
    /\ AtElement
    /\ ~Skipped(i)
    /\ ~Section(i)
    /\ IsTask(i)
    /\ DateIn(i) = "invalid"
    /\ pc' = "failed"
    /\ Kept
    /\ UNCHANGED <<i, block, tasks, dropped>>

\* No branch applies: rows of one cell or with "поруч" in the first are lost; an
\* unnumbered paragraph at the start is the title of the result.  Nothing notes them.
Drop ==
    /\ AtElement
    /\ ~Skipped(i)
    /\ ~Section(i)
    /\ ~IsTask(i)
    /\ dropped' = dropped \cup {i}
    /\ Passed(1)
    /\ Kept
    /\ UNCHANGED <<pc, block, tasks>>

EndOfElements ==
    /\ pc = "universal"
    /\ i = Len(doc) + 1
    /\ pc' = "done"
    /\ Kept
    /\ UNCHANGED <<i, block, tasks, dropped>>

UniversalStep == Skip \/ SectionHeading \/ TakeTask \/ BadDate \/ Drop \/ EndOfElements
-----------------------------------------------------------------------------
ParsingNext == Choose \/ MemoStep \/ UniversalStep

\* One request computes the result without waiting for anything.
ParsingSpec == ParsingInit /\ [][ParsingNext]_parsingVars /\ WF_parsingVars(ParsingNext)
-----------------------------------------------------------------------------
Open   == IF current = Absent THEN <<>> ELSE <<current>>
Result == tasks \o Open

LinesOf(r) == UNION {Range(r[n].raw) : n \in DOMAIN r}

\* The lines of an instruction ascend, and so do the instructions.
InOrder(r) ==
    \A n \in DOMAIN r :
        /\ \A a, b \in DOMAIN r[n].raw : a < b => r[n].raw[a] < r[n].raw[b]
        /\ \A m \in 1..(n - 1) : \A x \in Range(r[m].raw), y \in Range(r[n].raw) : x < y

\* What the scanner of МЕМО documents has passed, from the heading on.
Passages == (Start(lines) + 1)..(i - 1) \cup (rejected \cap {i})

\* Each line is part of one instruction, the name of a block, or rejected.
LinesAccountedFor ==
    parser = "memo_protocol" /\ i > 0 =>
        /\ InOrder(Result)
        /\ LinesOf(Result) \cap (rejected \cup titles) = {}
        /\ rejected \cap titles = {}
        /\ LinesOf(Result) \cup rejected \cup titles = Passages

\* Rejected are headings of blocks, labels and the line that ends the resolutions.
ServiceRejected ==
    parser = "memo_protocol" /\ i > 0 =>
        \A k \in rejected : Line(k).kind \in {"stop", "block"} \cup Labels

\* The scan ends behind the last line or at one that ends the resolutions.
ReadToTheEnd ==
    parser = "memo_protocol" /\ pc \in {"report", "done"} /\ i \in DOMAIN lines =>
        Line(i).kind = "stop"

\* No line of the resolutions of a МЕМО is lost and none is used twice, whatever the branches
\* and the two looks at the next line do (protocol.py:566-660): a line with a number or
\* with text is part of one instruction or names a block, instructions keep the order of
\* the document, and the scan leaves no line behind.  (The universal scanner passes
\* elements without a trace: Drop.)
EveryLineIsPlaced == LinesAccountedFor /\ ServiceRejected /\ ReadToTheEnd

\* A numbered line of a МЕМО opens an instruction with its number, unless an empty deadline
\* label before it takes it for its date.
MemoNumbersOpen ==
    parser = "memo_protocol" /\ i > 0 =>
        \A k \in Passages : Line(k).kind = "numbered" =>
            \/ \E n \in DOMAIN Result : Result[n].raw[1] = k /\ Result[n].number = Line(k).value
            \/ /\ Line(k - 1).kind = "deadline"
               /\ Line(k - 1).value = Absent
               /\ Line(k).date # "none"

\* A numbered element of another document becomes an instruction with its number: it is
\* not dropped, no heading though it stands in capitals, and no attendee.
UniversalNumbersOpen ==
    parser \notin {"memo_protocol", Absent} =>
        \A k \in 1..(i - 1) : Numbered(k) =>
            /\ k \notin dropped
            /\ \E n \in DOMAIN tasks : tasks[n].raw = <<k>> /\ tasks[n].number = First(doc[k]).value

\* Numbered tasks are recognised, as docs/docx-import-mvp.md:26 says, by either scanner: no
\* branch takes the line for the name of a block, of an executive, for more of the
\* text before it (protocol.py:598) or for a heading (protocol.py:408).
NumbersOpenTasks == MemoNumbersOpen /\ UniversalNumbersOpen

\* The attendance list and the instructions come from two scanners that do not know of
\* each other; no line of the resolutions makes an attendee, as extract_attendees says
\* (protocol.py:256), provided the list began before them and "РЕШИЛИ" is not spaced out or
\* in quotes, which only the МЕМО scanner understands.
AttendeesStayOutOfBody ==
    parser = "memo_protocol" /\ pc = "done" /\ i > 0 =>
        LET head      == lines[Start(lines)].element
            attending == AttendeeElements(doc)
        IN  /\ First(doc[head]).kind = "heading"
            /\ \A k \in DOMAIN doc : First(doc[k]).kind = "attendees" => k < head
            => \A k \in LinesOf(Result) : lines[k].element \notin attending

\* What the two scanners add to the result.
Reported ==
    [number : Nat, raw : Seq(Nat), names : Seq(Nat), date : Nat \cup {Absent},
     block : Nat \cup {Absent}, warnings : SUBSET {"assignee", "deadline", "sequence"}]
    \cup [number : Nat, raw : Seq(Nat), block : Nat \cup {Absent}, date : Nat \cup {Absent}]

\* The type invariant.
ParsingTypeOK ==
    /\ doc \in Documents
    /\ parser \in ParserTypes \cup {Absent}
    /\ pc \in {"choose", "memo", "report", "universal", "done", "failed"}
    /\ lines \in Seq([element : Nat, line : Words])
    /\ i \in Nat
    /\ current \in Instructions \cup {Absent}
    /\ mode \in Modes \cup {Absent}
    /\ block \in Nat \cup {Absent}
    /\ expected \in Nat
    /\ tasks \in Seq(Reported)
    /\ rejected \subseteq Nat
    /\ titles \subseteq Nat
    /\ dropped \subseteq Nat

\* What a scanner has before its first step, and where it stands.
StageInv ==
    /\ pc = "choose" => /\ parser = Absent /\ i = 1 /\ current = Absent /\ tasks = <<>>
                        /\ rejected = {} /\ titles = {} /\ dropped = {}
    /\ parser = Absent => pc = "choose"
    /\ parser = "memo_protocol" =>
         /\ pc \in {"memo", "report", "done"}
         /\ lines = Normalized(doc)
         /\ i > 0 => Headings(lines) # {} /\ i \in (Start(lines) + 1)..(Len(lines) + 1)
    /\ parser \notin {"memo_protocol", Absent} =>
         /\ pc \in {"universal", "done", "failed"}
         /\ current = Absent
         /\ i \in 1..(Len(doc) + 1)

\* Every instruction has a line, an open one says how it goes on, and neither the line nor
\* the element read next is noted yet.
LineInv ==
    /\ \A n \in DOMAIN tasks : tasks[n].raw # <<>>
    /\ current # Absent => current.raw # <<>> /\ mode # Absent
    /\ pc = "memo" => i \notin rejected
    /\ \A k \in dropped : k < i

\* The inductive invariant.
ParsingInv == ParsingTypeOK /\ StageInv /\ LineInv /\ EveryLineIsPlaced /\ NumbersOpenTasks

Stage ==
    CASE pc = "choose" -> 0
      [] pc \in {"memo", "universal"} -> 1
      [] pc = "report" -> 2
      [] pc \in {"done", "failed"} -> 3

\* Every branch passes a line or ends the loop, also those that take two lines, and none
\* goes further than the line behind the last (protocol.py:567, 585, 641).  A document of n
\* lines is therefore read in n + 3 steps at most.
EveryStepMovesOn ==
    [][\/ Stage' > Stage
       \/ /\ Stage' = Stage
          /\ i' > i
          /\ i' <= Len(IF parser = "memo_protocol" THEN lines ELSE doc) + 1]_parsingVars

\* The recognition ends: no branch is missing where a line could be left over.
ParsingEnds == <>(pc \in {"done", "failed"})
=============================================================================
