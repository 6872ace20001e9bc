-------------------------- MODULE MCDocumentParsing --------------------------
(* Small instances of DocumentParsing for TLC. *)
EXTENDS DocumentParsing

CONSTANTS BodyLength, ListLength

L(kind, value, date) == [kind |-> kind, value |-> value, date |-> date, letters |-> "mixed"]
Capitals(l) == [l EXCEPT !.letters = "capital"]
Plain(v)  == L("plain", v, "none")
Blank     == L("blank", Absent, "none")
Paragraph(l) == [row |-> FALSE, styled |-> FALSE, cells |-> <<l>>]
Title(l)     == [row |-> FALSE, styled |-> TRUE, cells |-> <<l>>]
Row(cells)   == [row |-> TRUE, styled |-> FALSE, cells |-> cells]

UpTo(S, n) == UNION {[1..k -> S] : k \in 0..n}

\* A МЕМО: perhaps a line before the heading, then every body of a bounded length.
BodyLines ==
    {L("numbered", 1, "none"), L("numbered", 2, "valid"), Plain(1), L("plain", 2, "valid"),
     L("assignee", Absent, "none"), L("assignee", 1, "none"),
     L("deadline", Absent, "none"), L("deadline", 1, "valid"), L("deadline", 2, "invalid"),
     L("block", Absent, "none"), L("block", 1, "none"), L("stop", Absent, "none")}

\* The lines of longer bodies.
CommonLines ==
    {L("numbered", 1, "none"), L("numbered", 2, "valid"), Plain(1), L("assignee", Absent, "none"),
     L("deadline", Absent, "none"), L("deadline", 1, "valid"), L("block", Absent, "none")}

Before == {<<>>, <<Paragraph(L("assignee", 1, "none"))>>}

Bodies == UpTo(BodyLines, BodyLength) \cup [1..(BodyLength + 1) -> CommonLines]

MemoDocs ==
    {b \o <<Paragraph(L("heading", Absent, "none"))>> \o [k \in DOMAIN m |-> Paragraph(m[k])] :
        b \in Before, m \in Bodies}

\* Lists of attendees, headings, tables and instructions in any order.
Pieces ==
    {Paragraph(L("attendees", Absent, "none")), Paragraph(L("attendees", 1, "none")),
     Row(<<L("attendees", Absent, "none"), Plain(1), L("numbered", 1, "none"), Blank>>),
     Paragraph(L("heading", Absent, "none")), Paragraph(Capitals(L("heading", Absent, "none"))),
     Paragraph(Capitals(L("spaced", Absent, "none"))),
     Paragraph(L("agenda", Absent, "none")), Title(Plain(4)), Paragraph(Capitals(Plain(5))),
     Paragraph(Plain(1)), Paragraph(L("numbered", 1, "none")),
     Paragraph(Capitals(L("numbered", 2, "none"))),
     Paragraph(L("plain", 3, "invalid")),
     Row(<<L("fio", Absent, "none"), Plain(2)>>), Row(<<L("columns", Absent, "none"), Plain(2)>>),
     Row(<<Plain(2)>>),
     Row(<<Capitals(Plain(2)), [L("plain", 4, "valid") EXCEPT !.letters = "none"]>>),
     Row(<<Plain(3), Plain(1), L("plain", 2, "valid")>>)}

MCDocuments == MemoDocs \cup UpTo(Pieces, ListLength)

MCMarkSets == {{"filename_memo"}, {"letter", "ceo"}}
=============================================================================
