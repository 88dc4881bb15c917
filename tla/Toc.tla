-------------------------------- MODULE Toc --------------------------------
(***************************************************************************)
(* scripts/toc.py, which `make toc` runs to rewrite the table of contents  *)
(* of a document and CI runs to check it.  A document is a sequence of     *)
(* lines: <<"start">> and <<"end">> are the markers, <<"heading", level,   *)
(* title>> a heading, <<"entry", level, title>> its line in the table;     *)
(* the rest is text.  Blank lines are left out.  A title has no backslash. *)
(***************************************************************************)
EXTENDS SequencesExt, Integers

START == <<"start">>
END   == <<"end">>

Line == {START, END, <<"text">>} \cup ({"heading", "entry"} \X (1..6) \X STRING)

MinLevel == 2
MaxLevel == 3

At(doc, line) == {i \in DOMAIN doc : doc[i] = line}

IsListed(line) == line[1] = "heading" /\ line[2] \in MinLevel..MaxLevel
Entry(heading) == <<"entry", heading[2], heading[3]>>

\* A slip: headings are looked for in the old table too.
BodyAll(doc) == doc
\* What comes after the first end marker, if there is one.
Body(doc) ==
    IF At(doc, END) = {} THEN doc
    ELSE LET end == CHOOSE i \in At(doc, END) : \A j \in At(doc, END) : i <= j
         IN SubSeq(doc, end + 1, Len(doc))

\* headings, render
Headings(doc) ==
    FlattenSeq([i \in DOMAIN Body(doc) |->
                   IF IsListed(Body(doc)[i]) THEN <<Body(doc)[i]>> ELSE <<>>])
Render(doc) == <<START>> \o [i \in DOMAIN Headings(doc) |-> Entry(Headings(doc)[i])] \o <<END>>

\* A match of START.*?END begins at a start marker that is in no match, if an
\* end marker follows, and goes to the next end marker.
Begins(doc, i) ==
    /\ doc[i] = START
    /\ \E e \in At(doc, END) : e > i
    /\ \A s \in At(doc, START) : s < i => \E e \in At(doc, END) : s < e /\ e < i
Matched(doc, i) ==
    \E s \in 1..i : Begins(doc, s) /\ \A e \in At(doc, END) : ~(s < e /\ e < i)

\* rewrite: every match becomes the table.
Rewrite(doc) ==
    FlattenSeq([i \in DOMAIN doc |-> IF Begins(doc, i) THEN Render(doc)
                                     ELSE IF Matched(doc, i) THEN <<>> ELSE <<doc[i]>>])

HasMarkers(doc) == At(doc, START) # {} /\ At(doc, END) # {}

\* A slip: a table there is will do.
CheckMarkers(doc) == HasMarkers(doc)
\* toc.py --check
Check(doc) == HasMarkers(doc) /\ Rewrite(doc) = doc

-----------------------------------------------------------------------------
(* What a table of contents is.                                            *)

\* The markers are there once, in order.
Proper(doc) ==
    \E s \in DOMAIN doc, e \in DOMAIN doc :
        At(doc, START) = {s} /\ At(doc, END) = {e} /\ s < e

\* Between the markers there is one entry for each heading that follows, in the
\* order of the headings.
ListsItsHeadings(doc) ==
    \A s \in At(doc, START), e \in At(doc, END) :
        LET wanted == {i \in DOMAIN doc : i > e /\ IsListed(doc[i])} IN
        /\ Cardinality(wanted) = e - s - 1
        /\ \A i \in wanted :
               doc[s + Cardinality({j \in wanted : j <= i})] = Entry(doc[i])

\* Everything but the table: what is before the start marker, and what is after
\* the end marker.
Outside(doc) == SubSeq(doc, 1, (CHOOSE i \in At(doc, START) : TRUE) - 1) \o Body(doc)

\* Rewriting the document makes the check pass and the table right, and changes
\* nothing else.
Mended(doc) ==
    LET mended == Rewrite(doc) IN
    /\ Check(mended)
    /\ ListsItsHeadings(mended)
    /\ Outside(mended) = Outside(doc)

=============================================================================
