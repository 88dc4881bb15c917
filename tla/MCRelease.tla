----------------------------- MODULE MCRelease -----------------------------
(***************************************************************************)
(* Instances of Release for TLC: two trees that name the same version, one *)
(* that names another, and one of the first version whose README has a     *)
(* table of contents that is out of date.  Releasers are alike.            *)
(***************************************************************************)
EXTENDS Release

CONSTANTS t1, t2, t3, t4, v1, v2

MCVersionOf == [t \in Trees |-> IF t = t3 THEN v2 ELSE v1]

Heading(level, title) == <<"heading", level, title>>

MCReadmeOf ==
    [t \in Trees |->
        IF t = t4
        THEN <<START, <<"entry", 2, "a">>, END, Heading(2, "b")>>
        ELSE <<Heading(2, "contents"), START, <<"entry", 2, "a">>, <<"entry", 3, "b">>, END,
               Heading(2, "a"), Heading(4, "c"), Heading(3, "b")>>]

\* These, and every document of up to five lines.
Lines == {START, END, <<"entry", 2, "a">>, <<"text">>}
         \cup {Heading(2, "a"), Heading(2, "b"), Heading(3, "a"), Heading(4, "a")}
MCDocuments == {MCReadmeOf[t] : t \in Trees} \cup UNION {[1..n -> Lines] : n \in 0..5}

ReleaserSymmetry == Permutations(Releasers)
=============================================================================
