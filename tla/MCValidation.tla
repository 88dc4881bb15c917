---------------------------- MODULE MCValidation ----------------------------
(***************************************************************************)
(* The requests TLC sends to Validation.  Every way a question can break a *)
(* rule of Jev's, every opinion of Laya's on a question Jev allows, every  *)
(* budget around the limits on either checkpoint; up to three questions of *)
(* those, to every name there is and one there is not.                     *)
(***************************************************************************)
EXTENDS Validation, FiniteSets

CONSTANTS Jev, English, Multilingual, Unknown

\* The fixed constants: one alias, two checkpoints.
MCJevModels    == {Jev}
MCLayaModels   == {English, Multilingual}
MCModelNames   == {Jev, English, Multilingual, Unknown}

OnBoth(n) == [c \in MCLayaModels |-> n]

Plain == [object |-> TRUE, type |-> "noul", instructions |-> TRUE,
          criteria |-> "none", size |-> 0, structured |-> {}, laya |-> "accepts",
          extension |-> "absent", options |-> 2, markers |-> OnBoth(2), room |-> OnBoth(2)]

Sizes(container) ==
    IF container \in {"none", "scalar"} THEN {0} ELSE 0..(MaxOptions + 1)

Shapes ==
    {[Plain EXCEPT !.object = FALSE], [Plain EXCEPT !.instructions = FALSE]} \cup
    UNION {{[Plain EXCEPT !.type = t, !.criteria = c, !.size = n] :
               t \in Types \cup {"unknown", "missing"}, n \in Sizes(c)} : c \in Containers}

Judged == {[Plain EXCEPT !.laya = l, !.extension = e] : l \in Opinions, e \in Extensions}

\* On one checkpoint every budget, on the other a sufficient one.
Measured == {[Plain EXCEPT !.markers[c] = m, !.room[c] = r] :
                c \in MCLayaModels, m \in 0..2, r \in 0..2}

\* Alone, every question; in company, one of a kind.
Company == {[Plain EXCEPT !.object = FALSE],
            [Plain EXCEPT !.laya = "ValueError"],
            [Plain EXCEPT !.extension = "TypeError"],
            [Plain EXCEPT !.type = "choice"],
            [Plain EXCEPT !.type = "score", !.criteria = "array", !.size = 2,
                          !.structured = {1}]}

Pairs(qs) == (qs \X qs) \cup (qs \X {Plain} \X qs)

MCRequests ==
    [object : {TRUE}, model : {Jev, English, Unknown}, tokens : {OnBoth(2)},
     questions : {<<>>} \cup {<<q>> : q \in Shapes \cup Judged} \cup Pairs(Company)]
    \cup
    [object : {TRUE}, model : {Jev, English}, tokens : {OnBoth(n) : n \in 0..3},
     questions : {<<q>> : q \in Measured}
                 \cup Pairs({[Plain EXCEPT !.markers[Multilingual] = 1],
                             [Plain EXCEPT !.room[English] = 1]} \cup Company)]
    \cup
    [object : {TRUE}, model : {Jev, English}, questions : {<<q>> : q \in Measured},
     tokens : {[OnBoth(1) EXCEPT ![English] = 2], [OnBoth(1) EXCEPT ![Multilingual] = 2]}]
    \cup
    [object : {FALSE}, model : {Jev}, questions : {<<>>}, tokens : {OnBoth(0)}]
=============================================================================
