---------------------------- MODULE MCOnnxExport ----------------------------
(***************************************************************************)
(* Instances of OnnxExport for TLC: requests of questions of unequal       *)
(* lengths and option counts, at the bounds of the buckets, and            *)
(* temperatures of every sort.                                             *)
(***************************************************************************)
EXTENDS OnnxExport

CONSTANTS english, multilingual, typed

\* What a token is worth where it is depends on how many there are.
MCLogit(tokens, marker) == tokens[marker] * Cardinality(DOMAIN tokens)

Question(type, k, length) ==
    [type |-> type, criteria |-> IF type = "noul" THEN "none" ELSE "array",
     structured |-> {0}, options |-> [j \in 1..k |-> j],
     ids |-> [i \in 1..length |-> (i * i) % 7], markers |-> [j \in 1..k |-> length - k + j]]

Triage == <<Question("choice", 3, 8), Question("score", 5, 6), Question("noul", 2, 4)>>
Wide   == <<Question("choice", 11, 12), Question("noul", 2, 9)>>
Single == <<Question("choice", 1, 3)>>
Ten    == <<Question("score", 6, 9), Question("choice", 10, 14), Question("score", 2, 5)>>

MCCases == {Triage, Wide, Single, Ten}

Number(n) == [number |-> TRUE, tenths |-> n]
NoNumber  == [number |-> FALSE]

ByType(c, s, n) == [choice |-> c, score |-> s, noul |-> n]

\* As shipped, an 11+ bucket of 0.1; none by bucket; all that is out of range.
MCConfigs ==
    [c \in Checkpoints |->
        CASE c = english ->
               [byType    |-> ByType(Number(10), Number(12), Number(15)),
                byOptions |-> [b \in {<<"choice", "11+">>, <<"choice", "3-5">>, <<"score", "3-5">>} |->
                                  IF b[2] = "11+" THEN Number(1) ELSE Number(20)]]
          [] c = multilingual ->
               [byType |-> ByType(NoNumber, Number(80), Number(10)), byOptions |-> <<>>]
          [] OTHER ->
               [byType    |-> ByType(Number(13), NoNumber, Number(0)),
                byOptions |-> [b \in {<<"choice", "6-10">>, <<"score", "6-10">>, <<"noul", "2">>} |->
                                  IF b[1] = "noul" THEN NoNumber ELSE Number(30)]]]
=============================================================================
