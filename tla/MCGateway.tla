------------------------------ MODULE MCGateway ------------------------------
(***************************************************************************)
(* The requests TLC sends to Gateway.  Every header there is with a few    *)
(* bodies, every body of up to three frames with headers that let it       *)
(* through, and GETs of the catalog.                                       *)
(***************************************************************************)
EXTENDS Gateway

\* Frames that decompress to nothing, to less than the limit, to the limit, to
\* one byte more, and to more than the cap.
MCFrames == [size : 0..(Limit + 2), end : Ends]

\* A body's size as sent has no bearing on what it decompresses to.
Sizes(frames) == IF frames = <<>> THEN {0} ELSE 1..(Limit + 1)

Bodies == UNION {[1..n -> MCFrames] : n \in 0..3}

FewBodies == {<<>>, <<[size |-> Limit, end |-> "whole"]>>}

MCCodings == {<<>>, <<"zstd">>, <<"identity", "zstd">>, <<"zstd", "zstd">>, <<"other">>}

EveryHeader ==
    UNION {{[route |-> "systemone", key |-> k, declared |-> d, size |-> n, codings |-> c, frames |-> b] :
                k \in Keys, d \in {Absent} \cup 0..(Limit + 1), n \in Sizes(b), c \in MCCodings}
           : b \in FewBodies}

EveryBody ==
    {[route |-> "systemone", key |-> "right", declared |-> Absent, size |-> IF b = <<>> THEN 0 ELSE 1,
      codings |-> <<"zstd">>, frames |-> b] : b \in Bodies}

Gets == {[route |-> "models", key |-> k, declared |-> Absent, size |-> 0,
          codings |-> <<>>, frames |-> <<>>] : k \in Keys}

MCInputs == EveryHeader \cup EveryBody \cup Gets
=============================================================================
