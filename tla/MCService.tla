------------------------------ MODULE MCService ------------------------------
(***************************************************************************)
(* What TLC sends to Service: every request of MCValidation in a plain     *)
(* body; and a servable one, an illegal one and one that is too large in   *)
(* every body and with every key.                                          *)
(***************************************************************************)
EXTENDS MCValidation, Service

\* Those of Gateway.
Keys == {"right", "wrong", "not ascii"}

Input(route, key, declared, size, codings, frames) ==
    [route |-> route, key |-> key, declared |-> declared, size |-> size,
     codings |-> codings, frames |-> frames]

PlainInput == Input("systemone", "right", Absent, 1, <<>>, <<[size |-> 1, end |-> "whole"]>>)

\* Bodies within the limit and past it, as declared, as sent and once decoded.
OtherInputs ==
    {Input("systemone", k, d, n, c, <<[size |-> s, end |-> "whole"]>>) :
        k \in Keys, d \in {Absent, Limit + 1}, n \in {1, Limit + 1},
        c \in {<<>>, <<"zstd">>, <<"other">>}, s \in {Limit, Limit + 1}}
    \cup {Input("models", k, Absent, 0, <<>>, <<>>) : k \in Keys}

MCInputs == {PlainInput} \cup OtherInputs

Request(q, model) ==
    [object |-> TRUE, questions |-> <<q>>, model |-> model, tokens |-> OnBoth(2)]

\* Scores of two levels, each of which may be an object, and choices.
Scores == {Request([Plain EXCEPT !.type = "score", !.criteria = "array", !.size = 2,
                                 !.structured = s], English) : s \in SUBSET (0..1)}
Choices == {Request([Plain EXCEPT !.type = "choice", !.criteria = c, !.size = 2,
                                  !.structured = {0}], Jev) : c \in {"object", "array"}}

FewRequests == {Request(Plain, English), Request([Plain EXCEPT !.object = FALSE], Jev),
                Request([Plain EXCEPT !.room = OnBoth(1)], Jev)}

ServiceRequests == MCRequests \cup Scores \cup Choices \cup FewRequests

MCArrivals == ({PlainInput} \X ServiceRequests) \cup (OtherInputs \X FewRequests)
=============================================================================
