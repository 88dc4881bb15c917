------------------------------ MODULE Translate ------------------------------
(***************************************************************************)
(* translate.py: what is left of Laya's result in the response.            *)
(*                                                                         *)
(* An answer is a function from its keys to values.  The values Laya       *)
(* computes are opaque; the legend of a score is by level, counted from 0, *)
(* and says of which level it speaks and whether as the caller wrote it or *)
(* as the text Laya made of it.                                            *)
(***************************************************************************)
EXTENDS Integers

\* _JEV_ANSWER_KEYS, _JEV_USAGE_KEYS
JevAnswerKeys(type) ==
    CASE type = "choice" -> {"type", "choice", "probabilities", "confidence"}
      [] type = "score"  -> {"type", "score", "legend", "probabilities", "confidence"}
      [] type = "noul"   -> {"type", "noul"}

JevUsageKeys == {"input_tokens", "output_tokens"}

Only(f, keys) == [key \in DOMAIN f \cap keys |-> f[key]]

\* A slip: the levels counted from one.
LegendFromOne(legend, question) ==
    [level \in DOMAIN legend |->
        IF level + 1 \in question.structured THEN <<"written", level + 1>> ELSE legend[level]]
\* _jev_legend: a level written as an object or an array is echoed, if the
\* criteria are an array; the rest keeps Laya's text.
JevLegend(legend, question) ==
    IF question.criteria # "array" THEN legend
    ELSE [level \in DOMAIN legend |->
             IF level \in question.structured THEN <<"written", level>> ELSE legend[level]]

\* to_jev_answer
ToJevAnswer(answer, question) ==
    LET jev == Only(answer, JevAnswerKeys(answer["type"])) IN
    IF "legend" \in DOMAIN jev
    THEN [jev EXCEPT !["legend"] = JevLegend(@, question)]
    ELSE jev

\* to_jev_response, of answers in the order of the questions.
ToJevResponse(result, model, questions) ==
    [model   |-> model,
     answers |-> [i \in DOMAIN result.answers |-> ToJevAnswer(result.answers[i], questions[i])],
     usage   |-> Only(result.usage, JevUsageKeys)]

=============================================================================
