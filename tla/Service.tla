------------------------------- MODULE Service -------------------------------
(***************************************************************************)
(* One request from end to end: Gateway in front, then the checks of       *)
(* Engine.predict (Validation), the depth check and the forward pass, and  *)
(* what translate.py makes of the result.  How requests share checkpoints  *)
(* is Engine's subject; here a line may be full or not, and a forward pass *)
(* may end in any way the code distinguishes.                              *)
(***************************************************************************)
EXTENDS Validation, Translate

CONSTANTS
    AuthEnabled, Limit, Inputs, Absent,  \* as in Gateway
    Arrivals  \* what clients may send: an input, and the request in its body

ASSUME ArrivalsAreSent == Arrivals \subseteq Inputs \X Requests

VARIABLES
    input, gate, frame, out, status,  \* Gateway's, with its pc as gate
    result,  \* what Agent.system_one returned
    reply    \* the body and the X-Laya-Checkpoint header of the response

front       == <<input, gate, frame, out, status>>
serviceVars == <<vars, front, result, reply>>

Gate == INSTANCE Gateway WITH pc <- gate

\* What Gateway assumes of its constants.
ASSUME FrontIsGateways ==
    /\ Limit \in Int
    /\ AuthEnabled \in BOOLEAN
    /\ \A in \in Inputs :
        /\ in \in [route : Gate!Routes, key : Gate!Keys, declared : Nat \cup {Absent},
                   size : Nat, codings : Seq(Gate!Tokens), frames : Seq(Gate!Frames)]
        /\ in.size = 0 <=> in.frames = <<>>

Nothing == [answers |-> <<>>]

-----------------------------------------------------------------------------

ServiceInit ==
    \E arrival \in Arrivals :
        /\ input = arrival[1]
        /\ gate = "auth" /\ frame = 1 /\ out = 0 /\ status = 0
        /\ Start(arrival[2])
        /\ result = Nothing
        /\ reply = Nothing

\* system_one and models up to the call of predict(); and list_models().
Front ==
    /\ Gate!Next
    /\ reply' = IF gate = "catalog" THEN [models |-> ListModels] ELSE reply
    /\ UNCHANGED <<vars, result>>

\* predict(), up to the depth check.
Predict ==
    /\ gate = "predict"
    /\ Next
    /\ UNCHANGED <<front, result, reply>>

\* The response, of the handler or of handle_jev_error.
Respond(code) ==
    /\ gate = "predict"
    /\ gate' = "answered"
    /\ status' = code
    /\ UNCHANGED <<input, frame, out, vars, result>>

\* ValidationFailed leaves predict().
Refused == pc = "refused" /\ Respond(422) /\ UNCHANGED reply

\* Slips: the depth check before the budget is known to do; and the status that
\* is usual for it.
OverloadedEarly == pc = "count" /\ Respond(529) /\ UNCHANGED reply
Unavailable == pc = "inference" /\ result = Nothing /\ Respond(503) /\ UNCHANGED reply
\* The line of the checkpoint is full.
Overloaded == pc = "inference" /\ result = Nothing /\ Respond(529) /\ UNCHANGED reply

\* The backstop: Laya refuses what passed every check.
Backstop == pc = "inference" /\ result = Nothing /\ Respond(422) /\ UNCHANGED reply

\* Any other exception: what Laya's check raised, or of routing, of the budget
\* check, of the forward pass, of the shaping of its result.
Fault ==
    /\ pc \in {"raised", "route", "count", "budget", "inference"}
    /\ Respond(500)
    /\ UNCHANGED reply

\* What Laya answers: what Jev defines and more, whatever the type; every level
\* of a score as text.
LayaAnswer(i, q) ==
    [key \in JevAnswerKeys(q.type) \cup {"confidence", "answer_confidence", "action"} |->
        CASE key = "type"   -> q.type
          [] key = "legend" -> [level \in 0..(q.size - 1) |-> <<"text", level>>]
          [] OTHER          -> <<i, key>>]

LayaResult ==
    [answers |-> [i \in DOMAIN given |-> LayaAnswer(i, given[i])],
     usage   |-> [key \in JevUsageKeys \cup {"state_tokens", "truncated"} |-> key]]

\* The forward pass is back.
Infer ==
    /\ gate = "predict" /\ pc = "inference" /\ result = Nothing
    /\ result' = LayaResult
    /\ UNCHANGED <<vars, front, reply>>

\* predict() shapes the result with the questions Laya was given.
Shaped == ToJevResponse(result, request.model, given)

\* The response, with the checkpoint in a header.
Shape ==
    /\ pc = "inference" /\ result # Nothing
    /\ Respond(200)
    /\ reply' = [body |-> Shaped, checkpoint |-> checkpoint]

ServiceNext == Front \/ Predict \/ Refused \/ Overloaded \/ Backstop \/ Fault \/ Infer \/ Shape

ServiceSpec == ServiceInit /\ [][ServiceNext]_serviceVars

-----------------------------------------------------------------------------
(* Properties                                                              *)

\* The types of Gateway, Validation and of what Service adds: an answer has one
\* of the statuses Jev's clients know, and a reply, from either route, comes with
\* a 200 and only then.
ServiceTypeOK ==
    /\ TypeOK
    /\ input \in Inputs
    /\ gate \in Gate!Steps
    /\ frame \in Nat \ {0}
    /\ out \in Nat
    /\ status \in {0, 200, 401, 422, 500, 529}
    /\ status # 0 <=> gate = "answered"
    /\ result # Nothing => result = LayaResult
    /\ IF status = 200 /\ input.route = "models" THEN reply = [models |-> ListModels]
       ELSE IF status = 200 THEN reply = [body |-> Shaped, checkpoint |-> checkpoint]
       ELSE reply = Nothing

\* The caller has the key, its body may be used, and what it asks is what Jev
\* allows and is answered in full on the checkpoint it was routed to.
Servable ==
    /\ AuthEnabled => input.key = "right"
    /\ Gate!Usable(input)
    /\ Legal(request)
    /\ FitsOn(request, checkpoint)

\* A 529 is worth retrying, as the SDKs do with backoff: a request that can
\* never be served is told so, whatever the load (predict; errors.py).
OverloadIsWorthRetrying == status = 529 => Servable

\* No answer is given to a request that should have been turned away at any of
\* the stations before it (system_one, predict).
AnswersAreEarned == status = 200 /\ input.route = "systemone" => Servable

\* Jev's documentation of an answer, which says what it is and has that.
Documented(type) ==
    {"type", type}
    \cup (IF type = "noul" THEN {} ELSE {"probabilities", "confidence"})
    \cup (IF type = "score" THEN {"legend"} ELSE {})

\* A client of Jev's finds in the reply what it would find in Jev's: the name it
\* asked for, an answer to every question of the type it asked, with the
\* documented keys and no more, Laya's values, and each level as it was written
\* if it was an object or an array (to_jev_response, _jev_legend).
ReplyIsJevs ==
    status = 200 /\ input.route = "systemone" =>
        /\ DOMAIN reply.body = {"model", "answers", "usage"}
        /\ reply.body.model = request.model
        /\ DOMAIN reply.body.usage = {"input_tokens", "output_tokens"}
        /\ DOMAIN reply.body.answers = 1..Len(request.questions)
        /\ \A i \in 1..Len(request.questions) :
            LET q == request.questions[i]
                a == reply.body.answers[i]
            IN  /\ DOMAIN a = Documented(q.type)
                /\ a["type"] = q.type
                /\ \A key \in DOMAIN a \ {"type", "legend"} : a[key] = <<i, key>>
                /\ q.type = "score" =>
                    a["legend"] = [level \in 0..(q.size - 1) |->
                        <<IF level \in q.structured THEN "written" ELSE "text", level>>]

\* GET /v1/models tells the truth about POST /v1/systemone: a name it lists is
\* never refused, a name it does not list never answered, and what it says will
\* answer is what does (models.py, resolve_model, X-Laya-Checkpoint).
CatalogIsTrue ==
    LET listed == {model.name : model \in ListModels}
    IN  /\ problem = "model" => request.model \notin listed
        /\ status = 200 /\ input.route = "systemone" =>
            \E model \in ListModels :
                /\ model.name = request.model
                /\ model.description \in {None, reply.checkpoint}

=============================================================================
