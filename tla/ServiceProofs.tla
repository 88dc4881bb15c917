---------------------------- MODULE ServiceProofs ----------------------------
(***************************************************************************)
(* Proofs about Service, for every request, every limit and every set of   *)
(* names: what Validation and Gateway promise survives their composition,  *)
(* and what a status and a reply say is true of the request.               *)
(***************************************************************************)
EXTENDS Service, ValidationProofs

\* Gateway once more, with what is proved of it.
Bodies == INSTANCE GatewayProofs WITH pc <- gate

\* What the front, the depth check and the shaping add to Validation's IInv.
SInv ==
    /\ IInv
    /\ gate # "answered" => status = 0
    /\ gate = "catalog" => input.route = "models"
    /\ AuthEnabled /\ input.key # "right" => gate \in {"auth", "answered"}
    /\ status = 529 =>
        /\ pc = "inference"
        /\ AuthEnabled => input.key = "right"
    /\ result # Nothing => pc = "inference" /\ result = LayaResult
    /\ status = 200 /\ input.route = "systemone" =>
        /\ AuthEnabled => input.key = "right"
        /\ pc = "inference" /\ result # Nothing
        /\ reply = [body |-> Shaped, checkpoint |-> checkpoint]

\* The front's steps: none once predict() is called; a 200 is the catalog's.
LEMMA FrontSteps ==
    ASSUME Gate!Next
    PROVE  /\ gate \notin {"predict", "answered"}
           /\ input' = input
           /\ \/ gate' # "answered" /\ status' = status
              \/ gate' = "answered" /\ status' \in {401, 422, 500}
              \/ gate = "catalog" /\ gate' = "answered" /\ status' = 200
           /\ gate' = "catalog" => input.route = "models"
           /\ AuthEnabled /\ input.key # "right" /\ gate = "auth" => gate' = "answered"
<1>1. CASE Gate!CheckAuth
    <2>1. gate = "auth" /\ input' = input
        BY <1>1, Zenon DEF Gate!CheckAuth, Gate!Admitted, Gate!Goto, Gate!Answer
    <2>2. \/ (AuthEnabled => input.key = "right") /\ Gate!Admitted
          \/ gate' = "answered" /\ status' \in {401, 500}
        BY <1>1, Zenon DEF Gate!CheckAuth, Gate!Answer
    <2>3. Gate!Admitted => /\ gate' \in {"catalog", "headers"} /\ status' = status
                           /\ gate' = "catalog" => input.route = "models"
        BY DEF Gate!Admitted, Gate!Goto
    <2> QED
        BY <2>1, <2>2, <2>3
<1>2. CASE Gate!Catalog
    BY <1>2 DEF Gate!Catalog, Gate!Answer
<1>3. CASE Gate!Inflate
    <2>1. gate = "inflate" /\ input' = input
        BY <1>3 DEF Gate!Inflate, Gate!Answer
    <2>2. \/ gate' \in {"inflate", "parse"} /\ status' = status
          \/ gate' = "answered" /\ status' = 422
        BY <1>3 DEF Gate!Inflate, Gate!Answer
    <2> QED
        BY <2>1, <2>2
<1>4. CASE Gate!CheckDeclared \/ Gate!ReadBody \/ Gate!ChooseDecoding
    BY <1>4 DEF Gate!CheckDeclared, Gate!ReadBody, Gate!ChooseDecoding, Gate!Goto, Gate!Answer
<1>5. CASE Gate!ParseJson \/ Gate!Validate
    BY <1>5 DEF Gate!ParseJson, Gate!Validate, Gate!Goto, Gate!Answer
<1> QED
    BY <1>1, <1>2, <1>3, <1>4, <1>5 DEF Gate!Next

\* While no forward pass has returned, predict() goes on to one or ends.
LEMMA PredictSteps ==
    ASSUME IInv, Next
    PROVE  pc \notin {"inference", "refused", "raised"}
BY DEF Next, NothingAsked, CheckQuestion, QuestionsAreValid, Resolve, Strip, Route,
       OthersEncode, CountState, CheckBudget, WithinBudget

\* Laya's result is not nothing.
LEMMA ResultIsSomething == LayaResult # Nothing
<1>1. "usage" \in DOMAIN LayaResult /\ "usage" \notin DOMAIN Nothing
    BY DEF LayaResult, Nothing
<1> QED
    BY <1>1

\* The invariant holds when a request arrives.
LEMMA ServiceInit_SInv == ServiceInit => SInv
<1> SUFFICES ASSUME NEW arrival \in Arrivals, Start(arrival[2]),
                    gate = "auth", status = 0, result = Nothing
             PROVE  SInv
    BY DEF ServiceInit
<1>1. Init
    BY ArrivalsAreSent DEF Init
<1> QED
    BY <1>1, InitInv DEF SInv, Start

\* Every step of the service keeps it.
LEMMA ServiceNext_SInv == SInv /\ [ServiceNext]_serviceVars => SInv'
<1> SUFFICES ASSUME SInv, [ServiceNext]_serviceVars PROVE SInv'
    OBVIOUS
<1>0. IInv'
    <2>1. [Next]_vars
        BY DEF ServiceNext, serviceVars, Front, Predict, Refused, Overloaded, Backstop,
               Fault, Infer, Shape, Respond, vars
    <2> QED
        BY <2>1, NextInv DEF SInv
<1>1. CASE Front
    <2>1. Gate!Next /\ UNCHANGED <<request, given, pc, index, problem, checkpoint, result>>
        BY <1>1 DEF Front, vars
    <2>2. LayaResult' = LayaResult
        BY <2>1 DEF LayaResult
    <2> QED
        BY <1>0, <2>1, <2>2, FrontSteps DEF SInv
<1>2. CASE Predict
    <2>1. Next /\ gate = "predict" /\ UNCHANGED <<input, gate, status, result, reply>>
        BY <1>2 DEF Predict, front
    <2>2. result = Nothing
        BY <2>1, PredictSteps DEF SInv
    <2> QED
        BY <1>0, <2>1, <2>2 DEF SInv
<1>3. ASSUME NEW code \in {422, 500, 529}, Respond(code), UNCHANGED reply,
             code = 529 => pc = "inference"
      PROVE  SInv'
    <2>1. /\ gate = "predict" /\ gate' = "answered" /\ status' = code
          /\ UNCHANGED <<input, request, given, pc, index, problem, checkpoint, result>>
        BY <1>3 DEF Respond, vars
    <2>2. LayaResult' = LayaResult
        BY <2>1 DEF LayaResult
    <2> QED
        BY <1>0, <1>3, <2>1, <2>2 DEF SInv
<1>4. CASE Infer
    <2>1. /\ gate = "predict" /\ pc = "inference" /\ result' = LayaResult
          /\ UNCHANGED <<input, gate, status, request, given, pc, checkpoint>>
        BY <1>4 DEF Infer, vars, front
    <2>2. LayaResult' = LayaResult
        BY <2>1 DEF LayaResult
    <2> QED
        BY <1>0, <2>1, <2>2 DEF SInv
<1>5. CASE Shape
    <2>1. /\ pc = "inference" /\ result # Nothing
          /\ gate = "predict" /\ gate' = "answered" /\ status' = 200
          /\ reply' = [body |-> Shaped, checkpoint |-> checkpoint]
          /\ UNCHANGED <<input, request, given, pc, index, problem, checkpoint, result>>
        BY <1>5 DEF Shape, Respond, vars
    <2>2. LayaResult' = LayaResult /\ Shaped' = Shaped
        BY <2>1 DEF LayaResult, Shaped
    <2> QED
        BY <1>0, <2>1, <2>2 DEF SInv
<1>6. CASE UNCHANGED serviceVars
    <2>1. UNCHANGED <<input, gate, status, result, reply, request, given, pc, checkpoint>>
        BY <1>6 DEF serviceVars, vars, front
    <2>2. LayaResult' = LayaResult /\ Shaped' = Shaped
        BY <2>1 DEF LayaResult, Shaped
    <2> QED
        BY <1>0, <2>1, <2>2 DEF SInv
<1> QED
    BY <1>1, <1>2, <1>3, <1>4, <1>5, <1>6
    DEF ServiceNext, Refused, Overloaded, Backstop, Fault

\* Both invariants hold in every reachable state of the service.
THEOREM ServiceInvariance == ServiceSpec => []SInv
BY ServiceInit_SInv, ServiceNext_SInv, PTL DEF ServiceSpec

\* The service is Validation for the request it was sent: no other part of it
\* takes a step that predict()'s checks would not.
THEOREM ServiceIsValidation == ServiceSpec => Spec
<1>1. ServiceInit => Init
    BY ArrivalsAreSent DEF ServiceInit, Init
<1>2. [ServiceNext]_serviceVars => [Next]_vars
    BY DEF ServiceNext, serviceVars, Front, Predict, Refused, Overloaded, Backstop,
           Fault, Infer, Shape, Respond, vars
<1> QED
    BY <1>1, <1>2, PTL DEF ServiceSpec, Spec

-----------------------------------------------------------------------------
(* What is behind an answer                                                *)

\* The two instances of Gateway, with its proofs and without, are one.
LEMMA OneGateway ==
    /\ Gate!Next => Bodies!Next
    /\ Gate!Usable(input) <=> Bodies!Usable(input)
<1>1. Gate!Usable(input) <=> Bodies!Usable(input)
    BY Zenon DEF Gate!Usable, Bodies!Usable, Gate!Significant, Bodies!Significant,
                 Gate!Total, Bodies!Total
<1>2. Gate!Next => Bodies!Next
    BY Zenon
    DEF Gate!Next, Gate!CheckAuth, Gate!Admitted, Gate!Catalog, Gate!CheckDeclared,
        Gate!DeclaredTooLarge, Gate!ReadBody, Gate!SentTooLarge, Gate!ChooseDecoding,
        Gate!Codings, Gate!Significant, Gate!Inflate, Gate!EndReached, Gate!Produced,
        Gate!Ask, Gate!Current, Gate!NextFrame, Gate!ParseJson, Gate!Validate, Gate!Goto,
        Gate!Answer,
        Bodies!Next, Bodies!CheckAuth, Bodies!Admitted, Bodies!Catalog, Bodies!CheckDeclared,
        Bodies!DeclaredTooLarge, Bodies!ReadBody, Bodies!SentTooLarge, Bodies!ChooseDecoding,
        Bodies!Codings, Bodies!Significant, Bodies!Inflate, Bodies!EndReached, Bodies!Produced,
        Bodies!Ask, Bodies!Current, Bodies!NextFrame, Bodies!ParseJson, Bodies!Validate,
        Bodies!Goto, Bodies!Answer
<1> QED
    BY <1>1, <1>2

\* So the constants are what the proofs about Gateway assume.
LEMMA BodiesAssume ==
    /\ Limit \in Int
    /\ AuthEnabled \in BOOLEAN
    /\ \A in \in Inputs :
        /\ in \in [route : Bodies!Routes, key : Bodies!Keys, declared : Nat \cup {Absent},
                   size : Nat, codings : Seq(Bodies!Tokens), frames : Seq(Bodies!Frames)]
        /\ in.size = 0 <=> in.frames = <<>>
BY FrontIsGateways, Zenon
DEF Gate!Routes, Gate!Keys, Gate!Tokens, Gate!Frames, Gate!Ends,
    Bodies!Routes, Bodies!Keys, Bodies!Tokens, Bodies!Frames, Bodies!Ends

\* Up to predict() the front keeps its own invariants; what has come of it since,
\* a 529 or an answer, is about a body that may be used.
BInv ==
    /\ gate # "answered" => Bodies!IInv /\ Bodies!Behind /\ Bodies!OnlyUsableIsParsed
    /\ status = 529 \/ (status = 200 /\ input.route = "systemone") => Bodies!Usable(input)

\* It holds when a request arrives.
LEMMA ServiceInit_BInv == ServiceInit => BInv
<1>1. ServiceInit => Bodies!Init /\ status = 0
    BY ArrivalsAreSent DEF ServiceInit, Bodies!Init
<1>2. Bodies!Init => Bodies!IInv
    BY BodiesAssume, Bodies!InitInv, Zenon
<1>3. Bodies!Init => Bodies!Behind /\ Bodies!OnlyUsableIsParsed
    BY BodiesAssume, Bodies!InitBehind, Zenon
<1> QED
    BY <1>1, <1>2, <1>3 DEF BInv

\* The front's steps keep it as they keep Gateway's invariants; predict() ends at
\* a body that got there.
LEMMA ServiceNext_BInv == SInv /\ BInv /\ [ServiceNext]_serviceVars => BInv'
<1> SUFFICES ASSUME SInv, BInv, [ServiceNext]_serviceVars PROVE BInv'
    OBVIOUS
<1>1. CASE Front
    <2>1. Gate!Next
        BY <1>1 DEF Front
    <2>2. gate # "answered" /\ input' = input
        BY <2>1, FrontSteps
    <2>3. [Bodies!Next]_(Bodies!vars)
        BY <2>1, OneGateway
    <2>4. Bodies!IInv /\ Bodies!Behind /\ Bodies!OnlyUsableIsParsed
        BY <2>2 DEF BInv
    <2>5. Bodies!IInv'
        BY <2>3, <2>4, BodiesAssume, Bodies!NextInv, Zenon
    <2>6. Bodies!Behind' /\ Bodies!OnlyUsableIsParsed'
        BY <2>3, <2>4, BodiesAssume, Bodies!NextKeepsBehind, Zenon
    <2>7. status' # 529 /\ ~(status' = 200 /\ input'.route = "systemone")
        BY <2>1, FrontSteps DEF SInv
    <2> QED
        BY <2>5, <2>6, <2>7 DEF BInv
<1>2. CASE Refused \/ Overloaded \/ Backstop \/ Fault \/ Shape
    <2>1. gate = "predict" /\ gate' = "answered" /\ input' = input
        BY <1>2 DEF Refused, Overloaded, Backstop, Fault, Shape, Respond
    <2>2. Bodies!Usable(input)
        BY <2>1 DEF BInv, Bodies!OnlyUsableIsParsed
    <2>3. Bodies!Usable(input)'
        BY <2>1, <2>2 DEF Bodies!Usable
    <2> QED
        BY <2>1, <2>3 DEF BInv
<1>3. CASE Predict \/ Infer \/ UNCHANGED serviceVars
    <2>1. UNCHANGED <<input, gate, frame, out, status>>
        BY <1>3 DEF Predict, Infer, serviceVars, front
    <2>2. [Bodies!Next]_(Bodies!vars)
        BY <2>1 DEF Bodies!vars
    <2>3. gate # "answered" => Bodies!IInv' /\ Bodies!Behind' /\ Bodies!OnlyUsableIsParsed'
        BY <2>2, BodiesAssume, Bodies!NextInv, Bodies!NextKeepsBehind, Zenon DEF BInv
    <2>4. Bodies!Usable(input)' = Bodies!Usable(input)
        BY <2>1 DEF Bodies!Usable
    <2> QED
        BY <2>1, <2>3, <2>4 DEF BInv
<1> QED
    BY <1>1, <1>2, <1>3 DEF ServiceNext

\* What else the types of the whole rest on: the catalog is all that a GET gets to,
\* and a reply comes with a status of 200.
TInv ==
    /\ input \in Inputs
    /\ gate \in Gate!Steps /\ frame \in Nat \ {0} /\ out \in Nat
    /\ status \in {0, 200, 401, 422, 500, 529}
    /\ status # 0 <=> gate = "answered"
    /\ input.route = "models" => gate \in {"auth", "catalog", "answered"}
    /\ status = 200 /\ input.route = "models" => reply = [models |-> ListModels]
    /\ status # 200 => reply = Nothing

\* The front's steps are typed as Gateway's are, and only GETs stop at the catalog.
LEMMA FrontTypes ==
    ASSUME Gate!Next, Bodies!IInv
    PROVE  /\ gate' \in Gate!Steps /\ frame' \in Nat \ {0} /\ out' \in Nat
           /\ gate = "catalog" => gate' = "answered" /\ status' = 200
           /\ gate # "catalog" /\ gate' = "answered" => status' \in {401, 422, 500}
           /\ gate' # "answered" => status' = status
           /\ input.route = "models" /\ gate = "auth" => gate' \in {"catalog", "answered"}
<1>1. Bodies!IInv'
    BY OneGateway, BodiesAssume, Bodies!NextInv, Zenon
<1>2. gate' \in Gate!Steps /\ frame' \in Nat \ {0} /\ out' \in Nat
    BY <1>1 DEF Bodies!IInv, Bodies!TypeOK, Bodies!Steps, Gate!Steps
<1>3. gate = "catalog" => gate' = "answered" /\ status' = 200
    BY DEF Gate!Next, Gate!CheckAuth, Gate!Catalog, Gate!CheckDeclared, Gate!ReadBody,
           Gate!ChooseDecoding, Gate!Inflate, Gate!ParseJson, Gate!Validate, Gate!Answer
<1>4. input.route = "models" /\ gate = "auth" => gate' \in {"catalog", "answered"}
    BY DEF Gate!Next, Gate!CheckAuth, Gate!Admitted, Gate!Catalog, Gate!CheckDeclared,
           Gate!ReadBody, Gate!ChooseDecoding, Gate!Inflate, Gate!ParseJson, Gate!Validate,
           Gate!Answer, Gate!Goto
<1> QED
    BY <1>2, <1>3, <1>4, FrontSteps

\* The types hold when a request arrives, ...
LEMMA ServiceInit_TInv == ServiceInit => TInv
BY ArrivalsAreSent DEF ServiceInit, TInv, Gate!Steps

\* ... and every step keeps them.
LEMMA ServiceNext_TInv == SInv /\ BInv /\ TInv /\ [ServiceNext]_serviceVars => TInv'
<1> SUFFICES ASSUME SInv, BInv, TInv, [ServiceNext]_serviceVars PROVE TInv'
    OBVIOUS
<1>0. ListModels' = ListModels
    BY DEF ListModels, Descriptions
<1>1. CASE Front
    <2>1. Gate!Next /\ reply' = IF gate = "catalog" THEN [models |-> ListModels] ELSE reply
        BY <1>1 DEF Front
    <2>2. gate \notin {"predict", "answered"} /\ input' = input /\ status = 0 /\ reply = Nothing
        BY <2>1, FrontSteps DEF SInv, TInv
    <2>3. Bodies!IInv
        BY <2>2 DEF BInv
    <2>4. /\ gate' \in Gate!Steps /\ frame' \in Nat \ {0} /\ out' \in Nat
          /\ gate = "catalog" => gate' = "answered" /\ status' = 200
          /\ gate # "catalog" /\ gate' = "answered" => status' \in {401, 422, 500}
          /\ gate' # "answered" => status' = status
          /\ input.route = "models" /\ gate = "auth" => gate' \in {"catalog", "answered"}
        BY <2>1, <2>3, FrontTypes
    <2>5. gate = "catalog" => input.route = "models"
        BY DEF SInv
    <2> QED
        BY <1>0, <2>1, <2>2, <2>4, <2>5 DEF TInv
<1>2. ASSUME NEW code \in {422, 500, 529}, Respond(code), UNCHANGED reply
      PROVE  TInv'
    BY <1>0, <1>2 DEF TInv, SInv, Respond, Gate!Steps
<1>3. CASE Shape
    <2>1. gate = "predict" /\ gate' = "answered" /\ status' = 200
          /\ UNCHANGED <<input, frame, out>>
        BY <1>3 DEF Shape, Respond
    <2> QED
        BY <2>1 DEF TInv, Gate!Steps
<1>4. CASE Predict \/ Infer \/ UNCHANGED serviceVars
    <2>1. UNCHANGED <<input, gate, frame, out, status, reply>>
        BY <1>4 DEF Predict, Infer, serviceVars, front
    <2> QED
        BY <1>0, <2>1 DEF TInv
<1> QED
    BY <1>1, <1>2, <1>3, <1>4 DEF ServiceNext, Refused, Overloaded, Backstop, Fault

\* The parts of the service keep their types, an answer is one that Jev's clients
\* know, and a reply comes with a 200 and only then.
THEOREM ServiceTypes == ServiceSpec => []ServiceTypeOK
<1>1. ASSUME SInv, TInv PROVE ServiceTypeOK
    <2>1. input.route \in {"systemone", "models"}
        BY <1>1, FrontIsGateways DEF TInv, Gate!Routes
    <2> QED
        BY <1>1, <2>1 DEF SInv, TInv, IInv, ServiceTypeOK
<1> QED
    BY <1>1, ServiceInvariance, ServiceInit_BInv, ServiceNext_BInv,
       ServiceInit_TInv, ServiceNext_TInv, PTL DEF ServiceSpec

\* Whoever is told to come back would be served if there were room.
THEOREM RetriesAreWorthIt == ServiceSpec => []OverloadIsWorthRetrying
<1>1. SInv /\ BInv => OverloadIsWorthRetrying
    BY InvServed, OneGateway
    DEF SInv, BInv, OverloadIsWorthRetrying, Servable, OnlyServableIsServed
<1> QED
    BY <1>1, ServiceInvariance, ServiceInit_BInv, ServiceNext_BInv, PTL DEF ServiceSpec

\* Whoever has an answer has passed every station there is on the way to it.
THEOREM EveryAnswerIsEarned == ServiceSpec => []AnswersAreEarned
<1>1. SInv /\ BInv => AnswersAreEarned
    BY InvServed, OneGateway
    DEF SInv, BInv, AnswersAreEarned, Servable, OnlyServableIsServed
<1> QED
    BY <1>1, ServiceInvariance, ServiceInit_BInv, ServiceNext_BInv, PTL DEF ServiceSpec

\* Whatever else happens in the service, the forward pass runs on nothing but
\* requests it can answer in full.
THEOREM ServiceServesInFull == ServiceSpec => []OnlyServableIsServed
<1>1. SInv => OnlyServableIsServed
    BY InvServed DEF SInv
<1> QED
    BY <1>1, ServiceInvariance, PTL

\* Nor is anything refused without a reason, or for another one than is named.
THEOREM ServiceRefusesRightly ==
    ServiceSpec => [](TypeOK /\ ServableIsNotRefused /\ FirstProblemIsNamed)
<1>1. SInv => TypeOK /\ ServableIsNotRefused /\ FirstProblemIsNamed
    BY DEF SInv, IInv
<1> QED
    BY <1>1, ServiceInvariance, PTL

-----------------------------------------------------------------------------
(* What a reply says                                                       *)

\* The catalog lists the names that are accepted, and what answers them.
LEMMA CatalogIsAccepted ==
    /\ {model.name : model \in ListModels} = Accepted
    /\ \A name \in Accepted : \E model \in ListModels :
           model.name = name /\ model.description = ResolveModel(name)
<1>1. DOMAIN Descriptions = Accepted
    BY DEF Descriptions, Accepted
<1>2. \A name \in Accepted : Descriptions[name] = ResolveModel(name)
    BY NamesDiffer DEF Descriptions, Accepted, ResolveModel
<1>3. \A model : model \in ListModels <=>
          \E name \in Accepted : model = [name |-> name, description |-> Descriptions[name]]
    BY <1>1 DEF ListModels
<1>4. ASSUME NEW name \in Accepted
      PROVE  \E model \in ListModels :
                 model.name = name /\ model.description = ResolveModel(name)
    <2>1. [name |-> name, description |-> Descriptions[name]] \in ListModels
        BY <1>3
    <2> QED
        BY <1>2, <2>1
<1>5. \A model \in ListModels : model.name \in Accepted
    BY <1>3
<1> QED
    BY <1>4, <1>5

\* GET /v1/models and POST /v1/systemone agree on the names.
THEOREM CatalogTellsTheTruth == ServiceSpec => []CatalogIsTrue
<1>1. ASSUME SInv PROVE CatalogIsTrue
    <2>1. problem = "model" => request.model \notin Accepted
        BY <1>1 DEF SInv, IInv, Behind, FirstProblemIsNamed
    <2>2. ASSUME status = 200, input.route = "systemone"
          PROVE  \E model \in ListModels :
                     model.name = request.model /\ model.description \in {None, reply.checkpoint}
        <3>1. /\ reply.checkpoint = checkpoint /\ request.model \in Accepted
              /\ ResolveModel(request.model) \in {None, checkpoint}
            BY <1>1, <2>2 DEF SInv, IInv, Behind
        <3> QED
            BY <3>1, CatalogIsAccepted
    <2> QED
        BY <2>1, <2>2, CatalogIsAccepted DEF CatalogIsTrue
<1> QED
    BY <1>1, ServiceInvariance, PTL

\* Translation leaves of Laya's answer to a question what Jev documents, with
\* each level of a score as it was written where Jev's type allows it.
LEMMA AnswerIsJevs ==
    ASSUME NEW i, NEW q, q.type \in Types, q.type = "score" => q.criteria = "array"
    PROVE  LET a == ToJevAnswer(LayaAnswer(i, q), q) IN
           /\ DOMAIN a = Documented(q.type)
           /\ a["type"] = q.type
           /\ \A key \in DOMAIN a \ {"type", "legend"} : a[key] = <<i, key>>
           /\ q.type = "score" =>
               a["legend"] = [level \in 0..(q.size - 1) |->
                   <<IF level \in q.structured THEN "written" ELSE "text", level>>]
<1> DEFINE laya == LayaAnswer(i, q)
           jev  == Only(laya, JevAnswerKeys(q.type))
<1>1. JevAnswerKeys(q.type) = Documented(q.type)
    <2>1. CASE q.type = "choice"
        BY <2>1 DEF JevAnswerKeys, Documented
    <2>2. CASE q.type = "score"
        BY <2>2 DEF JevAnswerKeys, Documented
    <2>3. CASE q.type = "noul"
        BY <2>3 DEF JevAnswerKeys, Documented
    <2> QED
        BY <2>1, <2>2, <2>3 DEF Types
<1>2. /\ "type" \in Documented(q.type)
      /\ "legend" \in Documented(q.type) <=> q.type = "score"
    BY DEF Documented, Types
<1>3. /\ DOMAIN laya = Documented(q.type) \cup {"confidence", "answer_confidence", "action"}
      /\ laya["type"] = q.type
      /\ q.type = "score" => laya["legend"] = [level \in 0..(q.size - 1) |-> <<"text", level>>]
      /\ \A key \in DOMAIN laya \ {"type", "legend"} : laya[key] = <<i, key>>
    BY <1>1, <1>2 DEF LayaAnswer
<1>4. /\ DOMAIN jev = Documented(q.type)
      /\ \A key \in Documented(q.type) : jev[key] = laya[key]
    BY <1>1, <1>3 DEF Only
<1> HIDE DEF laya, jev
<1>5. ToJevAnswer(laya, q) =
          IF "legend" \in DOMAIN jev
          THEN [jev EXCEPT !["legend"] = JevLegend(jev["legend"], q)] ELSE jev
    BY <1>3 DEF ToJevAnswer, jev
<1>6. CASE q.type = "score"
    <2>1. JevLegend(jev["legend"], q) =
              [level \in 0..(q.size - 1) |->
                  <<IF level \in q.structured THEN "written" ELSE "text", level>>]
        <3> DEFINE legend == jev["legend"]
        <3>1. legend = [level \in 0..(q.size - 1) |-> <<"text", level>>]
            BY <1>2, <1>3, <1>4, <1>6
        <3>2. q.criteria = "array"
            BY <1>6
        <3> HIDE DEF legend
        <3>3. JevLegend(legend, q) =
                  [level \in DOMAIN legend |->
                      IF level \in q.structured THEN <<"written", level>> ELSE legend[level]]
            BY <3>2 DEF JevLegend
        <3>4. DOMAIN legend = 0..(q.size - 1)
            BY <3>1
        <3>5. \A level \in 0..(q.size - 1) :
                  (IF level \in q.structured THEN <<"written", level>> ELSE legend[level])
                      = <<IF level \in q.structured THEN "written" ELSE "text", level>>
            BY <3>1
        <3> QED
            BY <3>3, <3>4, <3>5 DEF legend
    <2> QED
        BY <1>2, <1>3, <1>4, <1>5, <1>6, <2>1 DEF laya
<1>7. CASE q.type # "score"
    BY <1>2, <1>3, <1>4, <1>5, <1>7 DEF laya
<1> QED
    BY <1>6, <1>7

\* A client of Jev's finds in a reply what it would find in Jev's.
THEOREM RepliesAreJevs == ServiceSpec => []ReplyIsJevs
<1>1. ASSUME SInv PROVE ReplyIsJevs
    <2> SUFFICES ASSUME status = 200, input.route = "systemone"
                 PROVE  ReplyIsJevs
        BY DEF ReplyIsJevs
    <2>1. /\ reply = [body |-> Shaped, checkpoint |-> checkpoint]
          /\ result = LayaResult /\ pc = "inference" /\ IInv
        BY <1>1 DEF SInv
    <2>2. /\ given \in Seq(Questions) /\ request.questions \in Seq(Questions)
          /\ Len(given) = Len(request.questions)
          /\ \A i \in 1..Len(request.questions) :
              /\ request.questions[i] \in Questions
              /\ given[i] = JevQuestion(request.questions[i])
              /\ Sound(request.questions[i])
        BY <2>1, RequestShape, RulesAreJevs DEF IInv, Behind, TypeOK
    <2>3. /\ DOMAIN result.answers = 1..Len(request.questions)
          /\ \A i \in 1..Len(request.questions) : result.answers[i] = LayaAnswer(i, given[i])
          /\ DOMAIN result.usage = {"input_tokens", "output_tokens", "state_tokens", "truncated"}
        BY <2>1, <2>2 DEF LayaResult, JevUsageKeys
    <2>4. /\ DOMAIN reply.body = {"model", "answers", "usage"}
          /\ reply.body.model = request.model
          /\ DOMAIN reply.body.usage = {"input_tokens", "output_tokens"}
          /\ DOMAIN reply.body.answers = 1..Len(request.questions)
          /\ \A i \in 1..Len(request.questions) :
                 reply.body.answers[i] = ToJevAnswer(LayaAnswer(i, given[i]), given[i])
        BY <2>1, <2>3 DEF Shaped, ToJevResponse, Only, JevUsageKeys
    <2>5. ASSUME NEW q \in Questions
          PROVE  /\ JevQuestion(q).type = q.type /\ JevQuestion(q).size = q.size
                 /\ JevQuestion(q).criteria = q.criteria
                 /\ JevQuestion(q).structured = q.structured
        BY DEF JevQuestion, Questions
    <2>6. ASSUME NEW i \in 1..Len(request.questions)
          PROVE  LET q == request.questions[i]
                     a == reply.body.answers[i]
                 IN  /\ DOMAIN a = Documented(q.type)
                     /\ a["type"] = q.type
                     /\ \A key \in DOMAIN a \ {"type", "legend"} : a[key] = <<i, key>>
                     /\ q.type = "score" =>
                         a["legend"] = [level \in 0..(q.size - 1) |->
                             <<IF level \in q.structured THEN "written" ELSE "text", level>>]
        <3>1. /\ given[i].type = request.questions[i].type
              /\ given[i].size = request.questions[i].size
              /\ given[i].structured = request.questions[i].structured
              /\ given[i].type \in Types
              /\ given[i].type = "score" => given[i].criteria = "array"
            BY <2>2, <2>5, <2>6 DEF Sound, JevLegal
        <3>2. reply.body.answers[i] = ToJevAnswer(LayaAnswer(i, given[i]), given[i])
            BY <2>4, <2>6
        <3>3. LET a == reply.body.answers[i] IN
              /\ DOMAIN a = Documented(given[i].type)
              /\ a["type"] = given[i].type
              /\ \A key \in DOMAIN a \ {"type", "legend"} : a[key] = <<i, key>>
              /\ given[i].type = "score" =>
                  a["legend"] = [level \in 0..(given[i].size - 1) |->
                      <<IF level \in given[i].structured THEN "written" ELSE "text", level>>]
            BY <3>1, <3>2, AnswerIsJevs
        <3> QED
            BY <3>1, <3>3
    <2> QED
        BY <2>4, <2>6 DEF ReplyIsJevs
<1> QED
    BY <1>1, ServiceInvariance, PTL

=============================================================================
