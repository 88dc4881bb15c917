-------------------------- MODULE ValidationProofs --------------------------
(***************************************************************************)
(* Proofs about Validation, for every set of requests and of checkpoints,  *)
(* and every limit.                                                        *)
(***************************************************************************)
EXTENDS Validation, TLAPS

\* The rules, in the order of the code, let through exactly what is sound.
LEMMA RulesAreJevs ==
    ASSUME NEW q \in Questions
    PROVE  Broken(q) = "none" <=> Sound(q)
<1>1. LayaSays(JevQuestion(q)) = q.laya /\ q.laya \in Opinions
    BY DEF LayaSays, JevQuestion, Questions, Extensions
<1>2. q.laya = "accepts" <=> ~LayaRefuses(JevQuestion(q)) /\ ~LayaRaises(JevQuestion(q))
    BY <1>1 DEF LayaRefuses, LayaRaises, Opinions
<1> QED
    BY <1>2, LimitsAreNumbers
    DEF Broken, Sound, JevLegal, CriteriaFit, ChoiceFits, ScoreFits, NoulFits,
        Questions, Types, Containers

\* What _validate_options_fit and the room test let through is answered in full,
\* and the fields that are dropped have no part in it.
LEMMA BudgetIsLayas ==
    ASSUME NEW q \in Questions, request.tokens \in [LayaModels -> Nat],
           checkpoint \in LayaModels
    PROVE  /\ OverBudget(q) = "none" <=> AnsweredInFull(q, request.tokens, checkpoint)
           /\ OverBudget(q) = "state" => q.markers[checkpoint] = q.options
           /\ OverBudget(q) = "options" => q.markers[checkpoint] # q.options
           /\ OverBudget(q) \in {"none", "options", "state"}
           /\ OverBudget(JevQuestion(q)) = OverBudget(q)
BY DEF OverBudget, OptionsFit, StateFits, AnsweredInFull, JevQuestion, Questions, Extensions

\* Dropping fields leaves a question.
LEMMA JevQuestionIsOne == ASSUME NEW q \in Questions PROVE JevQuestion(q) \in Questions
BY DEF JevQuestion, Questions, Extensions

\* A rule that validate_question names is one of its own.
LEMMA RuleNames ==
    ASSUME NEW q
    PROVE  Broken(q) \in {"none", "raises", "shape", "type", "instructions", "criteria", "laya"}
BY DEF Broken

\* A request is what decoding makes of a body.
LEMMA RequestShape ==
    ASSUME TypeOK
    PROVE  /\ request.questions \in Seq(Questions)
           /\ request.tokens \in [LayaModels -> Nat]
           /\ \A i \in 1..Len(request.questions) : request.questions[i] \in Questions
           /\ \A i \in 1..Len(given) : given[i] \in Questions
BY RequestsAreDecoded DEF TypeOK

\* The invariant holds of a request that has just been decoded.
LEMMA InitInv == Init => IInv
<1> SUFFICES ASSUME NEW req \in Requests, Start(req) PROVE IInv
    BY DEF Init
<1>1. request \in Requests /\ request.questions \in Seq(Questions)
    BY RequestsAreDecoded DEF Start
<1>2. /\ given = request.questions /\ pc = "validate" /\ index = 1
      /\ problem = "none" /\ checkpoint = None /\ borrowed = FALSE
    BY DEF Start
<1>3. TypeOK
    <2>1. given \in Seq(Questions)
        BY <1>1, <1>2
    <2>2. borrowed \in BOOLEAN
        BY <1>2
    <2>3. pc \in Passes /\ index \in Nat \ {0} /\ problem \in Rules
        BY <1>2 DEF Passes, Rules
    <2>4. checkpoint \in LayaModels \cup {None}
        BY <1>2
    <2> QED
        BY <1>1, <2>1, <2>2, <2>3, <2>4 DEF TypeOK
<1>4. Behind
    BY <1>1, <1>2 DEF Behind
<1> QED
    BY <1>2, <1>4, <1>3 DEF IInv, ServableIsNotRefused, FirstProblemIsNamed

\* A step that only goes on to the next pass keeps what does not depend on it.
LEMMA GotoInv ==
    ASSUME IInv, NEW pass \in Passes \ {"refused", "raised"}, Goto(pass), Behind'
    PROVE  IInv'
BY DEF IInv, Goto, TypeOK, ServableIsNotRefused, FirstProblemIsNamed

\* A refusal keeps the invariant if it is for a reason and names it.
LEMMA RefuseInv ==
    ASSUME IInv, NEW rule \in Rules, Refuse(rule),
           ServableIsNotRefused', FirstProblemIsNamed'
    PROVE  IInv'
BY DEF IInv, Refuse, TypeOK, Behind, Passes

\* The passes over the questions keep the invariant.
LEMMA QuestionsInv == IInv /\ (NothingAsked \/ CheckQuestion \/ QuestionsAreValid) => IInv'
<1> SUFFICES ASSUME IInv, NothingAsked \/ CheckQuestion \/ QuestionsAreValid PROVE IInv'
    OBVIOUS
<1>0. TypeOK /\ Behind
    BY DEF IInv
<1>r. \A i \in 1..Len(request.questions) : request.questions[i] \in Questions
    BY <1>0, RequestShape
<1>1. CASE NothingAsked
    <2>1. Refuse("questions") /\ given = request.questions
          /\ (~request.object \/ given = <<>>)
        BY <1>0, <1>1 DEF NothingAsked, Behind
    <2>2. ServableIsNotRefused'
        BY <2>1 DEF Refuse, ServableIsNotRefused, Legal
    <2>3. FirstProblemIsNamed'
        BY <2>1 DEF Refuse, FirstProblemIsNamed
    <2> QED
        BY <2>1, <2>2, <2>3, RefuseInv DEF Rules
<1>2. CASE CheckQuestion
    <2> DEFINE rule == Broken(given[index])
    <2>1. pc = "validate" /\ given = request.questions /\ index \in 1..Len(given)
        BY <1>0, <1>2 DEF CheckQuestion, TypeOK, Behind
    <2>2. \A i \in 1..Len(given) : Broken(given[i]) = "none" <=> Sound(given[i])
        BY <1>r, <2>1, RulesAreJevs
    <2>3. CASE rule \notin {"none", "raises"} /\ Refuse(rule)
        <3>1. pc' = "refused" /\ problem' = rule /\ UNCHANGED <<request, given, index, checkpoint>>
            BY <2>3 DEF Refuse
        <3>2. rule \in {"shape", "type", "instructions", "criteria", "laya"}
            BY <2>3, RuleNames
        <3>3. ~Sound(given[index])
            BY <2>1, <2>2, <2>3
        <3>4. \A i \in 1..(index - 1) : Sound(given[i])
            BY <1>0, <2>1, <2>2 DEF Behind
        <3>5. ServableIsNotRefused'
            BY <2>1, <3>1, <3>3 DEF ServableIsNotRefused, Legal
        <3>6. FirstProblemIsNamed'
            BY <2>1, <3>1, <3>2, <3>3, <3>4 DEF FirstProblemIsNamed
        <3> QED
            BY <2>3, <3>2, <3>5, <3>6, RefuseInv DEF Rules
    <2>4. CASE rule = "none" /\ NextQuestion
        <3>1. TypeOK'
            BY <1>0, <2>4 DEF TypeOK, NextQuestion
        <3>2. Behind'
            BY <1>0, <2>1, <2>4 DEF Behind, NextQuestion
        <3> QED
            BY <2>1, <2>4, <3>1, <3>2
            DEF IInv, NextQuestion, ServableIsNotRefused, FirstProblemIsNamed
    <2>5. CASE rule = "raises" /\ Goto("raised")
        <3>1. ~Sound(given[index])
            BY <2>1, <2>2, <2>5
        <3>2. pc' = "raised" /\ UNCHANGED <<request, given, index, problem, checkpoint>>
            BY <2>5 DEF Goto
        <3>3. TypeOK'
            BY <1>0, <2>5 DEF TypeOK, Goto, Passes
        <3>4. ServableIsNotRefused'
            BY <2>1, <3>1, <3>2 DEF ServableIsNotRefused, Legal
        <3>5. Behind'
            BY <1>0, <2>1, <3>2 DEF Behind
        <3> QED
            BY <3>2, <3>3, <3>4, <3>5 DEF IInv, FirstProblemIsNamed
    <2> QED
        BY <1>2, <2>3, <2>4, <2>5 DEF CheckQuestion
<1>3. CASE QuestionsAreValid
    <2>1. Behind'
        BY <1>0, <1>3 DEF QuestionsAreValid, Goto, Behind, TypeOK
    <2> QED
        BY <1>3, <2>1, GotoInv DEF QuestionsAreValid, Passes
<1> QED
    BY <1>1, <1>2, <1>3

\* What is between the questions and the budget keeps it.
LEMMA RoutingInv == IInv /\ (Resolve \/ Strip \/ Route) => IInv'
<1> SUFFICES ASSUME IInv, Resolve \/ Strip \/ Route PROVE IInv'
    OBVIOUS
<1>0. TypeOK /\ Behind /\ Len(given) = Len(request.questions)
    BY DEF IInv
<1>r. \A i \in 1..Len(request.questions) : request.questions[i] \in Questions
    BY <1>0, RequestShape
<1>1. CASE Resolve /\ Refuse("model")
    <2>1. /\ pc = "resolve" /\ request.model \notin Accepted
          /\ \A i \in 1..Len(request.questions) : Sound(request.questions[i])
        BY <1>0, <1>1, <1>r, RulesAreJevs DEF Resolve, Refuse, Goto, Behind
    <2>2. ServableIsNotRefused' /\ FirstProblemIsNamed'
        BY <1>1, <2>1 DEF Refuse, ServableIsNotRefused, FirstProblemIsNamed, Legal
    <2> QED
        BY <1>1, <2>2, RefuseInv DEF Rules
<1>2. CASE Resolve /\ Goto("strip")
    <2>1. Behind'
        BY <1>0, <1>2 DEF Resolve, Refuse, Goto, Behind
    <2> QED
        BY <1>2, <2>1, GotoInv DEF Passes
<1>3. CASE Strip
    <2>1. pc = "strip" /\ given = request.questions /\ pc' = "route"
          /\ given' = [i \in 1..Len(given) |-> JevQuestion(given[i])]
          /\ UNCHANGED <<request, index, problem, checkpoint, borrowed>>
        BY <1>0, <1>3 DEF Strip, Behind
    <2>2. \A i \in 1..Len(given) : JevQuestion(given[i]) \in Questions
        BY <1>r, <2>1, JevQuestionIsOne
    <2>3. given' \in Seq(Questions) /\ Len(given') = Len(given)
        BY <1>0, <2>1, <2>2 DEF TypeOK
    <2>4. TypeOK'
        BY <1>0, <2>1, <2>3 DEF TypeOK, Passes
    <2>5. Behind'
        BY <1>0, <2>1, <2>3 DEF Behind
    <2> QED
        BY <1>0, <2>1, <2>3, <2>4, <2>5 DEF IInv, ServableIsNotRefused, FirstProblemIsNamed
<1>4. CASE Route
    <2>1. PICK c \in LayaModels : ResolveModel(request.model) \in {None, c} /\ checkpoint' = c
        BY <1>4 DEF Route
    <2>2. pc = "route" /\ pc' = "count" /\ index' = 1
          /\ UNCHANGED <<request, given, problem, borrowed>>
        BY <1>4 DEF Route
    <2>3. TypeOK'
        BY <1>0, <2>1, <2>2 DEF TypeOK, Passes
    <2>4. Behind'
        BY <1>0, <2>1, <2>2 DEF Behind
    <2> QED
        BY <1>0, <2>2, <2>3, <2>4 DEF IInv, ServableIsNotRefused, FirstProblemIsNamed
<1> QED
    BY <1>1, <1>2, <1>3, <1>4 DEF Resolve

\* The budget keeps it, whatever else is done with the tokenizer.
LEMMA BudgetInv == IInv /\ (OthersEncode \/ CountState \/ CheckBudget \/ WithinBudget) => IInv'
<1> SUFFICES ASSUME IInv, OthersEncode \/ CountState \/ CheckBudget \/ WithinBudget
             PROVE IInv'
    OBVIOUS
<1>0. TypeOK /\ Behind /\ Len(given) = Len(request.questions)
    BY DEF IInv
<1>r. /\ request.tokens \in [LayaModels -> Nat]
      /\ \A i \in 1..Len(request.questions) : request.questions[i] \in Questions
      /\ request.questions \in Seq(Questions)
    BY <1>0, RequestShape
<1>s. (request' = request /\ checkpoint' = checkpoint) =>
          \A q : OverBudget(q)' = OverBudget(q)
    BY DEF OverBudget, OptionsFit, StateFits
<1>1. CASE OthersEncode
    <2>1. TypeOK'
        BY <1>0, <1>1 DEF TypeOK, OthersEncode
    <2>2. Behind'
        BY <1>0, <1>1 DEF OthersEncode, Behind, OverBudget, OptionsFit, StateFits
    <2> QED
        BY <1>1, <2>1, <2>2
        DEF IInv, OthersEncode, ServableIsNotRefused, FirstProblemIsNamed
<1>2. CASE CountState
    <2>1. Behind'
        BY <1>0, <1>2 DEF CountState, Goto, Behind
    <2> QED
        BY <1>2, <2>1, GotoInv DEF CountState, Passes
<1>3. CASE CheckBudget
    <2> DEFINE rule == OverBudget(given[index])
    <2>1. pc = "budget" /\ index \in 1..Len(given) /\ checkpoint \in LayaModels
        BY <1>0, <1>3 DEF CheckBudget, TypeOK, Behind
    <2>2. \A i \in 1..Len(given) : Sound(request.questions[i])
        BY <1>0, <1>r, <2>1, RulesAreJevs DEF Behind
    <2>3. \A i \in 1..Len(given) :
              LET q == request.questions[i] IN
              /\ OverBudget(given[i]) = "none" <=> AnsweredInFull(q, request.tokens, checkpoint)
              /\ OverBudget(given[i]) = "state" => q.markers[checkpoint] = q.options
              /\ OverBudget(given[i]) = "options" => q.markers[checkpoint] # q.options
              /\ OverBudget(given[i]) \in {"none", "options", "state"}
        BY <1>0, <1>r, <2>1, BudgetIsLayas DEF Behind
    <2>4. CASE rule # "none" /\ Refuse(rule)
        <3>1. pc' = "refused" /\ problem' = rule
              /\ UNCHANGED <<request, given, index, checkpoint>>
            BY <2>4 DEF Refuse
        <3>2. rule \in {"options", "state"}
            BY <2>1, <2>3, <2>4
        <3>3. ~AnsweredInFull(request.questions[index], request.tokens, checkpoint)
            BY <2>1, <2>3, <2>4
        <3>4. ServableIsNotRefused'
            BY <1>0, <2>1, <3>1, <3>3, NamesDiffer DEF ServableIsNotRefused, FitsOn
        <3>5. \A i \in 1..(index - 1) :
                  AnsweredInFull(request.questions[i], request.tokens, checkpoint)
            BY <1>0, <2>1, <2>3 DEF Behind
        <3>6. rule = "state" <=>
                  request.questions[index].markers[checkpoint] = request.questions[index].options
            BY <2>1, <2>3, <3>2
        <3>7. Legal(request)
            BY <1>0, <2>1, <2>2 DEF Legal, Behind
        <3>8. FirstProblemIsNamed'
            BY <3>1, <3>2, <3>3, <3>5, <3>6, <3>7 DEF FirstProblemIsNamed
        <3> QED
            BY <2>4, <3>2, <3>4, <3>8, RefuseInv DEF Rules
    <2>5. CASE rule = "none" /\ NextQuestion
        <3>1. TypeOK'
            BY <1>0, <2>5 DEF TypeOK, NextQuestion
        <3>2. \A q : OverBudget(q)' = OverBudget(q)
            BY <1>s, <2>5 DEF NextQuestion
        <3>3. Behind'
            BY <1>0, <2>1, <2>5, <3>2 DEF Behind, NextQuestion
        <3> QED
            BY <2>1, <2>5, <3>1, <3>3
            DEF IInv, NextQuestion, ServableIsNotRefused, FirstProblemIsNamed
    <2> QED
        BY <1>3, <2>4, <2>5 DEF CheckBudget
<1>4. CASE WithinBudget
    <2>1. \A q : OverBudget(q)' = OverBudget(q)
        BY <1>s, <1>4 DEF WithinBudget, Goto
    <2>2. Behind'
        BY <1>0, <1>4, <2>1 DEF WithinBudget, Goto, Behind, TypeOK
    <2> QED
        BY <1>4, <2>2, GotoInv DEF WithinBudget, Passes
<1> QED
    BY <1>1, <1>2, <1>3, <1>4

\* Every step keeps the invariant.
LEMMA NextInv == IInv /\ [Next]_vars => IInv'
<1>1. IInv /\ UNCHANGED vars => IInv'
    BY DEF vars, IInv, Behind, TypeOK, ServableIsNotRefused, FirstProblemIsNamed,
           OverBudget, OptionsFit, StateFits
<1> QED
    BY <1>1, QuestionsInv, RoutingInv, BudgetInv DEF Next

\* The invariant holds in every reachable state.
THEOREM Invariance == Spec => []IInv
BY InitInv, NextInv, PTL DEF Spec

\* Every variable keeps its type.
THEOREM TypeCorrect == Spec => []TypeOK
<1>1. IInv => TypeOK
    BY DEF IInv
<1> QED
    BY <1>1, Invariance, PTL

\* Whatever reaches the forward pass is legal, whole, on the checkpoint it was
\* sent to, and what Laya checked.
LEMMA InvServed == IInv => OnlyServableIsServed
<1> SUFFICES ASSUME IInv, pc = "inference"
             PROVE  /\ Legal(request)
                    /\ request.model \in LayaModels => checkpoint = request.model
                    /\ FitsOn(request, checkpoint)
                    /\ \A i \in 1..Len(given) : LayaSays(given[i]) = "accepts"
    BY DEF OnlyServableIsServed
<1>1. /\ request.questions \in Seq(Questions)
      /\ request.tokens \in [LayaModels -> Nat]
      /\ \A i \in 1..Len(request.questions) : request.questions[i] \in Questions
    BY RequestShape DEF IInv
<1>2. /\ request.object /\ request.questions # <<>> /\ request.model \in Accepted
      /\ Len(given) = Len(request.questions)
      /\ checkpoint \in LayaModels /\ ResolveModel(request.model) \in {None, checkpoint}
      /\ \A i \in 1..Len(given) :
          /\ Broken(request.questions[i]) = "none"
          /\ given[i] = JevQuestion(request.questions[i])
          /\ OverBudget(given[i]) = "none"
    BY DEF IInv, Behind
<1>3. \A i \in 1..Len(request.questions) : Sound(request.questions[i])
    BY <1>1, <1>2, RulesAreJevs
<1>4. FitsOn(request, checkpoint)
    BY <1>1, <1>2, BudgetIsLayas DEF FitsOn
<1>5. request.model \in LayaModels => checkpoint = request.model
    BY <1>2, NamesDiffer DEF ResolveModel
<1>6. ASSUME NEW q \in Questions, q.laya = "accepts"
      PROVE  LayaSays(JevQuestion(q)) = "accepts"
    BY <1>6 DEF LayaSays, JevQuestion, Questions, Extensions
<1>7. \A i \in 1..Len(given) : LayaSays(given[i]) = "accepts"
    BY <1>1, <1>2, <1>3, <1>6 DEF Sound
<1> QED
    BY <1>2, <1>3, <1>4, <1>5, <1>7 DEF Legal

\* The forward pass runs on nothing but requests it can answer in full.
THEOREM ServedInFull == Spec => []OnlyServableIsServed
BY InvServed, Invariance, PTL

\* No limit is off by one, the fields Jev does not define cost nothing, and no
\* other request's use of the tokenizer fails this one.
THEOREM NothingServableRefused == Spec => []ServableIsNotRefused
<1>1. IInv => ServableIsNotRefused
    BY DEF IInv
<1> QED
    BY <1>1, Invariance, PTL

\* A refusal names the first problem there is, options before state.
THEOREM RefusalsBlameRightly == Spec => []FirstProblemIsNamed
<1>1. IInv => FirstProblemIsNamed
    BY DEF IInv
<1> QED
    BY <1>1, Invariance, PTL

=============================================================================
