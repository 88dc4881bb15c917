----------------------------- MODULE Validation -----------------------------
(***************************************************************************)
(* What stands between a decoded request and the forward pass: the checks  *)
(* of src/laya_server/validation.py in the order Engine.predict makes      *)
(* them.  validate_questions applies Jev's rules and then Laya's to each   *)
(* question in turn; resolve_model knows the name or not; jev_questions    *)
(* drops the fields Jev does not define; and validate_budget measures the  *)
(* state and every question on the checkpoint the request was routed to.   *)
(*                                                                         *)
(* Text is not modelled.  A question is what the checks can tell about it, *)
(* with what Laya's helpers say of it on each checkpoint: the option       *)
(* markers build_sequence keeps of those render_options makes, and the     *)
(* tokens state_room leaves.                                               *)
(***************************************************************************)
EXTENDS Models, Sequences

CONSTANTS
    MaxOptions,  \* MAX_CHOICE_OPTIONS
    MinLevels,   \* MIN_SCORE_LEVELS
    MaxLevels,   \* MAX_SCORE_LEVELS
    Requests     \* the requests clients may send

Types      == {"choice", "score", "noul"}
Containers == {"none", "object", "array", "scalar"}
\* What Agent._check_question makes of the fields Jev defines, and of the ones
\* only Laya does (labels, option_order).
Opinions   == {"accepts", "ValueError", "TypeError", "another error"}
Extensions == {"absent"} \cup Opinions

\* structured: the entries of criteria that are objects or arrays themselves.
Questions ==
    [object : BOOLEAN, type : Types \cup {"unknown", "missing"},
     instructions : BOOLEAN, criteria : Containers, size : Nat, structured : SUBSET Nat,
     laya : Opinions, extension : Extensions,
     options : Nat, markers : [LayaModels -> Nat], room : [LayaModels -> Nat]]

ASSUME LimitsAreNumbers == MaxOptions \in Nat /\ MinLevels \in Nat /\ MaxLevels \in Nat
\* tokens is the length of the state, which each checkpoint's own tokenizer
\* finds; object, whether `questions` is a mapping.
ASSUME RequestsAreDecoded ==
    \A req \in Requests :
        req \in [object : BOOLEAN, questions : Seq(Questions), model : ModelNames,
                 tokens : [LayaModels -> Nat]]

VARIABLES
    request,     \* the request as decoded
    given,       \* `questions` in predict(): what routing and Laya receive
    pc,          \* the pass under way, or how it ended: to run, refused, or in an exception
                 \* that nobody expects
    index,       \* the question it has come to
    problem,     \* the rule a refusal names
    checkpoint,  \* where the request was routed
    borrowed     \* another request is encoding with that checkpoint's tokenizer

vars == <<request, given, pc, index, problem, checkpoint, borrowed>>

Passes == {"validate", "resolve", "strip", "route", "count", "budget", "inference",
           "refused", "raised"}
Rules  == {"none", "questions", "shape", "type", "instructions", "criteria",
           "laya", "model", "options", "state"}

TypeOK ==
    /\ request \in Requests
    /\ given \in Seq(Questions)
    /\ pc \in Passes
    /\ index \in Nat \ {0}
    /\ problem \in Rules
    /\ checkpoint \in LayaModels \cup {None}
    /\ borrowed \in BOOLEAN

-----------------------------------------------------------------------------
(* The rules                                                               *)

\* _validate_choice, _validate_score, _validate_noul
ChoiceFits(q) == q.criteria \in {"object", "array"} /\ q.size \in 1..MaxOptions
ScoreFits(q)  == q.criteria = "array" /\ q.size \in MinLevels..MaxLevels
NoulFits(q)   == q.criteria \in {"none", "object"}

CriteriaFit(q) ==
    \/ q.type = "choice" /\ ChoiceFits(q)
    \/ q.type = "score" /\ ScoreFits(q)
    \/ q.type = "noul" /\ NoulFits(q)

\* jev_question: without the fields only Laya understands.
JevQuestion(q) == [q EXCEPT !.extension = "absent"]

\* What Agent._check_question makes of a question as it is handed over.
LayaSays(q) == IF q.laya = "accepts" /\ q.extension # "absent" THEN q.extension ELSE q.laya
LayaRefuses(q) == LayaSays(q) \in {"ValueError", "TypeError"}
LayaRaises(q)  == LayaSays(q) = "another error"

\* validate_question: the first rule q breaks, in the order of the code; or that
\* Laya's check, the last of them, raises what is not caught.
Broken(q) ==
    IF ~q.object THEN "shape"
    ELSE IF q.type \notin Types THEN "type"
    ELSE IF ~q.instructions THEN "instructions"
    ELSE IF ~CriteriaFit(q) THEN "criteria"
    ELSE IF LayaRefuses(JevQuestion(q)) THEN "laya"
    ELSE IF LayaRaises(JevQuestion(q)) THEN "raises"
    ELSE "none"

\* _validate_options_fit: no option marker was dropped.
OptionsFit(q) == q.markers[checkpoint] = q.options

\* The state is not longer than what q leaves room for.
StateFits(q) == request.tokens[checkpoint] <= q.room[checkpoint]

\* Slips: the options are left to Laya; and the state is measured first.
OverBudgetStateOnly(q) == IF ~StateFits(q) THEN "state" ELSE "none"
OverBudgetStateFirst(q) ==
    IF ~StateFits(q) THEN "state" ELSE IF ~OptionsFit(q) THEN "options" ELSE "none"
\* validate_budget for one question: the options are looked at first.
OverBudget(q) ==
    IF ~OptionsFit(q) THEN "options" ELSE IF ~StateFits(q) THEN "state" ELSE "none"

-----------------------------------------------------------------------------
(* The passes                                                              *)

Goto(pass) ==
    /\ pc' = pass
    /\ UNCHANGED <<request, given, index, problem, checkpoint, borrowed>>

Refuse(rule) ==
    /\ pc' = "refused"
    /\ problem' = rule
    /\ UNCHANGED <<request, given, index, checkpoint, borrowed>>

NextQuestion ==
    /\ index' = index + 1
    /\ UNCHANGED <<request, given, pc, problem, checkpoint, borrowed>>

\* predict() is called.
Start(req) ==
    /\ request = req /\ given = req.questions
    /\ pc = "validate" /\ index = 1 /\ problem = "none"
    /\ checkpoint = None /\ borrowed = FALSE

Init == \E req \in Requests : Start(req)

\* validate_questions: something is asked at all.
NothingAsked ==
    /\ pc = "validate"
    /\ ~request.object \/ given = <<>>
    /\ Refuse("questions")

\* validate_questions: one turn of the loop.
CheckQuestion ==
    /\ pc = "validate"
    /\ request.object /\ index <= Len(given)
    /\ LET rule == Broken(given[index]) IN
        \/ rule \notin {"none", "raises"} /\ Refuse(rule)
        \/ rule = "raises" /\ Goto("raised")
        \/ rule = "none" /\ NextQuestion

QuestionsAreValid ==
    /\ pc = "validate"
    /\ request.object /\ given # <<>> /\ index > Len(given)
    /\ Goto("resolve")

\* resolve_model
Resolve ==
    /\ pc = "resolve"
    /\ \/ request.model \notin Accepted /\ Refuse("model")
       \/ request.model \in Accepted /\ Goto("strip")

\* jev_questions
Strip ==
    /\ pc = "strip"
    /\ given' = [i \in 1..Len(given) |-> JevQuestion(given[i])]
    /\ pc' = "route"
    /\ UNCHANGED <<request, index, problem, checkpoint, borrowed>>

\* Router.route: the checkpoint that was named, or one of its own choice.
Route ==
    /\ pc = "route"
    /\ \E c \in LayaModels :
        /\ ResolveModel(request.model) \in {None, c}
        /\ checkpoint' = c
    /\ pc' = "count"
    /\ index' = 1
    /\ UNCHANGED <<request, given, problem, borrowed>>

\* Other requests encode on other threads, each for as long as encode_text has
\* the lock of the tokenizer.
OthersEncode ==
    /\ pc \in {"count", "budget"}
    /\ borrowed' = ~borrowed
    /\ UNCHANGED <<request, given, pc, index, problem, checkpoint>>

\* A slip: the tokenizer is called without its lock, and raises when it is
\* "Already borrowed".
CountUnlocked ==
    /\ pc = "count"
    /\ \/ borrowed /\ Goto("raised")
       \/ ~borrowed /\ Goto("budget")
\* validate_budget: the state is counted, once, in its turn.
CountState ==
    /\ pc = "count"
    /\ ~borrowed
    /\ Goto("budget")

\* validate_budget: one turn of the loop, whose helpers encode in their turn too.
CheckBudget ==
    /\ pc = "budget"
    /\ ~borrowed
    /\ index <= Len(given)
    /\ LET rule == OverBudget(given[index]) IN
        \/ rule # "none" /\ Refuse(rule)
        \/ rule = "none" /\ NextQuestion

WithinBudget ==
    /\ pc = "budget"
    /\ index > Len(given)
    /\ Goto("inference")

Next == NothingAsked \/ CheckQuestion \/ QuestionsAreValid \/ Resolve \/ Strip
        \/ Route \/ OthersEncode \/ CountState \/ CheckBudget \/ WithinBudget

Spec == Init /\ [][Next]_vars

-----------------------------------------------------------------------------
(* What the checks are for                                                 *)

\* Jev's documented limits, told without the order of the code.
JevLegal(q) ==
    /\ q.object
    /\ q.type \in Types
    /\ q.instructions
    /\ q.type = "choice" => q.criteria \in {"object", "array"} /\ 0 < q.size /\ q.size <= MaxOptions
    /\ q.type = "score" => q.criteria = "array" /\ MinLevels <= q.size /\ q.size <= MaxLevels
    /\ q.type = "noul" => q.criteria \notin {"array", "scalar"}

\* A question Jev would accept, and Laya answers.
Sound(q) == JevLegal(q) /\ q.laya = "accepts"

\* A request Jev would accept, to the one service or to a checkpoint.
Legal(req) ==
    /\ req.object
    /\ req.questions # <<>>
    /\ \A i \in 1..Len(req.questions) : Sound(req.questions[i])
    /\ req.model \in Accepted

\* Checkpoint c answers q on the whole of a state, with all of its options.
AnsweredInFull(q, tokens, c) == q.markers[c] = q.options /\ ~(tokens[c] > q.room[c])

FitsOn(req, c) ==
    \A i \in 1..Len(req.questions) : AnsweredInFull(req.questions[i], req.tokens, c)

-----------------------------------------------------------------------------
(* Properties                                                              *)

\* No forward pass runs on input Laya would cut or refuse, nor on another
\* checkpoint than was asked for: every request that gets there is legal, fits
\* on the very checkpoint it was routed to, and is one Laya accepts in the form
\* Laya is handed (predict, validate_budget, validate_question).
OnlyServableIsServed ==
    pc = "inference" =>
        /\ Legal(request)
        /\ request.model \in LayaModels => checkpoint = request.model
        /\ FitsOn(request, checkpoint)
        /\ \A i \in 1..Len(given) : LayaSays(given[i]) = "accepts"

\* The checks turn nothing servable away, neither with a refusal nor with an
\* exception of their own: no limit is off by one, what a caller puts in fields
\* Jev does not define never costs it the answer (jev_question), nor does what
\* other requests do with the tokenizer meanwhile (validate_budget).
ServableIsNotRefused ==
    pc \in {"refused", "raised"} =>
        ~Legal(request) \/ (checkpoint # None /\ ~FitsOn(request, checkpoint))

\* A refusal blames the right thing: the first question that cannot be served,
\* the model only where the questions are sound, and a state only where the
\* options are in order; no checkpoint is measured on before all of that
\* (predict, validate_budget, _validate_options_fit).
FirstProblemIsNamed ==
    pc = "refused" =>
        LET qs == request.questions
            full(i) == AnsweredInFull(qs[i], request.tokens, checkpoint)
        IN  \/ /\ problem = "questions"
               /\ ~request.object \/ qs = <<>>
            \/ /\ problem \in {"shape", "type", "instructions", "criteria", "laya"}
               /\ ~Sound(qs[index]) /\ \A i \in 1..(index - 1) : Sound(qs[i])
            \/ /\ problem = "model"
               /\ request.model \notin Accepted /\ \A i \in 1..Len(qs) : Sound(qs[i])
            \/ /\ problem \in {"options", "state"}
               /\ Legal(request)
               /\ ~full(index) /\ \A i \in 1..(index - 1) : full(i)
               /\ problem = "state" <=> qs[index].markers[checkpoint] = qs[index].options

\* What holds of the passes a request has behind it.
Behind ==
    /\ pc # "refused" => problem = "none"
    /\ pc = "validate" =>
        /\ given = request.questions
        /\ \A i \in 1..Len(given) : i < index => Broken(given[i]) = "none"
    /\ pc \in {"resolve", "strip"} => given = request.questions
    /\ pc \in {"resolve", "strip", "route", "count", "budget", "inference"} =>
        /\ request.object /\ request.questions # <<>>
        /\ \A i \in 1..Len(given) : Broken(request.questions[i]) = "none"
    /\ pc \in {"strip", "route", "count", "budget", "inference"} => request.model \in Accepted
    /\ pc \in {"route", "count", "budget", "inference"} =>
        \A i \in 1..Len(given) : given[i] = JevQuestion(request.questions[i])
    /\ pc \in {"validate", "resolve", "strip", "route"} => checkpoint = None
    /\ pc \in {"count", "budget", "inference"} =>
        /\ checkpoint \in LayaModels
        /\ ResolveModel(request.model) \in {None, checkpoint}
    /\ pc = "count" => index = 1
    /\ pc \in {"budget", "inference"} =>
        \A i \in 1..Len(given) :
            i < index \/ pc = "inference" => OverBudget(given[i]) = "none"

IInv ==
    /\ TypeOK
    /\ Len(given) = Len(request.questions)
    /\ Behind
    /\ ServableIsNotRefused
    /\ FirstProblemIsNamed

=============================================================================
