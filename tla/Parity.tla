------------------------------- MODULE Parity -------------------------------
(***************************************************************************)
(* scripts/verify_parity.py: the answers a port computes from an export,   *)
(* all questions of a request in one batch, and how they are compared with *)
(* Laya's.                                                                 *)
(*                                                                         *)
(* A question is as the caller and as the tokenizer see it:                *)
(*   [type, criteria, structured, options, ids, markers]                   *)
(* options names the choices, or the levels; ids are tokens; markers[j] is *)
(* the position of option j in ids.  Positions count from 1.               *)
(*                                                                         *)
(* A probability is written as how far the option's logit, scaled by the   *)
(* temperature, is below the best option's, which is 0: a softmax keeps    *)
(* just that.  What is computed from the probabilities alone (a mean, a    *)
(* confidence) is written as the rounded probabilities.                    *)
(***************************************************************************)
EXTENDS Integers, Sequences, FiniteSets, Translate

\* The decision model: the logit of the option marked at a place amid tokens.
CONSTANT Logit(_, _)

Highest(S)  == CHOOSE n \in S : \A m \in S : m <= n
Longest(fs) == Highest({Len(fs[r]) : r \in DOMAIN fs})

-----------------------------------------------------------------------------
(* The batch and the model                                                 *)

Pad == 0

\* A slip: padding is attended to.
AttendedAlways(item, i) == TRUE
\* The attention mask.
Attended(item, i) == i <= Len(item.ids)

\* collate_numpy: rows of equal lengths, and masks of what is no padding.
Collate(items) ==
    LET n == Longest([r \in DOMAIN items |-> items[r].ids])
        k == Longest([r \in DOMAIN items |-> items[r].markers])
    IN [r \in DOMAIN items |->
           [ids     |-> [i \in 1..n |-> IF i <= Len(items[r].ids) THEN items[r].ids[i] ELSE Pad],
            attend  |-> [i \in 1..n |-> Attended(items[r], i)],
            markers |-> [j \in 1..k |-> IF j <= Len(items[r].markers) THEN items[r].markers[j] ELSE 1],
            mask    |-> [j \in 1..k |-> j <= Len(items[r].markers)]]]

\* The model sees of a row the tokens that are attended to, where they are; an
\* option masked out has no chance.
AttendedTokens(row) == [i \in {i \in DOMAIN row.attend : row.attend[i]} |-> row.ids[i]]
Logits(row) ==
    [j \in DOMAIN row.markers |->
        IF row.mask[j] THEN Logit(AttendedTokens(row), row.markers[j]) ELSE -10000]

\* What ONNX Runtime computes from an export, for the logits z of the model.
Exported(x, z) ==
    CASE x = "good"    -> [logits |-> z, act |-> "as trained"]
      [] x = "close"   -> [logits |-> [z EXCEPT ![1] = @ + 1], act |-> "as trained"]
      [] x = "shifted" -> [logits |-> [j \in DOMAIN z |-> z[j] + 50], act |-> "otherwise"]
      [] OTHER         -> [logits |-> [j \in DOMAIN z |-> 0 - z[j]], act |-> "otherwise"]

-----------------------------------------------------------------------------
(* The answers.  A temperature is in tenths, or is no finite number.       *)

TempMin == 5
TempMax == 50

\* clamp_temperature
ClampTemperature(t) ==
    CASE ~t.number                       -> 10
      [] t.number /\ t.tenths < TempMin  -> TempMin
      [] t.number /\ t.tenths > TempMax  -> TempMax
      [] OTHER                           -> t.tenths

\* temp_bucket
TempBucket(type, k) ==
    <<type, IF k <= 2 THEN "2" ELSE IF k <= 5 THEN "3-5" ELSE IF k <= 10 THEN "6-10" ELSE "11+">>

\* The temperature of the bucket, or else of the type.
Temperature(cfg, bucket) ==
    IF bucket \in DOMAIN cfg.byOptions THEN cfg.byOptions[bucket] ELSE cfg.byType[bucket[1]]

Softmax(z, scale) ==
    [j \in DOMAIN z |-> ((Highest({z[i] : i \in DOMAIN z}) - z[j]) * 1000) \div scale]
Rounded(p) == [j \in DOMAIN p |-> p[j] \div 10]
ArgMax(p)  == CHOOSE j \in DOMAIN p : p[j] = 0 /\ \A i \in DOMAIN p : p[i] = 0 => j <= i

\* postprocess, from the probabilities of a row on.
Payload(q, p, act) ==
    LET rounded == Rounded(p) IN
    CASE q.type = "choice" ->
           [type |-> q.type, choice |-> q.options[ArgMax(p)], probabilities |-> rounded,
            confidence |-> rounded, answer_confidence |-> rounded, action |-> act]
      [] q.type = "score" ->
           [type |-> q.type, score |-> rounded,
            legend |-> [level \in 0..(Len(q.options) - 1) |-> <<"text", q.options[level + 1]>>],
            probabilities |-> rounded, confidence |-> rounded,
            answer_confidence |-> rounded, action |-> act]
      [] q.type = "noul" ->
           [type |-> q.type, noul |-> rounded[2], confidence |-> rounded,
            answer_confidence |-> rounded, action |-> act]

\* logits[r, :k]
OwnOptions(z, k) == SubSeq(z, 1, k)

\* onnx_system_one, with postprocess
OnnxSystemOne(x, cfg, questions) ==
    LET batch == Collate(questions)
        Answer(q, row) ==
            LET out == Exported(x, Logits(row))
                k   == Len(q.markers)
            IN Payload(q, Softmax(OwnOptions(out.logits, k),
                                  ClampTemperature(Temperature(cfg, TempBucket(q.type, k)))),
                       out.act)
    IN [answers |-> [r \in DOMAIN questions |-> Answer(questions[r], batch[r])],
        usage   |-> [input_tokens  |->
                        Cardinality({cell \in (DOMAIN batch) \X (DOMAIN batch[1].ids) :
                                        batch[cell[1]].attend[cell[2]]}),
                     output_tokens |-> 0]]

-----------------------------------------------------------------------------
(* What Laya answers: to every question what it would answer to it alone.  *)

LayaBuckets == {<<"2", 1..2>>, <<"3-5", 3..5>>, <<"6-10", 6..10>>, <<"11+", Nat \ (0..10)>>}
LayaBucket(k) == (CHOOSE b \in LayaBuckets : k \in b[2])[1]

Apart(m, n) == IF m < n THEN n - m ELSE m - n
\* A number is replaced with the nearest that is allowed.
LayaTemperature(t) ==
    IF ~t.number THEN 10
    ELSE CHOOSE n \in TempMin..TempMax :
             \A m \in TempMin..TempMax : Apart(n, t.tenths) <= Apart(m, t.tenths)

SystemOne(cfg, questions) ==
    LET Answer(q) ==
            LET z == [j \in DOMAIN q.markers |-> Logit(q.ids, q.markers[j])]
            IN Payload(q, Softmax(z, LayaTemperature(
                               Temperature(cfg, <<q.type, LayaBucket(Len(z))>>))),
                       "as trained")
    IN [answers |-> [r \in DOMAIN questions |-> Answer(questions[r])],
        usage   |-> [input_tokens  |->
                        Cardinality(UNION {{r} \X (DOMAIN questions[r].ids) : r \in DOMAIN questions}),
                     output_tokens |-> 0, truncated |-> FALSE]]

-----------------------------------------------------------------------------
(* The verdict                                                             *)

UsageKeys == {"input_tokens", "output_tokens"}

\* Laya's entries of an answer that the port's has not, `action` apart.
Missed(a, b) == {key \in DOMAIN a \ {"action"} : key \notin DOMAIN b \/ a[key] # b[key]}

\* A slip: what was chosen is what counts.
HardDiffsOfChoices(ref, got) ==
    {<<r, "choice">> : r \in {s \in DOMAIN ref.answers :
                                  "choice" \in Missed(ref.answers[s], got.answers[s])}}
\* compare, without the differences that are of `action` only; usage is row 0.
HardDiffs(ref, got) ==
    {<<0, key>> : key \in {u \in UsageKeys : ref.usage[u] # got.usage[u]}}
    \cup UNION {{<<r, key>> : key \in Missed(ref.answers[r], got.answers[r])} :
                r \in DOMAIN ref.answers}

=============================================================================
