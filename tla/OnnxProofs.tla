----------------------------- MODULE OnnxProofs -----------------------------
(***************************************************************************)
(* Proofs about OnnxExport, for any number of checkpoints, any decision    *)
(* model and temperatures they may have, and any requests to compare       *)
(* answers to: what a run of either script is worth, and why the port has  *)
(* the answers of Laya.                                                    *)
(***************************************************************************)
EXTENDS OnnxExport, Induction, SequenceTheorems

\* Nothing was exported yet: the invariant holds.
LEMMA InitInv == Init => IInv
BY CheckpointsAreFinite
DEF Init, IInv, TypeOK, Contents, Scripts, Steps, Asks, Shapes, Targets, Finished,
    ResultsAreRight, Fit

\* A script that begins has everything ahead of it.
LEMMA BeginInv ==
    ASSUME IInv, NEW only \in Asks, BeginExport(only) \/ BeginParity(only)
    PROVE  IInv'
<1>1. /\ script' \in Scripts /\ asked' = only /\ todo' = Targets(only)
      /\ results' = {} /\ checks' = {} /\ current' = Unknown
      /\ UNCHANGED <<file, made>>
      /\ \/ step' = "next" /\ exit' = "none"
         \/ step' = "done" /\ exit' = "2"
    BY DEF BeginExport, BeginParity, Begin, Scripts
<1>2. Targets(only) \subseteq Checkpoints /\ todo' = Targets(asked')
    BY <1>1 DEF Targets
<1>3. TypeOK'
    BY <1>1, <1>2 DEF IInv, TypeOK, Steps
<1>4. Finished' = {}
    BY <1>1, <1>2 DEF Finished, Targets
<1> QED
    BY <1>1, <1>2, <1>3, <1>4 DEF IInv, ResultsAreRight, Targets

\* The loop takes a checkpoint that has no result yet.
LEMMA TakeInv ==
    ASSUME IInv, Take("export", "load") \/ Take("parity", "compare")
    PROVE  IInv'
<1>1. PICK c \in todo : current' = c /\ todo' = todo \ {c}
    BY DEF Take
<1>2. /\ step = "next" /\ checks' = {}
      /\ \/ step' = "load" /\ script = "export"
         \/ step' = "compare" /\ script = "parity"
      /\ UNCHANGED <<file, made, script, asked, results, exit>>
    BY DEF Take, run
<1>3. TypeOK'
    BY <1>1, <1>2 DEF IInv, TypeOK, Steps
<1>4. Finished' = Finished
    BY <1>1, <1>2 DEF IInv, Finished, Targets
<1>5. c \in Targets(asked)
    BY DEF IInv
<1> QED
    BY <1>1, <1>2, <1>3, <1>4, <1>5 DEF IInv, ResultsAreRight, Fit, Targets

\* A result that is right about the export of the checkpoint at hand keeps the
\* invariant, whatever becomes of an export that failed.
LEMMA RecordInv ==
    ASSUME IInv, step \notin {"next", "done"}, NEW pass \in BOOLEAN, Record(pass),
           file' \in [Checkpoints -> Contents],
           \A c \in Checkpoints : c # current => file'[c] = file[c],
           pass => Fit(current, file'[current])
    PROVE  IInv'
<1>1. /\ results' = results \cup {<<current, pass>>} /\ step' = "next"
      /\ UNCHANGED <<made, script, asked, todo, current, checks, exit>>
    BY DEF Record, run
<1>2. current \in Targets(asked) \ todo /\ exit = "none" /\ current \in Checkpoints
    BY DEF IInv, Targets
<1>3. TypeOK'
    BY <1>1, <1>2 DEF IInv, TypeOK, Steps
<1>4. Finished' = Finished \cup {current} /\ current \notin Finished
    BY <1>1, <1>2 DEF Finished, Targets
<1>5. (\A c, x : Fit(c, x)' = Fit(c, x)) /\ Targets(asked)' = Targets(asked)
    BY <1>1 DEF Fit, Targets
<1>6. ResultsAreRight'
    <2> SUFFICES ASSUME NEW c \in Checkpoints, <<c, TRUE>> \in results'
                 PROVE  Fit(c, file'[c])
        BY <1>5 DEF ResultsAreRight
    <2>1. CASE <<c, TRUE>> \in results
        <3>1. c # current
            BY <1>4, <2>1 DEF IInv
        <3> QED
            BY <1>2, <2>1, <3>1 DEF IInv, ResultsAreRight
    <2>2. CASE c = current /\ pass
        BY <2>2
    <2> QED
        BY <1>1, <2>1, <2>2
<1>7. \A result \in results' : result[1] \in Finished'
    BY <1>1, <1>4 DEF IInv
<1>8. Finished' \subseteq {result[1] : result \in results'}
    <2> SUFFICES ASSUME NEW c \in Finished' PROVE \E result \in results' : result[1] = c
        OBVIOUS
    <2>1. CASE c \in Finished
        <3>1. c \in {result[1] : result \in results}
            BY <1>2, <2>1 DEF IInv
        <3> QED
            BY <1>1, <3>1
    <2>2. CASE c = current
        <3>1. <<current, pass>> \in results' /\ <<current, pass>>[1] = current
            BY <1>1, Zenon
        <3> QED
            BY <2>2, <3>1, Zenon
    <2> QED
        BY <1>4, <2>1, <2>2
<1> QED
    BY <1>1, <1>2, <1>3, <1>5, <1>6, <1>7, <1>8 DEF IInv

\* A step on the way to a result leaves the other checkpoints' exports alone.
LEMMA GoOnInv ==
    ASSUME IInv, step \notin {"next", "done"}, script = "export",
           NEW next \in {"dynamo", "legacy", "session", "traced", "different"},
           step' = next, made' \in BOOLEAN,
           checks' \in SUBSET Shapes,
           next = "different" /\ "traced" \in checks' =>
               file'[current] \in WithinTolerance \cup {"frozen"},
           UNCHANGED <<run, todo, current, results, exit>>,
           file' \in [Checkpoints -> Contents],
           \A c \in Checkpoints : c # current => file'[c] = file[c]
    PROVE  IInv'
<1>1. TypeOK'
    BY DEF IInv, TypeOK, Steps, run
<1>2. Finished' = Finished /\ current \notin Finished
    BY DEF IInv, Finished, Targets, run
<1>3. ResultsAreRight'
    BY <1>2 DEF IInv, ResultsAreRight, Fit, run
<1>4. Targets(asked)' = Targets(asked)
    BY DEF Targets, run
<1> QED
    BY <1>1, <1>2, <1>3, <1>4 DEF IInv, run

\* What ends a script before its loop does says nothing well of the rest.
LEMMA StopInv ==
    ASSUME IInv, step' = "done",
           UNCHANGED <<run, todo, current, checks, results>>,
           made' \in BOOLEAN, file' \in [Checkpoints -> Contents],
           \/ exit' = "killed"
           \/ exit' = "1" /\ file' = file /\ step = "compare" /\ script = "parity"
           \/ exit' \in {"0", "1"} /\ file' = file /\ step = "next" /\ todo = {}
              /\ (exit' = "0" => AllPassed)
    PROVE  IInv'
<1>1. TypeOK'
    BY DEF IInv, TypeOK, Steps, run
<1>2. Finished \subseteq Finished' /\ (step = "next" => Finished' = Finished)
    BY DEF Finished, Targets, run
<1>3. ResultsAreRight'
    <2>1. CASE exit' = "killed"
        BY <2>1 DEF ResultsAreRight
    <2>2. CASE exit' # "killed"
        <3>1. exit = "none" /\ file' = file
            BY <2>2 DEF IInv
        <3> QED
            BY <3>1 DEF IInv, ResultsAreRight, Fit, run
    <2> QED
        BY <2>1, <2>2
<1>4. Targets(asked)' = Targets(asked) /\ AllPassed' = AllPassed
    BY DEF Targets, AllPassed, run
<1>5. \A result \in results' : result[1] \in Finished'
    BY <1>2 DEF IInv
<1>6. exit' \in {"none", "0"} \/ (script' = "export" /\ exit' = "1") =>
          Finished' \subseteq {result[1] : result \in results'}
    BY <1>2 DEF IInv, run
<1> QED
    BY <1>1, <1>3, <1>4, <1>5, <1>6 DEF IInv, run

\* Every step of either script, and being killed, keeps the invariant.
LEMMA NextInv == IInv /\ [Next]_vars => IInv'
<1> SUFFICES ASSUME IInv, [Next]_vars PROVE IInv'
    OBVIOUS
<1>0. TypeOK
    BY DEF IInv
<1>a. file \in [Checkpoints -> Contents] /\ made \in BOOLEAN /\ checks \in SUBSET Shapes
    BY <1>0 DEF TypeOK
<1>b. \A x \in Contents : [file EXCEPT ![current] = x] \in [Checkpoints -> Contents]
    BY <1>a
<1>c. \A x : \A c \in Checkpoints : c # current => [file EXCEPT ![current] = x][c] = file[c]
    BY <1>a
<1>1. CASE \E only \in Asks : BeginExport(only) \/ BeginParity(only)
    BY <1>1, BeginInv
<1>2. CASE Take("export", "load") \/ Take("parity", "compare")
    BY <1>2, TakeInv
<1>3. CASE Load
    <2>0. step = "load" /\ script = "export" /\ UNCHANGED file
        BY <1>3 DEF Load, IInv
    <2>1. CASE FailureCounts
        BY <1>a, <2>0, <2>1, RecordInv DEF FailureCounts
    <2>2. CASE step' = "dynamo" /\ made' = TRUE
               /\ UNCHANGED <<run, todo, current, checks, results, exit>>
        BY <1>a, <2>0, <2>2, GoOnInv
    <2> QED
        BY <1>3, <2>1, <2>2 DEF Load
<1>4. ASSUME NEW exporter \in {"dynamo", "legacy"}, Try(exporter) PROVE IInv'
    <2>0. step = exporter /\ step \in {"dynamo", "legacy"} /\ script = "export"
        BY <1>4 DEF Try, IInv
    <2>1. /\ file' \in [Checkpoints -> Contents]
          /\ \A c \in Checkpoints : c # current => file'[c] = file[c]
        <3>1. "unreadable" \in Contents /\ Written \subseteq Contents
            BY DEF Contents
        <3>2. file' = file \/ \E x \in Contents : file' = [file EXCEPT ![current] = x]
            BY <1>4, <3>1 DEF Try
        <3> QED
            BY <1>a, <1>b, <1>c, <3>2
    <2>2. GoOn("session") \/ GoOn("legacy") \/ FailureCounts
        BY <1>4 DEF Try, TryNext
    <2>3. CASE FailureCounts
        BY <2>0, <2>1, <2>3, RecordInv DEF FailureCounts
    <2>4. ASSUME NEW next \in {"session", "legacy"}, GoOn(next) PROVE IInv'
        BY <1>a, <2>0, <2>1, <2>4, GoOnInv DEF GoOn
    <2> QED
        BY <2>2, <2>3, <2>4
<1>5. CASE OpenSession
    <2>0. step = "session" /\ script = "export" /\ UNCHANGED file
        BY <1>5 DEF OpenSession, IInv
    <2>1. CASE FailureCounts
        BY <1>a, <2>0, <2>1, RecordInv DEF FailureCounts
    <2>2. CASE GoOn("traced")
        BY <1>a, <2>0, <2>2, GoOnInv DEF GoOn
    <2> QED
        BY <1>5, <2>1, <2>2 DEF OpenSession
<1>6. CASE CheckTraced
    <2>0. step = "traced" /\ script = "export" /\ UNCHANGED file
        BY <1>6 DEF CheckTraced, IInv
    <2>1. CASE FailureCounts
        BY <1>a, <2>0, <2>1, RecordInv DEF FailureCounts
    <2>2. CASE /\ checks' = IF RightAt("traced") THEN {"traced"} ELSE {}
               /\ step' = "different"
               /\ UNCHANGED <<made, run, todo, current, results, exit>>
        <3>1. checks' \in SUBSET Shapes
            BY <2>2 DEF Shapes
        <3>2. "traced" \in checks' => file'[current] \in WithinTolerance \cup {"frozen"}
            BY <2>0, <2>2 DEF RightAt
        <3> QED
            BY <1>a, <2>0, <2>2, <3>1, <3>2, GoOnInv
    <2> QED
        BY <1>6, <2>1, <2>2 DEF CheckTraced
<1>7. CASE CheckDifferent
    <2>0. step = "different" /\ script = "export" /\ UNCHANGED file
        BY <1>7 DEF CheckDifferent, IInv
    <2>1. CASE FailureCounts
        BY <1>a, <2>0, <2>1, RecordInv DEF FailureCounts
    <2>2. CASE Record(RightAt("different") /\ "traced" \in checks)
        <3>1. RightAt("different") => Fit(current, file[current])
            BY <2>0 DEF RightAt, Fit
        <3> DEFINE pass == RightAt("different") /\ "traced" \in checks
        <3>2. pass \in BOOLEAN /\ Record(pass)
            BY <2>2 DEF RightAt
        <3>3. pass => Fit(current, file'[current])
            BY <2>0, <3>1
        <3> HIDE DEF pass
        <3> QED
            BY <1>a, <2>0, <3>2, <3>3, RecordInv
    <2> QED
        BY <1>7, <2>1, <2>2 DEF CheckDifferent
<1>8. CASE EndExport \/ EndParity
    <2>1. /\ exit' \in {"0", "1"} /\ file' = file /\ step = "next" /\ todo = {}
          /\ exit' = "0" => AllPassed
          /\ step' = "done" /\ made' \in BOOLEAN
          /\ UNCHANGED <<run, todo, current, checks, results>>
        <3>1. CASE EndExport
            BY <3>1 DEF EndExport, End
        <3>2. CASE EndParity
            BY <1>a, <3>2 DEF EndParity, End
        <3> QED
            BY <1>8, <3>1, <3>2
    <2>2. file' \in [Checkpoints -> Contents]
        BY <1>a, <2>1
    <2>3. /\ exit' \in {"0", "1"} /\ file' = file /\ step = "next" /\ todo = {}
          /\ (exit' = "0" => AllPassed)
        BY <2>1
    <2> QED
        BY <2>1, <2>2, <2>3, StopInv
<1>9. CASE Compare
    <2>0. step = "compare" /\ script = "parity"
        BY <1>9 DEF Compare, IInv
    <2>1. CASE MissingIsRecorded
        BY <1>a, <2>0, <2>1, RecordInv DEF MissingIsRecorded
    <2>2. CASE /\ file[current] \in Written
               /\ Record(Agrees[current][file[current]]) /\ UNCHANGED file
        <3> DEFINE pass == Agrees[current][file[current]]
        <3>0. current \in Checkpoints
            BY <2>0 DEF IInv, Targets
        <3>1. pass \in BOOLEAN /\ Record(pass)
            BY <2>2, <3>0 DEF Agrees
        <3>2. pass => Fit(current, file'[current])
            BY <2>0, <2>2 DEF Fit
        <3> HIDE DEF pass
        <3> QED
            BY <1>a, <2>0, <2>2, <3>1, <3>2, RecordInv
    <2>3. CASE End("1") /\ UNCHANGED made
        BY <1>a, <2>0, <2>3, StopInv DEF End
    <2> QED
        BY <1>9, <2>1, <2>2, <2>3 DEF Compare
<1>10. CASE Killed
    <2>1. "unreadable" \in Contents
        BY DEF Contents
    <2> QED
        BY <1>a, <1>b, <1>10, <2>1, StopInv DEF Killed
<1>11. CASE UNCHANGED vars
    BY <1>11
    DEF vars, run, IInv, TypeOK, Finished, Fit, Targets, ResultsAreRight, AllPassed
<1> QED
    BY <1>1, <1>2, <1>3, <1>4, <1>5, <1>6, <1>7, <1>8, <1>9, <1>10, <1>11
    DEF Next, Running

\* The invariant holds of every sequence of runs of the two scripts.
THEOREM Invariance == Spec => []IInv
BY InitInv, NextInv, PTL DEF Spec

\* A run of export_onnx.py that ends well vouches for every export it was asked
\* for, whatever runs, kills and failures came before it.
THEOREM ExportsAreFaithful == Spec => []ExportPassIsFaithful
<1>1. IInv => ExportPassIsFaithful
    <2> SUFFICES ASSUME IInv, script = "export", exit = "0", NEW c \in Targets(asked)
                 PROVE  file[c] \in WithinTolerance
        BY DEF ExportPassIsFaithful
    <2>1. step = "done" /\ todo = {} /\ c \in Checkpoints
        BY DEF IInv, Targets
    <2>2. PICK result \in results : result[1] = c
        BY <2>1 DEF IInv, Finished
    <2>3. result \in Checkpoints \X BOOLEAN
        BY <2>2 DEF IInv, TypeOK
    <2>4. result = <<c, TRUE>> \/ result = <<c, FALSE>>
        <3>1. PICK a \in Checkpoints, pass \in BOOLEAN : result = <<a, pass>>
            BY <2>3
        <3>2. a = c
            BY <2>2, <3>1, Zenon
        <3> QED
            BY <3>1, <3>2, Zenon
    <2>5. <<c, TRUE>> \in results
        BY <2>1, <2>2, <2>4 DEF IInv, AllPassed
    <2> QED
        BY <2>1, <2>5 DEF IInv, ResultsAreRight, Fit
<1> QED
    BY <1>1, Invariance, PTL

\* A run of export_onnx.py that was not killed tells of every checkpoint it was
\* asked for, and of no other.
THEOREM NothingHidden == Spec => []NoneIsHidden
<1>1. IInv => NoneIsHidden
    <2> SUFFICES ASSUME IInv, script = "export", exit \in {"0", "1"}
                 PROVE  {result[1] : result \in results} = Targets(asked)
        BY DEF NoneIsHidden
    <2>1. step = "done" /\ todo = {}
        BY DEF IInv
    <2>2. Finished = Targets(asked)
        BY <2>1 DEF Finished
    <2>3. \A result \in results : result[1] \in Finished
        BY DEF IInv
    <2>4. Finished \subseteq {result[1] : result \in results}
        BY DEF IInv
    <2> QED
        BY <2>2, <2>3, <2>4
<1> QED
    BY <1>1, Invariance, PTL

-----------------------------------------------------------------------------
(* What the comparison of verify_parity.py is worth                        *)

\* A question of one of the three types; and an answer to it that has all that
\* the server keeps of it.
Typed(q) == q.type \in {"choice", "score", "noul"}
Complete(a, q) ==
    /\ a["type"] = q.type
    /\ JevAnswerKeys(q.type) \subseteq (DOMAIN a) \ {"action"}
    /\ "type" \in JevAnswerKeys(q.type)

LEMMA PayloadIsComplete ==
    ASSUME NEW q, NEW p, NEW act, Typed(q)
    PROVE  Complete(Payload(q, p, act), q)
<1>1. CASE q.type = "choice"
    BY <1>1 DEF Payload, JevAnswerKeys, Complete
<1>2. CASE q.type = "score"
    BY <1>2 DEF Payload, JevAnswerKeys, Complete
<1>3. CASE q.type = "noul"
    BY <1>3 DEF Payload, JevAnswerKeys, Complete
<1> QED
    BY <1>1, <1>2, <1>3 DEF Typed

\* Functions that agree on the keys that are kept are the same afterwards.
LEMMA OnlyTheSame ==
    ASSUME NEW f, NEW g, NEW keys, keys \subseteq DOMAIN f, keys \subseteq DOMAIN g,
           \A key \in keys : f[key] = g[key]
    PROVE  Only(f, keys) = Only(g, keys)
<1>1. (DOMAIN f) \cap keys = keys /\ (DOMAIN g) \cap keys = keys
    OBVIOUS
<1> QED
    BY <1>1 DEF Only

\* Answers that verify_parity.py does not tell apart are one to the server.
LEMMA SameJevAnswer ==
    ASSUME NEW a, NEW b, NEW question, Missed(a, b) = {}, Complete(a, question)
    PROVE  ToJevAnswer(a, question) = ToJevAnswer(b, question)
<1>1. \A key \in (DOMAIN a) \ {"action"} : key \in DOMAIN b /\ a[key] = b[key]
    BY DEF Missed
<1>2. a["type"] = question.type /\ b["type"] = question.type
    BY <1>1 DEF Complete
<1>3. Only(a, JevAnswerKeys(question.type)) = Only(b, JevAnswerKeys(question.type))
    BY <1>1, OnlyTheSame DEF Complete
<1> QED
    BY <1>2, <1>3 DEF ToJevAnswer

\* A pass of verify_parity.py says that the server would reply the same.
LEMMA PassMeansSameReply ==
    ASSUME NEW c \in Checkpoints, NEW x \in Written, Agrees[c][x]
    PROVE  RepliesAlike[c][x]
<1> SUFFICES ASSUME NEW questions \in Cases
             PROVE  ToJevResponse(Ported(c, x, questions), "jev-latest", questions)
                        = ToJevResponse(Laya(c, questions), "jev-latest", questions)
    BY DEF RepliesAlike
<1> DEFINE ref == Laya(c, questions)
           got == Ported(c, x, questions)
<1>1. HardDiffs(ref, got) = {}
    BY DEF Agrees
<1>2. DOMAIN ref.answers = DOMAIN questions /\ DOMAIN got.answers = DOMAIN questions
    BY DEF Laya, SystemOne, Ported, OnnxSystemOne
<1>3. UsageKeys \subseteq DOMAIN ref.usage /\ UsageKeys \subseteq DOMAIN got.usage
    BY DEF Laya, SystemOne, Ported, OnnxSystemOne, UsageKeys
<1>4. \A r \in DOMAIN questions : \E p : ref.answers[r] = Payload(questions[r], p, "as trained")
    BY DEF Laya, SystemOne
<1> HIDE DEF ref, got
<1>5. /\ \A u \in UsageKeys : ref.usage[u] = got.usage[u]
      /\ \A r \in DOMAIN questions : Missed(ref.answers[r], got.answers[r]) = {}
    <2>1. ASSUME NEW u \in UsageKeys, ref.usage[u] # got.usage[u] PROVE FALSE
        <3>1. <<0, u>> \in HardDiffs(ref, got)
            BY <2>1, Zenon DEF HardDiffs
        <3> QED
            BY <1>1, <3>1
    <2>2. ASSUME NEW r \in DOMAIN questions, NEW key \in Missed(ref.answers[r], got.answers[r])
          PROVE  FALSE
        <3> DEFINE ofRow(row) == {<<row, k>> : k \in Missed(ref.answers[row], got.answers[row])}
        <3>1. <<r, key>> \in ofRow(r)
            BY <2>2, Zenon
        <3>2. r \in DOMAIN ref.answers
            BY <1>2
        <3>3. <<r, key>> \in UNION {ofRow(row) : row \in DOMAIN ref.answers}
            BY <3>1, <3>2, Zenon
        <3> QED
            BY <1>1, <3>3 DEF HardDiffs
    <2> QED
        BY <2>1, <2>2
<1>6. Only(ref.usage, JevUsageKeys) = Only(got.usage, JevUsageKeys)
    BY <1>3, <1>5, OnlyTheSame DEF UsageKeys, JevUsageKeys
<1>7. ASSUME NEW r \in DOMAIN questions
      PROVE  ToJevAnswer(got.answers[r], questions[r]) = ToJevAnswer(ref.answers[r], questions[r])
    <2>1. Typed(questions[r])
        BY CasesAreRequests DEF Typed
    <2>2. PICK p : ref.answers[r] = Payload(questions[r], p, "as trained")
        BY <1>4
    <2>3. Complete(ref.answers[r], questions[r])
        <3>1. Complete(Payload(questions[r], p, "as trained"), questions[r])
            BY <2>1, PayloadIsComplete
        <3> QED
            BY <2>2, <3>1, Zenon
    <2>4. Missed(ref.answers[r], got.answers[r]) = {}
        BY <1>5, Zenon
    <2>6. ToJevAnswer(ref.answers[r], questions[r]) = ToJevAnswer(got.answers[r], questions[r])
        BY <2>3, <2>4, SameJevAnswer, Zenon
    <2> QED
        BY <2>6, Zenon
<1>8. ToJevResponse(got, "jev-latest", questions) = ToJevResponse(ref, "jev-latest", questions)
    BY <1>2, <1>6, <1>7 DEF ToJevResponse
<1> QED
    BY <1>8 DEF ref, got

\* A run of verify_parity.py that ends well means the same replies from a port on
\* every export it was asked about as from Laya.
THEOREM ParityIsFaithful == Spec => []ParityPassIsFaithful
<1>1. IInv => ParityPassIsFaithful
    <2> SUFFICES ASSUME IInv, script = "parity", exit = "0", NEW c \in Targets(asked)
                 PROVE  file[c] \in Written /\ RepliesAlike[c][file[c]]
        BY DEF ParityPassIsFaithful
    <2>1. step = "done" /\ todo = {} /\ c \in Checkpoints
        BY DEF IInv, Targets
    <2>2. PICK result \in results : result[1] = c
        BY <2>1 DEF IInv, Finished
    <2>3. result \in Checkpoints \X BOOLEAN
        BY <2>2 DEF IInv, TypeOK
    <2>4. result = <<c, TRUE>> \/ result = <<c, FALSE>>
        <3>1. PICK a \in Checkpoints, pass \in BOOLEAN : result = <<a, pass>>
            BY <2>3
        <3>2. a = c
            BY <2>2, <3>1, Zenon
        <3> QED
            BY <3>1, <3>2, Zenon
    <2>5. <<c, TRUE>> \in results
        BY <2>1, <2>2, <2>4 DEF IInv, AllPassed
    <2>6. file[c] \in Written /\ Agrees[c][file[c]]
        BY <2>1, <2>5 DEF IInv, ResultsAreRight, Fit
    <2> QED
        BY <2>1, <2>6, PassMeansSameReply
<1> QED
    BY <1>1, Invariance, PTL

-----------------------------------------------------------------------------
(* The port computes what Laya computes                                    *)

\* A question whose options have places among its tokens.
IsQuestion(q) ==
    /\ Typed(q)
    /\ q.ids \in Seq(Nat)
    /\ q.markers \in Seq(1..Len(q.ids)) \ {<<>>}
    /\ \A m \in 1..Len(q.ids) : Logit(q.ids, m) \in Int

IsRequest(questions) ==
    /\ Len(questions) \in Nat \ {0}
    /\ DOMAIN questions = 1..Len(questions)
    /\ \A r \in DOMAIN questions : IsQuestion(questions[r])

\* The highest of finitely many numbers is one of them, and none is higher.
LEMMA HighestIs ==
    ASSUME NEW n \in Nat \ {0}, NEW f, \A i \in 1..n : f[i] \in Int
    PROVE  \E i \in 1..n : /\ Highest({f[j] : j \in 1..n}) = f[i]
                           /\ \A j \in 1..n : f[j] <= f[i]
<1>1. PICK i \in 1..n : \A j \in 1..n : f[j] <= f[i]
    BY Greatest
<1> DEFINE S == {f[j] : j \in 1..n}
<1>2. f[i] \in S /\ \A m \in S : m <= f[i] /\ m \in Int
    BY <1>1
<1>3. \A m \in S : (\A k \in S : k <= m) => m = f[i]
    <2> SUFFICES ASSUME NEW m \in S, \A k \in S : k <= m PROVE m = f[i]
        OBVIOUS
    <2>1. f[i] <= m /\ m <= f[i] /\ m \in Int /\ f[i] \in Int
        BY <1>2
    <2> QED
        BY <2>1
<1> HIDE DEF S
<1>4. Highest(S) = f[i]
    BY <1>2, <1>3 DEF Highest
<1> QED
    BY <1>1, <1>4 DEF S

\* No row is longer than the longest.
LEMMA LongestBounds ==
    ASSUME NEW fs, NEW n \in Nat \ {0}, DOMAIN fs = 1..n, \A r \in 1..n : Len(fs[r]) \in Nat
    PROVE  Longest(fs) \in Nat /\ \A r \in 1..n : Len(fs[r]) <= Longest(fs)
<1> DEFINE f == [r \in 1..n |-> Len(fs[r])]
<1>1. {f[r] : r \in 1..n} = {Len(fs[r]) : r \in DOMAIN fs}
    OBVIOUS
<1>2. \A r \in 1..n : f[r] \in Int /\ f[r] \in Nat /\ f[r] = Len(fs[r])
    OBVIOUS
<1> HIDE DEF f
<1>3. PICK i \in 1..n : Highest({f[r] : r \in 1..n}) = f[i] /\ \A j \in 1..n : f[j] <= f[i]
    BY <1>2, HighestIs
<1>4. Longest(fs) = f[i]
    BY <1>1, <1>3, Zenon DEF Longest
<1> QED
    BY <1>2, <1>3, <1>4

\* A temperature out of range is replaced with the end of the range it is beyond.
LEMMA SameClamp ==
    ASSUME NEW t \in Temperatures
    PROVE  ClampTemperature(t) = LayaTemperature(t)
<1>1. CASE ~t.number
    BY <1>1 DEF ClampTemperature, LayaTemperature
<1>2. CASE t.number
    <2>1. t.tenths \in Int
        BY <1>2 DEF Temperatures
    <2> DEFINE x       == t.tenths
               n       == IF x < TempMin THEN TempMin ELSE IF x > TempMax THEN TempMax ELSE x
               Best(m) == \A k \in TempMin..TempMax : Apart(m, x) <= Apart(k, x)
    <2>2. n \in TempMin..TempMax /\ Best(n)
        BY <2>1 DEF TempMin, TempMax, Apart
    <2>3. \A m \in TempMin..TempMax : Best(m) => m = n
        BY <2>1, <2>2 DEF TempMin, TempMax, Apart
    <2>4. LayaTemperature(t) = CHOOSE m \in TempMin..TempMax : Best(m)
        BY <1>2 DEF LayaTemperature
    <2>5. ClampTemperature(t) = n
        BY <1>2, <2>1 DEF ClampTemperature, TempMin, TempMax
    <2> HIDE DEF n, Best
    <2> QED
        BY <2>2, <2>3, <2>4, <2>5
<1> QED
    BY <1>1, <1>2

\* The buckets of the port are Laya's.
LEMMA SameBucket ==
    ASSUME NEW type, NEW k \in Nat \ {0}
    PROVE  TempBucket(type, k) = <<type, LayaBucket(k)>>
<1> DEFINE b == IF k <= 2 THEN <<"2", 1..2>> ELSE IF k <= 5 THEN <<"3-5", 3..5>>
                ELSE IF k <= 10 THEN <<"6-10", 6..10>> ELSE <<"11+", Nat \ (0..10)>>
<1>1. b \in LayaBuckets /\ k \in b[2]
    BY DEF LayaBuckets
<1>2. \A c \in LayaBuckets : k \in c[2] => c = b
    BY DEF LayaBuckets
<1>3. TempBucket(type, k) = <<type, b[1]>>
    BY DEF TempBucket
<1> HIDE DEF b
<1>4. (CHOOSE c \in LayaBuckets : k \in c[2]) = b
    BY <1>1, <1>2
<1> QED
    BY <1>3, <1>4 DEF LayaBucket

\* Softmax takes no notice of a shift of all logits.
LEMMA ShiftedSoftmax ==
    ASSUME NEW n \in Nat \ {0}, NEW z \in [1..n -> Int], NEW d \in Int, NEW scale
    PROVE  Softmax([j \in 1..n |-> z[j] + d], scale) = Softmax(z, scale)
<1> DEFINE y == [j \in 1..n |-> z[j] + d]
<1>1. y \in [1..n -> Int] /\ \A j \in 1..n : y[j] = z[j] + d
    OBVIOUS
<1> HIDE DEF y
<1>2. PICK i \in 1..n : Highest({z[j] : j \in 1..n}) = z[i] /\ \A j \in 1..n : z[j] <= z[i]
    BY HighestIs
<1>3. PICK k \in 1..n : Highest({y[j] : j \in 1..n}) = y[k] /\ \A j \in 1..n : y[j] <= y[k]
    BY <1>1, HighestIs
<1> DEFINE H == Highest({z[j] : j \in 1..n})
           G == Highest({y[j] : j \in 1..n})
<1>4. \A j \in 1..n : G - y[j] = H - z[j]
    <2>1. z[i] \in Int /\ z[k] \in Int /\ z[k] <= z[i] /\ y[i] <= y[k] /\ y[i] = z[i] + d
          /\ y[k] = z[k] + d
        BY <1>1, <1>2, <1>3
    <2>2. G = H + d /\ H \in Int
        BY <1>2, <1>3, <2>1
    <2> HIDE DEF G, H
    <2> QED
        BY <1>1, <2>2
<1>5. DOMAIN y = 1..n /\ DOMAIN z = 1..n
    BY <1>1
<1>6. Softmax(y, scale) = [j \in 1..n |-> ((G - y[j]) * 1000) \div scale]
    BY <1>5 DEF Softmax
<1>7. Softmax(z, scale) = [j \in 1..n |-> ((H - z[j]) * 1000) \div scale]
    BY <1>5 DEF Softmax
<1> HIDE DEF G, H
<1> QED
    BY <1>4, <1>6, <1>7 DEF y

-----------------------------------------------------------------------------

\* What a question has as a row of a batch: its tokens are where they were, just
\* those cells are attended to, and its options come first.
LEMMA RowOfABatch ==
    ASSUME NEW items, IsRequest(items), NEW r \in DOMAIN items
    PROVE  LET q == items[r]  row == Collate(items)[r] IN
           /\ \E n \in Nat : n >= Len(q.ids) /\ DOMAIN row.ids = 1..n /\ DOMAIN row.attend = 1..n
           /\ \A i \in 1..Len(q.ids) : row.ids[i] = q.ids[i]
           /\ {i \in DOMAIN row.attend : row.attend[i]} = 1..Len(q.ids)
           /\ \E k \in Nat : k >= Len(q.markers) /\ DOMAIN row.markers = 1..k
           /\ \A j \in 1..Len(q.markers) : row.mask[j] /\ row.markers[j] = q.markers[j]
<1> DEFINE q   == items[r]
           row == Collate(items)[r]
           ids == [s \in DOMAIN items |-> items[s].ids]
           markers == [s \in DOMAIN items |-> items[s].markers]
           n == Longest(ids)
           k == Longest(markers)
<1>1. DOMAIN items = 1..Len(items) /\ Len(items) \in Nat \ {0}
    BY DEF IsRequest
<1>2. \A s \in 1..Len(items) : Len(items[s].ids) \in Nat /\ Len(items[s].markers) \in Nat
    <2> SUFFICES ASSUME NEW s \in 1..Len(items)
                 PROVE  Len(items[s].ids) \in Nat /\ Len(items[s].markers) \in Nat
        OBVIOUS
    <2>1. items[s].ids \in Seq(Nat) /\ items[s].markers \in Seq(1..Len(items[s].ids))
        BY <1>1 DEF IsRequest, IsQuestion
    <2> QED
        BY <2>1, LenProperties
<1>3. n \in Nat /\ Len(q.ids) <= n
    <2>1. DOMAIN ids = 1..Len(items) /\ (\A s \in 1..Len(items) : Len(ids[s]) \in Nat)
          /\ ids[r] = q.ids
        BY <1>1, <1>2
    <2> HIDE DEF ids, q
    <2>2. n \in Nat /\ \A s \in 1..Len(items) : Len(ids[s]) <= n
        BY <1>1, <2>1, LongestBounds
    <2> QED
        BY <1>1, <2>1, <2>2
<1>4. k \in Nat /\ Len(q.markers) <= k
    <2>1. DOMAIN markers = 1..Len(items) /\ (\A s \in 1..Len(items) : Len(markers[s]) \in Nat)
          /\ markers[r] = q.markers
        BY <1>1, <1>2
    <2> HIDE DEF markers, q
    <2>2. k \in Nat /\ \A s \in 1..Len(items) : Len(markers[s]) <= k
        BY <1>1, <2>1, LongestBounds
    <2> QED
        BY <1>1, <2>1, <2>2
<1>5. Len(q.ids) \in Nat /\ Len(q.markers) \in Nat
    BY <1>1, <1>2
<1>6. row = [ids     |-> [i \in 1..n |-> IF i <= Len(q.ids) THEN q.ids[i] ELSE Pad],
             attend  |-> [i \in 1..n |-> i <= Len(q.ids)],
             markers |-> [j \in 1..k |-> IF j <= Len(q.markers) THEN q.markers[j] ELSE 1],
             mask    |-> [j \in 1..k |-> j <= Len(q.markers)]]
    BY DEF Collate, Attended
<1> HIDE DEF q, row, n, k
<1>7. /\ DOMAIN row.ids = 1..n /\ DOMAIN row.attend = 1..n /\ DOMAIN row.markers = 1..k
      /\ \A i \in 1..n : /\ row.ids[i] = IF i <= Len(q.ids) THEN q.ids[i] ELSE Pad
                         /\ row.attend[i] = (i <= Len(q.ids))
      /\ \A j \in 1..k : /\ row.markers[j] = IF j <= Len(q.markers) THEN q.markers[j] ELSE 1
                         /\ row.mask[j] = (j <= Len(q.markers))
    BY <1>6
<1>8. {i \in DOMAIN row.attend : row.attend[i]} = 1..Len(q.ids)
    <2>1. {i \in DOMAIN row.attend : row.attend[i]} = {i \in 1..n : i <= Len(q.ids)}
        <3>1. \A i \in 1..n : row.attend[i] <=> i <= Len(q.ids)
            BY <1>7, Zenon
        <3> QED
            BY <1>7, <3>1
    <2>2. {i \in 1..n : i <= Len(q.ids)} = 1..Len(q.ids)
        BY <1>3, <1>5
    <2> QED
        BY <2>1, <2>2, Zenon
<1>9. ASSUME NEW i \in 1..Len(q.ids) PROVE row.ids[i] = q.ids[i]
    <2>1. i \in 1..n /\ i <= Len(q.ids)
        BY <1>3, <1>5
    <2>2. row.ids[i] = IF i <= Len(q.ids) THEN q.ids[i] ELSE Pad
        BY <1>7, <2>1, Zenon
    <2> QED
        BY <2>1, <2>2, Zenon
<1>10. ASSUME NEW j \in 1..Len(q.markers) PROVE row.mask[j] /\ row.markers[j] = q.markers[j]
    <2>1. j \in 1..k /\ j <= Len(q.markers)
        BY <1>4, <1>5
    <2>2. /\ row.markers[j] = IF j <= Len(q.markers) THEN q.markers[j] ELSE 1
          /\ row.mask[j] = (j <= Len(q.markers))
        BY <1>7, <2>1, Zenon
    <2> QED
        BY <2>1, <2>2, Zenon
<1> QED
    BY <1>3, <1>4, <1>7, <1>8, <1>9, <1>10 DEF q, row

\* Batching leaves no trace in the logits of a question's own options: each is
\* what the model gives the question alone.
LEMMA LogitsOfOwnOptions ==
    ASSUME NEW items, IsRequest(items), NEW r \in DOMAIN items
    PROVE  LET q == items[r]  z == Logits(Collate(items)[r]) IN
           /\ \E k \in Nat : k >= Len(q.markers) /\ DOMAIN z = 1..k
           /\ \A j \in 1..Len(q.markers) : z[j] = Logit(q.ids, q.markers[j])
<1> DEFINE q   == items[r]
           row == Collate(items)[r]
           z   == Logits(row)
<1>1. /\ \A i \in 1..Len(q.ids) : row.ids[i] = q.ids[i]
      /\ {i \in DOMAIN row.attend : row.attend[i]} = 1..Len(q.ids)
      /\ \E k \in Nat : k >= Len(q.markers) /\ DOMAIN row.markers = 1..k
      /\ \A j \in 1..Len(q.markers) : row.mask[j] /\ row.markers[j] = q.markers[j]
    BY RowOfABatch
<1>2. PICK k \in Nat : k >= Len(q.markers) /\ DOMAIN row.markers = 1..k
    BY <1>1, Zenon
<1>3. q.ids \in Seq(Nat) /\ q.markers \in Seq(1..Len(q.ids))
    BY DEF IsRequest, IsQuestion
<1> HIDE DEF q, row
<1>4. Len(q.ids) \in Nat /\ Len(q.markers) \in Nat
    BY <1>3, LenProperties
<1>5. AttendedTokens(row) = q.ids
    <2>1. AttendedTokens(row) = [i \in 1..Len(q.ids) |-> row.ids[i]]
        BY <1>1, Zenon DEF AttendedTokens
    <2>2. q.ids = [i \in 1..Len(q.ids) |-> q.ids[i]]
        BY <1>3, LenProperties
    <2>3. [i \in 1..Len(q.ids) |-> row.ids[i]] = [i \in 1..Len(q.ids) |-> q.ids[i]]
        BY <1>1, Zenon
    <2> QED
        BY <2>1, <2>2, <2>3, Zenon
<1>6. ASSUME NEW j \in 1..Len(q.markers)
      PROVE  z[j] = Logit(q.ids, q.markers[j])
    <2>1. j \in DOMAIN row.markers
        BY <1>2, <1>4
    <2>2. row.mask[j] /\ row.markers[j] = q.markers[j]
        BY <1>1, Zenon
    <2>3. z[j] = Logit(AttendedTokens(row), row.markers[j])
        BY <2>1, <2>2 DEF Logits
    <2> QED
        BY <1>5, <2>2, <2>3, Zenon
<1>7. DOMAIN z = 1..k
    BY <1>2 DEF Logits
<1> QED
    BY <1>2, <1>6, <1>7 DEF q, row

\* The logits Laya has for a question's options.
OwnLogits(q) == [j \in DOMAIN q.markers |-> Logit(q.ids, q.markers[j])]

LEMMA OwnLogitsAre ==
    ASSUME NEW q, IsQuestion(q)
    PROVE  /\ Len(q.markers) \in Nat \ {0}
           /\ OwnLogits(q) \in [1..Len(q.markers) -> Int]
           /\ Len(OwnLogits(q)) = Len(q.markers)
           /\ \A j \in 1..Len(q.markers) : OwnLogits(q)[j] = Logit(q.ids, q.markers[j])
<1>1. q.ids \in Seq(Nat) /\ q.markers \in Seq(1..Len(q.ids)) /\ q.markers # <<>>
    BY DEF IsQuestion
<1>2. /\ Len(q.ids) \in Nat /\ Len(q.markers) \in Nat
      /\ DOMAIN q.markers = 1..Len(q.markers)
    BY <1>1, LenProperties
<1>3. Len(q.markers) \in Nat \ {0}
    BY <1>1, EmptySeq
<1>4. ASSUME NEW j \in 1..Len(q.markers)
      PROVE  Logit(q.ids, q.markers[j]) \in Int
    <2>1. q.markers[j] \in 1..Len(q.ids)
        BY <1>1, ElementOfSeq
    <2> QED
        BY <2>1 DEF IsQuestion
<1> DEFINE z == OwnLogits(q)
<1>5. z = [j \in 1..Len(q.markers) |-> Logit(q.ids, q.markers[j])]
    BY <1>2 DEF OwnLogits
<1>6. z \in [1..Len(q.markers) -> Int]
    BY <1>4, <1>5
<1>7. Len(z) = Len(q.markers)
    <2> DEFINE n == Len(q.markers)
    <2>1. z \in Seq(Int)
        BY <1>2, <1>6, SeqDef
    <2>2. DOMAIN z = 1..Len(z) /\ Len(z) \in Nat
        BY <2>1, LenProperties
    <2>3. DOMAIN z = 1..Len(q.markers)
        BY <1>5
    <2>4. \A a, b \in Nat : 1..a = 1..b => a = b
        <3> SUFFICES ASSUME NEW a \in Nat, NEW b \in Nat, 1..a = 1..b PROVE a = b
            OBVIOUS
        <3>1. CASE a < b
            <4>1. b \in 1..b /\ b \notin 1..a
                BY <3>1
            <4> QED
                BY <4>1
        <3>2. CASE b < a
            <4>1. a \in 1..a /\ a \notin 1..b
                BY <3>2
            <4> QED
                BY <4>1
        <3> QED
            BY <3>1, <3>2
    <2>5. 1..Len(z) = 1..Len(q.markers)
        BY <2>2, <2>3, Zenon
    <2> QED
        BY <1>2, <2>2, <2>4, <2>5, Zenon
<1> QED
    BY <1>3, <1>5, <1>6, <1>7

\* The same numbers, all of them shifted alike.
Shifted(y, z, n) == \E d \in Int : y = [j \in 1..n |-> z[j] + d]

\* The port's own options of an export whose answers are Laya's: Laya's logits, or
\* all of them shifted alike.
LEMMA OwnOptionsAre ==
    ASSUME NEW items, IsRequest(items), NEW r \in DOMAIN items, NEW x \in SameAnswers
    PROVE  Shifted(OwnOptions(Exported(x, Logits(Collate(items)[r])).logits,
                              Len(items[r].markers)),
                   OwnLogits(items[r]), Len(items[r].markers))
<1> DEFINE q   == items[r]
           z   == Logits(Collate(items)[r])
           y   == Exported(x, z).logits
           m   == Len(q.markers)
           d   == IF x = "good" THEN 0 ELSE 50
           own == OwnOptions(y, m)
<1>1. IsQuestion(q)
    BY DEF IsRequest
<1>2. PICK k \in Nat : k >= m /\ DOMAIN z = 1..k
    BY LogitsOfOwnOptions
<1>3. \A j \in 1..m : z[j] = Logit(q.ids, q.markers[j])
    BY LogitsOfOwnOptions
<1>4. \A j \in 1..m : OwnLogits(q)[j] = Logit(q.ids, q.markers[j])
    BY <1>1, OwnLogitsAre
<1>5. m \in Nat \ {0} /\ OwnLogits(q) \in [1..m -> Int]
    BY <1>1, OwnLogitsAre
<1> HIDE DEF q, z, m
<1>6. ASSUME NEW j \in 1..m PROVE y[j] = OwnLogits(q)[j] + d /\ y[j] \in Int
    <2>1. z[j] = OwnLogits(q)[j]
        BY <1>3, <1>4
    <2>2. j \in DOMAIN z /\ OwnLogits(q)[j] \in Int
        BY <1>2, <1>5
    <2>3. CASE x = "good"
        <3>1. y[j] = z[j]
            BY <2>3 DEF Exported
        <3> QED
            BY <2>1, <2>2, <2>3, <3>1
    <2>4. CASE x = "shifted"
        <3>1. y[j] = z[j] + 50
            BY <2>2, <2>4 DEF Exported
        <3> QED
            BY <2>1, <2>2, <2>4, <3>1
    <2> QED
        BY <2>3, <2>4 DEF SameAnswers
<1> HIDE DEF y, d
<1>7. own \in Seq(Int) /\ Len(own) = m /\ \A j \in 1..m : own[j] = y[j]
    <2>1. \A j \in 1..m : y[j] \in Int
        BY <1>6
    <2>2. 1 \in Int /\ m \in Int
        BY <1>5
    <2>3. /\ SubSeq(y, 1, m) \in Seq(Int)
          /\ Len(SubSeq(y, 1, m)) = IF 1 <= m THEN m - 1 + 1 ELSE 0
          /\ \A j \in 1..(m - 1 + 1) : SubSeq(y, 1, m)[j] = y[1 + j - 1]
        BY <2>1, <2>2, SubSeqProperties, SMTT(30)
    <2>4. (IF 1 <= m THEN m - 1 + 1 ELSE 0) = m /\ m - 1 + 1 = m /\ \A j \in 1..m : 1 + j - 1 = j
        BY <1>5
    <2>5. Len(SubSeq(y, 1, m)) = m
        BY <2>3, <2>4, Zenon
    <2>6. \A j \in 1..m : SubSeq(y, 1, m)[j] = y[j]
        BY <2>3, <2>4, Zenon
    <2> QED
        BY <2>3, <2>5, <2>6 DEF OwnOptions
<1> HIDE DEF own
<1>8. own \in [1..m -> Int]
    <2>1. own \in [1..Len(own) -> Int]
        BY <1>7, LenProperties
    <2> QED
        BY <1>7, <2>1
<1>9. own = [j \in 1..m |-> OwnLogits(q)[j] + d]
    BY <1>6, <1>7, <1>8
<1>10. d \in Int
    BY DEF d
<1>11. Shifted(own, OwnLogits(q), m)
    BY <1>9, <1>10 DEF Shifted
<1> QED
    BY <1>11 DEF own, y, z, q, m

\* The temperature of the port is Laya's.
LEMMA SameTemperature ==
    ASSUME NEW c \in Checkpoints, NEW q, IsQuestion(q)
    PROVE  LET k == Len(q.markers) IN
           ClampTemperature(Temperature(Configs[c], TempBucket(q.type, k)))
               = LayaTemperature(Temperature(Configs[c], <<q.type, LayaBucket(Len(OwnLogits(q)))>>))
<1> DEFINE k == Len(q.markers)
           bucket == <<q.type, LayaBucket(k)>>
<1>1. k \in Nat \ {0} /\ Len(OwnLogits(q)) = k
    BY OwnLogitsAre
<1>2. TempBucket(q.type, k) = bucket
    BY <1>1, SameBucket
<1>3. Temperature(Configs[c], bucket) \in Temperatures
    <2>1. q.type \in {"choice", "score", "noul"} /\ bucket[1] = q.type
        BY DEF IsQuestion, Typed
    <2> HIDE DEF bucket
    <2> QED
        BY <2>1, ConfigsAreTemperatures DEF Temperature
<1> HIDE DEF k, bucket
<1>4. ClampTemperature(Temperature(Configs[c], bucket))
          = LayaTemperature(Temperature(Configs[c], bucket))
    BY <1>3, SameClamp
<1> QED
    BY <1>1, <1>2, <1>4 DEF k, bucket

\* The probabilities of the port are Laya's.
LEMMA SameProbabilities ==
    ASSUME NEW c \in Checkpoints, NEW items, IsRequest(items), NEW r \in DOMAIN items,
           NEW x \in SameAnswers
    PROVE  LET q == items[r]
               k == Len(q.markers)
           IN Softmax(OwnOptions(Exported(x, Logits(Collate(items)[r])).logits, k),
                      ClampTemperature(Temperature(Configs[c], TempBucket(q.type, k))))
                = Softmax(OwnLogits(q), LayaTemperature(
                      Temperature(Configs[c], <<q.type, LayaBucket(Len(OwnLogits(q)))>>)))
<1> DEFINE q     == items[r]
           k     == Len(q.markers)
           own   == OwnOptions(Exported(x, Logits(Collate(items)[r])).logits, k)
           scale == ClampTemperature(Temperature(Configs[c], TempBucket(q.type, k)))
           laya  == LayaTemperature(
                        Temperature(Configs[c], <<q.type, LayaBucket(Len(OwnLogits(q)))>>))
<1>1. IsQuestion(q)
    BY DEF IsRequest
<1>2. PICK d \in Int : own = [j \in 1..k |-> OwnLogits(q)[j] + d]
    <2>1. Shifted(own, OwnLogits(q), k)
        BY OwnOptionsAre, Zenon
    <2> QED
        BY <2>1, Zenon DEF Shifted
<1>3. k \in Nat \ {0} /\ OwnLogits(q) \in [1..k -> Int]
    BY <1>1, OwnLogitsAre
<1>4. scale = laya
    BY <1>1, SameTemperature
<1> HIDE DEF q, k, own, scale, laya
<1>5. Softmax(own, scale) = Softmax(OwnLogits(q), scale)
    BY <1>2, <1>3, ShiftedSoftmax
<1>6. Softmax(own, scale) = Softmax(OwnLogits(q), laya)
    BY <1>4, <1>5
<1> QED
    BY <1>6 DEF q, k, own, scale, laya

\* Answers from the same probabilities differ in `action` at most.
LEMMA ActionIsLeftOut ==
    ASSUME NEW q, Typed(q), NEW p, NEW act, NEW other
    PROVE  Missed(Payload(q, p, act), Payload(q, p, other)) = {}
<1>1. CASE q.type = "choice"
    BY <1>1 DEF Payload, Missed
<1>2. CASE q.type = "score"
    <2> DEFINE a == Payload(q, p, act)
               b == Payload(q, p, other)
    <2>1. DOMAIN b = DOMAIN a
        BY <1>2 DEF Payload
    <2>2. /\ a["type"] = b["type"] /\ a["score"] = b["score"] /\ a["legend"] = b["legend"]
          /\ a["probabilities"] = b["probabilities"] /\ a["confidence"] = b["confidence"]
          /\ a["answer_confidence"] = b["answer_confidence"]
        BY <1>2, Zenon DEF Payload
    <2>3. DOMAIN a = {"type", "score", "legend", "probabilities", "confidence",
                      "answer_confidence", "action"}
        BY <1>2 DEF Payload
    <2> HIDE DEF a, b
    <2>4. Missed(a, b) = {}
        BY <2>1, <2>2, <2>3 DEF Missed
    <2> QED
        BY <2>4 DEF a, b
<1>3. CASE q.type = "noul"
    BY <1>3 DEF Payload, Missed
<1> QED
    BY <1>1, <1>2, <1>3 DEF Typed

\* Both count the tokens of the questions, no padding.
LEMMA SameTokens ==
    ASSUME NEW items, IsRequest(items)
    PROVE  LET batch == Collate(items) IN
           {cell \in (DOMAIN batch) \X (DOMAIN batch[1].ids) : batch[cell[1]].attend[cell[2]]}
               = UNION {{r} \X (DOMAIN items[r].ids) : r \in DOMAIN items}
<1> DEFINE batch == Collate(items)
           n     == Longest([r \in DOMAIN items |-> items[r].ids])
           cells == {cell \in (DOMAIN batch) \X (DOMAIN batch[1].ids) :
                         batch[cell[1]].attend[cell[2]]}
           own   == UNION {{r} \X (DOMAIN items[r].ids) : r \in DOMAIN items}
<1>1. 1 \in DOMAIN items /\ DOMAIN batch = DOMAIN items
    BY DEF IsRequest, Collate
<1>2. \A r \in DOMAIN items : DOMAIN batch[r].attend = 1..n /\ DOMAIN batch[r].ids = 1..n
    BY DEF Collate
<1>3. \A r \in DOMAIN items : {i \in 1..n : batch[r].attend[i]} = DOMAIN items[r].ids
    <2> SUFFICES ASSUME NEW r \in DOMAIN items
                 PROVE  {i \in 1..n : batch[r].attend[i]} = DOMAIN items[r].ids
        OBVIOUS
    <2>1. {i \in DOMAIN batch[r].attend : batch[r].attend[i]} = 1..Len(items[r].ids)
        BY RowOfABatch
    <2>2. items[r].ids \in Seq(Nat)
        BY DEF IsRequest, IsQuestion
    <2>3. DOMAIN items[r].ids = 1..Len(items[r].ids)
        BY <2>2, LenProperties
    <2> HIDE DEF batch, n
    <2> QED
        BY <1>2, <2>1, <2>3
<1> HIDE DEF batch, n
<1>4. cells = {cell \in (DOMAIN items) \X (1..n) : batch[cell[1]].attend[cell[2]]}
    BY <1>1, <1>2
<1>5. ASSUME NEW r \in DOMAIN items, NEW i
      PROVE  <<r, i>> \in cells <=> i \in DOMAIN items[r].ids
    <2>1. <<r, i>> \in cells <=> i \in 1..n /\ batch[r].attend[i]
        BY <1>4
    <2>2. i \in 1..n /\ batch[r].attend[i] <=> i \in DOMAIN items[r].ids
        BY <1>3
    <2> QED
        BY <2>1, <2>2, Zenon
<1>6. cells \subseteq own
    <2> SUFFICES ASSUME NEW cell \in cells PROVE cell \in own
        BY Zenon
    <2>1. PICK r \in DOMAIN items, i \in 1..n : cell = <<r, i>>
        BY <1>4
    <2>2. cell \in {r} \X DOMAIN items[r].ids
        BY <1>5, <2>1
    <2> QED
        BY <2>2
<1>7. own \subseteq cells
    <2> SUFFICES ASSUME NEW cell \in own PROVE cell \in cells
        BY Zenon
    <2>1. PICK r \in DOMAIN items : cell \in {r} \X DOMAIN items[r].ids
        OBVIOUS
    <2>2. PICK i \in DOMAIN items[r].ids : cell = <<r, i>>
        BY <2>1
    <2> QED
        BY <1>5, <2>2, Zenon
<1>8. cells = own
    BY <1>6, <1>7, Zenon
<1> QED
    BY <1>8 DEF batch

\* verify_parity.py agrees to every export whose rounded answers are Laya's.
LEMMA GoodExportsAgree ==
    ASSUME NEW c \in Checkpoints, NEW x \in SameAnswers
    PROVE  Agrees[c][x] = TRUE
<1>1. x \in Written
    BY DEF SameAnswers, Written
<1> SUFFICES ASSUME NEW questions \in Cases
             PROVE  HardDiffs(Laya(c, questions), Ported(c, x, questions)) = {}
    BY <1>1 DEF Agrees
<1> DEFINE ref == Laya(c, questions)
           got == Ported(c, x, questions)
<1>2. IsRequest(questions)
    BY CasesAreRequests DEF IsRequest, IsQuestion, Typed
<1>3. \A u \in UsageKeys : ref.usage[u] = got.usage[u]
    <2>1. ref.usage.output_tokens = 0 /\ got.usage.output_tokens = 0
        BY DEF Laya, Ported, SystemOne, OnnxSystemOne
    <2>2. ref.usage.input_tokens
              = Cardinality(UNION {{r} \X (DOMAIN questions[r].ids) : r \in DOMAIN questions})
        BY DEF Laya, SystemOne
    <2>3. got.usage.input_tokens
              = Cardinality({cell \in (DOMAIN Collate(questions))
                                      \X (DOMAIN Collate(questions)[1].ids) :
                                 Collate(questions)[cell[1]].attend[cell[2]]})
        BY DEF Ported, OnnxSystemOne
    <2>4. ref.usage.input_tokens = got.usage.input_tokens
        BY <1>2, <2>2, <2>3, SameTokens, Zenon
    <2> HIDE DEF ref, got
    <2> QED
        BY <2>1, <2>4, Zenon DEF UsageKeys
<1>4. \A r \in DOMAIN ref.answers : Missed(ref.answers[r], got.answers[r]) = {}
    <2>1. DOMAIN ref.answers = DOMAIN questions
        BY DEF Laya, SystemOne
    <2> SUFFICES ASSUME NEW r \in DOMAIN questions
                 PROVE  Missed(ref.answers[r], got.answers[r]) = {}
        BY <2>1, Zenon
    <2> DEFINE q   == questions[r]
               k   == Len(q.markers)
               out == Exported(x, Logits(Collate(questions)[r]))
               p   == Softmax(OwnOptions(out.logits, k),
                              ClampTemperature(Temperature(Configs[c], TempBucket(q.type, k))))
               own == Softmax(OwnLogits(q), LayaTemperature(
                          Temperature(Configs[c], <<q.type, LayaBucket(Len(OwnLogits(q)))>>)))
    <2>2. ref.answers[r] = Payload(q, own, "as trained")
        BY DEF Laya, SystemOne, OwnLogits
    <2>3. got.answers[r] = Payload(q, p, out.act)
        BY DEF Ported, OnnxSystemOne
    <2>4. p = own
        BY <1>2, SameProbabilities
    <2>5. Typed(q)
        BY <1>2 DEF IsRequest, IsQuestion
    <2> HIDE DEF ref, got, q, p, own, out
    <2>6. Missed(Payload(q, p, "as trained"), Payload(q, p, out.act)) = {}
        BY <2>5, ActionIsLeftOut
    <2> QED
        BY <2>2, <2>3, <2>4, <2>6, Zenon
<1> HIDE DEF ref, got
<1>5. {<<0, key>> : key \in {u \in UsageKeys : ref.usage[u] # got.usage[u]}} = {}
    BY <1>3
<1>6. UNION {{<<r, key>> : key \in Missed(ref.answers[r], got.answers[r])} :
                r \in DOMAIN ref.answers} = {}
    BY <1>4
<1> QED
    BY <1>5, <1>6 DEF HardDiffs, ref, got

\* GoodExportsPass holds of every step of a run from the invariant and itself.
LEMMA GoodExportsPassNext == IInv /\ GoodExportsPass /\ [Next]_vars => GoodExportsPass'
<1> SUFFICES ASSUME IInv, GoodExportsPass, [Next]_vars,
                    script' = "parity", NEW c \in Checkpoints, <<c, FALSE>> \in results'
             PROVE  file'[c] \notin SameAnswers
    BY DEF GoodExportsPass
<1>0. script = "parity" /\ <<c, FALSE>> \in results => file[c] \notin SameAnswers
    BY DEF GoodExportsPass
<1>1. CASE \E only \in Asks : BeginExport(only) \/ BeginParity(only)
    BY <1>1 DEF BeginExport, BeginParity, Begin
<1>2. CASE \/ Load \/ Try("dynamo") \/ Try("legacy") \/ OpenSession \/ CheckTraced
           \/ CheckDifferent
    <2>1. step \in {"load", "dynamo", "legacy", "session", "traced", "different"}
        BY <1>2 DEF Load, Try, OpenSession, CheckTraced, CheckDifferent
    <2>2. script = "export"
        BY <2>1 DEF IInv
    <2>3. script' = script
        BY <1>2 DEF Load, Try, OpenSession, CheckTraced, CheckDifferent, TryNext, GoOn,
                    FailureCounts, Record, run
    <2> QED
        BY <2>2, <2>3
<1>3. CASE Compare
    <2>0. script = "parity" /\ current \in Checkpoints
        BY <1>3 DEF Compare, IInv, Targets
    <2>1. CASE file[current] = "none" /\ MissingIsRecorded
        <3>1. file' = file /\ results' = results \cup {<<current, FALSE>>}
            BY <2>1 DEF MissingIsRecorded, Record
        <3>2. "none" \notin SameAnswers
            BY DEF SameAnswers
        <3>3. <<c, FALSE>> \in results \/ c = current
            BY <3>1
        <3> QED
            BY <1>0, <2>0, <2>1, <3>1, <3>2, <3>3
    <2>2. CASE /\ file[current] \in Written
               /\ Record(Agrees[current][file[current]]) /\ UNCHANGED file
        <3> DEFINE pass == Agrees[current][file[current]]
        <3>1. file' = file /\ results' = results \cup {<<current, pass>>}
            BY <2>2 DEF Record
        <3>2. file[current] \in SameAnswers => pass = TRUE
            BY <2>0, GoodExportsAgree
        <3> HIDE DEF pass
        <3>3. CASE <<c, FALSE>> \in results
            BY <1>0, <2>0, <3>1, <3>3
        <3>4. CASE c = current /\ pass = FALSE
            BY <3>1, <3>2, <3>4
        <3> QED
            BY <3>1, <3>3, <3>4
    <2>3. CASE End("1")
        BY <1>0, <2>0, <2>3 DEF End
    <2> QED
        BY <1>3, <2>1, <2>2, <2>3 DEF Compare
<1>4. CASE EndExport \/ EndParity \/ Take("export", "load") \/ Take("parity", "compare")
    BY <1>0, <1>4 DEF EndExport, EndParity, End, Take, run
<1>5. CASE Killed
    <2>1. script = "parity" /\ <<c, FALSE>> \in results
        BY <1>5 DEF Killed, run
    <2>2. step \notin {"dynamo", "legacy"}
        BY <2>1 DEF IInv
    <2> QED
        BY <1>0, <1>5, <2>1, <2>2 DEF Killed
<1>6. CASE UNCHANGED vars
    BY <1>0, <1>6 DEF vars
<1> QED
    BY <1>1, <1>2, <1>3, <1>4, <1>5, <1>6 DEF Next, Running

\* verify_parity.py fails no export whose rounded answers are Laya's, whatever is
\* asked in one batch and whatever temperatures a checkpoint is configured with.
THEOREM GoodExportsAreNotFailed == Spec => []GoodExportsPass
<1>1. Init => GoodExportsPass
    BY DEF Init, GoodExportsPass
<1> QED
    BY <1>1, GoodExportsPassNext, Invariance, PTL DEF Spec

-----------------------------------------------------------------------------
\* The variables have their types.
THEOREM TypeCorrect == Spec => []TypeOK
<1>1. IInv => TypeOK
    BY DEF IInv
<1> QED
    BY <1>1, Invariance, PTL
=============================================================================
