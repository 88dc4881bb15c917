----------------------------- MODULE OnnxExport -----------------------------
(***************************************************************************)
(* scripts/export_onnx.py and scripts/verify_parity.py, which share the    *)
(* directory build/onnx: one exports the checkpoints and tries each export *)
(* at two shapes, the other compares the answers computed from the exports *)
(* with Laya's own.  One runs at a time; either may be killed at any step. *)
(*                                                                         *)
(* An export is what can be found out about it: it cannot be read; it is   *)
(* right at the shape it was traced at only ("frozen": the exporter baked  *)
(* the shape in); it is wrong; its logits are within --tol but an answer   *)
(* rounds differently ("close"); its answers are Laya's but a logit is not *)
(* within --tol ("shifted"); or it is good.                                *)
(***************************************************************************)
EXTENDS Parity

CONSTANTS
    Checkpoints,  \* CHECKPOINTS
    Unknown,      \* a name for --only that is not among them
    Configs,      \* Configs[c]: the temperatures a checkpoint is configured with
    Cases         \* CASES: each the questions of a request

\* A request asks at least one question; a question has tokens and at least one
\* option, which has its place among the tokens, and for which the model has a
\* logit.
ASSUME CasesAreRequests ==
    \A questions \in Cases :
        /\ Len(questions) \in Nat \ {0} /\ DOMAIN questions = 1..Len(questions)
        /\ \A r \in DOMAIN questions :
               /\ questions[r].type \in {"choice", "score", "noul"}
               /\ questions[r].ids \in Seq(Nat)
               /\ questions[r].markers \in Seq(1..Len(questions[r].ids)) \ {<<>>}
               /\ \A m \in 1..Len(questions[r].ids) : Logit(questions[r].ids, m) \in Int
\* A temperature is a number, or something that is no number.
Temperatures == [number : {TRUE}, tenths : Int] \cup [number : {FALSE}]
ASSUME ConfigsAreTemperatures ==
    \A c \in Checkpoints :
        /\ \A type \in {"choice", "score", "noul"} : Configs[c].byType[type] \in Temperatures
        /\ \A b \in DOMAIN Configs[c].byOptions : Configs[c].byOptions[b] \in Temperatures
ASSUME CheckpointsAreFinite == IsFiniteSet(Checkpoints) /\ Unknown \notin Checkpoints

VARIABLES
    file,     \* file[c]: build/onnx/<c>/model.onnx
    made,     \* build/onnx exists
    script,   \* the script that runs, or ran last
    step,     \* what it does next
    asked,    \* its --only, or "all"
    todo,     \* checkpoints it has not come to
    current,  \* the checkpoint it is at
    checks,   \* the shapes the export of `current` has been right at
    results,  \* <<checkpoint, pass>> as collected so far
    exit      \* "none" while it runs, then how it ended

vars == <<file, made, script, step, asked, todo, current, checks, results, exit>>
run  == <<script, asked>>

Written  == {"frozen", "wrong", "close", "shifted", "good"}
Contents == Written \cup {"none", "unreadable"}
WithinTolerance == {"close", "good"}
SameAnswers     == {"shifted", "good"}
Scripts  == {"export", "parity"}
Steps    == {"next", "load", "dynamo", "legacy", "session", "traced", "different",
             "compare", "done"}
Asks     == Checkpoints \cup {Unknown, "all"}
Shapes   == {"traced", "different"}

TypeOK ==
    /\ file \in [Checkpoints -> Contents]
    /\ made \in BOOLEAN
    /\ script \in Scripts
    /\ step \in Steps
    /\ asked \in Asks
    /\ todo \subseteq Checkpoints
    /\ current \in Checkpoints \cup {Unknown}
    /\ checks \subseteq Shapes
    /\ results \subseteq Checkpoints \X BOOLEAN
    /\ exit \in {"none", "0", "1", "2", "killed"}

\* A checkout where nothing was ever exported.
Init ==
    /\ file = [c \in Checkpoints |-> "none"]
    /\ made = FALSE
    /\ script = "export" /\ asked = Unknown /\ exit = "2"
    /\ step = "done"
    /\ todo = {} /\ current = Unknown
    /\ checks = {} /\ results = {}

-----------------------------------------------------------------------------
(* Both scripts                                                            *)

\* A slip: what was asked for is taken for a checkpoint.
TargetsAsAsked(only) == IF only = "all" THEN Checkpoints ELSE {only}
Targets(only) == IF only = "all" THEN Checkpoints ELSE {only} \cap Checkpoints

Begin(name, only) ==
    /\ step = "done"
    /\ script' = name
    /\ asked' = only
    /\ todo' = Targets(only)
    /\ results' = {} /\ checks' = {} /\ current' = Unknown
    /\ UNCHANGED <<file, made>>

\* The loop over the targets takes the next one.
Take(name, next) ==
    /\ script = name /\ step = "next"
    /\ \E c \in todo : current' = c /\ todo' = todo \ {c}
    /\ checks' = {}
    /\ step' = next
    /\ UNCHANGED <<file, made, run, results, exit>>

\* A result for the current target; the loop goes on.
Record(pass) ==
    /\ results' = results \cup {<<current, pass>>}
    /\ step' = "next"
    /\ UNCHANGED <<made, run, todo, current, checks, exit>>

End(how) ==
    /\ exit' = how
    /\ step' = "done"
    /\ UNCHANGED <<file, run, todo, current, checks, results>>

AllPassed == \A c \in Checkpoints : <<c, FALSE>> \notin results

\* The process is killed; an exporter may have been writing.
Killed ==
    /\ step # "done"
    /\ step' = "done" /\ exit' = "killed"
    /\ \/ UNCHANGED file
       \/ step \in {"dynamo", "legacy"} /\ file' = [file EXCEPT ![current] = "unreadable"]
    /\ UNCHANGED <<made, run, todo, current, checks, results>>

-----------------------------------------------------------------------------
(* export_onnx.py                                                          *)

BeginExport(only) ==
    /\ Begin("export", only)
    /\ \/ Targets(only) # {} /\ step' = "next" /\ exit' = "none"
       \/ Targets(only) = {} /\ step' = "done" /\ exit' = "2"

\* A slip: one bad checkpoint ends the run.
FailureEnds == End("1") /\ UNCHANGED made
\* A slip: a checkpoint that failed has another turn, however often it failed.
FailureRetries ==
    /\ step' = "next"
    /\ todo' = todo \cup {current}
    /\ UNCHANGED <<made, run, current, checks, results, exit>>
\* A result that is not ok; what export_one raises is one too (main's `except`).
FailureCounts == Record(FALSE)

\* export_one: Agent(...), the two batches, the directory.
Load ==
    /\ step = "load"
    /\ UNCHANGED file
    /\ \/ FailureCounts
       \/ /\ made' = TRUE
          /\ step' = "dynamo"
          /\ UNCHANGED <<run, todo, current, checks, results, exit>>

GoOn(next) ==
    /\ step' = next
    /\ UNCHANGED <<made, run, todo, current, checks, results, exit>>

\* The other exporter has its turn; after it nobody has.
TryNext == IF step = "dynamo" THEN GoOn("legacy") ELSE FailureCounts

\* One turn of the loop over the exporters: it writes an export, or raises and
\* leaves what was there or part of something new.
Try(exporter) ==
    /\ step = exporter
    /\ \/ /\ \E x \in Written : file' = [file EXCEPT ![current] = x]
          /\ GoOn("session")
       \/ /\ file' \in {file, [file EXCEPT ![current] = "unreadable"]}
          /\ TryNext

\* ort.InferenceSession(...) on what was just written.
OpenSession ==
    /\ step = "session"
    /\ UNCHANGED file
    /\ FailureCounts \/ GoOn("traced")

\* A slip: what is right at the shape it was made with is right at any.
RightAtTraced(shape) == file[current] \in WithinTolerance \cup {"frozen"}
\* The logits and the probabilities agree at this shape.
RightAt(shape) ==
    file[current] \in WithinTolerance \cup (IF shape = "traced" THEN {"frozen"} ELSE {})

\* The export not running at a shape is a check that failed, and the other shape
\* is still tried; the model itself not running is an exception.
CheckTraced ==
    /\ step = "traced"
    /\ UNCHANGED file
    /\ \/ FailureCounts
       \/ /\ checks' = IF RightAt("traced") THEN {"traced"} ELSE {}
          /\ step' = "different"
          /\ UNCHANGED <<made, run, todo, current, results, exit>>

CheckDifferent ==
    /\ step = "different"
    /\ UNCHANGED file
    /\ \/ FailureCounts
       \/ Record(RightAt("different") /\ "traced" \in checks)

\* The summary and report.json.
EndExport ==
    /\ script = "export" /\ step = "next" /\ todo = {}
    /\ made' = TRUE
    /\ End(IF AllPassed THEN "0" ELSE "1")

-----------------------------------------------------------------------------
(* verify_parity.py                                                        *)

BeginParity(only) ==
    /\ Begin("parity", only)
    /\ step' = "next" /\ exit' = "none"

\* No export: overall is False and the loop goes on.
MissingIsRecorded == Record(FALSE) /\ UNCHANGED file

Ported(c, x, questions) == OnnxSystemOne(x, Configs[c], questions)
Laya(c, questions)      == SystemOne(Configs[c], questions)
\* Every case, exact but for `action`.
Agrees ==
    [c \in Checkpoints |-> [x \in Written |->
        \A questions \in Cases : HardDiffs(Laya(c, questions), Ported(c, x, questions)) = {}]]

\* Loading the checkpoint or the export may raise, which nothing catches.
Compare ==
    /\ step = "compare"
    /\ \/ file[current] = "none" /\ MissingIsRecorded
       \/ file[current] \in Written
          /\ Record(Agrees[current][file[current]]) /\ UNCHANGED file
       \/ file[current] # "none" /\ End("1") /\ UNCHANGED made

\* parity.json, which needs build/onnx to be there.
EndParity ==
    /\ script = "parity" /\ step = "next" /\ todo = {}
    /\ End(IF AllPassed /\ made THEN "0" ELSE "1")
    /\ UNCHANGED made

-----------------------------------------------------------------------------

Running ==
    \/ Take("export", "load") \/ Load \/ Try("dynamo") \/ Try("legacy") \/ OpenSession
    \/ CheckTraced \/ CheckDifferent \/ EndExport
    \/ Take("parity", "compare") \/ Compare \/ EndParity

Next ==
    \/ \E only \in Asks : BeginExport(only) \/ BeginParity(only)
    \/ Running
    \/ Killed

Spec == Init /\ [][Next]_vars

\* A script that was started runs on.
FairSpec == Spec /\ WF_vars(Running)

-----------------------------------------------------------------------------
(* Properties                                                              *)

\* A run of export_onnx.py that ends well leaves every export it was asked for
\* within the tolerance at every shape, whichever exporter made it and whatever
\* was there from earlier runs ("verify on BOTH", export_one).
ExportPassIsFaithful ==
    script = "export" /\ exit = "0" =>
        \A c \in Targets(asked) : file[c] \in WithinTolerance

\* "One bad checkpoint should not hide the others": a run that was not killed
\* has a result for each checkpoint it was asked for (main, export_onnx.py).
NoneIsHidden ==
    script = "export" /\ exit \in {"0", "1"} =>
        {result[1] : result \in results} = Targets(asked)

RepliesAlike ==
    [c \in Checkpoints |-> [x \in Written |->
        \A questions \in Cases :
            ToJevResponse(Ported(c, x, questions), "jev-latest", questions)
                = ToJevResponse(Laya(c, questions), "jev-latest", questions)]]

\* A run of verify_parity.py that ends well means that this server would reply
\* the same with a port on every export it was asked about, a stale one
\* included, as it does with Laya: what the comparison leaves out is what
\* translate.py leaves out ("the answer payload -- the rounded values ... the
\* server returns", verify_parity.py).
ParityPassIsFaithful ==
    script = "parity" /\ exit = "0" =>
        \A c \in Targets(asked) : file[c] \in Written /\ RepliesAlike[c][file[c]]

\* An export whose rounded answers are Laya's is never failed: batching with
\* longer questions and with more options, and the temperatures a checkpoint
\* may be configured with, leave no trace in the port (collate_numpy,
\* clamp_temperature, temp_bucket, postprocess).
GoodExportsPass ==
    script = "parity" =>
        \A c \in Checkpoints : <<c, FALSE>> \in results => file[c] \notin SameAnswers

\* A script comes to an end.
ScriptsEnd == step # "done" ~> step = "done"

\* "Check just this checkpoint" (--only, verify_parity.py): a pass is one of the
\* checkpoint that was named.
PassIsOfTheNamed ==
    script = "parity" /\ exit = "0" /\ asked # "all" => <<asked, TRUE>> \in results

\* What a run has behind it, and all of it together: an invariant of every step.
Finished == {c \in Targets(asked) \ todo : step = "next" \/ step = "done" \/ c # current}
Fit(c, x) ==
    IF script = "export" THEN x \in WithinTolerance ELSE x \in Written /\ Agrees[c][x]

ResultsAreRight ==
    exit \in {"none", "0", "1"} =>
        \A c \in Checkpoints : <<c, TRUE>> \in results => Fit(c, file[c])

IInv ==
    /\ TypeOK
    /\ todo \subseteq Targets(asked)
    /\ exit = "none" <=> step # "done"
    /\ step \notin {"next", "done"} => current \in Targets(asked) \ todo
    /\ step \in {"load", "dynamo", "legacy", "session", "traced", "different"} =>
           script = "export"
    /\ step = "compare" => script = "parity"
    /\ step = "different" /\ "traced" \in checks =>
           file[current] \in WithinTolerance \cup {"frozen"}
    /\ \A result \in results : result[1] \in Finished
    /\ exit \in {"none", "0"} \/ (script = "export" /\ exit = "1") =>
           Finished \subseteq {result[1] : result \in results}
    /\ exit = "0" \/ (script = "export" /\ exit = "1") => todo = {}
    /\ ResultsAreRight
    /\ exit = "0" => AllPassed

=============================================================================
