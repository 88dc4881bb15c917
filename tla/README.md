# laya-server in TLA+

laya-server answers Jev's `POST /v1/systemone` with Laya's checkpoints. It is a FastAPI
application of one process and one asyncio event loop, with a pool of worker threads for what
takes long, and around it a Makefile that publishes its image and two scripts that export the
checkpoints to ONNX. The modules here model what in it can go wrong in ways a unit test would
hardly reach; TLC checks them on small instances, and TLAPS proves all of it but the liveness for
instances of any size.

    tlc -config EngineSafety.cfg MCEngine      # any run of PROJECT.json
    tlapm EngineProofs.tla                     # or any other *Proofs module, or Induction

## The system

| Part | State | Operations | Interacts with |
|---|---|---|---|
| Engine (`engine.py`) | a lock and a counter per checkpoint; the Router's resident agents | `create`, `predict`, `status` | thread pool, event loop, Router (shared by all requests), gateway |
| Gateway (`app.py`) | one `Engine` per app | `system_one`, `ready`, `health`, `models`, the lifespan hook | body decoder, engine, uvicorn |
| Body decoder (`body.py`) | the output so far, the input left | `decode_json_body`, `_unzstd` | gateway |
| Validation (`validation.py`) | none | `validate_questions`, `jev_questions`, `validate_budget` | engine, Laya's tokenizer helpers |
| Configuration (`config.py`) | the environment | `Settings.from_env` | gateway, engine |
| Translation (`translate.py`) | none | `to_jev_response` | engine |
| Catalog (`models.py`), schemas, errors | none | `list_models`, constant tables | gateway, engine |
| Container (`Dockerfile`) | its health status | the HEALTHCHECK | gateway |
| Release (`Makefile`) | checkouts, origin/master, the registry | `release` and its sub-targets | git, Docker Hub, other releasers |
| ONNX scripts (`scripts/`) | `build/onnx` | `export_onnx.py`, `verify_parity.py` | each other, through the files; what they promise is about `translate.py` |
| Table of contents (`scripts/toc.py`) | README.md | rewrite, `--check` | `make lint`, and so the release |

Laya's `Router` and `Agent`, anyio's thread pool, `asyncio.Lock`, uvicorn, git and the registry
are outside; they are modelled as the code uses them, and the map marks them external.

What is hard, part by part, and what makes the part correct:

- **Engine.** Handlers interleave at every `await`. `predict` has four of them, and reads before
  some of them what it uses after (the agent, the counter). Every way out of it (refused, turned
  away, failed in routing, in a build, in the budget check, in the forward pass, in shaping the
  result) must give back exactly what was taken. Correct is: at most one forward pass per
  checkpoint, counters that equal the requests they count, no more of them than the limit, first
  come first served, nobody turned away for another checkpoint's queue, agents that are not
  evicted under a request, every request answered.
- **Gateway and decoder.** Each check must come before what it protects, on input whose declared,
  sent and decoded sizes need not agree; the zstd loop must stop at the cap over all frames
  together, and must stop. Correct is: exactly the usable bodies are parsed, whole; nothing about
  a body is told to a caller without the key.
- **Validation.** Two loops with rules in an order that is visible in the answer, on a question
  in two forms (as sent, and without the fields Jev does not define), measured with a tokenizer
  that other threads use. Correct is: exactly what is legal and fits the checkpoint it goes to is
  served, nothing else is refused or fails on the way, and a refusal names the first thing that is
  wrong.
- **The service as a whole.** Correct is: a status means what Jev's clients take it for. A 529 is
  worth retrying; a 200 holds what Jev would send, about the question that was asked; the catalog
  and the engine know the same names.
- **Startup and probes.** Startup may fail half way; `status` reads devices that threads change; a
  build on the event loop looks like a dead server to the HEALTHCHECK. Correct is: the socket opens
  on a server that is ready, and no request makes a fully preloaded container unhealthy.
- **Release.** Minutes pass between the gates and the push; others release, the registry does
  not answer, a step fails in the middle. Correct is: published means gated; a version that was
  checked to be free is overwritten by nobody who keeps to it; `latest` is a published image.
- **Scripts.** Exporters fail and leave files, runs are killed and leave files, one script trusts
  the files of the other; a port batches what Laya need not, and the comparison leaves things out.
  Correct is: exit code 0 vouches for every export that was asked about, and a right export passes.
- **Table of contents.** The table is part of the file it is made from. Correct is: what is
  published lists its headings, and `make toc` always mends it.

## The modules

| Module | Models | Composes |
|---|---|---|
| `CheckpointQueues` | what sharing the checkpoints promises: a bounded line for each | |
| `Engine` | `Engine.predict` under the scheduler, the Router's residents, a probe | refines `CheckpointQueues` |
| `Gateway` | `system_one` up to `predict` and `models`, with `_read_body`, `_check_auth`, `body.py` | |
| `Models` | `resolve_model`, and names and descriptions of `models.py` | |
| `Translate` | `translate.py` | |
| `Validation` | the passes of `validation.py` in the order of `predict` | `Models` |
| `Service` | one request from its headers to its reply | `Gateway`, `Validation`, `Models`, `Translate` |
| `Server` | `Settings.from_env`, `create_app`, lifespan, `Engine.create`, `status`, `ready`, HEALTHCHECK | |
| `Toc` | `scripts/toc.py` | |
| `Release` | `make release` | `Toc` |
| `ReleaseHistory` | what was ever published, and who may rely on what the check saw | `Release` |
| `Parity` | the port and the comparison of `verify_parity.py` | `Translate` |
| `OnnxExport` | both scripts and the files they share | `Parity` |
| `MC*` | constants, inputs and symmetry of the runs | extends its module |
| `*Proofs` | the theorems | extends its module; `ServiceProofs` instantiates `GatewayProofs` |
| `Induction` | what the proofs have in common: induction, recursive functions, greatest numbers | |

Definitions marked "A slip" in a comment are the plausible mistakes that the mutants put in the
place of the definition below them; no specification uses them.

### Engine

An action is one uninterrupted stretch of the event loop, or the end of a job on a thread. So
`Admit` is the depth check, the increment and the first step of `async with`, in which nothing
suspends; and `RouteReturns` is the routing result, `Router.load` and the submission of the budget
check. `stage[r]` is the `await` at which the handler of slot `r` is suspended and `job[r]` its job
in the pool. When the checkpoint is not resident `Router.load` builds it on the event loop: stage
"build", during which `LoopFree` disables every other stretch of the loop while threads go on.
`holder` and `waiters` are `asyncio.Lock`: releasing leaves the lock free and the first waiter has
yet to run (`AcquireLock`), and a newcomer must not take it in between (`LockFree`). The pool gives
tokens first come first served, and takes a token back when the *handler* resumes, not when the
thread is done. What a job computes is one of the outcomes the code tells apart: a result,
`ValidationFailed`, one of Laya's input errors, anything else.

Left out: cancellation (the server does not cancel a handler when its client goes away; at
shutdown everything ends), what is in states and questions, and which checkpoint routing chooses
and why (any of them).

### Gateway

One request: a POST /v1/systemone or a GET /v1/models. A body is its size as sent and the zstd
frames in it: the size each decompresses to, and whether it ends, is cut off, or is corrupt. A
decompressor that produces exactly `max_length` may or may not go on to the end of the frame: both
are allowed. JSON and the schema pass or fail. A key that is "not ascii" stands for a comparison in
which either string has a character outside ASCII: with such a key configured, every caller's is one.

### Models, Validation

One request and an index into its questions. A question is what the checks can tell: its type, the
container and size of its criteria, which of their entries are objects or arrays, what Laya's check
makes of it with and without its own fields (`LayaSays`: it accepts, raises one of the two errors
that become a refusal, or another), and on each checkpoint the markers that fit and the room it
leaves. The pass "raised" is an exception nothing catches: a question on which Laya's check raises
another error; and, in the mutant that counts without the lock, a tokenizer that is in use. `Route` sends the request to the checkpoint it names or, for an alias, to any.
`borrowed` is the lock of the tokenizer in the hands of another request (`OthersEncode`); counting
and building sequences wait for it. `Broken` and `OverBudget` have the rules in the order of the
code; `Legal` and `FitsOn` say what they are for without an order.

### Translate, Service

`Service` puts the modules one behind the other: `Front` is a step of `Gateway` (an instance with its
`pc` as `gate`), `Predict` one of `Validation`. Then the line may be full (`Overloaded`), Laya may
refuse after all (`Backstop`), anything may fail, in routing, counting, the forward pass or the
shaping of its result (`Fault`, a 500); or Laya answers, with what it is known to
add, and `Shape` is `to_jev_response` on that. How requests share lines is left to `Engine`, of
which `Service` has the outcomes. Values in answers are tagged with the question and the key they
belong to, so that a value in another place, or a legend of another level, shows.

### Server

One process from its environment to its probes. Checkpoints are placed on the device that was asked
for or, silently, on the cpu; a request may take one to the cpu for a while (`FallBack`) and give it
back, or fail to, or name one that is not resident, which occupies the event loop until it is built
(`BuildStarts`). A probe reads the devices one by one. `Router.load` and `status` are on the event
loop and exclude each other; forward passes are not and do not. The container is "starting",
"healthy" or "unhealthy": a success makes it healthy, `Retries` failures in a row unhealthy, and
until the first success those of the start period are forgiven. `blame` is what the strikes since
the last success were for: a timeout, a refused connection, a `status()` that raised, or one that
returned with nothing loaded. `ServingGetsHealthy` excuses a server that preloads less than
everything or whose `status()` keeps raising, and no other: one that has nothing loaded, and is sent
no request because it is not ready, is not excused. Time is not counted: the start period may be
over at any moment, and a build may outlast a probe's timeout.

### Release, ReleaseHistory

A tree is the whole content of a checkout, its version number included. A release is a sequence of
steps any of which may stop it. VERSION is read when a sub-make starts: `Start` reads it for
`release-check`, `Ask` for `docker-push`. `Push` builds the files *as they are then*
and sends the version's tag, `PushLatest` the other tag. `Edits` and `Outages` say whether a
checkout changes while it is released and whether `imagetools inspect` may fail for want of an
answer. Any step may fail (`Stop`); of what `make ci` looks at, the table of contents is modelled,
as `toc.py --check` on the README of the tree.

`ReleaseHistory` adds two variables that restrain nothing: the images published as a version ever,
and the releases that are `sure`: they were told that the version they are about to publish is free,
and nobody has published it since. With them one can say, for any number of people who edit and stop as they
like, what is left of "a published version is never overwritten", which is false: those who are sure
overwrite nothing (`OverwritesAreExplained`).

### Toc

A document is a sequence of lines: markers, headings with a level and a title, entries of a table,
text (`Line`). `Rewrite` is `re.sub` with its leftmost, shortest, disjoint matches. `Documents` is what a
README may be: any set of documents in the proofs, all of up to five lines in the runs.

### Parity, OnnxExport

`Parity` is the arithmetic of `verify_parity.py`: `Collate` pads the questions of a request to one
batch, `OnnxSystemOne` answers from what the export computes for it, `HardDiffs` compares with
`SystemOne`, which answers each question by itself, as Laya's promise goes. The decision model is the
constant `Logit`: an option's logit is any number that comes of the tokens attended to, in their places,
and of the option's marker (in the runs, of its token and how many tokens there are). A probability is
how far the scaled logit is below the best one's, which is all that a softmax keeps; what is computed
from the probabilities alone stands as the rounded probabilities.

An export is what could be found out about it: unreadable, right at the shape it was traced at
only, wrong, within the tolerance but rounding differently, the right answers with a logit outside
the tolerance, or good. Both scripts run in any order, over any `--only`, and may be killed at any
step. `Compare` runs the cases through `Parity`.

## The runs

| Run | Shows | Bounds |
|---|---|---|
| `EngineSafety` | types, counters, mutual exclusion, depth, residency; the engine implements the lines | 4 requests, 2 checkpoints (1 built on demand), depth 2, 2 threads; slots symmetric |
| `EngineLive` | requests and probes are answered and lines move, with forward passes that hang | 3 requests, 2 checkpoints, depth 2, 2 threads of which 1 may hang |
| `GatewayBodies` | usable bodies, and only those, are parsed whole; the cap; decoding ends; nothing without the key | bodies of up to 3 frames around a limit of 2 |
| `Service` | servable requests, and only those, are served, where they asked to be, and fail in no check; the first problem is named; 529, 200 and the catalog mean what they say | up to 3 questions; 4 options, 2 to 3 levels, 3 tokens; 2 checkpoints |
| `Server` | preloading, readiness, device summary, the container's health; startup ends, a server becomes healthy | 2 checkpoints, a blank and an unknown name, every subset of them; 2 strikes |
| `ReleaseHistory` | overwrites have one of three reasons; `latest` was published as a version | 2 releasers, 2 trees of 2 versions, edits, outages |
| `ReleaseTeam` | published means gated, with a table that is right; `make toc` mends | 2 releasers, 3 trees of 1 version, outages; documents of up to 5 lines |
| `OnnxExport` | exit code 0 vouches; the right exports pass; nothing is hidden; scripts end | 3 checkpoints; 4 requests of up to 3 questions |
| `GatewayKey`, `ServerFailure`, `ReleaseOutage`, `OnnxUnknown` | the disagreements below | as above |

Why these bounds are enough to meet the interesting cases. Four requests and depth 2 give one in the
forward pass, one waiting, and two at the depth check at once; a lock that has been released, a
waiter that has not woken and a newcomer; and a full line beside an empty one. Two checkpoints give
independence of lines, and eviction if the Router had less room. In `EngineLive` a hung pass leaves
one thread, for which routing, budget checks and the other checkpoint's passes queue; a request is
then answered, or stuck behind the hung pass itself, and nothing else. Slots are alike in actions
and fairness, so the property is checked for one of them (`OneRequestAnswered`), and the
theorem-sized statement is `EveryRequestAnswered`. Sizes up to limit + 1 in up to three frames put
the cap in the first, a middle and the last frame, exactly at a boundary and one past it. Three
questions put the first problem before, between and after sound ones; two checkpoints, with budgets
of their own, give a request that fits one and not the other, and a name that is not routed by
language. Two strikes separate one failed probe from an unhealthy container. Two
releasers and two versions are what it takes to overtake and to change the version after the check;
a second tree of one version is what a replaced image needs, one with a stale README what the check
needs. The view of `ReleaseHistory` leaves out what no action and no property of that run will read. Documents of five lines have room for the markers, an old
entry, and headings on both sides. The requests for the port have questions that are the shortest,
the longest, with the fewest and the most options of their batch, with 1, 2, 3, 5, 6, 10 and 11
options, which are the bounds of the buckets; temperatures are in range, below, above, and no
numbers. The slots, releases and scripts are reused for ever: none of the runs bounds the length of
a behaviour.

`CHECK_DEADLOCK FALSE` is said in `Service` and `Gateway*`, whose one request ends.

### Fairness

- `Engine`: strong fairness of each handler's stretches and of the probe's answer. asyncio runs its
  ready handles first in, first out, so a handle that is ready again and again, each time until
  somebody's build takes the loop, does run; weak fairness would not say so. Weak fairness of builds
  and of threads (downloads and forward passes end), except for forward passes on the checkpoints of
  `Stuck`, of which there are fewer than threads. Clients owe nothing: `Submit`, `Reject` and
  `ProbeArrives` have none.
- `CheckpointQueues`: weak fairness of serving each line whose checkpoint is not in `Stuck`.
- `Gateway`: weak fairness of the handler's own code, none for the arrival of the body.
- `Server`: weak fairness of startup (a download ends or fails), of probing (docker makes the
  HEALTHCHECK every 30 s, and `ready` never waits) and of the end of the start period. Requests and
  builds have none. `OnnxExport`: weak fairness of a
  script that was started. `Release` has none and no liveness property: a person may stop.

## The proofs

All are for any sets of requests, checkpoints, releasers, trees and for any limits, under the
named assumptions of the module (sets are finite where they are counted, numbers are numbers,
"nothing" is not something). Each module's `IInv` is inductive, was checked with TLC first, and
is proved action by action.

- **Engine** (`EngineProofs`). `ForwardPassExclusive` alone is not inductive: that the lock is
  free says nothing about the requests. `IInv` adds that the owner of a lock is past it, and
  whoever is past it owns it (`HolderRuns`), that those queued in a lock wait for it, once
  (`WaitersWait`, `WaitersDiffer`), that a counter is the length of its line
  (`PendingCountsLine`), and that routed requests have a checkpoint. Type correctness says that no
  counter goes below zero. `PendingCountsRequests` (the counter is the *number* of admitted
  requests) follows by cardinalities from `IInv`. Residency follows because `max_loaded` is the number of
  all checkpoints, so that there never is a victim. `FullPreloadNeverBuilds` is what the header of
  `engine.py` says of a server with everything preloaded.
- **Refinement** (`EngineImplementsQueues`). A line is the owner of the lock followed by the waiters.
  `Admit` joins the end, `InferReturns` removes the head, `AcquireLock` is a stutter, `TurnAway`
  needs a full line of that very checkpoint, which is where `PendingCountsLine` is used.
- **Gateway**. Below the cap there is always a positive maximum; a round adds at most that. What makes
  exactly the usable bodies pass is in `Behind`: past each check the size it is about is within the
  limit, and after n rounds n frames were whole and `out` is the sum of them (`TotalIsASum` unfolds
  that sum, `TotalGrows` says that a part of it is no more than all). From there `OnlyWholeBodiesPass`;
  and `NoUsableBodyIsRefused`, since a round that ends in an answer has met a frame that is not
  whole, or more than the limit, and neither is in a usable body.
- **Validation**. What is behind the index passed its rule, and the rules in order are the limits
  without one. This holds for any number of questions and any limits.
- **Service**. Its types are `ServiceTypes`. It implements `Validation` (`ServiceIsValidation`): every step of the composition is a
  step of the checks or leaves their variables alone. The invariants of `Validation` go through with
  that, and those of `Gateway` by citing `GatewayProofs` for the instance with `gate` as its `pc`
  (`BInv`). `SInv` adds that a caller without the key never passes the gate, that a result is Laya's
  answer to `given`, and what each status has behind it. From there a 529, a 200 and the catalog are
  lemmas about `Translate` and `Models`; and `EveryAnswerIsEarned` says of the whole way at once
  what the two modules say of their halves: key, usable body, legal request, questions that fit.
- **Server**. What is to be preloaded is resident or still to do; a checkpoint on the cpu for good
  since a probe began is still to be read, or has been read on the cpu; what is being built was not
  preloaded, so that a probe times out only on a server that preloads less than everything.
- **Release**. `GatesHold`, for any number of releasers and any failures, if no checkout is edited
  while it is released: what each step has behind it (`Behind`). `OverwritesHaveAReason` and
  `LatestIsAPublishedImage` have no such hypothesis: for any number of people, edits and outages. The
  strengthening is `HInv`: the version of a release that is sure is still free
  (`StillUnpublished`), as a push takes the certainty of all others of that version away, and a
  release that goes on under another version has none; and the image between the two tags of a push
  has been published (`LatestIsNext`).
- **Toc, Release**. `Rewrite` joins one piece per line; on a document with its markers once and in order
  all pieces between them are empty but the first, so that it is the beginning, the table and the
  rest (`RewriteSplices`), and the headings are those of the rest, which stays as it is. So a second
  rewrite finds what the first left, and the table has the headings in their order
  (`HeadingsInOrder`, by induction over the lines). `TocIsMended` says that; conversely a document
  that a rewrite leaves alone lists its headings (`CheckedListsItsHeadings`), whence
  `PublishedReadmesAreRight` by `Behind`: `make ci` has passed on the tree that is published.
- **OnnxExport**. What is behind the loop has a result, and a result that is a pass is right about
  the file as it is now, as no later step of the run writes it again. `ParityIsFaithful` adds, for
  any cases and temperatures, that an answer whose hard differences are none is the same once
  `translate.py` has dropped what Jev does not define. `GoodExportsAreNotFailed` goes the other way: a
  row of the batch has a question's tokens where they were and those are what is attended to
  (`RowOfABatch`, from `LongestBounds`), so that whatever the decision model makes of them, its own
  options have the logits Laya has for it alone (`LogitsOfOwnOptions`), or all of them shifted alike,
  of which a softmax takes no notice (`ShiftedSoftmax`); buckets and clamping agree (`SameBucket`,
  `SameClamp`), and what differs then is `action`, which the comparison leaves out.

Induction over data is by the least counterexample (`InductionUpTo`): what fails for some number
fails for a least one. It is stated of sets and not of predicates, which the provers cannot
instantiate; `Recursion` builds a recursive function in the same way.

Only model-checked: the liveness, which is `OneRequestAnswered`, `ProbeAnswered`, `DecodingEnds`,
`StartupEnds`, `ServingGetsHealthy`, `ScriptsEnd` and the refinement of `CheckpointQueues!FairSpec`
(fairness and ENABLED are out of the provers' reach), and what the runs that find a violation show.
`AskIsPositive`, `AnswersAreEarned`, `NoRequestBuilds` and the types of `Validation` and of `Release`
are proved and in no run by themselves. `GatesHold` and `PublishedReadmesAreRight` have a hypothesis
that the code does not enforce, and say so: `~Edits`, no checkout changes under a release. Without it
they are false, as the section below tells.

## Where the code and its documents disagree

Shown by runs that find the violation:

- `GatewayKey`: "a missing or wrong key gets Jev's 401" (README.md:196). A wrong key with a
  character outside ASCII makes `compare_digest` raise: a 500 (app.py:72).
- `ServerFailure`: "The `503` path applies ..., for example if the engine failed to initialise"
  (README.md:184). Then the process exits and connections are refused (app.py:92-98).
- `ReleaseOutage`: "A published version is never overwritten" (README.md:285). An inspection that
  fails for any reason counts as "not published" (Makefile:160).
- `OnnxUnknown`: `--only` is "check just this checkpoint" (verify_parity.py:286). A name it does
  not know compares nothing, prints PASS and exits 0.

Met while modelling, and visible in the models:

- engine.py:8-9 and app.py:94-95 say that no request pays for a build; with
  `LAYA_SERVER_PRELOAD=english` (README.md:62-63) a request does, on the event loop (`RouteReturns`).
- tests/test_engine.py:231-233 wants none of Laya's input errors to reach a client as a 500. The
  backstop covers the forward pass; from routing or the budget check they do (`RouteFails`,
  `BudgetFails`).
- README.md:280 says that nothing is published unless every gate passes; `docker-push` builds anew
  what the checkout holds by then. With `Edits = TRUE` `PublishedPassedEveryGate` is false. Two
  releasers of one version overwrite each other: both pass the gate before either has pushed. And
  `docker-push` reads VERSION anew: it may name another one than the version that was checked.
- After a push that failed between its two tags `release-check` refuses to repair `latest`.
- app.py:44 says that validation tokenizes on the event loop; engine.py:165 offloads it.
- `compare` of verify_parity.py is called exact, and leaves out `action` and most of the usage.
  `ParityPassIsFaithful` says why that does no harm: translate.py drops them. Nor would it see a key
  that only the export's answer has; the port writes none that Laya does not.
- Dockerfile:66-67 says that a busy container still answers. Busy with a forward pass it does; with
  `LAYA_SERVER_PRELOAD` naming some checkpoints only, a request for another builds on the event
  loop, and a build that outlasts three probes makes the container unhealthy. `BusyStaysHealthy` is
  false without its premise `Full`.
- `toc.py --check` passes on any README whose markers are the wrong way round, as nothing matches
  between them; `MakeTocMends` and `PublishedListsItsHeadings` are about `Proper` ones. A backslash
  in a heading is taken for an escape by `re.sub`, and two headings of one title get one anchor;
  titles are opaque in `Toc`.
- `/ready` says that a request can be served; with `LAYA_SERVER_MAX_QUEUE=0` none can.

## Not modelled

`/health`'s constant body, logging, the wording of errors, settings that are only handed on, the
build steps of the Dockerfile, make targets of one command. Tensors and text are what the code finds
out about them: tolerances, the entropy behind a confidence, tokenizing and language detection are
outcomes. What Starlette buffers while a body arrives is not ours. Cancellation: the server does not
cancel a handler when its client goes away, and at shutdown uvicorn waits for handlers or the process
ends with them, so that no state is left to be wrong. Conditions on time (intervals, timeouts) are
nondeterministic choices.

## Plan

Done: the engine and its lines; the gateway; validation; startup and probes; the release; the
scripts; the composition of a request from end to end with translation and catalog; the HEALTHCHECK;
the port's answers and their comparison; the table of contents; proofs of every invariant and action
property of the runs.

Left:

1. That `Validation` implements its order-free reading, as an abstract specification of one step.
2. `Service` over `Engine`'s lines, with several requests, if an abstraction of `Validation` to its
   verdict keeps the instance small.
3. What a release with edits publishes that passed no gate: a history of which files each gate has
   seen, to say what is left of `GatesHold`.
