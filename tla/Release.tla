------------------------------ MODULE Release ------------------------------
(***************************************************************************)
(* `make release` of the Makefile, step by step: the gate on the checkout  *)
(* and the registry, the test suites, the local image and its smoke test,  *)
(* the published image and its check.  A step takes minutes; between two   *)
(* of them others release too, master moves, the registry goes away, and   *)
(* the files in the checkout may be edited.                                *)
(*                                                                         *)
(* A tree is the content of a checkout, version in pyproject.toml included *)
(* (VERSION is read again by every sub-make).                              *)
(***************************************************************************)
EXTENDS Toc

CONSTANTS
    Releasers,  \* people who run make release, each in a checkout of their own
    Trees,      \* contents a checkout may have
    Versions,   \* version numbers
    VersionOf,  \* VersionOf[t]: the version t's pyproject.toml names
    Documents,  \* what README.md may be
    ReadmeOf,   \* ReadmeOf[t]: t's README.md
    Edits,      \* may a checkout change while it is being released?
    Outages,    \* may the registry fail to answer?
    None        \* no image

ASSUME EveryTreeHasAVersion == VersionOf \in [Trees -> Versions]
ASSUME EveryTreeHasAReadme  == Documents \subseteq Seq(Line) /\ ReadmeOf \in [Trees -> Documents]
ASSUME SwitchesAreBoolean   == Edits \in BOOLEAN /\ Outages \in BOOLEAN
ASSUME NoneIsNoTree         == None \notin Trees

VARIABLES
    work,      \* work[r]: the files of r's checkout
    head,      \* head[r]: r's HEAD, on master
    origin,    \* origin/master
    step,      \* step[r]: the next step of r's release
    version,   \* version[r]: VERSION, as r's sub-make that checks or publishes read it
    image,     \* image[r]: the image r built last
    registry,  \* registry[v]: the image published as version v
    latest,    \* the image published as latest
    passed,    \* <<gate, tree>>: what has passed which gate, ever
    merged     \* what origin/master has ever been

vars == <<work, head, origin, step, version, image, registry, latest, passed, merged>>
checkout == <<work, head, origin, merged>>
published == <<registry, latest>>

Gates == {"ci", "slow", "smoke"}
Steps == {"idle", "git", "registry", "ci", "slow", "build", "smoke", "ask",
          "push", "push latest", "verify"}

TypeOK ==
    /\ work \in [Releasers -> Trees]
    /\ head \in [Releasers -> Trees]
    /\ origin \in Trees
    /\ step \in [Releasers -> Steps]
    /\ version \in [Releasers -> Versions]
    /\ image \in [Releasers -> Trees \cup {None}]
    /\ registry \in [Versions -> Trees \cup {None}]
    /\ latest \in Trees \cup {None}
    /\ passed \subseteq Gates \X Trees
    /\ merged \subseteq Trees

Init ==
    /\ origin \in Trees
    /\ work = [r \in Releasers |-> origin]
    /\ head = [r \in Releasers |-> origin]
    /\ step = [r \in Releasers |-> "idle"]
    /\ version = [r \in Releasers |-> VersionOf[origin]]
    /\ image = [r \in Releasers |-> None]
    /\ registry = [v \in Versions |-> None]
    /\ latest = None
    /\ passed = {}
    /\ merged = {origin}

Go(r, s) == step' = [step EXCEPT ![r] = s]

-----------------------------------------------------------------------------
(* Work on the code                                                        *)

MayChange(r) == Edits \/ step[r] = "idle"

Edit(r) ==
    /\ MayChange(r)
    /\ \E t \in Trees : work' = [work EXCEPT ![r] = t]
    /\ UNCHANGED <<head, origin, step, version, image, registry, latest, passed, merged>>

\* Commit what is there and push it.
Merge(r) ==
    /\ MayChange(r)
    /\ head' = [head EXCEPT ![r] = work[r]]
    /\ origin' = work[r]
    /\ merged' = merged \cup {work[r]}
    /\ UNCHANGED <<work, step, version, image, registry, latest, passed>>

Pull(r) ==
    /\ MayChange(r)
    /\ work' = [work EXCEPT ![r] = origin]
    /\ head' = [head EXCEPT ![r] = origin]
    /\ UNCHANGED <<origin, step, version, image, registry, latest, passed, merged>>

-----------------------------------------------------------------------------
(* make release: a step runs only if the one before it passed              *)

\* make release-check reads VERSION.
Start(r) ==
    /\ step[r] = "idle"
    /\ version' = [version EXCEPT ![r] = VersionOf[work[r]]]
    /\ Go(r, "git")
    /\ UNCHANGED <<checkout, image, published, passed>>

\* Any step may fail, on grounds of its own: no CHANGELOG section, a tag
\* elsewhere, a failing test, a build that breaks, a smoke test that times
\* out, "N" at the prompt, a push or an inspection that does not go through.
Stop(r) ==
    /\ step[r] # "idle"
    /\ Go(r, "idle")
    /\ UNCHANGED <<checkout, version, image, published, passed>>

\* The git part of release-check: clean, on master, level with origin.
Fit(r) == work[r] = head[r] /\ head[r] = origin

CheckGit(r) ==
    /\ step[r] = "git"
    /\ Fit(r)
    /\ Go(r, "registry")
    /\ UNCHANGED <<checkout, version, image, published, passed>>

\* A slip: the gate asks whether this very image is published.
UnpublishedImage(r) == registry[version[r]] # work[r]
\* release-check: `imagetools inspect` finds no such version ...
Unpublished(r) == registry[version[r]] = None

CheckRegistry(r) ==
    /\ step[r] = "registry"
    /\ Unpublished(r)
    /\ Go(r, "ci")
    /\ UNCHANGED <<checkout, version, image, published, passed>>

\* ... or fails for another reason, which is taken for the same.
CheckUnanswered(r) ==
    /\ step[r] = "registry"
    /\ Outages
    /\ Go(r, "ci")
    /\ UNCHANGED <<checkout, version, image, published, passed>>

\* make ci, then make test-slow, on the files as they are; of what may fail
\* only the check of the README is looked into.
Test(r, suite, next) ==
    /\ step[r] = suite
    /\ suite = "ci" => Check(ReadmeOf[work[r]])
    /\ passed' = passed \cup {<<suite, work[r]>>}
    /\ Go(r, next)
    /\ UNCHANGED <<checkout, version, image, published>>

\* docker-build
Build(r) ==
    /\ step[r] = "build"
    /\ image' = [image EXCEPT ![r] = work[r]]
    /\ Go(r, "smoke")
    /\ UNCHANGED <<checkout, version, published, passed>>

\* A slip: the recipe goes on when the image did not answer.
SmokeIgnored(r) ==
    /\ step[r] = "smoke"
    /\ Go(r, "ask")
    /\ UNCHANGED <<checkout, version, image, published, passed>>
\* docker-smoke: the local image becomes ready and answers a request.
Smoke(r) ==
    /\ step[r] = "smoke"
    /\ passed' = passed \cup {<<"smoke", image[r]>>}
    /\ Go(r, "ask")
    /\ UNCHANGED <<checkout, version, image, published>>

\* docker-push reads VERSION, shows it and waits for an answer, ...
Ask(r) ==
    /\ step[r] = "ask"
    /\ version' = [version EXCEPT ![r] = VersionOf[work[r]]]
    /\ Go(r, "push")
    /\ UNCHANGED <<checkout, image, published, passed>>

\* A slip: the version's tag is left out.
PushUntagged(r) ==
    /\ step[r] = "push"
    /\ image' = [image EXCEPT ![r] = work[r]]
    /\ Go(r, "push latest")
    /\ UNCHANGED <<checkout, version, published, passed>>
\* ... builds the files as they are then, and pushes the version's tag ...
Push(r) ==
    /\ step[r] = "push"
    /\ image' = [image EXCEPT ![r] = work[r]]
    /\ registry' = [registry EXCEPT ![version[r]] = work[r]]
    /\ Go(r, "push latest")
    /\ UNCHANGED <<checkout, version, latest, passed>>

\* ... and then latest's.
PushLatest(r) ==
    /\ step[r] = "push latest"
    /\ latest' = image[r]
    /\ Go(r, "verify")
    /\ UNCHANGED <<checkout, version, image, registry, passed>>

\* docker-verify: the version is there, for every platform.
Verify(r) ==
    /\ step[r] = "verify"
    /\ registry[VersionOf[work[r]]] # None
    /\ Go(r, "idle")
    /\ UNCHANGED <<checkout, version, image, published, passed>>

Release(r) ==
    \/ Start(r) \/ Stop(r)
    \/ CheckGit(r) \/ CheckRegistry(r) \/ CheckUnanswered(r)
    \/ Test(r, "ci", "slow") \/ Test(r, "slow", "build")
    \/ Build(r) \/ Smoke(r)
    \/ Ask(r) \/ Push(r) \/ PushLatest(r) \/ Verify(r)

Next == \E r \in Releasers : Edit(r) \/ Merge(r) \/ Pull(r) \/ Release(r)

Spec == Init /\ [][Next]_vars

-----------------------------------------------------------------------------
(* Properties                                                              *)

\* "A published version is never overwritten" (README.md, release-check).
NeverOverwritten ==
    [][\A v \in Versions : registry[v] # None => registry'[v] = registry[v]]_vars

\* "Nothing is published unless all of these pass": every published image is of
\* a tree that was on origin/master, passed both suites, and served a request
\* from a local image (README.md, release).
PublishedPassedEveryGate ==
    \A v \in Versions : registry[v] # None =>
        /\ registry[v] \in merged
        /\ \A gate \in Gates : <<gate, registry[v]>> \in passed

\* Whoever reads the README of a published image finds every heading in its
\* table of contents: "a heading change fails the build" (toc.py, tests.yml).
PublishedListsItsHeadings ==
    \A v \in Versions : registry[v] # None /\ Proper(ReadmeOf[registry[v]]) =>
        ListsItsHeadings(ReadmeOf[registry[v]])

MendedByMakeToc == \A doc \in Documents : Proper(doc) => Mended(doc)
\* A release that fails in CI for its table of contents alone can be mended with
\* `make toc`: whatever the README, if its markers are in place, the check passes
\* and the table is right then, and nothing but the table is changed (toc.py).
MakeTocMends == \A r \in Releasers : step[r] = "ci" => MendedByMakeToc

\* What a release that has come this far has behind it.
Gated    == {"slow", "build", "smoke", "ask", "push"}
Behind(r) ==
    /\ step[r] \in Gated \cup {"registry", "ci"} => work[r] \in merged
    /\ step[r] \in Gated => <<"ci", work[r]>> \in passed
    /\ step[r] \in Gated \ {"slow"} => <<"slow", work[r]>> \in passed
    /\ step[r] \in {"smoke", "ask", "push"} => image[r] = work[r]
    /\ step[r] \in {"ask", "push"} => <<"smoke", work[r]>> \in passed

\* An invariant of every step as long as nobody edits what is being released.
IInv ==
    /\ TypeOK
    /\ origin \in merged
    /\ \A r \in Releasers : Behind(r)
    /\ PublishedPassedEveryGate

\* CI has passed on no README with a table that is out of date: an invariant.
CheckedInCI == \A t \in Trees : <<"ci", t>> \in passed => Check(ReadmeOf[t])

=============================================================================
