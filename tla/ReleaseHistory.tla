--------------------------- MODULE ReleaseHistory ---------------------------
(***************************************************************************)
(* Release with a history: what has been published, and which releases may *)
(* still rely on what release-check saw in the registry.  The history      *)
(* restrains nothing: a step of Release is a step here.                    *)
(***************************************************************************)
EXTENDS Release

VARIABLES
    ever,  \* <<v, t>>: t has been published as version v
    sure   \* the releases that were told that the version they are about to
           \* publish is free, and that nobody has published it since

historyVars == <<vars, ever, sure>>

HistoryInit ==
    /\ Init
    /\ ever = {}
    /\ sure = {}

WorkOn(r) ==
    /\ Edit(r) \/ Merge(r) \/ Pull(r)
    /\ UNCHANGED <<ever, sure>>

Inspect(r) ==
    /\ \/ CheckRegistry(r) /\ sure' = sure \cup {r}
       \/ CheckUnanswered(r) /\ sure' = sure \ {r}
    /\ UNCHANGED ever

\* A release that was stopped has nothing to rely on.
GiveUp(r) ==
    /\ Stop(r)
    /\ sure' = sure \ {r}
    /\ UNCHANGED ever

\* The version about to be published may be another by now than the checked one.
Name(r) ==
    /\ Ask(r)
    /\ sure' = IF version'[r] = version[r] THEN sure ELSE sure \ {r}
    /\ UNCHANGED ever

Publish(r) ==
    /\ Push(r)
    /\ ever' = ever \cup {<<v, registry'[v]>> : v \in {w \in Versions : registry'[w] # None}}
    /\ sure' = {s \in sure : version[s] # version[r]}

GoOn(r) ==
    /\ \/ Start(r) \/ CheckGit(r)
       \/ Test(r, "ci", "slow") \/ Test(r, "slow", "build")
       \/ Build(r) \/ Smoke(r) \/ PushLatest(r) \/ Verify(r)
    /\ UNCHANGED <<ever, sure>>

HistoryNext ==
    \E r \in Releasers : WorkOn(r) \/ Inspect(r) \/ GiveUp(r) \/ Name(r) \/ Publish(r) \/ GoOn(r)

HistorySpec == HistoryInit /\ [][HistoryNext]_historyVars

-----------------------------------------------------------------------------
(* Properties                                                              *)

\* A push under a version that is taken is never one of a release that was told
\* that the version is free, has had that version in its pyproject.toml at the
\* check and at the push, and was not overtaken by another release of it.  However
\* many people release, edit and stop, a version is overwritten in these three
\* ways only: an inspection that failed, a version changed after the check, and
\* two releases of one version at a time (release-check, docker-push).
OverwritesAreExplained ==
    [][\A r \in Releasers : Push(r) /\ registry[version[r]] # None => r \notin sure]_historyVars

\* latest is never ahead of what is published, nor other than it: it is an image
\* that was published under a version first, wherever a push stops and whoever
\* pushes at the same time (docker-push).
LatestWasPublished == latest # None => \E v \in Versions : <<v, latest>> \in ever

\* What the check saw is still so, for a release that relies on it.
StillUnpublished ==
    \A r \in sure :
        /\ step[r] \in {"ci", "slow", "build", "smoke", "ask", "push"}
        /\ registry[version[r]] = None

\* The image about to become latest has been published.
LatestIsNext ==
    \A r \in Releasers : step[r] = "push latest" => \E v \in Versions : <<v, image[r]>> \in ever

=============================================================================
