--------------------------- MODULE ReleaseProofs ---------------------------
(***************************************************************************)
(* Proofs about Release and its history, for any number of releasers,      *)
(* trees and versions, and about Toc, for documents of any length.         *)
(***************************************************************************)
EXTENDS ReleaseHistory, Induction, SequenceTheorems

-----------------------------------------------------------------------------
(* Types                                                                   *)

\* The variables have their types, and what is about to be smoke-tested is there.
Types == TypeOK /\ \A r \in Releasers : step[r] = "smoke" => image[r] # None

\* The types hold at the start.
LEMMA InitTypes == Init => Types
BY EveryTreeHasAVersion, NoneIsNoTree DEF Init, Types, TypeOK, Steps, Gates

\* Every step keeps the types, whoever edits and whether the registry answers.
LEMMA NextTypes == Types /\ [Next]_vars => Types'
<1> SUFFICES ASSUME Types, [Next]_vars PROVE Types'
    OBVIOUS
<1>0. TypeOK
    BY DEF Types
<1>1. CASE UNCHANGED vars
    BY <1>1 DEF vars, Types, TypeOK
<1>2. ASSUME NEW r \in Releasers, Edit(r) \/ Merge(r) \/ Pull(r)
      PROVE  Types'
    BY <1>2 DEF Types, TypeOK, Edit, Merge, Pull
<1>3. ASSUME NEW r \in Releasers,
             \/ Stop(r) \/ CheckGit(r) \/ CheckRegistry(r) \/ CheckUnanswered(r) \/ Verify(r)
      PROVE  Types'
    <2>1. UNCHANGED <<checkout, version, image, published, passed>>
        BY <1>3 DEF Stop, CheckGit, CheckRegistry, CheckUnanswered, Verify
    <2>2. PICK s \in Steps \ {"smoke"} : Go(r, s)
        BY <1>3 DEF Stop, CheckGit, CheckRegistry, CheckUnanswered, Verify, Steps
    <2> QED
        BY <2>1, <2>2 DEF Types, TypeOK, Go, checkout, published
<1>4. ASSUME NEW r \in Releasers, Start(r) \/ Ask(r)
      PROVE  Types'
    BY <1>4, EveryTreeHasAVersion DEF Types, TypeOK, Start, Ask, Go, Steps, checkout, published
<1>5. ASSUME NEW r \in Releasers, Test(r, "ci", "slow") \/ Test(r, "slow", "build") \/ Smoke(r)
      PROVE  Types'
    <2>1. work[r] \in Trees /\ (step[r] = "smoke" => image[r] \in Trees)
        BY DEF Types, TypeOK
    <2>2. passed' \subseteq Gates \X Trees
        <3>1. \A gate \in Gates, t \in Trees : <<gate, t>> \in Gates \X Trees
            OBVIOUS
        <3>2. {"ci", "slow", "smoke"} \subseteq Gates
            BY DEF Gates
        <3> QED
            BY <1>0, <1>5, <2>1, <3>1, <3>2 DEF TypeOK, Test, Smoke
    <2>3. UNCHANGED <<checkout, version, image, published>>
        BY <1>5 DEF Test, Smoke
    <2>4. PICK s \in Steps \ {"smoke"} : Go(r, s)
        BY <1>5 DEF Test, Smoke, Steps
    <2> QED
        BY <2>2, <2>3, <2>4 DEF Types, TypeOK, Go, checkout, published
<1>6. ASSUME NEW r \in Releasers, Build(r) \/ Push(r) \/ PushLatest(r)
      PROVE  Types'
    <2>1. UNCHANGED <<checkout, version, passed>>
        BY <1>6 DEF Build, Push, PushLatest
    <2>2. /\ image' \in [Releasers -> Trees \cup {None}]
          /\ registry' \in [Versions -> Trees \cup {None}]
          /\ latest' \in Trees \cup {None}
        BY <1>0, <1>6 DEF TypeOK, Build, Push, PushLatest, published
    <2>3. step' \in [Releasers -> Steps]
        BY <1>0, <1>6 DEF TypeOK, Build, Push, PushLatest, Go, Steps
    <2>4. ASSUME NEW s \in Releasers, step'[s] = "smoke" PROVE image'[s] # None
        <3>1. CASE s = r
            <4>1. Build(r)
                BY <1>0, <1>6, <2>4, <3>1 DEF TypeOK, Push, PushLatest, Go
            <4>2. image'[r] = work[r] /\ work[r] \in Trees
                BY <1>0, <4>1 DEF TypeOK, Build
            <4> QED
                BY <3>1, <4>2, NoneIsNoTree
        <3>2. CASE s # r
            BY <1>0, <1>6, <2>4, <3>2 DEF Types, TypeOK, Build, Push, PushLatest, Go
        <3> QED
            BY <3>1, <3>2
    <2> QED
        BY <1>0, <2>1, <2>2, <2>3, <2>4 DEF Types, TypeOK, checkout
<1> QED
    BY <1>1, <1>2, <1>3, <1>4, <1>5, <1>6 DEF Next, Release

\* The variables have their types.
THEOREM TypeCorrect == Spec => []TypeOK
<1>1. Types => TypeOK
    BY DEF Types
<1> QED
    BY <1>1, InitTypes, NextTypes, PTL DEF Spec

-----------------------------------------------------------------------------
(* The gates                                                               *)

\* The invariant holds before anything is released.
LEMMA InitInv == Init => IInv
<1> SUFFICES ASSUME Init PROVE IInv
    OBVIOUS
<1>1. TypeOK
    BY EveryTreeHasAVersion DEF Init, TypeOK, Steps, Gates
<1> QED
    BY <1>1, NoneIsNoTree
    DEF Init, IInv, Behind, Gated, Steps, PublishedPassedEveryGate

\* Work on the code disturbs no release, unless it is on the files of one.
LEMMA WorkInv ==
    ASSUME ~Edits, NEW r \in Releasers, IInv, Edit(r) \/ Merge(r) \/ Pull(r)
    PROVE  IInv'
<1>0. TypeOK /\ step[r] = "idle"
    BY DEF IInv, Edit, Merge, Pull, MayChange
<1>1. TypeOK'
    BY <1>0 DEF TypeOK, Edit, Merge, Pull
<1>2. /\ UNCHANGED <<step, image, registry, passed>>
      /\ merged \subseteq merged'
      /\ origin' \in merged'
      /\ \A s \in Releasers : s # r => work'[s] = work[s]
    BY <1>0 DEF IInv, TypeOK, Edit, Merge, Pull
<1>3. ASSUME NEW s \in Releasers PROVE Behind(s)'
    <2>1. CASE s = r
        BY <1>0, <1>2, <2>1 DEF Behind, Gated
    <2>2. CASE s # r
        BY <1>2, <2>2 DEF IInv, Behind
    <2> QED
        BY <2>1, <2>2
<1>4. PublishedPassedEveryGate'
    BY <1>2 DEF IInv, PublishedPassedEveryGate
<1> QED
    BY <1>1, <1>2, <1>3, <1>4 DEF IInv

\* A step of one release leaves the others where they are.
LEMMA OthersStayBehind ==
    ASSUME IInv, NEW r \in Releasers, NEW s \in Releasers, s # r,
           UNCHANGED checkout, passed \subseteq passed',
           step'[s] = step[s], image'[s] = image[s]
    PROVE  Behind(s)'
BY DEF IInv, Behind, checkout

\* What is about to be smoke-tested is what was built.
LEMMA InvTypes == IInv => Types
BY NoneIsNoTree DEF IInv, Types, TypeOK, Behind, Gated

\* Every step of a release that publishes nothing keeps the invariant.
LEMMA GateInv ==
    ASSUME NEW r \in Releasers, IInv,
           \/ Start(r) \/ Stop(r) \/ CheckGit(r) \/ CheckRegistry(r) \/ CheckUnanswered(r)
           \/ Test(r, "ci", "slow") \/ Test(r, "slow", "build")
           \/ Build(r) \/ Smoke(r) \/ Ask(r) \/ PushLatest(r) \/ Verify(r)
    PROVE  IInv'
<1>0. TypeOK /\ Behind(r)
    BY DEF IInv
<1>1. TypeOK'
    BY InvTypes, NextTypes DEF Next, Release, Types
<1>2. /\ UNCHANGED checkout
      /\ UNCHANGED registry
      /\ passed \subseteq passed'
      /\ \A s \in Releasers : s # r => step'[s] = step[s] /\ image'[s] = image[s]
    BY <1>0
    DEF TypeOK, Start, Stop, CheckGit, CheckRegistry, CheckUnanswered, Test, Build, Smoke, Ask,
        PushLatest, Verify, Go, published
<1>3. Behind(r)'
    <2>1. CASE Start(r) \/ Stop(r) \/ PushLatest(r) \/ Verify(r)
        BY <1>0, <2>1 DEF TypeOK, Start, Stop, PushLatest, Verify, Go, Behind, Gated
    <2>2. CASE CheckGit(r) \/ CheckRegistry(r) \/ CheckUnanswered(r)
        BY <1>0, <2>2
        DEF IInv, TypeOK, CheckGit, CheckRegistry, CheckUnanswered, Fit, Go, Behind, Gated, checkout
    <2>3. CASE Test(r, "ci", "slow") \/ Test(r, "slow", "build")
        BY <1>0, <2>3 DEF TypeOK, Test, Go, Behind, Gated, checkout
    <2>4. CASE Build(r) \/ Smoke(r) \/ Ask(r)
        BY <1>0, <2>4 DEF TypeOK, Build, Smoke, Ask, Go, Behind, Gated, checkout
    <2> QED
        BY <2>1, <2>2, <2>3, <2>4
<1>4. \A s \in Releasers : Behind(s)'
    BY <1>2, <1>3, OthersStayBehind
<1>5. PublishedPassedEveryGate' /\ origin' \in merged'
    BY <1>2 DEF IInv, PublishedPassedEveryGate, checkout
<1> QED
    BY <1>1, <1>4, <1>5 DEF IInv

\* What is pushed has passed every gate.
LEMMA PushInv ==
    ASSUME NEW r \in Releasers, IInv, Push(r)
    PROVE  IInv'
<1>0. TypeOK /\ Behind(r) /\ step[r] = "push"
    BY DEF IInv, Push
<1>1. TypeOK'
    BY <1>0 DEF TypeOK, Push, Go, Steps, checkout
<1>2. Behind(r)'
    BY <1>0 DEF TypeOK, Push, Go, Behind, Gated
<1>3. \A s \in Releasers : Behind(s)'
    <2>1. ASSUME NEW s \in Releasers, s # r
          PROVE  step'[s] = step[s] /\ image'[s] = image[s]
        BY <1>0, <2>1 DEF TypeOK, Push, Go
    <2>2. UNCHANGED checkout /\ passed \subseteq passed'
        BY DEF Push
    <2> QED
        BY <1>2, <2>1, <2>2, OthersStayBehind
<1>4. PublishedPassedEveryGate'
    <2>1. work[r] \in merged /\ \A gate \in Gates : <<gate, work[r]>> \in passed
        BY <1>0 DEF Behind, Gated, Gates
    <2>2. \A v \in Versions : registry'[v] = registry[v] \/ registry'[v] = work[r]
        BY <1>0 DEF TypeOK, Push
    <2> QED
        <3>1. UNCHANGED <<merged, passed>>
            BY DEF Push, checkout
        <3>2. ASSUME NEW v \in Versions, registry'[v] # None
              PROVE  /\ registry'[v] \in merged
                     /\ \A gate \in Gates : <<gate, registry'[v]>> \in passed
            BY <2>1, <2>2, <3>2 DEF IInv, PublishedPassedEveryGate
        <3> QED
            BY <3>1, <3>2 DEF PublishedPassedEveryGate
<1> QED
    BY <1>1, <1>3, <1>4 DEF IInv, Push, checkout

\* Every step keeps the invariant while nobody edits what is being released.
LEMMA NextInv ==
    ASSUME ~Edits
    PROVE  IInv /\ [Next]_vars => IInv'
<1> SUFFICES ASSUME IInv, [Next]_vars PROVE IInv'
    OBVIOUS
<1>1. CASE UNCHANGED vars
    BY <1>1 DEF vars, IInv, TypeOK, Behind, PublishedPassedEveryGate
<1> QED
    BY <1>1, WorkInv, GateInv, PushInv DEF Next, Release

\* The invariant holds in every reachable state.
THEOREM Invariance ==
    ASSUME ~Edits
    PROVE  Spec => []IInv
BY InitInv, NextInv, PTL DEF Spec

\* Whoever releases, and however the registry fails, nothing is published that
\* has not passed every gate, as long as nobody edits what is being released.
THEOREM GatesHold ==
    ASSUME ~Edits
    PROVE  Spec => []PublishedPassedEveryGate
<1>1. IInv => PublishedPassedEveryGate
    BY DEF IInv
<1> QED
    BY <1>1, Invariance, PTL

-----------------------------------------------------------------------------
(* What is published                                                       *)

HInv ==
    /\ sure \subseteq Releasers
    /\ StillUnpublished
    /\ LatestIsNext
    /\ LatestWasPublished

\* Only a push changes what is published, and only for the version it names.
LEMMA PublishedByPush ==
    ASSUME Types, NEW r \in Releasers, Publish(r)
    PROVE  /\ step[r] = "push" /\ step'[r] = "push latest"
           /\ \A s \in Releasers : s # r => step'[s] = step[s] /\ image'[s] = image[s]
           /\ image'[r] = work[r]
           /\ \A v \in Versions : v # version[r] => registry'[v] = registry[v]
           /\ UNCHANGED <<version, latest>>
           /\ ever \subseteq ever' /\ <<version[r], work[r]>> \in ever'
           /\ version[r] \in Versions
<1>1. TypeOK /\ Push(r)
    BY DEF Types, Publish
<1>2. version[r] \in Versions /\ registry'[version[r]] = work[r] /\ work[r] # None
    BY <1>1, NoneIsNoTree DEF TypeOK, Push
<1>3. ever \subseteq ever' /\ <<version[r], work[r]>> \in ever'
    BY <1>2 DEF Publish
<1> QED
    BY <1>1, <1>2, <1>3 DEF TypeOK, Push, Go

\* Every step keeps HInv.
LEMMA NextHInv == Types /\ HInv /\ [HistoryNext]_historyVars => HInv'
<1> SUFFICES ASSUME Types, HInv, [HistoryNext]_historyVars PROVE HInv'
    OBVIOUS
<1>0. TypeOK
    BY DEF Types
<1>1. CASE UNCHANGED historyVars
    BY <1>1 DEF historyVars, vars, HInv, StillUnpublished, LatestIsNext, LatestWasPublished
<1>2. ASSUME NEW r \in Releasers, WorkOn(r)
      PROVE  HInv'
    BY <1>2
    DEF WorkOn, Edit, Merge, Pull, HInv, StillUnpublished, LatestIsNext, LatestWasPublished
\* Steps that leave the registry and latest alone
<1>3. ASSUME NEW r \in Releasers, Inspect(r) \/ GiveUp(r) \/ Name(r)
      PROVE  HInv'
    <2>1. /\ UNCHANGED <<published, image, ever>>
          /\ step'[r] # "push latest"
          /\ \A s \in Releasers : s # r => step'[s] = step[s] /\ version'[s] = version[s]
          /\ sure' \subseteq sure \cup {r}
        BY <1>0, <1>3
        DEF TypeOK, Inspect, GiveUp, Name, CheckRegistry, CheckUnanswered, Stop, Ask, Go
    <2>2. sure' \subseteq Releasers
        BY <2>1 DEF HInv
    <2>3. LatestIsNext' /\ LatestWasPublished'
        BY <2>1 DEF HInv, LatestIsNext, LatestWasPublished, published
    <2>4. ASSUME r \in sure'
          PROVE  /\ step'[r] \in {"ci", "slow", "build", "smoke", "ask", "push"}
                 /\ registry[version'[r]] = None
        <3>1. CASE Inspect(r)
            BY <1>0, <2>4, <3>1
            DEF TypeOK, Inspect, CheckRegistry, CheckUnanswered, Unpublished, Go
        <3>2. CASE GiveUp(r)
            BY <2>4, <3>2 DEF GiveUp
        <3>3. CASE Name(r)
            BY <1>0, <2>4, <3>3 DEF TypeOK, Name, Ask, Go, HInv, StillUnpublished
        <3> QED
            BY <1>3, <3>1, <3>2, <3>3
    <2>5. StillUnpublished'
        BY <2>1, <2>2, <2>4 DEF HInv, StillUnpublished, published
    <2> QED
        BY <2>2, <2>3, <2>5 DEF HInv
<1>4. ASSUME NEW r \in Releasers, Publish(r)
      PROVE  HInv'
    <2>1. /\ sure' \subseteq sure \ {r}
          /\ \A s \in sure' : version[s] # version[r]
        <3>1. sure' = {s \in sure : version[s] # version[r]}
            BY <1>4 DEF Publish
        <3> QED
            BY <3>1
    <2>2. StillUnpublished'
        <3> SUFFICES ASSUME NEW s \in sure'
                     PROVE  /\ step'[s] \in {"ci", "slow", "build", "smoke", "ask", "push"}
                            /\ registry'[version'[s]] = None
            BY DEF StillUnpublished
        <3>1. s \in Releasers /\ s \in sure /\ s # r /\ version[s] # version[r]
            BY <2>1 DEF HInv
        <3>2. version[s] \in Versions
            BY <1>0, <3>1 DEF TypeOK
        <3> QED
            <4>1. /\ step'[s] = step[s] /\ version' = version
                  /\ registry'[version[s]] = registry[version[s]]
                BY <1>4, <3>1, <3>2, PublishedByPush
            <4>2. /\ step[s] \in {"ci", "slow", "build", "smoke", "ask", "push"}
                  /\ registry[version[s]] = None
                BY <3>1 DEF HInv, StillUnpublished
            <4> QED
                BY <4>1, <4>2
    <2>3. LatestIsNext'
        BY <1>4, PublishedByPush DEF HInv, LatestIsNext
    <2>4. LatestWasPublished'
        BY <1>4, PublishedByPush DEF HInv, LatestWasPublished
    <2> QED
        BY <2>1, <2>2, <2>3, <2>4 DEF HInv
<1>5. ASSUME NEW r \in Releasers, GoOn(r)
      PROVE  HInv'
    <2>1. CASE PushLatest(r)
        <3>1. /\ step[r] = "push latest" /\ step'[r] = "verify" /\ latest' = image[r]
              /\ \A s \in Releasers : s # r => step'[s] = step[s]
              /\ UNCHANGED <<version, image, registry, ever, sure>>
            BY <1>0, <1>5, <2>1 DEF TypeOK, PushLatest, GoOn, Go
        <3>2. r \notin sure
            BY <3>1 DEF HInv, StillUnpublished
        <3> QED
            BY <3>1, <3>2 DEF HInv, StillUnpublished, LatestIsNext, LatestWasPublished
    <2>2. CASE Start(r) \/ CheckGit(r) \/ Verify(r)
        <3>1. /\ step[r] \in {"idle", "git", "verify"} /\ step'[r] # "push latest"
              /\ \A s \in Releasers : s # r => step'[s] = step[s] /\ version'[s] = version[s]
              /\ UNCHANGED <<published, image, ever, sure>>
            BY <1>0, <1>5, <2>2 DEF TypeOK, Start, CheckGit, Verify, GoOn, Go
        <3>2. r \notin sure
            BY <3>1 DEF HInv, StillUnpublished
        <3> QED
            BY <3>1, <3>2 DEF HInv, StillUnpublished, LatestIsNext, LatestWasPublished, published
    <2>3. CASE Test(r, "ci", "slow") \/ Test(r, "slow", "build") \/ Build(r) \/ Smoke(r)
        <3>1. /\ step'[r] \in {"slow", "build", "smoke", "ask"}
              /\ \A s \in Releasers : s # r => step'[s] = step[s] /\ image'[s] = image[s]
              /\ UNCHANGED <<published, version, ever, sure>>
            BY <1>0, <1>5, <2>3 DEF TypeOK, Test, Build, Smoke, GoOn, Go
        <3> QED
            BY <3>1 DEF HInv, StillUnpublished, LatestIsNext, LatestWasPublished, published
    <2> QED
        BY <1>5, <2>1, <2>2, <2>3 DEF GoOn
<1> QED
    BY <1>1, <1>2, <1>3, <1>4, <1>5 DEF HistoryNext

\* The invariant of the history holds in every reachable state, whoever releases
\* and edits and whether the registry answers.
THEOREM HistoryInvariance == HistorySpec => [](Types /\ HInv)
<1>1. HistoryInit => Types /\ HInv
    BY InitTypes
    DEF HistoryInit, Init, HInv, StillUnpublished, LatestIsNext, LatestWasPublished
<1>2. [HistoryNext]_historyVars => [Next]_vars
    BY DEF HistoryNext, WorkOn, Inspect, GiveUp, Name, Publish, GoOn, Next, Release, historyVars, vars
<1> QED
    BY <1>1, <1>2, NextTypes, NextHInv, PTL DEF HistorySpec

\* A version that is taken is published again only by a release whose check got
\* no answer, whose version was changed since, or which was overtaken: for any
\* number of people, whatever they edit, however the registry fails.
THEOREM OverwritesHaveAReason == HistorySpec => OverwritesAreExplained
<1>1. HInv => [\A r \in Releasers : Push(r) /\ registry[version[r]] # None => r \notin sure]_historyVars
    BY DEF HInv, StillUnpublished
<1> QED
    BY <1>1, HistoryInvariance, PTL DEF OverwritesAreExplained

\* latest is an image that was published as a version first, wherever a push
\* stops and whoever pushes at the same time.
THEOREM LatestIsAPublishedImage == HistorySpec => []LatestWasPublished
<1>1. HInv => LatestWasPublished
    BY DEF HInv
<1> QED
    BY <1>1, HistoryInvariance, PTL

-----------------------------------------------------------------------------
(* The table of contents                                                   *)

\* f[k] is the first k of the sequences in one.
Joins(f, seqs) ==
    /\ f[0] = <<>>
    /\ \A k \in 1..Len(seqs) : f[k] = f[k - 1] \o seqs[k]
    /\ FlattenSeq(seqs) = f[Len(seqs)]

\* FlattenSeq puts one after the other.
LEMMA Flattening ==
    ASSUME NEW L, NEW seqs \in Seq(Seq(L))
    PROVE  \E f \in [0..Len(seqs) -> Seq(L)] : Joins(f, seqs)
<1> DEFINE n    == Len(seqs)
           flat == CHOOSE g : g = [i \in 1..n |-> IF i = 1 THEN seqs[i] ELSE g[i - 1] \o seqs[i]]
           next == [x \in Seq(L) \X (1..n) |-> x[1] \o seqs[x[2]]]
<1>1. n \in Nat /\ <<>> \in Seq(L) /\ \A k \in 1..n : seqs[k] \in Seq(L)
    <2>1. \A k \in 1..Len(seqs) : seqs[k] \in Seq(L)
        BY ElementOfSeq
    <2> QED
        BY <2>1, EmptySeq, LenProperties
<1>2. next \in [Seq(L) \X (1..n) -> Seq(L)]
    <2>1. ASSUME NEW x \in Seq(L) \X (1..n) PROVE x[1] \o seqs[x[2]] \in Seq(L)
        <3>1. x[1] \in Seq(L) /\ x[2] \in 1..n
            OBVIOUS
        <3>2. seqs[x[2]] \in Seq(L)
            BY <1>1, <3>1
        <3> QED
            BY <3>1, <3>2, ConcatProperties
    <2> QED
        BY <2>1
<1>3. PICK f \in [0..n -> Seq(L)] : Unfolds(f, n, <<>>, next)
    <2> HIDE DEF next, n
    <2> QED
        BY <1>1, <1>2, Recursion
<1>4. f[0] = <<>> /\ \A k \in 1..n : f[k] = f[k - 1] \o seqs[k]
    <2>1. ASSUME NEW k \in 1..n PROVE f[k] = f[k - 1] \o seqs[k]
        <3>1. <<f[k - 1], k>> \in Seq(L) \X (1..n)
            <4> HIDE DEF n, next
            <4>1. k - 1 \in 0..n
                BY <1>1
            <4> QED
                BY <4>1
        <3>2. f[k] = next[<<f[k - 1], k>>]
            BY <1>3, Zenon DEF Unfolds
        <3> QED
            BY <3>1, <3>2
    <2> QED
        BY <1>3, <2>1, Zenon DEF Unfolds
<1> HIDE DEF n, next, flat
<1>0. ASSUME n > 0 PROVE f[1] = seqs[1]
    <2>1. 1 \in 1..n /\ 1 - 1 = 0
        BY <1>1, <1>0
    <2>2. f[1] = f[1 - 1] \o seqs[1]
        BY <1>4, <2>1, Zenon
    <2>3. f[1] = <<>> \o seqs[1]
        BY <1>4, <2>1, <2>2
    <2> QED
        BY <1>1, <2>1, <2>3, ConcatEmptySeq
<1>5. CASE n = 0
    <2>1. seqs = <<>> /\ FlattenSeq(seqs) = seqs
        BY <1>5, EmptySeq DEF n, FlattenSeq
    <2> QED
        BY <1>4, <1>5, <2>1, Zenon DEF n, Joins
<1>6. CASE n > 0
    <2>1. FlattenSeq(seqs) = flat[n]
        BY <1>6 DEF n, flat, FlattenSeq
    <2>2. \E g : g = [i \in 1..n |-> IF i = 1 THEN seqs[i] ELSE g[i - 1] \o seqs[i]]
        <3> DEFINE g == [i \in 1..n |-> f[i]]
        <3>1. ASSUME NEW i \in 1..n
              PROVE  g[i] = IF i = 1 THEN seqs[i] ELSE g[i - 1] \o seqs[i]
            <4>1. CASE i = 1
                BY <1>0, <1>6, <4>1
            <4>2. CASE i # 1
                <5>1. g[i] = f[i] /\ g[i - 1] = f[i - 1]
                    BY <1>1, <4>2
                <5>2. f[i] = f[i - 1] \o seqs[i]
                    BY <1>4, Zenon
                <5> QED
                    BY <4>2, <5>1, <5>2, Zenon
            <4> QED
                BY <4>1, <4>2
        <3>2. g = [i \in 1..n |-> IF i = 1 THEN seqs[i] ELSE g[i - 1] \o seqs[i]]
            BY <3>1
        <3> QED
            BY <3>2
    <2>3. flat = [i \in 1..n |-> IF i = 1 THEN seqs[i] ELSE flat[i - 1] \o seqs[i]]
        BY <2>2 DEF flat
    <2>4. \A i \in 1..n : flat[i] = IF i = 1 THEN seqs[i] ELSE flat[i - 1] \o seqs[i]
        BY <2>3
    <2> DEFINE S == {k \in 0..n : k > 0 => flat[k] = f[k]}
    <2>5. 0 \in S
        BY <1>1
    <2>6. ASSUME NEW k \in 1..n, k - 1 \in S PROVE k \in S
        <3>1. CASE k = 1
            BY <1>0, <1>6, <2>4, <3>1
        <3>2. CASE k # 1
            <4>1. f[k] = f[k - 1] \o seqs[k] /\ flat[k] = flat[k - 1] \o seqs[k]
                BY <1>4, <2>4, <3>2, Zenon
            <4>2. flat[k - 1] = f[k - 1]
                BY <1>1, <2>6, <3>2
            <4>3. flat[k] = f[k]
                BY <4>1, <4>2, Zenon
            <4> QED
                BY <1>1, <4>3
        <3> QED
            BY <3>1, <3>2
    <2>7. 0..n \subseteq S
        <3> HIDE DEF S
        <3> QED
            BY <1>1, <2>5, <2>6, InductionUpTo
    <2> QED
        <3>1. flat[n] = f[n]
            BY <1>1, <1>6, <2>7
        <3> QED
            BY <1>4, <2>1, <3>1, Zenon DEF n, Joins
<1> QED
    BY <1>1, <1>5, <1>6

\* The headings after line e, those up to line i, and what it is to list them.
Wanted(doc, e)  == {i \in DOMAIN doc : i > e /\ IsListed(doc[i])}
UpTo(doc, e, i) == {j \in Wanted(doc, e) : j <= i}
InOrder(h, doc, e) ==
    /\ Len(h) = Cardinality(Wanted(doc, e))
    /\ \A i \in Wanted(doc, e) : h[Cardinality(UpTo(doc, e, i))] = doc[i]

\* There are finitely many headings.
LEMMA WantedIsFinite ==
    ASSUME NEW doc \in Seq(Line), NEW e
    PROVE  IsFiniteSet(Wanted(doc, e))
<1>1. Len(doc) \in Nat /\ DOMAIN doc = 1..Len(doc)
    BY LenProperties
<1>2. IsFiniteSet(1..Len(doc))
    BY <1>1, FS_Interval
<1> QED
    BY <1>1, <1>2, FS_Subset DEF Wanted

\* The line after another counts one more if it is a heading.
LEMMA Counting ==
    ASSUME NEW doc \in Seq(Line), NEW e \in Nat, NEW i \in (e + 1)..Len(doc)
    PROVE  /\ Cardinality(UpTo(doc, e, i - 1)) \in Nat
           /\ Cardinality(UpTo(doc, e, i)) =
                Cardinality(UpTo(doc, e, i - 1)) + IF IsListed(doc[i]) THEN 1 ELSE 0
<1>1. Len(doc) \in Nat /\ DOMAIN doc = 1..Len(doc) /\ i \in 1..Len(doc) /\ i - 1 < i
    BY LenProperties
<1>2. IsFiniteSet(UpTo(doc, e, i - 1))
    BY WantedIsFinite, FS_Subset DEF UpTo
<1>3. \A j \in Wanted(doc, e) : j \in Int
    BY <1>1 DEF Wanted
<1>4. CASE IsListed(doc[i])
    <2>1. i \in Wanted(doc, e)
        BY <1>1, <1>4 DEF Wanted
    <2>2. \A j \in Wanted(doc, e) : j <= i <=> j <= i - 1 \/ j = i
        BY <1>1, <1>3
    <2>3. i <= i /\ ~(i <= i - 1)
        BY <1>1
    <2>4. UpTo(doc, e, i) = UpTo(doc, e, i - 1) \cup {i} /\ i \notin UpTo(doc, e, i - 1)
        BY <2>1, <2>2, <2>3, Zenon DEF UpTo
    <2> QED
        BY <1>2, <1>4, <2>4, FS_AddElement, FS_CardinalityType
<1>5. CASE ~IsListed(doc[i])
    <2>1. i \notin Wanted(doc, e)
        BY <1>5 DEF Wanted
    <2>2. \A j \in Wanted(doc, e) : j <= i <=> j <= i - 1
        BY <1>1, <1>3, <2>1
    <2>3. UpTo(doc, e, i) = UpTo(doc, e, i - 1)
        BY <2>2, Zenon DEF UpTo
    <2> QED
        BY <1>2, <1>5, <2>3, FS_CardinalityType
<1> QED
    BY <1>4, <1>5

\* The place of a heading is no more than the number of headings up to a later line.
LEMMA Ranking ==
    ASSUME NEW doc \in Seq(Line), NEW e \in Nat, NEW i \in Nat, NEW j \in UpTo(doc, e, i)
    PROVE  Cardinality(UpTo(doc, e, j)) \in 1..Cardinality(UpTo(doc, e, i))
<1>1. Len(doc) \in Nat /\ DOMAIN doc = 1..Len(doc)
    BY LenProperties
<1>2. j \in Wanted(doc, e) /\ j <= i /\ \A k \in Wanted(doc, e) : k \in Int
    BY <1>1 DEF Wanted, UpTo
<1>3. IsFiniteSet(UpTo(doc, e, i))
    BY WantedIsFinite, FS_Subset DEF UpTo
<1>4. UpTo(doc, e, j) \subseteq UpTo(doc, e, i) /\ j \in UpTo(doc, e, j)
    BY <1>2 DEF UpTo
<1>5. IsFiniteSet(UpTo(doc, e, j)) /\ Cardinality(UpTo(doc, e, j)) <= Cardinality(UpTo(doc, e, i))
    BY <1>3, <1>4, FS_Subset
<1>6. Cardinality(UpTo(doc, e, j)) # 0
    BY <1>4, <1>5, FS_EmptySet
<1> QED
    BY <1>3, <1>5, <1>6, FS_CardinalityType

\* headings() finds the headings after the end marker, in their order.
LEMMA HeadingsInOrder ==
    ASSUME NEW doc \in Seq(Line), NEW e \in 0..Len(doc),
           Body(doc) = SubSeq(doc, e + 1, Len(doc))
    PROVE  /\ Headings(doc) \in Seq({l \in Line : IsListed(l)})
           /\ InOrder(Headings(doc), doc, e)
<1> DEFINE n      == Len(doc)
           L      == {l \in Line : IsListed(l)}
           pieces == [i \in DOMAIN Body(doc) |->
                         IF IsListed(Body(doc)[i]) THEN <<Body(doc)[i]>> ELSE <<>>]
<1>1. n \in Nat /\ e \in 0..n /\ n - e \in Nat /\ DOMAIN doc = 1..n /\ \A i \in 1..n : doc[i] \in Line
    BY LenProperties, ElementOfSeq
<1>2. DOMAIN Body(doc) = 1..(n - e) /\ \A k \in 1..(n - e) : Body(doc)[k] = doc[e + k]
    <2>1. \A i \in (e + 1)..n : doc[i] \in Line
        BY <1>1
    <2>2. /\ Body(doc) \in Seq(Line)
          /\ Len(Body(doc)) = IF e + 1 <= n THEN n - (e + 1) + 1 ELSE 0
          /\ \A k \in 1..(n - (e + 1) + 1) : Body(doc)[k] = doc[(e + 1) + k - 1]
        BY <1>1, <2>1, SubSeqProperties
    <2>3. Len(Body(doc)) = n - e /\ DOMAIN Body(doc) = 1..Len(Body(doc))
        BY <1>1, <2>2, LenProperties
    <2>4. \A k \in 1..(n - e) : (e + 1) + k - 1 = e + k /\ n - (e + 1) + 1 = n - e
        BY <1>1
    <2>5. n - (e + 1) + 1 = n - e
        BY <1>1
    <2> HIDE DEF n
    <2> QED
        BY <2>2, <2>3, <2>4, <2>5
<1>3. /\ DOMAIN pieces = 1..(n - e)
      /\ \A k \in 1..(n - e) :
            pieces[k] = IF IsListed(doc[e + k]) THEN <<doc[e + k]>> ELSE <<>>
    BY <1>2
<1> HIDE DEF n, pieces
<1>4. pieces \in Seq(Seq(L)) /\ Len(pieces) = n - e
    <2>1. ASSUME NEW k \in 1..(n - e) PROVE pieces[k] \in Seq(L)
        <3>1. doc[e + k] \in Line
            BY <1>1
        <3>2. CASE IsListed(doc[e + k])
            <4>1. doc[e + k] \in L /\ pieces[k] = <<doc[e + k]>>
                BY <1>3, <3>1, <3>2
            <4> HIDE DEF L
            <4> QED
                BY <4>1
        <3>3. CASE ~IsListed(doc[e + k])
            BY <1>3, <3>3, EmptySeq
        <3> QED
            BY <3>2, <3>3
    <2> HIDE DEF L
    <2>2. pieces \in [1..(n - e) -> Seq(L)]
        <3>1. pieces = [k \in 1..(n - e) |-> pieces[k]]
            BY <1>3 DEF pieces
        <3> QED
            BY <2>1, <3>1
    <2>3. pieces \in Seq(Seq(L))
        BY <1>1, <2>2, SeqDef
    <2>4. Len(pieces) \in Nat /\ 1..Len(pieces) = 1..(n - e)
        BY <1>3, <2>3, LenProperties
    <2> QED
        BY <1>1, <2>3, <2>4
<1>5. PICK f \in [0..(n - e) -> Seq(L)] : Joins(f, pieces)
    BY <1>4, Flattening
<1>6. Headings(doc) = f[n - e]
    BY <1>4, <1>5, Zenon DEF Joins, Headings, pieces
<1> DEFINE R(i) == UpTo(doc, e, i)
           Right(k) == /\ Len(f[k]) = Cardinality(R(e + k))
                       /\ \A i \in R(e + k) : f[k][Cardinality(R(i))] = doc[i]
           S == {k \in 0..(n - e) : Right(k)}
<1>7. 0 \in S
    <2>1. R(e + 0) = {}
        BY <1>1 DEF UpTo, Wanted
    <2>2. Len(f[0]) = 0
        BY <1>5 DEF Joins
    <2> QED
        BY <1>1, <2>1, <2>2, FS_EmptySet
<1>8. ASSUME NEW k \in 1..(n - e), k - 1 \in S PROVE k \in S
    <2>0. k \in 0..(n - e) /\ e + k \in (e + 1)..n /\ e + k - 1 = e + (k - 1) /\ k - 1 \in 0..(n - e)
        BY <1>1
    <2>1. f[k] = f[k - 1] \o pieces[k]
        BY <1>4, <1>5, Zenon DEF Joins
    <2>2. f[k - 1] \in Seq(L) /\ pieces[k] \in Seq(L)
        BY <1>4, <2>0, ElementOfSeq
    <2> DEFINE c == Cardinality(R(e + (k - 1)))
    <2>3. Right(k - 1)
        BY <1>8
    <2>4. c \in Nat /\ Cardinality(R(e + k)) = c + IF IsListed(doc[e + k]) THEN 1 ELSE 0
        <3>1. e \in Nat /\ e + k \in (e + 1)..Len(doc)
            BY <1>1, <2>0 DEF n
        <3> QED
            BY <2>0, <3>1, Counting
    <2>5. /\ Len(f[k]) = c + Len(pieces[k])
          /\ \A i \in 1..c : f[k][i] = f[k - 1][i]
          /\ \A i \in (c + 1)..(c + Len(pieces[k])) : f[k][i] = pieces[k][i - c]
        <3>1. Len(f[k - 1]) = c /\ Len(pieces[k]) \in Nat
            BY <2>2, <2>3, LenProperties
        <3> DEFINE l == Len(f[k - 1]) + Len(pieces[k])
        <3>2. /\ Len(f[k - 1] \o pieces[k]) = l
              /\ \A i \in 1..l : (f[k - 1] \o pieces[k])[i] =
                    IF i <= Len(f[k - 1]) THEN f[k - 1][i] ELSE pieces[k][i - Len(f[k - 1])]
            BY <2>2, ConcatProperties, Zenon
        <3>3. /\ Len(f[k]) = l
              /\ \A i \in 1..l :
                    f[k][i] = IF i <= Len(f[k - 1]) THEN f[k - 1][i] ELSE pieces[k][i - Len(f[k - 1])]
            BY <2>1, <3>2, Zenon
        <3>4. c \in Nat
            BY <2>4
        <3> HIDE DEF c
        <3>5. l = c + Len(pieces[k]) /\ l \in Nat
            BY <3>1, <3>4
        <3>6. \A i \in 1..l : f[k][i] = IF i <= c THEN f[k - 1][i] ELSE pieces[k][i - c]
            BY <3>1, <3>3, Zenon
        <3> HIDE DEF l
        <3>7. Len(f[k]) = c + Len(pieces[k])
            BY <3>3, <3>5, Zenon
        <3>8. ASSUME NEW i \in 1..c PROVE f[k][i] = f[k - 1][i]
            <4>1. i \in 1..l /\ i <= c
                BY <3>1, <3>4, <3>5
            <4> QED
                BY <3>6, <4>1, Zenon
        <3>9. ASSUME NEW i \in (c + 1)..(c + Len(pieces[k])) PROVE f[k][i] = pieces[k][i - c]
            <4>1. i \in 1..l /\ ~(i <= c)
                BY <3>1, <3>4, <3>5
            <4> QED
                BY <3>6, <4>1, Zenon
        <3> QED
            BY <3>7, <3>8, <3>9
    <2>6. ASSUME NEW i \in R(e + (k - 1)) PROVE f[k][Cardinality(R(i))] = doc[i]
        <3>1. Cardinality(R(i)) \in 1..c
            BY <1>1, <2>0, Ranking
        <3> QED
            BY <2>3, <2>5, <3>1
    <2>7. \A j \in Wanted(doc, e) : j \in Int
        BY <1>1 DEF Wanted
    <2>8. CASE IsListed(doc[e + k])
        <3>1. Len(pieces[k]) = 1 /\ pieces[k][1] = doc[e + k]
            BY <1>3, <2>8
        <3>2. f[k][Cardinality(R(e + k))] = doc[e + k]
            BY <2>4, <2>5, <2>8, <3>1
        <3>3. \A i \in R(e + k) : i = e + k \/ i \in R(e + (k - 1))
            <4>1. \A i \in Wanted(doc, e) : i <= e + k => i = e + k \/ i <= e + (k - 1)
                BY <1>1, <2>0, <2>7
            <4> QED
                BY <4>1 DEF UpTo
        <3> QED
            BY <2>0, <2>4, <2>5, <2>6, <2>8, <3>1, <3>2, <3>3
    <2>9. CASE ~IsListed(doc[e + k])
        <3>1. Len(pieces[k]) = 0
            BY <1>3, <2>9
        <3>2. \A i \in R(e + k) : i \in R(e + (k - 1))
            <4>1. e + k \notin Wanted(doc, e)
                BY <2>9 DEF Wanted
            <4>2. \A i \in Wanted(doc, e) : i <= e + k => i = e + k \/ i <= e + (k - 1)
                BY <1>1, <2>0, <2>7
            <4> QED
                BY <4>1, <4>2, Zenon DEF UpTo
        <3> QED
            BY <2>0, <2>4, <2>5, <2>6, <2>9, <3>1, <3>2
    <2> QED
        BY <2>8, <2>9
<1>9. n - e \in S
    <2> DEFINE m == n - e
    <2>1. m \in Nat /\ 0..m \subseteq S => m \in S
        OBVIOUS
    <2> HIDE DEF S
    <2>2. \A k \in 1..m : k - 1 \in S => k \in S
        BY <1>8
    <2> HIDE DEF m
    <2>3. m \in Nat
        BY <1>1 DEF m
    <2>4. 0..m \subseteq S
        BY <1>7, <2>2, <2>3, InductionUpTo
    <2> QED
        BY <2>3, <2>4 DEF m
<1>10. R(e + (n - e)) = Wanted(doc, e)
    BY <1>1 DEF UpTo, Wanted
<1> QED
    BY <1>5, <1>6, <1>9, <1>10 DEF InOrder, n

\* The end marker is where the body begins.
LEMMA BodyIsTheRest ==
    ASSUME NEW doc, NEW e \in Int, At(doc, END) = {e}
    PROVE  Body(doc) = SubSeq(doc, e + 1, Len(doc))
<1>1. (CHOOSE i \in {e} : \A j \in {e} : i <= j) = e
    OBVIOUS
<1> QED
    BY <1>1 DEF Body

\* The table begins and ends with its marker, with an entry for each heading between.
LEMMA RenderIsATable ==
    ASSUME NEW doc, Headings(doc) \in Seq({l \in Line : IsListed(l)})
    PROVE  /\ Render(doc) \in Seq(Line)
           /\ Len(Render(doc)) = Len(Headings(doc)) + 2
           /\ Render(doc)[1] = START
           /\ Render(doc)[Len(Headings(doc)) + 2] = END
           /\ \A c \in 1..Len(Headings(doc)) : Render(doc)[1 + c] = Entry(Headings(doc)[c])
<1> DEFINE h  == Len(Headings(doc))
           es == [i \in DOMAIN Headings(doc) |-> Entry(Headings(doc)[i])]
<1>1. h \in Nat /\ DOMAIN Headings(doc) = 1..h
    BY LenProperties
<1>2. ASSUME NEW i \in 1..h PROVE Entry(Headings(doc)[i]) \in Line
    <2>1. Headings(doc)[i] \in {l \in Line : IsListed(l)}
        BY <1>2, ElementOfSeq
    <2>2. ASSUME NEW l \in Line, IsListed(l) PROVE Entry(l) \in Line
        BY <2>2 DEF Line, IsListed, Entry, START, END, MinLevel, MaxLevel
    <2> QED
        BY <2>1, <2>2
<1>3. es \in [1..h -> Line] /\ \A i \in 1..h : es[i] = Entry(Headings(doc)[i])
    BY <1>1, <1>2
<1> HIDE DEF h, es
<1>4. es \in Seq(Line)
    BY <1>1, <1>3, SeqDef
<1>5. Len(es) = h
    <2>1. Len(es) \in Nat /\ 1..Len(es) = 1..h
        BY <1>3, <1>4, LenProperties
    <2> QED
        BY <1>1, <2>1
<1>6. START \in Line /\ END \in Line
    BY DEF Line
<1>7. /\ <<START>> \in Seq(Line) /\ Len(<<START>>) = 1 /\ <<START>>[1] = START
      /\ <<END>> \in Seq(Line) /\ Len(<<END>>) = 1 /\ <<END>>[1] = END
    BY <1>6
<1> DEFINE s1 == <<START>>
           s2 == <<END>>
           t  == s1 \o es
<1> HIDE DEF s1, s2
<1>8. /\ t \in Seq(Line) /\ Len(t) = 1 + h
      /\ t[1] = START
      /\ \A c \in 1..h : t[1 + c] = es[c]
    <2>1. /\ t \in Seq(Line) /\ Len(t) = Len(s1) + Len(es)
          /\ \A i \in 1..(Len(s1) + Len(es)) :
                t[i] = IF i <= Len(s1) THEN s1[i] ELSE es[i - Len(s1)]
        BY <1>4, <1>7, ConcatProperties, Zenon DEF s1
    <2> HIDE DEF t
    <2>2. /\ Len(t) = 1 + h
          /\ \A i \in 1..(1 + h) : t[i] = IF i <= 1 THEN s1[i] ELSE es[i - 1]
        BY <1>5, <1>7, <2>1, Zenon DEF s1
    <2>3. t[1] = START
        BY <1>1, <1>7, <2>2 DEF s1
    <2>4. ASSUME NEW c \in 1..h PROVE t[1 + c] = es[c]
        <3>1. 1 + c \in 1..(1 + h) /\ ~(1 + c <= 1) /\ 1 + c - 1 = c
            BY <1>1
        <3> QED
            BY <2>2, <3>1
    <2> QED
        BY <2>1, <2>2, <2>3, <2>4
<1>9. Render(doc) = t \o s2
    BY Zenon DEF Render, es, s1, s2
<1> HIDE DEF t
<1> DEFINE r == Render(doc)
<1>10. /\ r \in Seq(Line) /\ Len(r) = 1 + h + 1
       /\ \A i \in 1..(1 + h + 1) : r[i] = IF i <= 1 + h THEN t[i] ELSE s2[i - (1 + h)]
    <2>1. /\ t \o s2 \in Seq(Line) /\ Len(t \o s2) = Len(t) + Len(s2)
          /\ \A i \in 1..(Len(t) + Len(s2)) :
                (t \o s2)[i] = IF i <= Len(t) THEN t[i] ELSE s2[i - Len(t)]
        BY <1>7, <1>8, ConcatProperties, Zenon DEF s2
    <2> QED
        BY <1>7, <1>8, <1>9, <2>1, Zenon DEF s2
<1> HIDE DEF r
<1>11. Len(r) = h + 2 /\ r[1] = START /\ r[h + 2] = END
    <2>1. 1 \in 1..(1 + h + 1) /\ h + 2 \in 1..(1 + h + 1) /\ h + 2 - (1 + h) = 1 /\ 1 + h + 1 = h + 2
          /\ 1 <= 1 + h /\ ~(h + 2 <= 1 + h)
        BY <1>1
    <2> QED
        BY <1>7, <1>8, <1>10, <2>1 DEF s2
<1>12. ASSUME NEW c \in 1..h PROVE r[1 + c] = Entry(Headings(doc)[c])
    <2>1. 1 + c \in 1..(1 + h + 1) /\ 1 + c <= 1 + h
        BY <1>1
    <2> QED
        BY <1>3, <1>8, <1>10, <2>1
<1> QED
    BY <1>10, <1>11, <1>12 DEF r, h

\* Three sequences in one, line by line.
LEMMA Splicing ==
    ASSUME NEW a \in Seq(Line), NEW t \in Seq(Line), NEW b \in Seq(Line)
    PROVE  /\ (a \o t) \o b \in Seq(Line)
           /\ Len((a \o t) \o b) = Len(a) + Len(t) + Len(b)
           /\ \A i \in 1..Len(a) : ((a \o t) \o b)[i] = a[i]
           /\ \A i \in 1..Len(t) : ((a \o t) \o b)[Len(a) + i] = t[i]
           /\ \A i \in 1..Len(b) : ((a \o t) \o b)[Len(a) + Len(t) + i] = b[i]
<1> DEFINE x == a \o t
           y == x \o b
           p == Len(a)
           q == Len(t)
           r == Len(b)
<1>0. p \in Nat /\ q \in Nat /\ r \in Nat
    BY LenProperties
<1>1. /\ x \in Seq(Line) /\ Len(x) = p + q
      /\ \A i \in 1..(p + q) : x[i] = IF i <= p THEN a[i] ELSE t[i - p]
    BY ConcatProperties, Zenon
<1> HIDE DEF x
<1>2. /\ y \in Seq(Line) /\ Len(y) = Len(x) + r
      /\ \A i \in 1..(Len(x) + r) : y[i] = IF i <= Len(x) THEN x[i] ELSE b[i - Len(x)]
    <2>1. x \in Seq(Line)
        BY <1>1
    <2> QED
        BY <2>1, ConcatProperties
<1> HIDE DEF y, p, q, r
<1>3. /\ Len(y) = p + q + r
      /\ \A i \in 1..(p + q + r) : y[i] = IF i <= p + q THEN x[i] ELSE b[i - (p + q)]
    BY <1>1, <1>2, Zenon
<1>4. ASSUME NEW i \in 1..p PROVE y[i] = a[i]
    <2>1. i \in 1..(p + q + r) /\ i \in 1..(p + q) /\ i <= p /\ i <= p + q
        BY <1>0
    <2> QED
        BY <1>1, <1>3, <2>1
<1>5. ASSUME NEW i \in 1..q PROVE y[p + i] = t[i]
    <2> DEFINE j == p + i
    <2>1. /\ j \in 1..(p + q + r) /\ j \in 1..(p + q)
          /\ ~(j <= p) /\ j <= p + q /\ j - p = i
        BY <1>0
    <2> HIDE DEF j
    <2>2. y[j] = x[j] /\ x[j] = t[j - p]
        BY <1>1, <1>3, <2>1, Zenon
    <2> QED
        BY <2>1, <2>2 DEF j
<1>6. ASSUME NEW i \in 1..r PROVE y[p + q + i] = b[i]
    <2> DEFINE j == p + q + i
    <2>1. j \in 1..(p + q + r) /\ ~(j <= p + q) /\ j - (p + q) = i
        BY <1>0
    <2> HIDE DEF j
    <2>2. y[j] = b[j - (p + q)]
        BY <1>3, <2>1, Zenon
    <2> QED
        BY <2>1, <2>2 DEF j
<1> QED
    BY <1>2, <1>3, <1>4, <1>5, <1>6 DEF x, y, p, q, r

\* The one match of a document with both markers in place.
LEMMA TheMatch ==
    ASSUME NEW doc, NEW n \in Nat, DOMAIN doc = 1..n,
           NEW s \in 1..n, NEW e \in 1..n, NEW i \in 1..n,
           At(doc, START) = {s}, At(doc, END) = {e}, s < e
    PROVE  /\ Begins(doc, i) <=> i = s
           /\ Matched(doc, i) <=> s <= i /\ i <= e
<1>1. ASSUME NEW j \in 1..n PROVE Begins(doc, j) <=> j = s
    <2>1. doc[j] = START <=> j = s
        BY DEF At
    <2> QED
        BY <2>1 DEF Begins
<1>2. ASSUME Matched(doc, i) PROVE s <= i /\ i <= e
    <2>1. PICK j \in 1..i : Begins(doc, j) /\ \A d \in At(doc, END) : ~(j < d /\ d < i)
        BY <1>2 DEF Matched
    <2>2. j \in 1..n
        BY <2>1
    <2>3. j = s /\ ~(s < e /\ e < i)
        BY <1>1, <2>1, <2>2
    <2> QED
        BY <2>1, <2>3
<1>3. ASSUME s <= i, i <= e PROVE Matched(doc, i)
    <2>1. s \in 1..i /\ Begins(doc, s) /\ ~(s < e /\ e < i)
        BY <1>1, <1>3
    <2>2. \A d \in At(doc, END) : ~(s < d /\ d < i)
        BY <2>1
    <2> QED
        BY <2>1, <2>2, Zenon DEF Matched
<1> QED
    BY <1>1, <1>2, <1>3

\* How lines are grouped does not matter.
LEMMA Grouping == \A u, v, w \in Seq(Line) : (u \o v) \o w = u \o (v \o w)
BY ConcatAssociative

\* rewrite puts the table between what is before the start marker and what is
\* after the end marker.
LEMMA RewriteSplices ==
    ASSUME NEW doc \in Seq(Line), NEW s \in 1..Len(doc), NEW e \in 1..Len(doc),
           At(doc, START) = {s}, At(doc, END) = {e}, s < e, Render(doc) \in Seq(Line)
    PROVE  Rewrite(doc) = (SubSeq(doc, 1, s - 1) \o Render(doc)) \o SubSeq(doc, e + 1, Len(doc))
<1> DEFINE n      == Len(doc)
           t      == Render(doc)
           pieces == [i \in DOMAIN doc |-> IF Begins(doc, i) THEN Render(doc)
                                           ELSE IF Matched(doc, i) THEN <<>> ELSE <<doc[i]>>]
           a      == SubSeq(doc, 1, s - 1)
           x      == a \o t
           b(k)   == SubSeq(doc, e + 1, k)
<1>1. /\ n \in Nat /\ s \in 1..n /\ e \in 1..n
      /\ DOMAIN doc = 1..n /\ \A i \in 1..n : doc[i] \in Line
    BY LenProperties, ElementOfSeq
<1>2. \A i \in 1..n : pieces[i] = IF i = s THEN t ELSE IF s <= i /\ i <= e THEN <<>> ELSE <<doc[i]>>
    <2> TAKE i \in 1..n
    <2>1. (Begins(doc, i) <=> i = s) /\ (Matched(doc, i) <=> s <= i /\ i <= e)
        BY <1>1, TheMatch
    <2> QED
        BY <1>1, <2>1
<1>3. Rewrite(doc) = FlattenSeq(pieces)
    BY DEF Rewrite
<1> HIDE DEF n, t
<1>4. pieces \in Seq(Seq(Line)) /\ Len(pieces) = n
    <2>1. ASSUME NEW i \in 1..n PROVE pieces[i] \in Seq(Line)
        <3>1. <<>> \in Seq(Line) /\ <<doc[i]>> \in Seq(Line)
            BY <1>1
        <3> QED
            BY <1>2, <3>1 DEF t
    <2>2. pieces = [i \in 1..n |-> pieces[i]]
        BY <1>1
    <2> HIDE DEF pieces
    <2>3. pieces \in [1..n -> Seq(Line)]
        BY <2>1, <2>2
    <2>4. pieces \in Seq(Seq(Line))
        BY <1>1, <2>3, SeqDef
    <2>5. Len(pieces) \in Nat /\ 1..Len(pieces) = 1..n
        BY <2>3, <2>4, LenProperties
    <2> QED
        BY <1>1, <2>4, <2>5
<1> HIDE DEF pieces
<1>5. PICK f \in [0..n -> Seq(Line)] : Joins(f, pieces)
    BY <1>4, Flattening
<1>6. /\ f[0] = <<>> /\ Rewrite(doc) = f[n]
      /\ \A k \in 1..n : f[k] = f[k - 1] \o pieces[k]
    BY <1>3, <1>4, <1>5, Zenon DEF Joins
<1>7. a \in Seq(Line) /\ t \in Seq(Line) /\ x \in Seq(Line)
    <2>1. a \in Seq(Line)
        <3>1. 1 \in Int /\ s - 1 \in Int /\ \A i \in 1..(s - 1) : doc[i] \in Line
            BY <1>1 DEF n
        <3> QED
            BY <3>1, SubSeqProperties, Zenon
    <2> QED
        BY <2>1, ConcatProperties, Zenon DEF t
<1> HIDE DEF a, x
<1> DEFINE Part(k) == IF k < s THEN SubSeq(doc, 1, k) ELSE IF k <= e THEN x ELSE x \o b(k)
           S       == {k \in 0..n : f[k] = Part(k)}
<1>8. b(e) = <<>> /\ x \o b(e) = x
    <2>1. b(e) = <<>>
        BY <1>1, SubSeqEmpty
    <2> QED
        BY <1>7, <2>1, ConcatEmptySeq, Zenon
<1>9. 0 \in S
    <2>1. SubSeq(doc, 1, 0) = <<>>
        BY SubSeqEmpty
    <2>2. 0 < s /\ 0 \in 0..n
        BY <1>1
    <2> QED
        BY <1>6, <2>1, <2>2
<1>10. ASSUME NEW k \in 1..n, k - 1 \in S PROVE k \in S
    <2>0. f[k] = f[k - 1] \o pieces[k] /\ f[k - 1] = Part(k - 1)
        BY <1>6, <1>10, Zenon
    <2>k. k \in 0..n
        BY <1>1
    <2>1. CASE k < s
        <3>0. k - 1 < s /\ k # s /\ ~(s <= k)
            BY <1>1, <2>1
        <3>1. pieces[k] = <<doc[k]>>
            BY <1>2, <3>0, Zenon
        <3>2. SubSeq(doc, 1, k) = SubSeq(doc, 1, k - 1) \o <<doc[k]>>
            <4>1. 1 \in 1..Len(doc) /\ k \in 1..Len(doc)
                BY <1>1 DEF n
            <4> QED
                BY <4>1, SubSeqRecursiveSecond
        <3> QED
            BY <2>0, <2>k, <2>1, <3>0, <3>1, <3>2, Zenon
    <2>2. CASE k = s
        <3>0. k - 1 < s /\ ~(k < s) /\ k <= e
            BY <1>1, <2>2
        <3>1. pieces[k] = t
            BY <1>2, <2>2, Zenon
        <3> QED
            BY <2>0, <2>k, <2>2, <3>0, <3>1, Zenon DEF a, x
    <2>3. CASE s < k /\ k <= e
        <3>0. ~(k - 1 < s) /\ k - 1 <= e /\ ~(k < s) /\ k # s /\ s <= k
            BY <1>1, <2>3
        <3>1. pieces[k] = <<>>
            BY <1>2, <2>3, <3>0, Zenon
        <3>2. x \o <<>> = x
            BY <1>7, ConcatEmptySeq
        <3> QED
            BY <2>0, <2>k, <2>3, <3>0, <3>1, <3>2, Zenon
    <2>4. CASE e < k
        <3>0. ~(k - 1 < s) /\ ~(k < s) /\ ~(k <= e) /\ k # s
            BY <1>1, <2>4
        <3>1. pieces[k] = <<doc[k]>>
            BY <1>2, <3>0, Zenon
        <3>2. f[k - 1] = x \o b(k - 1)
            <4>1. CASE k - 1 <= e
                <5>1. k - 1 = e
                    BY <1>1, <2>4, <4>1
                <5> QED
                    BY <1>8, <2>0, <3>0, <4>1, <5>1, Zenon
            <4>2. CASE ~(k - 1 <= e)
                BY <2>0, <3>0, <4>2, Zenon
            <4> QED
                BY <4>1, <4>2
        <3>3. b(k) = b(k - 1) \o <<doc[k]>>
            <4>1. e + 1 \in 1..Len(doc) /\ k \in (e + 1)..Len(doc)
                BY <1>1, <2>4 DEF n
            <4> QED
                BY <4>1, SubSeqRecursiveSecond, Zenon
        <3>4. b(k - 1) \in Seq(Line) /\ <<doc[k]>> \in Seq(Line)
            <4>1. e + 1 \in Int /\ k - 1 \in Int /\ \A i \in (e + 1)..(k - 1) : doc[i] \in Line
                BY <1>1
            <4>2. b(k - 1) \in Seq(Line)
                BY <4>1, SubSeqProperties, Zenon
            <4>3. doc[k] \in Line
                BY <1>1
            <4> QED
                BY <4>2, <4>3
        <3>5. (x \o b(k - 1)) \o <<doc[k]>> = x \o b(k)
            <4>1. (x \o b(k - 1)) \o <<doc[k]>> = x \o (b(k - 1) \o <<doc[k]>>)
                BY <1>7, <3>4, Grouping, Zenon
            <4> QED
                BY <3>3, <4>1, Zenon
        <3> QED
            BY <2>0, <2>k, <3>0, <3>1, <3>2, <3>5, Zenon
    <2> QED
        BY <1>1, <2>1, <2>2, <2>3, <2>4
<1>11. f[n] = Part(n)
    <2>1. n \in 0..n
        BY <1>1
    <2> HIDE DEF S
    <2>2. 0..n \subseteq S
        BY <1>1, <1>9, <1>10, InductionUpTo
    <2>3. n \in S
        BY <2>1, <2>2
    <2> QED
        BY <2>3 DEF S
<1>12. f[n] = x \o b(n)
    <2>1. ~(n < s) /\ (n <= e => n = e)
        BY <1>1
    <2> QED
        BY <1>8, <1>11, <2>1, Zenon
<1> QED
    BY <1>6, <1>12, Zenon DEF a, x, t, n

\* What toc.py makes of a document with its markers at s and e: the document as
\* the provers know it from here on.
LEMMA Rewritten ==
    ASSUME NEW doc \in Seq(Line), NEW s \in 1..Len(doc), NEW e \in 1..Len(doc),
           At(doc, START) = {s}, At(doc, END) = {e}, s < e
    PROVE  /\ Body(doc) = SubSeq(doc, e + 1, Len(doc))
           /\ Headings(doc) \in Seq({l \in Line : IsListed(l)})
           /\ InOrder(Headings(doc), doc, e)
           /\ Rewrite(doc) =
                (SubSeq(doc, 1, s - 1) \o Render(doc)) \o SubSeq(doc, e + 1, Len(doc))
<1>1. Len(doc) \in Nat /\ e \in Int /\ e \in 0..Len(doc)
    BY LenProperties
<1>2. Body(doc) = SubSeq(doc, e + 1, Len(doc))
    BY <1>1, BodyIsTheRest
<1>3. /\ Headings(doc) \in Seq({l \in Line : IsListed(l)})
      /\ InOrder(Headings(doc), doc, e)
    BY <1>1, <1>2, HeadingsInOrder
<1>4. Render(doc) \in Seq(Line)
    BY <1>3, RenderIsATable
<1> QED
    BY <1>2, <1>3, <1>4, RewriteSplices

\* The lines before and after the table.
LEMMA Around ==
    ASSUME NEW doc \in Seq(Line), NEW s \in 1..Len(doc), NEW e \in 1..Len(doc)
    PROVE  /\ SubSeq(doc, 1, s - 1) \in Seq(Line) /\ Len(SubSeq(doc, 1, s - 1)) = s - 1
           /\ \A i \in 1..(s - 1) : SubSeq(doc, 1, s - 1)[i] = doc[i]
           /\ SubSeq(doc, e + 1, Len(doc)) \in Seq(Line)
           /\ Len(SubSeq(doc, e + 1, Len(doc))) = Len(doc) - e
           /\ \A i \in 1..(Len(doc) - e) : SubSeq(doc, e + 1, Len(doc))[i] = doc[e + i]
<1> DEFINE n == Len(doc)
           a == SubSeq(doc, 1, s - 1)
           b == SubSeq(doc, e + 1, n)
<1>1. n \in Nat /\ s \in 1..n /\ e \in 1..n /\ \A i \in 1..n : doc[i] \in Line
    BY LenProperties, ElementOfSeq
<1>2. /\ 1 \in Int /\ s - 1 \in Int /\ \A i \in 1..(s - 1) : doc[i] \in Line
      /\ e + 1 \in Int /\ n \in Int /\ \A i \in (e + 1)..n : doc[i] \in Line
    BY <1>1
<1>3. /\ a \in Seq(Line)
      /\ Len(a) = IF 1 <= s - 1 THEN s - 1 - 1 + 1 ELSE 0
      /\ \A i \in 1..(s - 1 - 1 + 1) : a[i] = doc[1 + i - 1]
    BY <1>2, SubSeqProperties
<1>4. /\ b \in Seq(Line)
      /\ Len(b) = IF e + 1 <= n THEN n - (e + 1) + 1 ELSE 0
      /\ \A i \in 1..(n - (e + 1) + 1) : b[i] = doc[e + 1 + i - 1]
    BY <1>2, SubSeqProperties
<1> HIDE DEF n, a, b
<1>5. Len(a) = s - 1 /\ \A i \in 1..(s - 1) : a[i] = doc[i]
    BY <1>1, <1>3
<1>6. Len(b) = n - e /\ \A i \in 1..(n - e) : b[i] = doc[e + i]
    BY <1>1, <1>4
<1> QED
    BY <1>3, <1>4, <1>5, <1>6 DEF n, a, b

\* A document that is as toc.py would make it lists its headings.
LEMMA CheckedListsItsHeadings ==
    ASSUME NEW doc \in Seq(Line), Proper(doc), Rewrite(doc) = doc
    PROVE  ListsItsHeadings(doc)
<1>0. Len(doc) \in Nat /\ DOMAIN doc = 1..Len(doc)
    BY LenProperties
<1>1. PICK s \in 1..Len(doc), e \in 1..Len(doc) :
        At(doc, START) = {s} /\ At(doc, END) = {e} /\ s < e
    BY <1>0 DEF Proper
<1> DEFINE h == Len(Headings(doc))
           t == Render(doc)
           a == SubSeq(doc, 1, s - 1)
           b == SubSeq(doc, e + 1, Len(doc))
<1>2. /\ Headings(doc) \in Seq({l \in Line : IsListed(l)})
      /\ InOrder(Headings(doc), doc, e)
      /\ doc = (a \o t) \o b
    BY <1>1, Rewritten
<1>3. /\ t \in Seq(Line) /\ Len(t) = h + 2 /\ h \in Nat
      /\ \A c \in 1..h : t[1 + c] = Entry(Headings(doc)[c])
    BY <1>2, RenderIsATable, LenProperties
<1>4. a \in Seq(Line) /\ Len(a) = s - 1 /\ b \in Seq(Line) /\ Len(b) = Len(doc) - e
    BY Around
<1> HIDE DEF a, t, b
<1>5. /\ Len(doc) = Len(a) + Len(t) + Len(b)
      /\ \A i \in 1..Len(t) : doc[Len(a) + i] = t[i]
    <2>1. /\ Len((a \o t) \o b) = Len(a) + Len(t) + Len(b)
          /\ \A i \in 1..Len(t) : ((a \o t) \o b)[Len(a) + i] = t[i]
        <3>1. a \in Seq(Line) /\ t \in Seq(Line) /\ b \in Seq(Line)
            BY <1>3, <1>4
        <3> QED
            BY <3>1, Splicing, Zenon
    <2> QED
        BY <1>2, <2>1, Zenon
<1> HIDE DEF h
<1>6. h = e - s - 1
    <2>1. Len(doc) = (s - 1) + (h + 2) + (Len(doc) - e)
        BY <1>3, <1>4, <1>5, Zenon
    <2>2. h \in Nat
        BY <1>3
    <2> QED
        BY <1>0, <2>1, <2>2
<1>7. Cardinality(Wanted(doc, e)) = e - s - 1
    BY <1>2, <1>6 DEF InOrder, h
<1>8. ASSUME NEW i \in Wanted(doc, e)
      PROVE  doc[s + Cardinality(UpTo(doc, e, i))] = Entry(doc[i])
    <2> DEFINE c == Cardinality(UpTo(doc, e, i))
    <2>1. c \in 1..h
        <3>1. i \in Nat /\ Len(doc) \in Nat /\ e \in Nat /\ i \in UpTo(doc, e, Len(doc))
            BY <1>0 DEF UpTo, Wanted
        <3>2. UpTo(doc, e, Len(doc)) = Wanted(doc, e)
            BY <1>0 DEF UpTo, Wanted
        <3> QED
            BY <1>6, <1>7, <3>1, <3>2, Ranking
    <2>2. Headings(doc)[c] = doc[i]
        BY <1>2, Zenon DEF InOrder
    <2> HIDE DEF c
    <2>3. 1 + c \in 1..Len(t) /\ Len(a) + (1 + c) = s + c
        BY <1>3, <1>4, <2>1
    <2>4. doc[s + c] = t[1 + c]
        BY <1>5, <2>3, Zenon
    <2> QED
        BY <1>3, <2>1, <2>2, <2>4, Zenon DEF c
<1>9. ASSUME NEW i \in Wanted(doc, e)
      PROVE  doc[s + Cardinality({j \in Wanted(doc, e) : j <= i})] = Entry(doc[i])
    BY <1>8, Zenon DEF UpTo
<1> QED
    BY <1>1, <1>7, <1>9, Zenon DEF ListsItsHeadings, Wanted

\* `make toc` puts right any document with its markers in place, and leaves
\* everything but the table alone.
THEOREM TocIsMended ==
    ASSUME NEW doc \in Seq(Line), Proper(doc)
    PROVE  Mended(doc)
<1>0. Len(doc) \in Nat /\ DOMAIN doc = 1..Len(doc)
    BY LenProperties
<1>1. PICK s \in 1..Len(doc), e \in 1..Len(doc) :
        At(doc, START) = {s} /\ At(doc, END) = {e} /\ s < e
    BY <1>0 DEF Proper
<1> DEFINE h == Len(Headings(doc))
           t == Render(doc)
           a == SubSeq(doc, 1, s - 1)
           b == SubSeq(doc, e + 1, Len(doc))
           m == Rewrite(doc)
           n == Len(doc)
           f == s + h + 1
           k == n - e
<1>2. /\ Headings(doc) \in Seq({l \in Line : IsListed(l)})
      /\ Body(doc) = b
      /\ m = (a \o t) \o b
    BY <1>1, Rewritten
<1>3. /\ t \in Seq(Line) /\ Len(t) = h + 2 /\ h \in Nat /\ t[1] = START /\ t[h + 2] = END
      /\ \A c \in 1..h : t[1 + c] = Entry(Headings(doc)[c])
    BY <1>2, RenderIsATable, LenProperties
<1>4. /\ a \in Seq(Line) /\ Len(a) = s - 1 /\ \A i \in 1..(s - 1) : a[i] = doc[i]
      /\ b \in Seq(Line) /\ Len(b) = k /\ \A i \in 1..k : b[i] = doc[e + i]
    BY Around
<1> HIDE DEF a, t, b, m, h
<1>5. /\ m \in Seq(Line)
      /\ Len(m) = Len(a) + Len(t) + Len(b)
      /\ \A i \in 1..Len(a) : m[i] = a[i]
      /\ \A i \in 1..Len(t) : m[Len(a) + i] = t[i]
      /\ \A i \in 1..Len(b) : m[Len(a) + Len(t) + i] = b[i]
    <2>1. a \in Seq(Line) /\ t \in Seq(Line) /\ b \in Seq(Line)
        BY <1>3, <1>4
    <2>2. /\ (a \o t) \o b \in Seq(Line)
          /\ Len((a \o t) \o b) = Len(a) + Len(t) + Len(b)
          /\ \A i \in 1..Len(a) : ((a \o t) \o b)[i] = a[i]
          /\ \A i \in 1..Len(t) : ((a \o t) \o b)[Len(a) + i] = t[i]
          /\ \A i \in 1..Len(b) : ((a \o t) \o b)[Len(a) + Len(t) + i] = b[i]
        BY <2>1, Splicing, Zenon
    <2> QED
        BY <1>2, <2>2, Zenon
<1> HIDE DEF n, f, k
<1>6. n \in Nat /\ s \in 1..n /\ e \in 1..n /\ h \in Nat /\ k \in Nat /\ f = s + h + 1
    BY <1>0, <1>3 DEF n, k, f
\* m, line by line
<1>7. /\ Len(m) = f + k
      /\ \A i \in 1..(s - 1) : m[i] = doc[i]
      /\ m[s] = START
      /\ \A c \in 1..h : m[s + c] = Entry(Headings(doc)[c])
      /\ m[f] = END
      /\ \A i \in 1..k : m[f + i] = doc[e + i]
    <2>1. /\ Len(m) = (s - 1) + (h + 2) + k
          /\ \A i \in 1..(s - 1) : m[i] = a[i]
          /\ \A i \in 1..(h + 2) : m[(s - 1) + i] = t[i]
          /\ \A i \in 1..k : m[(s - 1) + (h + 2) + i] = b[i]
        BY <1>3, <1>4, <1>5, Zenon
    <2>2. (s - 1) + (h + 2) = f /\ (s - 1) + 1 = s /\ 1 \in 1..(h + 2) /\ h + 2 \in 1..(h + 2)
        BY <1>6
    <2>3. m[s] = START /\ m[f] = END
        BY <1>3, <2>1, <2>2, Zenon
    <2>4. ASSUME NEW c \in 1..h PROVE m[s + c] = Entry(Headings(doc)[c])
        <3>1. 1 + c \in 1..(h + 2) /\ (s - 1) + (1 + c) = s + c
            BY <1>6
        <3> QED
            BY <1>3, <2>1, <3>1, Zenon
    <2>5. Len(m) = f + k /\ \A i \in 1..k : m[f + i] = b[i]
        BY <2>1, <2>2, Zenon
    <2>6. \A i \in 1..k : m[f + i] = doc[e + i]
        BY <1>4, <2>5, Zenon
    <2>7. \A i \in 1..(s - 1) : m[i] = doc[i]
        BY <1>4, <2>1, Zenon
    <2> QED
        BY <2>3, <2>4, <2>5, <2>6, <2>7
<1>8. DOMAIN m = 1..(f + k) /\ s \in 1..(f + k) /\ f \in 1..(f + k) /\ s < f
    <2>1. DOMAIN m = 1..Len(m)
        BY <1>5, LenProperties
    <2>2. s \in 1..(f + k) /\ f \in 1..(f + k) /\ s < f
        BY <1>6
    <2> QED
        BY <1>7, <2>1, <2>2, Zenon
<1>9. ASSUME NEW i \in 1..(f + k)
      PROVE  (m[i] = START <=> i = s) /\ (m[i] = END <=> i = f)
    <2>0. START # END /\ \A l : Entry(l) # START /\ Entry(l) # END
        BY DEF START, END, Entry
    <2>1. ASSUME NEW j \in 1..n, j < s \/ j > e PROVE doc[j] # START /\ doc[j] # END
        BY <1>0, <1>1, <2>1 DEF At, n
    <2>2. CASE i < s
        <3>1. i \in 1..(s - 1) /\ i \in 1..n /\ i # s /\ i # f
            BY <1>6, <2>2
        <3> QED
            BY <1>7, <2>1, <2>2, <3>1, Zenon
    <2>3. CASE i = s
        BY <1>7, <1>8, <2>0, <2>3
    <2>4. CASE s < i /\ i < f
        <3> DEFINE c == i - s
        <3>1. c \in 1..h /\ s + c = i /\ i # s /\ i # f
            BY <1>6, <2>4
        <3> HIDE DEF c
        <3>2. m[i] = Entry(Headings(doc)[c])
            BY <1>7, <3>1, Zenon
        <3> QED
            BY <2>0, <3>1, <3>2, Zenon
    <2>5. CASE i = f
        BY <1>7, <1>8, <2>0, <2>5
    <2>6. CASE f < i
        <3> DEFINE c == i - f
        <3>1. c \in 1..k /\ f + c = i /\ e + c \in 1..n /\ e + c > e /\ i # s /\ i # f
            BY <1>6, <2>6 DEF k
        <3> HIDE DEF c
        <3>2. m[i] = doc[e + c]
            BY <1>7, <3>1, Zenon
        <3> QED
            BY <2>1, <3>1, <3>2, Zenon
    <2> QED
        BY <1>6, <2>2, <2>3, <2>4, <2>5, <2>6
<1>10. At(m, START) = {s} /\ At(m, END) = {f}
    <2>1. \A i \in DOMAIN m : (m[i] = START <=> i = s) /\ (m[i] = END <=> i = f)
        BY <1>8, <1>9, Zenon
    <2> QED
        BY <1>8, <2>1 DEF At
<1>11. SubSeq(m, 1, s - 1) = a /\ SubSeq(m, f + 1, Len(m)) = b
    <2>1. s \in 1..Len(m) /\ f \in 1..Len(m)
        BY <1>7, <1>8, Zenon
    <2> DEFINE x == SubSeq(m, 1, s - 1)
               y == SubSeq(m, f + 1, Len(m))
    <2>2. /\ x \in Seq(Line) /\ Len(x) = s - 1 /\ \A i \in 1..(s - 1) : x[i] = m[i]
          /\ y \in Seq(Line) /\ Len(y) = Len(m) - f /\ \A i \in 1..(Len(m) - f) : y[i] = m[f + i]
        BY <1>5, <2>1, Around
    <2> HIDE DEF x, y
    <2>3. Len(m) - f = k
        BY <1>6, <1>7
    <2>4. Len(x) = Len(a) /\ \A i \in 1..Len(x) : x[i] = a[i]
        BY <1>4, <1>7, <2>2, Zenon
    <2>5. Len(y) = k /\ \A i \in 1..k : y[i] = m[f + i]
        BY <2>2, <2>3, Zenon
    <2>6. Len(y) = Len(b) /\ \A i \in 1..Len(y) : y[i] = b[i]
        BY <1>4, <1>7, <2>5, Zenon
    <2> QED
        BY <1>4, <2>2, <2>4, <2>6, SeqEqual, Zenon DEF x, y
<1>12. /\ Body(m) = b
       /\ Rewrite(m) = (a \o Render(m)) \o b
    <2>1. s \in 1..Len(m) /\ f \in 1..Len(m)
        BY <1>7, <1>8, Zenon
    <2>2. /\ Body(m) = SubSeq(m, f + 1, Len(m))
          /\ Rewrite(m) = (SubSeq(m, 1, s - 1) \o Render(m)) \o SubSeq(m, f + 1, Len(m))
        BY <1>5, <1>8, <1>10, <2>1, Rewritten
    <2> QED
        BY <1>11, <2>2, Zenon
<1>13. Render(m) = t
    <2>1. Headings(m) = Headings(doc)
        BY <1>2, <1>12, Zenon DEF Headings
    <2> QED
        BY <2>1, Zenon DEF Render, t
<1>14. Rewrite(m) = m
    BY <1>2, <1>12, <1>13, Zenon
<1>15. Check(m) /\ Proper(m)
    BY <1>8, <1>10, <1>14 DEF Check, HasMarkers, Proper
<1>16. ListsItsHeadings(m)
    BY <1>5, <1>14, <1>15, CheckedListsItsHeadings
<1>17. Outside(m) = Outside(doc)
    <2>1. (CHOOSE i \in {s} : TRUE) = s
        OBVIOUS
    <2>2. Outside(m) = SubSeq(m, 1, s - 1) \o Body(m)
        BY <1>10, <2>1, Zenon DEF Outside
    <2>3. Outside(doc) = SubSeq(doc, 1, s - 1) \o Body(doc)
        BY <1>1, <2>1, Zenon DEF Outside
    <2> QED
        BY <1>2, <1>11, <1>12, <2>2, <2>3, Zenon DEF a
<1> QED
    BY <1>15, <1>16, <1>17 DEF Mended, m

-----------------------------------------------------------------------------
(* The table of contents of what is released                               *)

\* Only the check of the README lets a tree pass CI, whoever edits meanwhile.
LEMMA CheckedInv == CheckedInCI /\ [Next]_vars => CheckedInCI'
<1> SUFFICES ASSUME CheckedInCI, [Next]_vars, NEW t \in Trees, <<"ci", t>> \in passed'
             PROVE  Check(ReadmeOf[t])
    BY DEF CheckedInCI
<1>1. CASE <<"ci", t>> \in passed
    BY <1>1 DEF CheckedInCI
<1>2. CASE <<"ci", t>> \notin passed
    <2>1. PICK r \in Releasers : Test(r, "ci", "slow") \/ Test(r, "slow", "build") \/ Smoke(r)
        BY <1>2
        DEF Next, Edit, Merge, Pull, Release, Start, Stop, CheckGit, CheckRegistry,
            CheckUnanswered, Build, Ask, Push, PushLatest, Verify, vars
    <2>2. CASE Test(r, "ci", "slow")
        <3>1. <<"ci", t>> = <<"ci", work[r]>>
            BY <1>2, <2>2 DEF Test
        <3>2. t = work[r]
            BY <3>1
        <3> QED
            BY <2>2, <3>2 DEF Test
    <2>3. CASE Test(r, "slow", "build") \/ Smoke(r)
        BY <1>2, <2>3 DEF Test, Smoke
    <2> QED
        BY <2>1, <2>2, <2>3
<1> QED
    BY <1>1, <1>2

\* What is published lists its headings, if its README has the markers in place
\* and nobody edits what is being released ("a heading change fails the build").
THEOREM PublishedReadmesAreRight ==
    ASSUME ~Edits
    PROVE  Spec => []PublishedListsItsHeadings
<1>1. Init => CheckedInCI
    BY DEF Init, CheckedInCI
<1>2. IInv /\ CheckedInCI => PublishedListsItsHeadings
    <2> SUFFICES ASSUME IInv, CheckedInCI, NEW v \in Versions,
                        registry[v] # None, Proper(ReadmeOf[registry[v]])
                 PROVE  ListsItsHeadings(ReadmeOf[registry[v]])
        BY DEF PublishedListsItsHeadings
    <2>1. registry[v] \in Trees
        BY DEF IInv, TypeOK
    <2>2. <<"ci", registry[v]>> \in passed
        BY DEF IInv, PublishedPassedEveryGate, Gates
    <2>3. Check(ReadmeOf[registry[v]])
        BY <2>1, <2>2 DEF CheckedInCI
    <2>4. ReadmeOf[registry[v]] \in Seq(Line)
        BY <2>1, EveryTreeHasAReadme
    <2> QED
        BY <2>3, <2>4, CheckedListsItsHeadings DEF Check
<1> QED
    BY <1>1, <1>2, Invariance, CheckedInv, PTL DEF Spec

\* A release stopped by its table of contents is mended by `make toc`, whatever
\* the README: the check passes then, the table is right, and nothing but the
\* table has changed.
THEOREM ReleaseCanBeMended == Spec => []MakeTocMends
<1>1. MakeTocMends
    BY EveryTreeHasAReadme, TocIsMended DEF MakeTocMends, MendedByMakeToc
<1> QED
    BY <1>1, PTL

=============================================================================
