---------------------------- MODULE ServerProofs ----------------------------
(***************************************************************************)
(* Proofs about Server, for every set of checkpoints and of environments.  *)
(***************************************************************************)
EXTENDS Server, TLAPS

\* What is preloaded is named, and is something (Settings.from_env).
LEMMA PreloadIsSomething ==
    ASSUME NEW e \in Environments
    PROVE  /\ Preload(e.preload) # {}
           /\ Preload(e.preload) \subseteq Names
           /\ Named(e.preload) \subseteq Preload(e.preload)
BY CheckpointsExist, BlankIsNoName, EnvironmentsAreSettings DEF Preload, Named

\* The invariant holds before the module is imported.
LEMMA InitInv == Init => IInv
<1> SUFFICES ASSUME Init PROVE IInv
    OBVIOUS
<1>1. TypeOK
    BY RetriesArePositive DEF Init, TypeOK, Phases, Devices, Probes, NoProbe, Answers, NoAnswer
<1> QED
    BY <1>1 DEF Init, IInv, NoProbe, NoAnswer, ReadyOnceOpen, DowngradeIsShown

\* Startup keeps the invariant: nothing is lost between todo and resident.
LEMMA StartupInv == IInv /\ Startup => IInv'
<1> SUFFICES ASSUME IInv, Startup PROVE IInv'
    OBVIOUS
<1>0. TypeOK
    BY DEF IInv
<1>1. CASE Import
    <2>1. TypeOK'
        BY <1>0, <1>1, PreloadIsSomething DEF TypeOK, Import, Phases, docker
    <2> QED
        BY <1>1, <2>1 DEF IInv, Import, docker, Full, ReadyOnceOpen, DowngradeIsShown, Downgraded
<1>2. CASE PreloadNext
    <2>1. PICK c \in todo \cap Checkpoints : todo' = todo \ {c} /\ Place(c)
        BY <1>2 DEF PreloadNext
    <2>2. TypeOK'
        BY <1>0, <1>2, <2>1 DEF TypeOK, PreloadNext, Place, docker
    <2> QED
        BY <1>2, <2>1, <2>2
        DEF IInv, PreloadNext, Place, docker, Full, ReadyOnceOpen, DowngradeIsShown
<1>3. CASE PreloadFails
    <2>1. TypeOK'
        BY <1>0, <1>3 DEF TypeOK, PreloadFails, Phases, docker
    <2> QED
        BY <1>3, <2>1 DEF IInv, PreloadFails, docker, Full, ReadyOnceOpen, DowngradeIsShown
<1>4. CASE Serve
    <2>1. TypeOK'
        BY <1>0, <1>4 DEF TypeOK, Serve, Phases, docker
    <2> QED
        BY <1>4, <2>1
        DEF IInv, Serve, PreloadCompleted, docker, Full, ReadyOnceOpen, DowngradeIsShown
<1> QED
    BY <1>1, <1>2, <1>3, <1>4 DEF Startup

\* Requests keep it: a downgrade that is there to stay does, also while a probe
\* reads the devices one after the other.
LEMMA RequestInv ==
    ASSUME NEW c \in Checkpoints, IInv, Request(c)
    PROVE  IInv'
<1>0. TypeOK
    BY DEF IInv
<1>1. CASE BuildStarts(c)
    <2>1. TypeOK'
        BY <1>0, <1>1 DEF TypeOK, BuildStarts, docker
    <2> QED
        BY <1>1, <2>1, NobodyIsNone
        DEF IInv, BuildStarts, docker, Full, Downgraded, ReadyOnceOpen, DowngradeIsShown
<1>4. CASE BuildEnds(c)
    <2>1. TypeOK'
        BY <1>0, <1>4 DEF TypeOK, BuildEnds, Place, docker
    <2>2. phase = "serving" /\ c \notin resident
        BY <1>4, NobodyIsNone DEF IInv, BuildEnds
    <2> QED
        BY <1>4, <2>1, <2>2, NobodyIsNone
        DEF IInv, BuildEnds, Place, docker, Full, ReadyOnceOpen, DowngradeIsShown
<1>5. CASE BuildFails(c)
    <2>1. TypeOK'
        BY <1>0, <1>5 DEF TypeOK, BuildFails, docker
    <2> QED
        BY <1>5, <2>1
        DEF IInv, BuildFails, docker, Full, Downgraded, ReadyOnceOpen, DowngradeIsShown
<1>2. CASE FallBack(c)
    <2>1. TypeOK'
        BY <1>0, <1>2 DEF TypeOK, FallBack, Devices, docker
    <2>2. \A d \in Checkpoints : Downgraded(d) => Downgraded(d)'
        BY <1>0, <1>2 DEF TypeOK, FallBack, Downgraded, Devices
    <2>3. probe \in Probes
        BY <1>0 DEF TypeOK
    <2> QED
        BY <1>2, <2>1, <2>2, <2>3
        DEF IInv, FallBack, Probes, docker, Full, ReadyOnceOpen, DowngradeIsShown
<1>3. CASE GoBack(c)
    <2>1. TypeOK'
        BY <1>0, <1>3 DEF TypeOK, GoBack, Devices, docker
    <2>2. \A d \in Checkpoints : Downgraded(d) => Downgraded(d)'
        BY <1>0, <1>3 DEF TypeOK, GoBack, Downgraded, Devices
    <2>3. probe \in Probes
        BY <1>0 DEF TypeOK
    <2> QED
        BY <1>3, <2>1, <2>2, <2>3
        DEF IInv, GoBack, Probes, docker, Full, ReadyOnceOpen, DowngradeIsShown
<1> QED
    BY <1>1, <1>2, <1>3, <1>4, <1>5 DEF Request

\* The summary is a device only when every checkpoint was read on it.
LEMMA SummaryIsUnanimous ==
    ASSUME probe \in Probes
    PROVE  /\ Summary \in Devices \cup {Mixed}
           /\ \A c \in Checkpoints : <<c, Cpu>> \in probe.read => Summary # Configured
<1>1. Distinct \subseteq Devices
    BY DEF Distinct, Probes
<1>2. ASSUME NEW c \in Checkpoints, <<c, Cpu>> \in probe.read
      PROVE  Cpu \in Distinct
    BY <1>2 DEF Distinct
<1>3. Summary \in Devices \cup {Mixed}
    BY <1>1 DEF Summary, Devices
<1>4. Cpu \in Distinct => Summary # Configured
    BY <1>1, DevicesDiffer DEF Summary, Devices
<1> QED
    BY <1>2, <1>3, <1>4

\* What the HEALTHCHECK keeps of a probe.
DockerTypes ==
    /\ grace \in BOOLEAN
    /\ health \in {"starting", "healthy", "unhealthy"}
    /\ strikes \in 0..Retries
    /\ blame \subseteq {"refused", "raised", "nothing loaded", "timed out"}

LEMMA CountingStops ==
    ASSUME NEW limit \in Nat \ {0}, NEW n \in 0..limit
    PROVE  (IF n < limit THEN n + 1 ELSE n) \in 0..limit
OBVIOUS

LEMMA StrikeCounts ==
    ASSUME DockerTypes, NEW cause \in {"refused", "raised", "nothing loaded", "timed out"},
           Strike(cause)
    PROVE  DockerTypes' /\ blame' \subseteq blame \cup {cause}
<1>1. CASE Forgiven
    BY <1>1 DEF Strike, docker, DockerTypes
<1>2. CASE ~Forgiven
    <2>1. /\ strikes' = IF strikes < Retries THEN strikes + 1 ELSE strikes
          /\ health' = IF strikes + 1 >= Retries THEN "unhealthy" ELSE health
          /\ blame' = blame \cup {cause} /\ grace' = grace
        BY <1>2, Zenon DEF Strike
    <2>2. strikes' = IF strikes < Retries THEN strikes + 1 ELSE strikes
        BY <2>1, Zenon
    <2>3. strikes \in 0..Retries
        BY DEF DockerTypes
    <2>4. strikes' \in 0..Retries
        BY <2>2, <2>3, CountingStops, RetriesArePositive, Zenon
    <2>5. health' \in {"starting", "healthy", "unhealthy"}
        <3>1. CASE strikes + 1 >= Retries
            BY <2>1, <3>1, Zenon
        <3>2. CASE ~(strikes + 1 >= Retries)
            BY <2>1, <3>2, Zenon DEF DockerTypes
        <3> QED
            BY <3>1, <3>2, Zenon
    <2>6. blame' = blame \cup {cause} /\ grace' = grace
        BY <2>1, Zenon
    <2> QED
        BY <2>4, <2>5, <2>6 DEF DockerTypes
<1> QED
    BY <1>1, <1>2

LEMMA PassForgets ==
    ASSUME DockerTypes, Pass
    PROVE  DockerTypes' /\ blame' = {}
<1>1. health' = "healthy" /\ strikes' = 0 /\ blame' = {} /\ grace' = grace
    BY DEF Pass
<1>2. 0 \in 0..Retries
    BY RetriesArePositive
<1>3. strikes' \in 0..Retries
    BY <1>1, <1>2
<1> QED
    BY <1>1, <1>3 DEF DockerTypes

\* Probes keep the invariant.
LEMMA ProbingInv == IInv /\ Probing => IInv'
<1> SUFFICES ASSUME IInv, Probing PROVE IInv'
    OBVIOUS
<1>0. TypeOK /\ probe \in Probes /\ DockerTypes
    BY DEF IInv, TypeOK, DockerTypes
<1>1. ASSUME NEW cause \in {"refused", "timed out"}, answer' = [status |-> cause],
             Strike(cause), UNCHANGED <<router, probe>>, cause = "timed out" => building # Nobody
      PROVE  IInv'
    <2>1. DockerTypes' /\ blame' \subseteq blame \cup {cause}
        BY <1>0, <1>1, StrikeCounts
    <2>2. TypeOK'
        BY <1>0, <1>1, <2>1 DEF TypeOK, router, Answers, DockerTypes
    <2>3. "timed out" \in blame' => ~Full'
        <3>1. building # Nobody => ~Full
            BY <1>0, PreloadIsSomething DEF IInv, TypeOK, Full, Preload
        <3>2. Full' = Full
            BY <1>1 DEF router, Full
        <3> QED
            BY <1>1, <2>1, <3>1, <3>2 DEF IInv
    <2> QED
        BY <1>1, <2>2, <2>3
        DEF IInv, router, ReadyOnceOpen, DowngradeIsShown, Downgraded
<1>2. CASE StatusStarts
    <2>1. probe' \in Probes
        BY <1>0, <1>2 DEF TypeOK, StatusStarts, Probes
    <2>2. TypeOK'
        BY <1>0, <1>2, <2>1 DEF TypeOK, StatusStarts, router, docker
    <2>3. /\ probe'.left = resident /\ probe'.read = {}
          /\ probe'.downgraded = {c \in Checkpoints : Downgraded(c)}
        BY <1>2 DEF StatusStarts
    <2> QED
        BY <1>2, <2>2, <2>3
        DEF IInv, StatusStarts, router, docker, Full, ReadyOnceOpen, DowngradeIsShown, Downgraded
<1>3. CASE ReadDevice
    <2>1. PICK c \in probe.left :
              probe' = [probe EXCEPT !.left = @ \ {c}, !.read = @ \cup {<<c, device[c]>>}]
        BY <1>3 DEF ReadDevice
    <2>2. /\ probe'.left = probe.left \ {c}
          /\ probe'.read = probe.read \cup {<<c, device[c]>>}
          /\ probe'.downgraded = probe.downgraded
          /\ probe'.running = probe.running
        BY <1>0, <2>1 DEF Probes
    <2>3. probe' \in Probes
        <3>1. <<c, device[c]>> \in Checkpoints \X Devices
            BY <1>0, <2>1 DEF TypeOK, Probes
        <3>2. probe.read \cup {<<c, device[c]>>} \in SUBSET (Checkpoints \X Devices)
            BY <1>0, <3>1 DEF Probes
        <3>3. probe.left \ {c} \in SUBSET Checkpoints
            BY <1>0 DEF Probes
        <3> QED
            BY <1>0, <2>1, <3>2, <3>3 DEF Probes
    <2>4. TypeOK'
        BY <1>0, <1>3, <2>3 DEF TypeOK, ReadDevice, router, docker
    <2>5. probe'.left \cup {reading[1] : reading \in probe'.read} = resident
        <3> DEFINE new == <<c, device[c]>>
        <3>0. new[1] = c /\ probe'.read = probe.read \cup {new}
            BY <2>2
        <3> HIDE DEF new
        <3>1. {reading[1] : reading \in probe'.read}
                  = {reading[1] : reading \in probe.read} \cup {c}
            BY <3>0
        <3> QED
            BY <1>3, <2>1, <2>2, <3>1 DEF IInv, ReadDevice
    <2>6. \A d \in probe.downgraded : d = c => device[c] = Cpu
        BY <1>0, <1>3 DEF IInv, ReadDevice, Downgraded, TypeOK, Devices
    <2>7. \A d \in probe'.downgraded :
              Downgraded(d)' /\ (d \in probe'.left \/ <<d, Cpu>> \in probe'.read)
        <3>1. \A d \in probe.downgraded :
                  Downgraded(d) /\ (d \in probe.left \/ <<d, Cpu>> \in probe.read)
            BY <1>3 DEF IInv, ReadDevice
        <3>2. \A d \in probe.downgraded : Downgraded(d)'
            BY <1>3, <3>1 DEF ReadDevice, router, Downgraded
        <3> QED
            BY <2>2, <2>6, <3>1, <3>2
    <2> QED
        BY <1>3, <2>2, <2>4, <2>5, <2>7
        DEF IInv, ReadDevice, router, docker, Full, ReadyOnceOpen, DowngradeIsShown
<1>4. ASSUME NEW status \in {"ready", "not ready"}, NEW raised \in BOOLEAN,
             probe.running, Reply(status, raised),
             status = "not ready" => raised,
             status = "ready" => probe.left = {}
      PROVE  IInv'
    <2>1. /\ answer'.status = status /\ answer'.raised = raised
          /\ answer'.device \in {Hidden, Summary} /\ answer'.downgraded = probe.downgraded
          /\ probe' = NoProbe
        BY <1>4 DEF Reply
    <2>2. answer' \in Answers
        BY <1>0, <1>4, SummaryIsUnanimous DEF Reply, Answers, Probes
    <2>d. DockerTypes' /\ blame' \subseteq blame \cup {"raised", "nothing loaded"}
        <3>1. CASE Pass
            BY <1>0, <3>1, PassForgets
        <3>2. ASSUME NEW cause \in {"raised", "nothing loaded"}, Strike(cause)
              PROVE  DockerTypes' /\ blame' \subseteq blame \cup {"raised", "nothing loaded"}
            BY <1>0, <3>2, StrikeCounts
        <3> QED
            BY <1>4, <3>1, <3>2 DEF Reply
    <2>3. TypeOK'
        BY <1>0, <1>4, <2>2, <2>d DEF TypeOK, Reply, router, NoProbe, Probes, DockerTypes
    <2>4. ReadyOnceOpen'
        BY <1>4, <2>1 DEF ReadyOnceOpen
    <2>5. DowngradeIsShown'
        <3> SUFFICES ASSUME answer'.status = "ready", answer'.downgraded # {}
                     PROVE  answer'.device # Configured
            BY DEF DowngradeIsShown
        <3>1. PICK c \in probe.downgraded : TRUE
            BY <2>1
        <3>2. c \in Checkpoints /\ <<c, Cpu>> \in probe.read
            BY <1>0, <1>4, <2>1, <3>1 DEF IInv, Probes
        <3> QED
            BY <1>0, <2>1, <3>2, SummaryIsUnanimous, DevicesDiffer DEF Devices
    <2>6. ~probe'.running /\ UNCHANGED <<env, phase, todo, resident, device, lent, building>>
        <3>1. NoProbe.running = FALSE
            BY DEF NoProbe
        <3>2. ~probe'.running
            BY <2>1, <3>1, Zenon
        <3> QED
            BY <1>4, <3>2 DEF Reply, router
    <2>7. /\ phase' = "preload" => (Preload(env.preload) \subseteq resident \cup todo)'
          /\ phase' = "serving" => (Preload(env.preload) \subseteq resident)'
          /\ phase' # "serving" => ~probe'.running /\ lent' = {} /\ building' = Nobody
          /\ building' # Nobody => building' \notin resident' /\ ~probe'.running
          /\ "timed out" \in blame' => ~Full'
        BY <2>6, <2>d DEF IInv, Full
    <2> QED
        BY <2>3, <2>4, <2>5, <2>6, <2>7 DEF IInv
<1>5. CASE StatusReturns
    <2>1. probe.running /\ probe.left = {}
        BY <1>5 DEF StatusReturns
    <2>2. phase = "serving"
        BY <2>1 DEF IInv
    <2>3. resident # {}
        BY <1>0, <2>2, PreloadIsSomething DEF IInv, TypeOK
    <2>4. probe.read # {}
        BY <2>1, <2>3 DEF IInv
    <2>5. Reply("ready", FALSE)
        BY <1>5, <2>4 DEF StatusReturns, ReadyWithSome
    <2> QED
        BY <1>4, <2>1, <2>5
<1>6. CASE StatusRaises
    BY <1>4, <1>6 DEF StatusRaises
<1> QED
    BY <1>1, <1>2, <1>3, <1>5, <1>6 DEF Probing, ConnectionRefused, TimesOut

\* Every step keeps the invariant.
LEMMA NextInv == IInv /\ [Next]_vars => IInv'
<1> SUFFICES ASSUME IInv, [Next]_vars PROVE IInv'
    OBVIOUS
<1>1. CASE UNCHANGED vars \/ StartPeriodEnds
    <2>1. /\ UNCHANGED <<router, probe, answer, health, strikes, blame>>
          /\ grace' \in {grace, FALSE}
        BY <1>1 DEF vars, docker, StartPeriodEnds
    <2> QED
        BY <2>1 DEF IInv, router, TypeOK, Full, Downgraded, ReadyOnceOpen, DowngradeIsShown
<1> QED
    BY <1>1, StartupInv, RequestInv, ProbingInv DEF Next

\* The invariant holds in every reachable state.
THEOREM Invariance == Spec => []IInv
BY InitInv, NextInv, PTL DEF Spec

\* The socket opens on a server with every checkpoint it was told to preload.
THEOREM Preloads == Spec => []OpensWithCheckpoints
<1>1. IInv => OpensWithCheckpoints
    BY PreloadIsSomething DEF IInv, TypeOK, OpensWithCheckpoints
<1> QED
    BY <1>1, Invariance, PTL

\* From the first probe on the server is ready, unless status() itself fails.
THEOREM ReadyFromTheStart == Spec => []ReadyOnceOpen
<1>1. IInv => ReadyOnceOpen
    BY DEF IInv
<1> QED
    BY <1>1, Invariance, PTL

\* No downgrade that is there to stay hides behind the configured device.
THEOREM DowngradesAreSeen == Spec => []DowngradeIsShown
<1>1. IInv => DowngradeIsShown
    BY DEF IInv
<1> QED
    BY <1>1, Invariance, PTL

\* Every variable keeps its type.
THEOREM TypeCorrect == Spec => []TypeOK
<1>1. IInv => TypeOK
    BY DEF IInv
<1> QED
    BY <1>1, Invariance, PTL

\* With everything preloaded no request costs the container its health.
THEOREM HealthSurvivesRequests == Spec => []BusyStaysHealthy
<1>1. IInv => BusyStaysHealthy
    BY DEF IInv, BusyStaysHealthy
<1> QED
    BY <1>1, Invariance, PTL

=============================================================================
