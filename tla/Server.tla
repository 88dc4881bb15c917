------------------------------- MODULE Server -------------------------------
(***************************************************************************)
(* One run of the server process, from its environment to its readiness    *)
(* probe: Settings.from_env, the lifespan hook with Engine.create, and     *)
(* GET /ready with Engine.status, while requests load further checkpoints  *)
(* and worker threads move a checkpoint to the cpu when a device is short  *)
(* of memory; and what the HEALTHCHECK of the Dockerfile makes of the      *)
(* answers, with the start period over at any time.                        *)
(*                                                                         *)
(* uvicorn opens the socket when the lifespan hook has returned; before,   *)
(* and after the process has exited, a probe is refused a connection.      *)
(***************************************************************************)
EXTENDS Integers, FiniteSets

CONSTANTS
    Checkpoints,   \* config.ALL_CHECKPOINTS
    Names,         \* what may be written in LAYA_SERVER_PRELOAD
    Blank,         \* an entry with no name in it: "", " "
    Environments,  \* the settings the process may find
    Configured,    \* Settings.device, or the device Laya prefers
    Cpu,           \* the device Laya falls back to
    Mixed,         \* "mixed"
    Hidden,        \* the detail is withheld
    Nobody,        \* no checkpoint
    Retries        \* HEALTHCHECK --retries

Devices == {Configured, Cpu}

ASSUME CheckpointsExist == Checkpoints # {} /\ Checkpoints \subseteq Names
ASSUME BlankIsNoName    == Blank \notin Names
ASSUME NobodyIsNone     == Nobody \notin Checkpoints
ASSUME DevicesDiffer    == Configured # Cpu /\ {Mixed, Hidden} \cap Devices = {} /\ Mixed # Hidden
ASSUME RetriesArePositive == Retries \in Nat \ {0}
\* preload is what stands between the commas of the value, whose order matters
\* only for which of two bad names is met first; integers, whether the two
\* numbers are numbers; key, whether LAYA_SERVER_API_KEY is set.
ASSUME EnvironmentsAreSettings ==
    Environments \subseteq [preload : SUBSET (Names \cup {Blank}), integers : BOOLEAN,
                           key : BOOLEAN]

VARIABLES
    env,       \* os.environ
    phase,     \* where the process is
    todo,      \* names Router.preload has still to load
    resident,  \* Router.loaded, as a set
    device,    \* device[c]: Agent.device of a resident checkpoint
    lent,      \* checkpoints a request has on the cpu for the moment
    building,  \* the checkpoint a request builds, on the event loop
    probe,     \* the status() call of a probe: checkpoints to read, and read
    answer,    \* how the last probe was answered
    grace,     \* the HEALTHCHECK's start period
    health,    \* the container's health status
    strikes,   \* probes that failed since the last that did not, up to Retries
    blame      \* what they failed of

router == <<env, phase, todo, resident, device, lent, building>>
docker == <<grace, health, strikes, blame>>
vars   == <<router, probe, answer, docker>>

Phases == {"import", "preload", "serving", "failed to import", "failed to start"}
\* downgraded: the checkpoints that were on the cpu for good when it began.
Probes  == [running : BOOLEAN, left : SUBSET Checkpoints, read : SUBSET (Checkpoints \X Devices),
            downgraded : SUBSET Checkpoints]
NoProbe == [running |-> FALSE, left |-> {}, read |-> {}, downgraded |-> {}]
\* "refused" is the connection; "ready" is a 200 and "not ready" a 503.
Answers == {[status |-> s] : s \in {"none", "refused", "timed out"}}
           \cup [status : {"ready", "not ready"}, raised : BOOLEAN,
                 device : Devices \cup {Mixed, Hidden}, downgraded : SUBSET Checkpoints]
NoAnswer == [status |-> "none"]

TypeOK ==
    /\ env \in Environments
    /\ phase \in Phases
    /\ todo \subseteq Names
    /\ resident \subseteq Checkpoints
    /\ device \in [Checkpoints -> Devices]
    /\ lent \subseteq resident
    /\ building \in Checkpoints \cup {Nobody}
    /\ probe \in Probes
    /\ answer \in Answers
    /\ grace \in BOOLEAN
    /\ health \in {"starting", "healthy", "unhealthy"}
    /\ strikes \in 0..Retries
    /\ blame \subseteq {"refused", "raised", "nothing loaded", "timed out"}

-----------------------------------------------------------------------------
(* Startup                                                                 *)

Init ==
    /\ env \in Environments
    /\ phase = "import"
    /\ todo = {}
    /\ resident = {}
    /\ device = [c \in Checkpoints |-> Configured]
    /\ lent = {}
    /\ building = Nobody
    /\ probe = NoProbe
    /\ answer = NoAnswer
    /\ grace = TRUE
    /\ health = "starting"
    /\ strikes = 0
    /\ blame = {}

Named(entries) == entries \ {Blank}

\* Slips: a list with no names stays one; and blanks are names.
PreloadAsWritten(entries) == Named(entries)
PreloadUntrimmed(entries) == entries
\* Settings.preload: no names at all means every checkpoint.
Preload(entries) == IF Named(entries) = {} THEN Checkpoints ELSE Named(entries)

\* create_app runs when the module is imported: a setting that is not a number
\* raises there.
Import ==
    /\ phase = "import"
    /\ \/ /\ env.integers
          /\ phase' = "preload"
          /\ todo' = Preload(env.preload)
       \/ /\ ~env.integers
          /\ phase' = "failed to import"
          /\ UNCHANGED todo
    /\ UNCHANGED <<env, resident, device, lent, building, probe, answer, docker>>

\* A checkpoint is built: on the device asked for or, silently, on the cpu.
Place(c) ==
    /\ resident' = resident \cup {c}
    /\ \E d \in Devices : device' = [device EXCEPT ![c] = d]

\* A slip: a checkpoint that cannot be built is tried again.
RetryPreload ==
    /\ phase = "preload" /\ todo # {}
    /\ UNCHANGED vars
\* Router.preload: a name it does not know, no network, no memory.
PreloadFails ==
    /\ phase = "preload" /\ todo # {}
    /\ phase' = "failed to start"
    /\ UNCHANGED <<env, todo, resident, device, lent, building, probe, answer, docker>>

\* Router.preload: one more checkpoint.
PreloadNext ==
    /\ phase = "preload"
    /\ \E c \in todo \cap Checkpoints : todo' = todo \ {c} /\ Place(c)
    /\ UNCHANGED <<env, phase, lent, building, probe, answer, docker>>

\* A slip: preloading goes on in the background.
PreloadStarted   == phase = "preload"
\* Engine.create returns.
PreloadCompleted == phase = "preload" /\ todo = {}

\* The lifespan hook yields and uvicorn opens the socket.
Serve ==
    /\ PreloadCompleted
    /\ phase' = "serving"
    /\ UNCHANGED <<env, todo, resident, device, lent, building, probe, answer, docker>>

-----------------------------------------------------------------------------
(* What requests do to the checkpoints.  Router.load runs on the event     *)
(* loop, which a probe has for itself from status() to its answer; forward *)
(* passes run on threads.                                                  *)

\* Router.load of a checkpoint that is not there builds it.
BuildStarts(c) ==
    /\ phase = "serving" /\ ~probe.running /\ building = Nobody
    /\ c \notin resident
    /\ building' = c
    /\ UNCHANGED <<env, phase, todo, resident, device, lent, probe, answer, docker>>

BuildEnds(c) ==
    /\ building = c
    /\ building' = Nobody
    /\ Place(c)
    /\ UNCHANGED <<env, phase, todo, lent, probe, answer, docker>>

BuildFails(c) ==
    /\ building = c
    /\ building' = Nobody
    /\ UNCHANGED <<env, phase, todo, resident, device, lent, probe, answer, docker>>

\* Out of memory in a forward pass: this one request moves to the cpu.
FallBack(c) ==
    /\ phase = "serving"
    /\ c \in resident /\ device[c] # Cpu
    /\ device' = [device EXCEPT ![c] = Cpu]
    /\ lent' = lent \cup {c}
    /\ UNCHANGED <<env, phase, todo, resident, building, probe, answer, docker>>

\* The device is restored afterwards; when that fails the cpu it is.
GoBack(c) ==
    /\ c \in lent
    /\ lent' = lent \ {c}
    /\ \/ device' = [device EXCEPT ![c] = Configured]
       \/ UNCHANGED device
    /\ UNCHANGED <<env, phase, todo, resident, building, probe, answer, docker>>

-----------------------------------------------------------------------------
(* GET /ready, and the HEALTHCHECK that counts how it is answered: one     *)
(* success makes the container healthy; failures in a row make it          *)
(* unhealthy, but until the first success not those of the start period.   *)

Forgiven == grace /\ health = "starting"

Strike(cause) ==
    IF Forgiven THEN UNCHANGED docker
    ELSE /\ strikes' = IF strikes < Retries THEN strikes + 1 ELSE strikes
         /\ health' = IF strikes + 1 >= Retries THEN "unhealthy" ELSE health
         /\ blame' = blame \cup {cause}
         /\ UNCHANGED grace

Pass ==
    /\ health' = "healthy" /\ strikes' = 0 /\ blame' = {}
    /\ UNCHANGED grace

StartPeriodEnds ==
    /\ grace
    /\ grace' = FALSE
    /\ UNCHANGED <<router, probe, answer, health, strikes, blame>>

Downgraded(c) == c \in resident /\ c \notin lent /\ device[c] # Configured

ConnectionRefused ==
    /\ phase # "serving"
    /\ answer' = [status |-> "refused"]
    /\ Strike("refused")
    /\ UNCHANGED <<router, probe>>

\* A build occupies the event loop for longer than the HEALTHCHECK waits.
TimesOut ==
    /\ building # Nobody
    /\ answer' = [status |-> "timed out"]
    /\ Strike("timed out")
    /\ UNCHANGED <<router, probe>>

\* ready() calls Engine.status.
StatusStarts ==
    /\ phase = "serving" /\ ~probe.running /\ building = Nobody
    /\ probe' = [running |-> TRUE, left |-> resident, read |-> {},
                 downgraded |-> {c \in Checkpoints : Downgraded(c)}]
    /\ UNCHANGED <<router, answer, docker>>

\* Agent.device of one checkpoint, while threads may be changing others.
ReadDevice ==
    /\ probe.running
    /\ \E c \in probe.left :
           probe' = [probe EXCEPT !.left = @ \ {c}, !.read = @ \cup {<<c, device[c]>>}]
    /\ UNCHANGED <<router, answer, docker>>

Distinct == {reading[2] : reading \in probe.read}

\* A slip: one checkpoint's device stands for all of them.
SummaryOfOne == IF Distinct = {} THEN Configured ELSE CHOOSE d \in Distinct : TRUE
\* Engine.status: the device they agree on, or that they do not.
Summary ==
    IF Distinct = {} THEN Configured
    ELSE IF \E d \in Distinct : Distinct = {d} THEN CHOOSE d \in Distinct : TRUE
    ELSE Mixed

\* The answer has what status() found, if no key is set and status() returned.
Reply(status, raised) ==
    /\ probe' = NoProbe
    /\ answer' = [status |-> status, raised |-> raised,
                  device |-> IF env.key \/ raised THEN Hidden ELSE Summary,
                  downgraded |-> probe.downgraded]
    /\ IF status = "ready" THEN Pass
       ELSE Strike(IF raised THEN "raised" ELSE "nothing loaded")
    /\ UNCHANGED router

\* A slip: every checkpoint there is has to be loaded.
ReadyWithAll  == \A c \in Checkpoints : \E reading \in probe.read : reading[1] = c
\* ready(): one that is resident will do.
ReadyWithSome == probe.read # {}

\* ready() answers with what status() found, ...
StatusReturns ==
    /\ probe.running /\ probe.left = {}
    /\ Reply(IF ReadyWithSome THEN "ready" ELSE "not ready", FALSE)

\* ... or that it failed.
StatusRaises == probe.running /\ Reply("not ready", TRUE)

-----------------------------------------------------------------------------

Startup == Import \/ PreloadNext \/ PreloadFails \/ Serve

Probing == ConnectionRefused \/ TimesOut \/ StatusStarts \/ ReadDevice
           \/ StatusReturns \/ StatusRaises

Request(c) == BuildStarts(c) \/ BuildEnds(c) \/ BuildFails(c) \/ FallBack(c) \/ GoBack(c)

Next == Startup \/ StartPeriodEnds \/ Probing \/ \E c \in Checkpoints : Request(c)

Spec == Init /\ [][Next]_vars

\* The process runs, a download ends, one way or the other; the HEALTHCHECK is
\* made at its interval, and its start period is over some time.
FairSpec ==
    Spec /\ WF_vars(Startup) /\ WF_vars(Probing) /\ WF_vars(StartPeriodEnds)

-----------------------------------------------------------------------------
(* Properties                                                              *)

\* The socket opens on a server that has every checkpoint it was told to
\* preload, and one at least: no request of a client falls into Router.load's
\* build path for one of them (Engine.create, lifespan).
OpensWithCheckpoints ==
    phase = "serving" =>
        resident # {} /\ Named(env.preload) \subseteq resident

\* From the first probe on, the server is ready unless status() itself fails:
\* an orchestrator never waits for a request it would not send (the comment
\* on an empty LAYA_SERVER_PRELOAD in config.py).
ReadyOnceOpen == answer.status = "not ready" => answer.raised

\* A downgrade that is there to stay is never hidden behind the device that was
\* configured, however the threads move others meanwhile (Engine.status).
DowngradeIsShown ==
    answer.status = "ready" /\ answer.downgraded # {} => answer.device # Configured

\* Every checkpoint is preloaded: all are named, or none is.
Full == Named(env.preload) = {} \/ Checkpoints \subseteq Named(env.preload)

\* "A container busy on a forward pass still answers": with everything preloaded
\* no request, whatever it is for, costs a container its health (Dockerfile,
\* Engine.create, ready()).
BusyStaysHealthy ==
    health = "unhealthy" /\ Full => "timed out" \notin blame

\* Startup ends: the server serves, or the process is gone.
StartupEnds == phase \in {"import", "preload"} ~> phase \notin {"import", "preload"}

StatusFailed == answer.status = "not ready" /\ answer.raised
\* A container that serves becomes healthy without any request having to come
\* first, once status() no longer fails, if it ever did: nobody routes a request
\* to a container before it is ready (the comment on an empty
\* LAYA_SERVER_PRELOAD in config.py).
ServingGetsHealthy ==
    <>[]~StatusFailed => (phase = "serving" /\ Full ~> health = "healthy")

\* Behind those: what is still to preload, what a probe has seen so far, and
\* that what is being built was not preloaded.
IInv ==
    /\ TypeOK
    /\ phase = "preload" => Preload(env.preload) \subseteq resident \cup todo
    /\ phase = "serving" => Preload(env.preload) \subseteq resident
    /\ phase # "serving" => ~probe.running /\ lent = {} /\ building = Nobody
    /\ building # Nobody => building \notin resident /\ ~probe.running
    /\ "timed out" \in blame => ~Full
    /\ probe.running =>
        /\ probe.left \cup {reading[1] : reading \in probe.read} = resident
        /\ \A c \in probe.downgraded :
               Downgraded(c) /\ (c \in probe.left \/ <<c, Cpu>> \in probe.read)
    /\ ReadyOnceOpen
    /\ DowngradeIsShown

\* "The 503 path applies ... if the engine failed to initialise" (README.md).
EngineFailureIs503 ==
    [][phase = "failed to start" /\ answer' # answer => answer'.status = "not ready"]_vars

=============================================================================
