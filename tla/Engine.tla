------------------------------- MODULE Engine -------------------------------
(***************************************************************************)
(* How concurrent requests share the Laya checkpoints: Engine.predict of   *)
(* src/laya_server/engine.py as it is scheduled by one asyncio event loop  *)
(* and anyio's pool of worker threads, with the Router's set of resident   *)
(* checkpoints and the readiness probe of app.py.                          *)
(*                                                                         *)
(* An action is one uninterrupted stretch of the event loop (from one      *)
(* await to the next) or the end of one job on a worker thread.  What a    *)
(* job computes is left out: its outcome is any the code distinguishes.    *)
(*                                                                         *)
(*   Submit / Reject  the handler calls predict(): checks, then offloads   *)
(*                    Router.route to a thread                             *)
(*   RouteReturns     the decision is in; Router.load(checkpoint) runs     *)
(*                    here, on the event loop: a lookup when the agent is  *)
(*                    resident, else a build that occupies the loop        *)
(*   BuildReturns     that build ends                                      *)
(*   TurnAway / Admit validate_budget is back: the depth check, then       *)
(*                    the lock or the line for the lock                    *)
(*   AcquireLock      the first waiter gets the released lock              *)
(*   InferReturns     the forward pass is back: lock and slot released     *)
(***************************************************************************)
EXTENDS Integers, Sequences, FiniteSets

CONSTANTS
    Requests,       \* request slots; a slot is reused once answered
    Checkpoints,    \* config.ALL_CHECKPOINTS
    Preload,        \* Settings.preload, the checkpoints built at startup
    MaxQueueDepth,  \* Settings.max_queue_depth (any integer: it is not checked)
    PoolSize,       \* worker threads run_in_threadpool may use at once
    Stuck,          \* checkpoints whose forward passes may never end
    None            \* no request / no checkpoint

ASSUME SlotsAreFinite    == IsFiniteSet(Requests) /\ IsFiniteSet(Checkpoints)
ASSUME PreloadIsKnown    == Preload \subseteq Checkpoints
ASSUME StuckIsKnown      == Stuck \subseteq Checkpoints
ASSUME DepthIsInteger    == MaxQueueDepth \in Int
ASSUME PoolHasThreads    == PoolSize \in Nat \ {0}
ASSUME NoneIsNothing     == None \notin Requests /\ None \notin Checkpoints

VARIABLES
    stage,       \* stage[r]: where r's handler is suspended
    job,         \* job[r]: the state of r's thread-pool job
    checkpoint,  \* checkpoint[r]: the local variable of predict()
    response,    \* response[r]: the status answered last, 0 while there is none
    poolq,       \* jobs waiting for a pool token, oldest first
    resident,    \* Router.loaded, as a set
    holder,      \* holder[c]: who owns _locks[c]
    waiters,     \* waiters[c]: the futures queued in _locks[c], oldest first
    pending,     \* _pending[c]
    probing      \* a readiness probe waits for its answer

vars == <<stage, job, checkpoint, response, poolq, resident,
          holder, waiters, pending, probing>>

Stages   == {"idle", "route", "build", "budget", "lock", "infer"}
\* How a job ends: normally; with ValidationFailed; with one of the exceptions
\* Laya raises for input it refuses (ValueError, KeyError, AttributeError,
\* TypeError); with anything else.
Outcomes == {"ok", "invalid", "bare", "fault"}
Jobs     == {"none", "queued", "running"} \cup Outcomes
Statuses == {0, 200, 422, 500, 529}

TypeOK ==
    /\ stage \in [Requests -> Stages]
    /\ job \in [Requests -> Jobs]
    /\ checkpoint \in [Requests -> Checkpoints \cup {None}]
    /\ response \in [Requests -> Statuses]
    /\ poolq \in Seq(Requests)
    /\ resident \subseteq Checkpoints
    /\ holder \in [Checkpoints -> Requests \cup {None}]
    /\ waiters \in [Checkpoints -> Seq(Requests)]
    /\ pending \in [Checkpoints -> Nat]
    /\ probing \in BOOLEAN

-----------------------------------------------------------------------------
(* The event loop and the thread pool                                      *)

\* A slip: the forward pass is called instead of offloaded.
LoopFreeUnlessInferring ==
    \A r \in Requests : stage[r] # "build" /\ ~(stage[r] = "infer" /\ job[r] = "running")
\* A checkpoint built inside predict() occupies the event loop.
LoopFree == \A r \in Requests : stage[r] # "build"

\* The requests whose job has a pool token.  The token is returned when the
\* awaiting handler resumes, not when the thread is done.
Busy == {r \in Requests : job[r] \in {"running"} \cup Outcomes}

\* await run_in_threadpool(...): r's handler is suspended at stage s.
Offload(r, s) ==
    /\ stage' = [stage EXCEPT ![r] = s]
    /\ job' = [job EXCEPT ![r] = "queued"]
    /\ poolq' = Append(poolq, r)

\* The handler ends with this status.
Answer(r, status) ==
    /\ stage' = [stage EXCEPT ![r] = "idle"]
    /\ job' = [job EXCEPT ![r] = "none"]
    /\ response' = [response EXCEPT ![r] = status]

\* The oldest job that waits for a token gets one and its thread starts.
StartJob(r) ==
    /\ LoopFree
    /\ poolq # <<>> /\ r = Head(poolq)
    /\ Cardinality(Busy) < PoolSize
    /\ poolq' = Tail(poolq)
    /\ job' = [job EXCEPT ![r] = "running"]
    /\ UNCHANGED <<stage, checkpoint, response, resident, holder, waiters,
                   pending, probing>>

\* r's thread is done.  Only validate_budget raises ValidationFailed.
FinishJob(r) ==
    /\ job[r] = "running"
    /\ \E o \in IF stage[r] = "budget" THEN Outcomes ELSE Outcomes \ {"invalid"} :
           job' = [job EXCEPT ![r] = o]
    /\ UNCHANGED <<stage, checkpoint, response, poolq, resident, holder,
                   waiters, pending, probing>>

-----------------------------------------------------------------------------
(* The Router                                                              *)

\* Engine.create preloads what the settings name.
Preloaded == Preload

\* A slip: room only for what is preloaded.
MaxLoadedAsPreloaded == Cardinality(Preload)
\* Engine.create sizes the Router for every checkpoint there is.
MaxLoaded == Cardinality(Checkpoints)

\* The sets Router.load(c) may leave resident: at the limit it evicts.
AfterLoad(c) ==
    LET all == resident \cup {c} IN
    IF Cardinality(all) <= MaxLoaded
    THEN {all}
    ELSE {all \ {victim} : victim \in resident \ {c}}

-----------------------------------------------------------------------------
(* The queue of a checkpoint                                               *)

\* A slip: the request is counted after the await of the lock, so that the check
\* misses those who wait.
AdmitsBeforeCounting(c) ==
    Cardinality({r \in Requests : stage[r] = "infer" /\ checkpoint[r] = c}) < MaxQueueDepth
\* The depth check: this checkpoint's own count, and none of the others'.
Admits(c) == pending[c] < MaxQueueDepth

\* Slips: a lock made for each request; and one that newcomers may take while
\* others wait for it.
LockIsNew(c)     == TRUE
LockLooksFree(c) == holder[c] = None
\* asyncio.Lock.acquire() does not suspend: unlocked and nobody queued.
LockFree(c) == holder[c] = None /\ waiters[c] = <<>>

\* Slips: the lock is left to whoever waits for it, without a wake-up; no `finally`.
ReleaseWakingNobody(r) ==
    /\ holder' = IF waiters[checkpoint[r]] # <<>> THEN holder
                 ELSE [holder EXCEPT ![checkpoint[r]] = None]
    /\ pending' = [pending EXCEPT ![checkpoint[r]] = @ - 1]
ReleaseKeepingSlot(r) ==
    /\ holder' = [holder EXCEPT ![checkpoint[r]] = None]
    /\ pending' = IF job[r] = "fault" THEN pending
                  ELSE [pending EXCEPT ![checkpoint[r]] = @ - 1]
\* `async with` and `finally` on the way out of the forward pass.
Release(r) ==
    /\ holder' = [holder EXCEPT ![checkpoint[r]] = None]
    /\ pending' = [pending EXCEPT ![checkpoint[r]] = @ - 1]

-----------------------------------------------------------------------------
(* Engine.predict                                                          *)

Init ==
    /\ stage = [r \in Requests |-> "idle"]
    /\ job = [r \in Requests |-> "none"]
    /\ checkpoint = [r \in Requests |-> None]
    /\ response = [r \in Requests |-> 0]
    /\ poolq = <<>>
    /\ resident = Preloaded
    /\ holder = [c \in Checkpoints |-> None]
    /\ waiters = [c \in Checkpoints |-> <<>>]
    /\ pending = [c \in Checkpoints |-> 0]
    /\ probing = FALSE

\* The questions and the model name pass; routing goes to a thread.
Submit(r) ==
    /\ LoopFree
    /\ stage[r] = "idle"
    /\ Offload(r, "route")
    /\ checkpoint' = [checkpoint EXCEPT ![r] = None]
    /\ response' = [response EXCEPT ![r] = 0]
    /\ UNCHANGED <<resident, holder, waiters, pending, probing>>

\* validate_questions or resolve_model raises ValidationFailed.
Reject(r) ==
    /\ LoopFree
    /\ stage[r] = "idle"
    /\ Answer(r, 422)
    /\ checkpoint' = [checkpoint EXCEPT ![r] = None]
    /\ UNCHANGED <<poolq, resident, holder, waiters, pending, probing>>

\* The routing decision: load the agent, then offload the budget check.
RouteReturns(r) ==
    /\ LoopFree
    /\ stage[r] = "route" /\ job[r] = "ok"
    /\ \E c \in Checkpoints :
        /\ checkpoint' = [checkpoint EXCEPT ![r] = c]
        /\ \/ /\ c \in resident
              /\ Offload(r, "budget")
           \/ /\ c \notin resident
              /\ stage' = [stage EXCEPT ![r] = "build"]
              /\ job' = [job EXCEPT ![r] = "none"]
              /\ UNCHANGED poolq
    /\ UNCHANGED <<response, resident, holder, waiters, pending, probing>>

\* Whatever Router.route raises leaves predict() as it is: a 500.
RouteFails(r) ==
    /\ LoopFree
    /\ stage[r] = "route" /\ job[r] \in {"bare", "fault"}
    /\ Answer(r, 500)
    /\ UNCHANGED <<checkpoint, poolq, resident, holder, waiters, pending, probing>>

\* Router.load built the checkpoint; the event loop is free again.
BuildReturns(r) ==
    /\ stage[r] = "build"
    /\ resident' \in AfterLoad(checkpoint[r])
    /\ Offload(r, "budget")
    /\ UNCHANGED <<checkpoint, response, holder, waiters, pending, probing>>

\* Router.load raises: no network, no memory.
BuildFails(r) ==
    /\ stage[r] = "build"
    /\ Answer(r, 500)
    /\ UNCHANGED <<checkpoint, poolq, resident, holder, waiters, pending, probing>>

\* validate_budget raises: ValidationFailed is a 422, anything else a 500.
BudgetFails(r) ==
    /\ LoopFree
    /\ stage[r] = "budget"
    /\ \/ job[r] = "invalid" /\ Answer(r, 422)
       \/ job[r] \in {"bare", "fault"} /\ Answer(r, 500)
    /\ UNCHANGED <<checkpoint, poolq, resident, holder, waiters, pending, probing>>

\* A slip: the depth check inside the `try` whose `finally` counts down.
TurnAwayInsideTry(r) ==
    /\ LoopFree
    /\ stage[r] = "budget" /\ job[r] = "ok"
    /\ ~Admits(checkpoint[r])
    /\ Answer(r, 529)
    /\ pending' = [pending EXCEPT ![checkpoint[r]] = @ - 1]
    /\ UNCHANGED <<checkpoint, poolq, resident, holder, waiters, probing>>
\* The checkpoint is at capacity: Overloaded.
TurnAway(r) ==
    /\ LoopFree
    /\ stage[r] = "budget" /\ job[r] = "ok"
    /\ ~Admits(checkpoint[r])
    /\ Answer(r, 529)
    /\ UNCHANGED <<checkpoint, poolq, resident, holder, waiters, pending, probing>>

\* The lock is r's, and the forward pass goes to a thread.
TakeLock(r, c) ==
    /\ holder' = [holder EXCEPT ![c] = r]
    /\ Offload(r, "infer")

\* r's future joins the end of the lock's own queue.
WaitForLock(r, c) ==
    /\ waiters' = [waiters EXCEPT ![c] = Append(@, r)]
    /\ stage' = [stage EXCEPT ![r] = "lock"]
    /\ job' = [job EXCEPT ![r] = "none"]

\* Count r, and take the lock or queue for it, with no await in between.
Admit(r) ==
    /\ LoopFree
    /\ stage[r] = "budget" /\ job[r] = "ok"
    /\ Admits(checkpoint[r])
    /\ pending' = [pending EXCEPT ![checkpoint[r]] = @ + 1]
    /\ \/ /\ LockFree(checkpoint[r])
          /\ TakeLock(r, checkpoint[r])
          /\ UNCHANGED waiters
       \/ /\ ~LockFree(checkpoint[r])
          /\ WaitForLock(r, checkpoint[r])
          /\ UNCHANGED <<holder, poolq>>
    /\ UNCHANGED <<checkpoint, response, resident, probing>>

\* The head waiter, woken by the release, runs: it takes the lock.
AcquireLock(r) ==
    /\ LoopFree
    /\ stage[r] = "lock"
    /\ holder[checkpoint[r]] = None
    /\ waiters[checkpoint[r]] # <<>> /\ r = Head(waiters[checkpoint[r]])
    /\ waiters' = [waiters EXCEPT ![checkpoint[r]] = Tail(@)]
    /\ TakeLock(r, checkpoint[r])
    /\ UNCHANGED <<checkpoint, response, resident, pending, probing>>

\* The forward pass is back: release, then answer.  What Laya refuses is a
\* 422; a result to_jev_response cannot shape is a 500, like any other fault.
InferReturns(r) ==
    /\ LoopFree
    /\ stage[r] = "infer" /\ job[r] \in Outcomes
    /\ Release(r)
    /\ \/ job[r] = "ok" /\ \E status \in {200, 500} : Answer(r, status)
       \/ job[r] = "bare" /\ Answer(r, 422)
       \/ job[r] = "fault" /\ Answer(r, 500)
    /\ UNCHANGED <<checkpoint, poolq, resident, waiters, probing>>

-----------------------------------------------------------------------------
(* GET /health and GET /ready: no lock, no checkpoint, one visit to the    *)
(* event loop.  What they answer is not modelled here.                     *)

ProbeArrives ==
    /\ ~probing
    /\ probing' = TRUE
    /\ UNCHANGED <<stage, job, checkpoint, response, poolq, resident, holder,
                   waiters, pending>>

ProbeAnswers ==
    /\ LoopFree
    /\ probing
    /\ probing' = FALSE
    /\ UNCHANGED <<stage, job, checkpoint, response, poolq, resident, holder,
                   waiters, pending>>

-----------------------------------------------------------------------------

\* What the event loop does for a request once it has been accepted.
LoopStep(r) ==
    \/ StartJob(r)
    \/ RouteReturns(r) \/ RouteFails(r)
    \/ BudgetFails(r) \/ TurnAway(r) \/ Admit(r)
    \/ AcquireLock(r)
    \/ InferReturns(r)

Build(r) == BuildReturns(r) \/ BuildFails(r)

Next ==
    \/ \E r \in Requests : Submit(r) \/ Reject(r) \/ LoopStep(r) \/ Build(r)
                           \/ FinishJob(r)
    \/ ProbeArrives \/ ProbeAnswers

Spec == Init /\ [][Next]_vars

\* asyncio runs its ready handles first-in-first-out, so a handle that is ready
\* again and again between builds does run: strong fairness.  Threads and
\* builds end, except the forward passes on the checkpoints of Stuck.
\* Clients owe nothing.
FairSpec ==
    /\ Spec
    /\ \A r \in Requests :
        /\ SF_vars(LoopStep(r))
        /\ WF_vars(Build(r))
        /\ WF_vars(~(stage[r] = "infer" /\ checkpoint[r] \in Stuck) /\ FinishJob(r))
    /\ SF_vars(ProbeAnswers)

-----------------------------------------------------------------------------
(* Safety                                                                  *)

\* The handlers between the increment of _pending[c] and the `finally`.
Admitted(c) == {r \in Requests : stage[r] \in {"lock", "infer"} /\ checkpoint[r] = c}

\* The counter behind the 529s never drifts from the requests it stands for,
\* through every way a request can end (engine.py, predict).
PendingCountsRequests == \A c \in Checkpoints : pending[c] = Cardinality(Admitted(c))

\* "Requests for one checkpoint run one at a time": two requests are never past
\* the lock of the same checkpoint (`async with self._lock_for(checkpoint)`).
ForwardPassExclusive ==
    \A r, s \in Requests :
        stage[r] = "infer" /\ stage[s] = "infer" /\ checkpoint[r] = checkpoint[s] => r = s

\* The line of a checkpoint never grows past LAYA_SERVER_MAX_QUEUE, however
\* many budget checks come back at once: nothing runs between the depth check
\* and the increment.
QueueBounded ==
    \A c \in Checkpoints : pending[c] > 0 => pending[c] <= MaxQueueDepth

\* The agent a request took from Router.load is still the resident one when it
\* is used, however many builds for others happen meanwhile: "nothing is
\* evicted and rebuilt" (MaxLoaded in Engine.create).
AgentStaysResident ==
    \A r \in Requests :
        stage[r] \in {"budget", "lock", "infer"} => checkpoint[r] \in resident

\* "No request pays for a build" (engine.py's header, app.py's lifespan), which
\* holds if everything is preloaded: the event loop is never inside Router.load.
NoRequestBuilds == \A r \in Requests : stage[r] # "build"

-----------------------------------------------------------------------------
(* The inductive invariant behind the safety properties (EngineProofs.tla) *)

\* A request past routing has a checkpoint.
CheckpointKnown ==
    \A r \in Requests :
        stage[r] \in {"build", "budget", "lock", "infer"} => checkpoint[r] \in Checkpoints

\* The lock of a checkpoint belongs to the request past it, and to no other.
HolderRuns ==
    /\ \A r \in Requests : stage[r] = "infer" => holder[checkpoint[r]] = r
    /\ \A c \in Checkpoints : holder[c] # None =>
           stage[holder[c]] = "infer" /\ checkpoint[holder[c]] = c

\* Whoever is queued in a lock waits for that lock.
WaitersWait ==
    \A c \in Checkpoints : \A i \in 1..Len(waiters[c]) :
        stage[waiters[c][i]] = "lock" /\ checkpoint[waiters[c][i]] = c

\* Nobody is queued in a lock twice.
WaitersDiffer ==
    \A c \in Checkpoints : \A i, j \in 1..Len(waiters[c]) :
        i # j => waiters[c][i] # waiters[c][j]

\* The counter is the length of the line.
PendingCountsLine ==
    \A c \in Checkpoints :
        pending[c] = Len(waiters[c]) + (IF holder[c] = None THEN 0 ELSE 1)

\* Together with the properties above, an invariant every action preserves.
IInv ==
    /\ TypeOK
    /\ CheckpointKnown
    /\ HolderRuns
    /\ WaitersWait
    /\ WaitersDiffer
    /\ PendingCountsLine
    /\ QueueBounded
    /\ AgentStaysResident

-----------------------------------------------------------------------------
(* Refinement                                                              *)

\* The line of c: the request that has the lock, then the ones that wait for it.
Line(c) == (IF holder[c] = None THEN <<>> ELSE <<holder[c]>>) \o waiters[c]

Refused(r) ==
    IF stage[r] = "idle" /\ response[r] = 529 THEN checkpoint[r] ELSE None

Queues == INSTANCE CheckpointQueues WITH
    line    <- [c \in Checkpoints |-> Line(c)],
    refused <- [r \in Requests |-> Refused(r)],
    Depth   <- MaxQueueDepth

\* The locks, the counters and the depth check together implement one bounded
\* first-in-first-out line per checkpoint: no request overtakes another, none
\* is turned away unless the line of its own checkpoint is full.
IsCheckpointQueues == Queues!Spec

\* The same with the lines moving: no lock is kept, no wake-up is lost, and a
\* checkpoint whose forward pass hangs holds up no other's line.
IsMovingCheckpointQueues == Queues!FairSpec

-----------------------------------------------------------------------------
(* Liveness                                                                *)

\* A request is answered, whatever the others do and however they fail; when
\* forward passes hang, only requests in line for those checkpoints wait: "a
\* queue on one must not reject requests for an idle other" (engine.py,
\* __init__), and everything before the line comes to an end.
RequestAnswered(r) ==
    stage[r] # "idle" ~>
        \/ stage[r] = "idle"
        \/ stage[r] \in {"lock", "infer"} /\ checkpoint[r] \in Stuck

EveryRequestAnswered == \A r \in Requests : RequestAnswered(r)

\* "A server busy on a forward pass still answers" the probes (app.py).
ProbeAnswered == probing ~> ~probing

=============================================================================
