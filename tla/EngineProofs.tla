---------------------------- MODULE EngineProofs ----------------------------
(***************************************************************************)
(* Proofs about Engine for every set of requests and checkpoints, every    *)
(* queue depth and every size of the thread pool.                          *)
(***************************************************************************)
EXTENDS Engine, FiniteSetTheorems, SequenceTheorems, TLAPS

-----------------------------------------------------------------------------
(* What the helpers of the actions preserve                                *)

\* An offloaded job keeps the types of what it changes.
LEMMA OffloadTypes ==
    ASSUME TypeOK, NEW r \in Requests, NEW s \in Stages, Offload(r, s)
    PROVE  /\ stage' \in [Requests -> Stages]
           /\ job' \in [Requests -> Jobs]
           /\ poolq' \in Seq(Requests)
BY AppendProperties DEF TypeOK, Offload, Jobs

\* So does an answer.
LEMMA AnswerTypes ==
    ASSUME TypeOK, NEW r \in Requests, NEW status \in Statuses, Answer(r, status)
    PROVE  /\ stage' \in [Requests -> Stages]
           /\ job' \in [Requests -> Jobs]
           /\ response' \in [Requests -> Statuses]
BY DEF TypeOK, Answer, Jobs, Stages

\* The lines are sequences, so their lengths are natural numbers.
LEMMA LineLengths ==
    ASSUME TypeOK, NEW c \in Checkpoints
    PROVE  waiters[c] \in Seq(Requests) /\ Len(waiters[c]) \in Nat
BY LenProperties DEF TypeOK

\* The Router is sized for every checkpoint (MaxLoaded), so a build evicts none.
LEMMA NothingEvicted ==
    ASSUME TypeOK, NEW c \in Checkpoints
    PROVE  AfterLoad(c) = {resident \cup {c}}
<1>1. resident \cup {c} \subseteq Checkpoints
  BY DEF TypeOK
<1>2. Cardinality(resident \cup {c}) <= Cardinality(Checkpoints)
  BY <1>1, SlotsAreFinite, FS_Subset
<1> QED
  BY <1>2 DEF AfterLoad, MaxLoaded

\* An action that touches no queue and takes one request r, which is in no
\* line, to a stage outside the lines preserves the invariant.
LEMMA OutsideTheLines ==
    ASSUME IInv, TypeOK',
           NEW r \in Requests,
           stage[r] \notin {"lock", "infer"},
           stage'[r] \notin {"lock", "infer"},
           stage'[r] \in {"build", "budget"} => checkpoint'[r] \in Checkpoints,
           stage'[r] = "budget" => checkpoint'[r] \in resident',
           \A s \in Requests \ {r} : stage'[s] = stage[s] /\ checkpoint'[s] = checkpoint[s],
           resident \subseteq resident',
           UNCHANGED <<holder, waiters, pending>>
    PROVE  IInv'
<1>1. CheckpointKnown'
  BY DEF IInv, CheckpointKnown
<1>2. HolderRuns'
  <2>1. ASSUME NEW c \in Checkpoints, holder[c] # None
        PROVE  holder[c] \in Requests \ {r}
    BY <2>1 DEF IInv, TypeOK, HolderRuns
  <2> QED
    BY <2>1 DEF IInv, HolderRuns
<1>3. WaitersWait'
  <2>1. ASSUME NEW c \in Checkpoints, NEW i \in 1..Len(waiters[c])
        PROVE  waiters[c][i] \in Requests \ {r}
    BY <2>1, ElementOfSeq, LineLengths DEF IInv, WaitersWait
  <2> QED
    BY <2>1 DEF IInv, WaitersWait
<1>4. WaitersDiffer' /\ PendingCountsLine' /\ QueueBounded'
  BY DEF IInv, WaitersDiffer, PendingCountsLine, QueueBounded
<1>5. AgentStaysResident'
  BY DEF IInv, AgentStaysResident
<1> QED
  BY <1>1, <1>2, <1>3, <1>4, <1>5 DEF IInv

\* So does an action that only moves jobs and answers probes.
LEMMA OnlyJobs ==
    ASSUME IInv, TypeOK', UNCHANGED <<stage, checkpoint, resident, holder, waiters, pending>>
    PROVE  IInv'
<1>1. CheckpointKnown' /\ AgentStaysResident'
  BY DEF IInv, CheckpointKnown, AgentStaysResident
<1>2. HolderRuns' /\ WaitersWait' /\ WaitersDiffer'
  BY DEF IInv, HolderRuns, WaitersWait, WaitersDiffer
<1>3. PendingCountsLine' /\ QueueBounded'
  BY DEF IInv, PendingCountsLine, QueueBounded
<1> QED
  BY <1>1, <1>2, <1>3 DEF IInv

-----------------------------------------------------------------------------
(* The steps that touch a line                                             *)

\* Taking the free lock of its own checkpoint makes r, and nobody else, its owner.
LEMMA TakingTheLock ==
    ASSUME TypeOK, CheckpointKnown, HolderRuns,
           NEW r \in Requests, stage[r] # "infer",
           checkpoint[r] \in Checkpoints,
           holder[checkpoint[r]] = None,
           TakeLock(r, checkpoint[r]),
           UNCHANGED checkpoint
    PROVE  HolderRuns'
<1> DEFINE c == checkpoint[r]
<1>1. /\ holder' = [holder EXCEPT ![c] = r]
      /\ stage' = [stage EXCEPT ![r] = "infer"]
  BY DEF TakeLock, Offload
<1>2. ASSUME NEW s \in Requests, stage'[s] = "infer"
      PROVE  holder'[checkpoint'[s]] = s
  <2>1. CASE s = r
    BY <1>1, <2>1 DEF TypeOK
  <2>2. CASE s # r
    <3>1. stage[s] = "infer" /\ checkpoint[s] \in Checkpoints /\ holder[checkpoint[s]] = s
      BY <1>1, <1>2, <2>2 DEF TypeOK, HolderRuns, CheckpointKnown
    <3>2. checkpoint[s] # c
      BY <3>1, NoneIsNothing
    <3> QED
      BY <1>1, <3>1, <3>2 DEF TypeOK
  <2> QED
    BY <2>1, <2>2
<1>3. ASSUME NEW d \in Checkpoints, holder'[d] # None
      PROVE  stage'[holder'[d]] = "infer" /\ checkpoint'[holder'[d]] = d
  <2>1. CASE d = c
    BY <1>1, <2>1 DEF TypeOK
  <2>2. CASE d # c
    <3>1. holder'[d] = holder[d] /\ stage[holder[d]] = "infer" /\ checkpoint[holder[d]] = d
      BY <1>1, <1>3, <2>2 DEF TypeOK, HolderRuns
    <3>2. holder[d] \in Requests \ {r}
      BY <1>1, <1>3, <2>2, <3>1 DEF TypeOK
    <3> QED
      BY <1>1, <3>1, <3>2 DEF TypeOK
  <2> QED
    BY <2>1, <2>2
<1> QED
  BY <1>2, <1>3 DEF HolderRuns

\* The depth check, the increment and the lock or its queue, in one step.
LEMMA AdmitPreserves == ASSUME IInv, NEW r \in Requests, Admit(r) PROVE IInv'
<1> DEFINE c == checkpoint[r]
<1>1. c \in Checkpoints /\ c \in resident /\ TypeOK
  BY DEF IInv, CheckpointKnown, AgentStaysResident, Admit
<1>2. /\ pending' = [pending EXCEPT ![c] = @ + 1]
      /\ UNCHANGED <<checkpoint, response, resident, probing>>
      /\ stage[r] = "budget"
      /\ pending[c] < MaxQueueDepth
  BY DEF Admit, Admits
<1>3. QueueBounded'
  BY <1>1, <1>2, DepthIsInteger DEF IInv, QueueBounded, TypeOK
<1>4. r # None /\ \A d \in Checkpoints : holder[d] # r
  BY <1>2, NoneIsNothing DEF IInv, HolderRuns
<1>5. CASE LockFree(c) /\ TakeLock(r, c) /\ UNCHANGED waiters
  <2>1. /\ holder[c] = None
        /\ holder' = [holder EXCEPT ![c] = r]
        /\ Offload(r, "infer")
        /\ stage' = [stage EXCEPT ![r] = "infer"]
        /\ waiters' = waiters
    BY <1>5 DEF LockFree, TakeLock, Offload
  <2>2. TypeOK'
    BY <1>1, <1>2, <2>1, OffloadTypes DEF TypeOK, Stages
  <2>3. CheckpointKnown' /\ AgentStaysResident'
    BY <1>1, <1>2, <2>1 DEF IInv, TypeOK, CheckpointKnown, AgentStaysResident
  <2>4. HolderRuns'
    BY <1>1, <1>2, <2>1, TakingTheLock, <1>5 DEF IInv
  <2>5. WaitersWait'
    <3>1. ASSUME NEW d \in Checkpoints, NEW i \in 1..Len(waiters[d])
          PROVE  waiters[d][i] \in Requests \ {r}
      BY <1>2, ElementOfSeq, LineLengths, <1>1 DEF IInv, WaitersWait
    <3> QED
      BY <1>1, <1>2, <2>1, <3>1 DEF IInv, WaitersWait, TypeOK
  <2>7. WaitersDiffer'
    BY <2>1 DEF IInv, WaitersDiffer
  <2>6. PendingCountsLine'
    <3> SUFFICES ASSUME NEW d \in Checkpoints
                 PROVE  pending'[d] = Len(waiters'[d]) + (IF holder'[d] = None THEN 0 ELSE 1)
      BY DEF PendingCountsLine
    <3> QED
      BY <1>1, <1>2, <1>4, <2>1, LineLengths DEF IInv, TypeOK, PendingCountsLine
  <2> QED
    BY <1>3, <2>2, <2>3, <2>4, <2>5, <2>6, <2>7 DEF IInv
<1>6. CASE ~LockFree(c) /\ WaitForLock(r, c) /\ UNCHANGED <<holder, poolq>>
  <2>1. /\ waiters' = [waiters EXCEPT ![c] = Append(@, r)]
        /\ stage' = [stage EXCEPT ![r] = "lock"]
        /\ job' = [job EXCEPT ![r] = "none"]
        /\ holder' = holder /\ poolq' = poolq
    BY <1>6 DEF WaitForLock
  <2>2. /\ Append(waiters[c], r) \in Seq(Requests)
        /\ Len(Append(waiters[c], r)) = Len(waiters[c]) + 1
        /\ \A i \in 1..Len(waiters[c]) : Append(waiters[c], r)[i] = waiters[c][i]
        /\ Append(waiters[c], r)[Len(waiters[c]) + 1] = r
    BY <1>1, LineLengths, AppendProperties
  <2>3. TypeOK'
    BY <1>1, <1>2, <2>1, <2>2 DEF TypeOK, Stages, Jobs
  <2>4. CheckpointKnown' /\ AgentStaysResident'
    BY <1>1, <1>2, <2>1 DEF IInv, TypeOK, CheckpointKnown, AgentStaysResident
  <2>5. HolderRuns'
    BY <1>1, <1>2, <1>4, <2>1 DEF IInv, TypeOK, HolderRuns
  <2>6. WaitersWait'
    <3>1. ASSUME NEW d \in Checkpoints, NEW i \in 1..Len(waiters[d])
          PROVE  waiters[d][i] \in Requests \ {r}
      BY <1>2, ElementOfSeq, LineLengths, <1>1 DEF IInv, WaitersWait
    <3> SUFFICES ASSUME NEW d \in Checkpoints, NEW i \in 1..Len(waiters'[d])
                 PROVE  stage'[waiters'[d][i]] = "lock" /\ checkpoint'[waiters'[d][i]] = d
      BY DEF WaitersWait
    <3>2. CASE d # c
      BY <1>1, <1>2, <2>1, <3>1, <3>2 DEF IInv, WaitersWait, TypeOK
    <3>3. CASE d = c /\ i \in 1..Len(waiters[c])
      BY <1>1, <1>2, <2>1, <2>2, <3>1, <3>3 DEF IInv, WaitersWait, TypeOK
    <3>4. CASE d = c /\ i = Len(waiters[c]) + 1
      BY <1>1, <1>2, <2>1, <2>2, <3>4 DEF TypeOK
    <3>5. d = c => i \in 1..Len(waiters[c]) \/ i = Len(waiters[c]) + 1
      BY <1>1, <2>1, <2>2, LineLengths DEF TypeOK
    <3> QED
      BY <3>2, <3>3, <3>4, <3>5
  <2>7. PendingCountsLine'
    <3> SUFFICES ASSUME NEW d \in Checkpoints
                 PROVE  pending'[d] = Len(waiters'[d]) + (IF holder'[d] = None THEN 0 ELSE 1)
      BY DEF PendingCountsLine
    <3>1. waiters[d] \in Seq(Requests) /\ Len(waiters[d]) \in Nat
      BY <1>1, LineLengths
    <3>2. CASE d = c
      BY <1>1, <1>2, <2>1, <2>2, <3>1, <3>2 DEF IInv, TypeOK, PendingCountsLine
    <3>3. CASE d # c
      BY <1>1, <1>2, <2>1, <3>3 DEF IInv, TypeOK, PendingCountsLine
    <3> QED
      BY <3>2, <3>3
  <2>8. WaitersDiffer'
    <3> SUFFICES ASSUME NEW d \in Checkpoints,
                        NEW i \in 1..Len(waiters'[d]), NEW j \in 1..Len(waiters'[d]), i # j
                 PROVE  waiters'[d][i] # waiters'[d][j]
      BY DEF WaitersDiffer
    <3>1. CASE d # c
      BY <1>1, <2>1, <3>1 DEF IInv, WaitersDiffer, TypeOK
    <3>2. CASE d = c
      <4>1. \A k \in 1..Len(waiters[c]) : waiters[c][k] # r
        BY <1>1, <1>2 DEF IInv, WaitersWait
      <4>2. waiters'[d] = Append(waiters[c], r)
        BY <1>1, <2>1, <3>2 DEF TypeOK
      <4>3. /\ i \in 1..Len(waiters[c]) \/ i = Len(waiters[c]) + 1
            /\ j \in 1..Len(waiters[c]) \/ j = Len(waiters[c]) + 1
        BY <1>1, <2>2, <4>2, LineLengths
      <4> QED
        BY <1>1, <2>2, <4>1, <4>2, <4>3 DEF IInv, WaitersDiffer
    <3> QED
      BY <3>1, <3>2
  <2> QED
    BY <1>3, <2>3, <2>4, <2>5, <2>6, <2>7, <2>8 DEF IInv
<1> QED
  BY <1>5, <1>6 DEF Admit

\* A waiter becomes the owner; the line is the same.
LEMMA AcquirePreserves == ASSUME IInv, NEW r \in Requests, AcquireLock(r) PROVE IInv'
<1> DEFINE c == checkpoint[r]
<1>1. c \in Checkpoints /\ c \in resident /\ TypeOK
  BY DEF IInv, CheckpointKnown, AgentStaysResident, AcquireLock
<1>2. /\ stage[r] = "lock" /\ holder[c] = None
      /\ waiters[c] # <<>> /\ r = Head(waiters[c])
      /\ waiters' = [waiters EXCEPT ![c] = Tail(@)]
      /\ holder' = [holder EXCEPT ![c] = r]
      /\ TakeLock(r, c) /\ Offload(r, "infer")
      /\ stage' = [stage EXCEPT ![r] = "infer"]
      /\ UNCHANGED <<checkpoint, response, resident, pending, probing>>
  BY DEF AcquireLock, TakeLock, Offload
<1>3. /\ Tail(waiters[c]) \in Seq(Requests)
      /\ Len(Tail(waiters[c])) = Len(waiters[c]) - 1
      /\ \A i \in 1..Len(Tail(waiters[c])) : Tail(waiters[c])[i] = waiters[c][i+1]
      /\ Len(waiters[c]) \in Nat \ {0}
  BY <1>1, <1>2, LineLengths, HeadTailProperties, EmptySeq
<1>4. TypeOK'
  BY <1>1, <1>2, <1>3, OffloadTypes DEF TypeOK, Stages
<1>5. CheckpointKnown' /\ AgentStaysResident' /\ QueueBounded'
  BY <1>1, <1>2 DEF IInv, TypeOK, CheckpointKnown, AgentStaysResident, QueueBounded
<1>6. HolderRuns'
  BY <1>1, <1>2, TakingTheLock DEF IInv
<1>7. PendingCountsLine'
  <2> SUFFICES ASSUME NEW d \in Checkpoints
               PROVE  pending'[d] = Len(waiters'[d]) + (IF holder'[d] = None THEN 0 ELSE 1)
    BY DEF PendingCountsLine
  <2>1. CASE d = c
    BY <1>1, <1>2, <1>3, <2>1, NoneIsNothing DEF IInv, TypeOK, PendingCountsLine
  <2>2. CASE d # c
    BY <1>1, <1>2, <2>2 DEF IInv, TypeOK, PendingCountsLine
  <2> QED
    BY <2>1, <2>2
<1>8. ASSUME NEW d \in Checkpoints
      PROVE  \E k \in {0, 1} :
               /\ Len(waiters'[d]) = Len(waiters[d]) - k
               /\ \A i \in 1..Len(waiters'[d]) :
                    waiters'[d][i] = waiters[d][i+k] /\ waiters[d][i+k] \in Requests \ {r}
  <2>1. waiters[d] \in Seq(Requests) /\ Len(waiters[d]) \in Nat
    BY <1>1, LineLengths
  <2>2. CASE d = c
    <3>1. waiters'[d] = Tail(waiters[c])
      BY <1>1, <1>2, <2>2 DEF TypeOK
    <3>2. ASSUME NEW i \in 1..Len(Tail(waiters[c]))
          PROVE  waiters[c][i+1] \in Requests \ {r}
      <4>1. 1 \in 1..Len(waiters[c]) /\ i+1 \in 1..Len(waiters[c]) /\ 1 # i+1
        BY <1>3
      <4>2. waiters[c][1] = r
        BY <1>2
      <4>3. waiters[c][i+1] # r
        BY <1>1, <4>1, <4>2 DEF IInv, WaitersDiffer
      <4> QED
        BY <2>1, <2>2, <4>1, <4>3, ElementOfSeq
    <3> QED
      BY <1>3, <2>2, <3>1, <3>2
  <2>3. CASE d # c
    <3>1. waiters'[d] = waiters[d]
      BY <1>1, <1>2, <2>3 DEF TypeOK
    <3>2. ASSUME NEW i \in 1..Len(waiters[d])
          PROVE  waiters[d][i] \in Requests \ {r}
      BY <1>2, <2>1, <2>3, ElementOfSeq DEF IInv, WaitersWait
    <3> QED
      BY <2>1, <3>1, <3>2
  <2> QED
    BY <2>2, <2>3
<1>9. WaitersWait' /\ WaitersDiffer'
  <2> SUFFICES ASSUME NEW d \in Checkpoints
               PROVE  /\ \A i \in 1..Len(waiters'[d]) :
                            stage'[waiters'[d][i]] = "lock" /\ checkpoint'[waiters'[d][i]] = d
                      /\ \A i, j \in 1..Len(waiters'[d]) :
                            i # j => waiters'[d][i] # waiters'[d][j]
    BY DEF WaitersWait, WaitersDiffer
  <2>1. PICK k \in {0, 1} :
               /\ Len(waiters'[d]) = Len(waiters[d]) - k
               /\ \A i \in 1..Len(waiters'[d]) :
                    waiters'[d][i] = waiters[d][i+k] /\ waiters[d][i+k] \in Requests \ {r}
    BY <1>8
  <2>2. Len(waiters[d]) \in Nat
    BY <1>1, LineLengths
  <2>3. ASSUME NEW i \in 1..Len(waiters'[d])
        PROVE  i+k \in 1..Len(waiters[d])
    BY <2>1, <2>2
  <2>4. ASSUME NEW i \in 1..Len(waiters'[d])
        PROVE  stage'[waiters'[d][i]] = "lock" /\ checkpoint'[waiters'[d][i]] = d
    <3>1. stage[waiters[d][i+k]] = "lock" /\ checkpoint[waiters[d][i+k]] = d
      BY <2>3 DEF IInv, WaitersWait
    <3> QED
      BY <1>1, <1>2, <2>1, <3>1 DEF TypeOK
  <2>5. ASSUME NEW i \in 1..Len(waiters'[d]), NEW j \in 1..Len(waiters'[d]), i # j
        PROVE  waiters'[d][i] # waiters'[d][j]
    <3>1. i+k \in 1..Len(waiters[d]) /\ j+k \in 1..Len(waiters[d]) /\ i+k # j+k
      BY <2>1, <2>2, <2>3, <2>5
    <3> QED
      BY <2>1, <3>1 DEF IInv, WaitersDiffer
  <2> QED
    BY <2>4, <2>5
<1> QED
  BY <1>4, <1>5, <1>6, <1>7, <1>9 DEF IInv

\* The forward pass is over: the lock is free and the count one less.
LEMMA InferPreserves == ASSUME IInv, NEW r \in Requests, InferReturns(r) PROVE IInv'
<1> DEFINE c == checkpoint[r]
<1>1. c \in Checkpoints /\ TypeOK /\ holder[c] = r /\ r # None
  BY NoneIsNothing DEF IInv, CheckpointKnown, HolderRuns, InferReturns
<1>2. /\ stage[r] = "infer"
      /\ holder' = [holder EXCEPT ![c] = None]
      /\ pending' = [pending EXCEPT ![c] = @ - 1]
      /\ \E status \in {200, 422, 500} : Answer(r, status)
      /\ stage' = [stage EXCEPT ![r] = "idle"]
      /\ UNCHANGED <<checkpoint, poolq, resident, waiters, probing>>
  BY DEF InferReturns, Release, Answer
<1>3. Len(waiters[c]) \in Nat /\ pending[c] = Len(waiters[c]) + 1
  BY <1>1, LineLengths DEF IInv, PendingCountsLine
<1>4. TypeOK'
  BY <1>1, <1>2, <1>3, AnswerTypes DEF TypeOK, Statuses
<1>5. CheckpointKnown' /\ AgentStaysResident' /\ WaitersDiffer'
  BY <1>1, <1>2 DEF IInv, TypeOK, CheckpointKnown, AgentStaysResident, WaitersDiffer
<1>6. HolderRuns'
  <2>1. ASSUME NEW s \in Requests, stage'[s] = "infer"
        PROVE  holder'[checkpoint'[s]] = s
    BY <1>1, <1>2, <2>1 DEF IInv, TypeOK, HolderRuns, CheckpointKnown
  <2>2. ASSUME NEW d \in Checkpoints, holder'[d] # None
        PROVE  stage'[holder'[d]] = "infer" /\ checkpoint'[holder'[d]] = d
    <3>1. d # c /\ holder'[d] = holder[d] /\ holder[d] \in Requests
      BY <1>1, <1>2, <2>2 DEF TypeOK
    <3>2. stage[holder[d]] = "infer" /\ checkpoint[holder[d]] = d
      BY <2>2, <3>1 DEF IInv, HolderRuns
    <3> QED
      BY <1>1, <1>2, <3>1, <3>2 DEF TypeOK
  <2> QED
    BY <2>1, <2>2 DEF HolderRuns
<1>7. WaitersWait'
  <2>1. ASSUME NEW d \in Checkpoints, NEW i \in 1..Len(waiters[d])
        PROVE  waiters[d][i] \in Requests \ {r}
    BY <1>1, <1>2, ElementOfSeq, LineLengths DEF IInv, WaitersWait
  <2> QED
    BY <1>1, <1>2, <2>1 DEF IInv, WaitersWait, TypeOK
<1>8. PendingCountsLine' /\ QueueBounded'
  <2> SUFFICES ASSUME NEW d \in Checkpoints
               PROVE  /\ pending'[d] = Len(waiters'[d]) + (IF holder'[d] = None THEN 0 ELSE 1)
                      /\ pending'[d] > 0 => pending'[d] <= MaxQueueDepth
    BY DEF PendingCountsLine, QueueBounded
  <2>1. CASE d = c
    <3>1. pending[c] <= MaxQueueDepth
      BY <1>1, <1>3 DEF IInv, QueueBounded
    <3>2. pending'[d] = pending[c] - 1 /\ holder'[d] = None /\ waiters'[d] = waiters[c]
      BY <1>1, <1>2, <2>1 DEF TypeOK
    <3> QED
      BY <1>3, <3>1, <3>2, DepthIsInteger
  <2>2. CASE d # c
    BY <1>1, <1>2, <2>2 DEF IInv, TypeOK, PendingCountsLine, QueueBounded
  <2> QED
    BY <2>1, <2>2
<1> QED
  BY <1>4, <1>5, <1>6, <1>7, <1>8 DEF IInv

-----------------------------------------------------------------------------
(* The inductive invariant                                                 *)

\* At startup nobody is in a line and the preloaded checkpoints are resident.
LEMMA InitInv == Init => IInv
<1> SUFFICES ASSUME Init PROVE IInv
  OBVIOUS
<1>1. TypeOK
  BY PreloadIsKnown, EmptySeq DEF Init, TypeOK, Stages, Jobs, Statuses, Preloaded
<1>2. CheckpointKnown /\ AgentStaysResident
  BY DEF Init, CheckpointKnown, AgentStaysResident
<1>3. HolderRuns
  BY DEF Init, HolderRuns
<1>4. WaitersWait /\ WaitersDiffer /\ PendingCountsLine /\ QueueBounded
  BY EmptySeq DEF Init, WaitersWait, WaitersDiffer, PendingCountsLine, QueueBounded
<1> QED
  BY <1>1, <1>2, <1>3, <1>4 DEF IInv

\* The steps of a request that is in no line before them nor after.
LEMMA EarlyStepsPreserve ==
    ASSUME IInv, NEW r \in Requests,
           \/ Submit(r) \/ Reject(r) \/ RouteReturns(r) \/ RouteFails(r)
           \/ BudgetFails(r) \/ TurnAway(r) \/ Build(r)
    PROVE  IInv' /\ stage[r] \notin {"lock", "infer"} /\ stage'[r] \notin {"lock", "infer"}
<1>0. TypeOK
  BY DEF IInv
<1>1. CASE Submit(r)
  <2>1. TypeOK'
    BY <1>0, <1>1, OffloadTypes DEF Submit, TypeOK, Stages, Statuses
  <2> QED
    BY <1>0, <1>1, <2>1, OutsideTheLines DEF Submit, Offload, TypeOK
<1>2. CASE Reject(r)
  <2>1. TypeOK'
    BY <1>0, <1>2, AnswerTypes DEF Reject, TypeOK, Statuses
  <2> QED
    BY <1>0, <1>2, <2>1, OutsideTheLines DEF Reject, Answer, TypeOK
<1>3. CASE RouteReturns(r)
  <2>1. PICK c \in Checkpoints :
        /\ checkpoint' = [checkpoint EXCEPT ![r] = c]
        /\ \/ c \in resident /\ Offload(r, "budget")
           \/ /\ stage' = [stage EXCEPT ![r] = "build"]
              /\ job' = [job EXCEPT ![r] = "none"]
              /\ UNCHANGED poolq
    BY <1>3 DEF RouteReturns
  <2>2. stage[r] = "route" /\ UNCHANGED <<response, resident, holder, waiters, pending, probing>>
    BY <1>3 DEF RouteReturns
  <2>3. CASE c \in resident /\ Offload(r, "budget")
    <3>1. TypeOK'
      BY <1>0, <2>1, <2>2, <2>3, OffloadTypes DEF TypeOK, Stages
    <3> QED
      BY <1>0, <2>1, <2>2, <2>3, <3>1, OutsideTheLines DEF Offload, TypeOK
  <2>4. CASE /\ stage' = [stage EXCEPT ![r] = "build"]
             /\ job' = [job EXCEPT ![r] = "none"]
             /\ UNCHANGED poolq
    <3>1. TypeOK'
      BY <1>0, <2>1, <2>2, <2>4 DEF TypeOK, Stages, Jobs
    <3> QED
      BY <1>0, <2>1, <2>2, <2>4, <3>1, OutsideTheLines DEF TypeOK
  <2> QED
    BY <2>1, <2>3, <2>4
<1>4. CASE RouteFails(r)
  <2>1. TypeOK'
    BY <1>0, <1>4, AnswerTypes DEF RouteFails, TypeOK, Statuses
  <2> QED
    BY <1>0, <1>4, <2>1, OutsideTheLines DEF RouteFails, Answer, TypeOK
<1>5. CASE BudgetFails(r)
  <2>1. \E status \in {422, 500} : Answer(r, status)
    BY <1>5 DEF BudgetFails
  <2>2. TypeOK'
    BY <1>0, <1>5, <2>1, AnswerTypes DEF BudgetFails, TypeOK, Statuses
  <2>3. /\ stage[r] = "budget"
        /\ stage' = [stage EXCEPT ![r] = "idle"]
        /\ UNCHANGED <<checkpoint, resident, holder, waiters, pending>>
    BY <1>5, <2>1 DEF BudgetFails, Answer
  <2> QED
    BY <1>0, <2>2, <2>3, OutsideTheLines DEF TypeOK
<1>6. CASE TurnAway(r)
  <2>1. TypeOK'
    BY <1>0, <1>6, AnswerTypes DEF TurnAway, TypeOK, Statuses
  <2> QED
    BY <1>0, <1>6, <2>1, OutsideTheLines DEF TurnAway, Answer, TypeOK
<1>7. CASE BuildReturns(r)
  <2>1. checkpoint[r] \in Checkpoints /\ resident' = resident \cup {checkpoint[r]}
    BY <1>0, <1>7, NothingEvicted DEF BuildReturns, IInv, CheckpointKnown
  <2>2. TypeOK'
    BY <1>0, <1>7, <2>1, OffloadTypes DEF BuildReturns, TypeOK, Stages
  <2>3. /\ stage[r] = "build"
        /\ stage' = [stage EXCEPT ![r] = "budget"]
        /\ UNCHANGED <<checkpoint, holder, waiters, pending>>
    BY <1>7 DEF BuildReturns, Offload
  <2> QED
    BY <1>0, <2>1, <2>2, <2>3, OutsideTheLines DEF TypeOK
<1>8. CASE BuildFails(r)
  <2>1. TypeOK'
    BY <1>0, <1>8, AnswerTypes DEF BuildFails, TypeOK, Statuses
  <2> QED
    BY <1>0, <1>8, <2>1, OutsideTheLines DEF BuildFails, Answer, TypeOK
<1> QED
  BY <1>1, <1>2, <1>3, <1>4, <1>5, <1>6, <1>7, <1>8 DEF Build

\* The steps of the thread pool and of the probes.
LEMMA JobStepsPreserve ==
    ASSUME IInv,
           \/ \E r \in Requests : StartJob(r) \/ FinishJob(r)
           \/ ProbeArrives \/ ProbeAnswers
           \/ UNCHANGED vars
    PROVE  IInv' /\ UNCHANGED <<stage, checkpoint, response, resident, holder, waiters, pending>>
<1>0. TypeOK
  BY DEF IInv
<1>1. ASSUME NEW r \in Requests, StartJob(r)
      PROVE  TypeOK' /\ UNCHANGED <<stage, checkpoint, response, resident, holder, waiters, pending>>
  <2>1. poolq' \in Seq(Requests)
    BY <1>0, <1>1, HeadTailProperties DEF StartJob, TypeOK
  <2> QED
    BY <1>0, <1>1, <2>1 DEF StartJob, TypeOK, Jobs
<1>2. ASSUME NEW r \in Requests, FinishJob(r)
      PROVE  TypeOK' /\ UNCHANGED <<stage, checkpoint, response, resident, holder, waiters, pending>>
  BY <1>0, <1>2 DEF FinishJob, TypeOK, Jobs
<1>3. ASSUME ProbeArrives \/ ProbeAnswers \/ UNCHANGED vars
      PROVE  TypeOK' /\ UNCHANGED <<stage, checkpoint, response, resident, holder, waiters, pending>>
  BY <1>0, <1>3 DEF ProbeArrives, ProbeAnswers, vars, TypeOK
<1>4. TypeOK' /\ UNCHANGED <<stage, checkpoint, response, resident, holder, waiters, pending>>
  BY <1>1, <1>2, <1>3
<1> QED
  BY <1>4, OnlyJobs

\* Every step of the system preserves the invariant.
LEMMA NextInv == IInv /\ [Next]_vars => IInv'
<1> SUFFICES ASSUME IInv, [Next]_vars PROVE IInv'
  OBVIOUS
<1>1. ASSUME NEW r \in Requests, Submit(r) \/ Reject(r) \/ LoopStep(r) \/ Build(r) \/ FinishJob(r)
      PROVE  IInv'
  BY <1>1, EarlyStepsPreserve, JobStepsPreserve, AdmitPreserves, AcquirePreserves,
     InferPreserves DEF LoopStep
<1> QED
  BY <1>1, JobStepsPreserve DEF Next

-----------------------------------------------------------------------------
(* The safety properties                                                   *)

\* Every reachable state satisfies the inductive invariant.
THEOREM Invariance == Spec => []IInv
BY InitInv, NextInv, PTL DEF Spec

\* The variables keep their types; in particular no count goes below zero.
THEOREM TypeCorrect == Spec => []TypeOK
<1>1. IInv => TypeOK
  BY DEF IInv
<1> QED
  BY <1>1, Invariance, PTL

\* Requests for one checkpoint run one at a time, whatever the number of
\* requests, checkpoints and threads (`async with self._lock_for(checkpoint)`).
THEOREM OneAtATime == Spec => []ForwardPassExclusive
<1>1. IInv => ForwardPassExclusive
  BY DEF IInv, HolderRuns, ForwardPassExclusive
<1> QED
  BY <1>1, Invariance, PTL

\* No line grows past LAYA_SERVER_MAX_QUEUE (the depth check of predict()).
THEOREM DepthRespected == Spec => []QueueBounded
<1>1. IInv => QueueBounded
  BY DEF IInv
<1> QED
  BY <1>1, Invariance, PTL

\* The agent a request holds is never evicted under it (max_loaded in create()).
THEOREM AgentsStay == Spec => []AgentStaysResident
<1>1. IInv => AgentStaysResident
  BY DEF IInv
<1> QED
  BY <1>1, Invariance, PTL

\* With everything preloaded no request ever builds a checkpoint on the event
\* loop (Engine.create, lifespan).
THEOREM FullPreloadNeverBuilds ==
    ASSUME Preload = Checkpoints
    PROVE  Spec => []NoRequestBuilds
<1> DEFINE AllThere == NoRequestBuilds /\ resident = Checkpoints
<1>1. Init => AllThere
  BY DEF Init, Preloaded, NoRequestBuilds
<1>2. AllThere /\ IInv /\ [Next]_vars => AllThere'
  <2> SUFFICES ASSUME AllThere, IInv, [Next]_vars PROVE AllThere'
    OBVIOUS
  <2>1. UNCHANGED <<stage, resident>> \/ \E r \in Requests :
            /\ resident' = resident
            /\ \E s \in Stages \ {"build"} : stage' = [stage EXCEPT ![r] = s]
    <3>1. ASSUME NEW r \in Requests, RouteReturns(r)
          PROVE  resident' = resident /\ stage' = [stage EXCEPT ![r] = "budget"]
      BY <3>1 DEF RouteReturns, Offload
    <3>2. ASSUME NEW r \in Requests, Build(r) PROVE FALSE
      BY <3>2 DEF Build, BuildReturns, BuildFails, NoRequestBuilds
    <3>3. ASSUME NEW r \in Requests,
                 \/ Submit(r) \/ Reject(r) \/ RouteFails(r) \/ BudgetFails(r)
                 \/ TurnAway(r) \/ Admit(r) \/ AcquireLock(r) \/ InferReturns(r)
          PROVE  /\ resident' = resident
                 /\ \E s \in Stages \ {"build"} : stage' = [stage EXCEPT ![r] = s]
      BY <3>3 DEF Submit, Reject, RouteFails, BudgetFails, TurnAway, Admit, AcquireLock,
                  InferReturns, Answer, Offload, TakeLock, WaitForLock, Stages
    <3>4. ASSUME \/ \E r \in Requests : StartJob(r) \/ FinishJob(r)
                 \/ ProbeArrives \/ ProbeAnswers \/ UNCHANGED vars
          PROVE  UNCHANGED <<stage, resident>>
      BY <3>4 DEF StartJob, FinishJob, ProbeArrives, ProbeAnswers, vars
    <3> QED
      BY <3>1, <3>2, <3>3, <3>4 DEF Next, LoopStep, Stages
  <2> QED
    BY <2>1 DEF IInv, TypeOK, NoRequestBuilds
<1>3. AllThere => NoRequestBuilds
  OBVIOUS
<1> QED
  BY <1>1, <1>2, <1>3, Invariance, PTL DEF Spec

-----------------------------------------------------------------------------
(* The counter counts requests                                             *)

\* Requests are finitely many, so those admitted to c can be counted.
LEMMA AdmittedFinite ==
    ASSUME NEW c PROVE IsFiniteSet(Admitted(c)) /\ Cardinality(Admitted(c)) \in Nat
BY SlotsAreFinite, FS_Subset, FS_CardinalityType DEF Admitted

\* r enters the line of its checkpoint.
LEMMA CountUp ==
    ASSUME IInv, PendingCountsRequests, NEW r \in Requests, Admit(r)
    PROVE  PendingCountsRequests'
<1> DEFINE c == checkpoint[r]
<1>1. /\ stage[r] = "budget" /\ c \in Checkpoints /\ TypeOK
      /\ \E s \in {"lock", "infer"} : stage' = [stage EXCEPT ![r] = s]
      /\ checkpoint' = checkpoint
      /\ pending' = [pending EXCEPT ![c] = @ + 1]
  BY DEF Admit, TakeLock, WaitForLock, Offload, IInv, CheckpointKnown
<1> SUFFICES ASSUME NEW d \in Checkpoints PROVE pending'[d] = Cardinality(Admitted(d)')
  BY DEF PendingCountsRequests
<1>2. CASE d = c
  <2>1. Admitted(d)' = Admitted(d) \cup {r} /\ r \notin Admitted(d)
    BY <1>1, <1>2 DEF Admitted, TypeOK
  <2>2. Cardinality(Admitted(d) \cup {r}) = Cardinality(Admitted(d)) + 1
    BY <2>1, AdmittedFinite, FS_AddElement
  <2> QED
    BY <1>1, <1>2, <2>1, <2>2 DEF PendingCountsRequests, TypeOK
<1>3. CASE d # c
  <2>1. Admitted(d)' = Admitted(d)
    BY <1>1, <1>3 DEF Admitted, TypeOK
  <2> QED
    BY <1>1, <1>3, <2>1 DEF PendingCountsRequests, TypeOK
<1> QED
  BY <1>2, <1>3

\* r leaves it, however its forward pass ended.
LEMMA CountDown ==
    ASSUME IInv, PendingCountsRequests, NEW r \in Requests, InferReturns(r)
    PROVE  PendingCountsRequests'
<1> DEFINE c == checkpoint[r]
<1>1. /\ stage[r] = "infer" /\ c \in Checkpoints /\ TypeOK
      /\ stage' = [stage EXCEPT ![r] = "idle"]
      /\ checkpoint' = checkpoint
      /\ pending' = [pending EXCEPT ![c] = @ - 1]
  BY DEF InferReturns, Release, Answer, IInv, CheckpointKnown
<1> SUFFICES ASSUME NEW d \in Checkpoints PROVE pending'[d] = Cardinality(Admitted(d)')
  BY DEF PendingCountsRequests
<1>2. CASE d = c
  <2>1. Admitted(d)' = Admitted(d) \ {r} /\ r \in Admitted(d)
    BY <1>1, <1>2 DEF Admitted, TypeOK
  <2>2. Cardinality(Admitted(d) \ {r}) = Cardinality(Admitted(d)) - 1
    BY <2>1, AdmittedFinite, FS_RemoveElement
  <2> QED
    BY <1>1, <1>2, <2>1, <2>2 DEF PendingCountsRequests, TypeOK
<1>3. CASE d # c
  <2>1. Admitted(d)' = Admitted(d)
    BY <1>1, <1>3 DEF Admitted, TypeOK
  <2> QED
    BY <1>1, <1>3, <2>1 DEF PendingCountsRequests, TypeOK
<1> QED
  BY <1>2, <1>3

\* Every other step leaves each line with the requests it has.
LEMMA CountSame ==
    ASSUME PendingCountsRequests, pending' = pending,
           \A c \in Checkpoints : Admitted(c)' = Admitted(c)
    PROVE  PendingCountsRequests'
BY DEF PendingCountsRequests

\* A request that is not let past the depth check moves no line and no count.
LEMMA EarlyStepsKeepLines ==
    ASSUME IInv, NEW r \in Requests,
           \/ Submit(r) \/ Reject(r) \/ RouteReturns(r) \/ RouteFails(r)
           \/ BudgetFails(r) \/ TurnAway(r) \/ Build(r)
    PROVE  /\ UNCHANGED <<holder, waiters, pending>>
           /\ \A c \in Checkpoints : Admitted(c)' = Admitted(c)
<1>1. UNCHANGED <<holder, waiters, pending>>
  BY DEF Submit, Reject, RouteReturns, RouteFails, BudgetFails, TurnAway, Build,
         BuildReturns, BuildFails
<1>2. \A s \in Requests \ {r} : stage'[s] = stage[s] /\ checkpoint'[s] = checkpoint[s]
  BY DEF Submit, Reject, RouteReturns, RouteFails, BudgetFails, TurnAway, Build,
         BuildReturns, BuildFails, Offload, Answer, IInv, TypeOK
<1>3. stage[r] \notin {"lock", "infer"} /\ stage'[r] \notin {"lock", "infer"}
  BY EarlyStepsPreserve
<1> QED
  BY <1>1, <1>2, <1>3 DEF Admitted

\* Every step keeps the counter equal to the number of requests that hold a slot.
LEMMA NextCounts == IInv /\ PendingCountsRequests /\ [Next]_vars => PendingCountsRequests'
<1> SUFFICES ASSUME IInv, PendingCountsRequests, [Next]_vars PROVE PendingCountsRequests'
  OBVIOUS
<1>1. ASSUME NEW r \in Requests,
             \/ Submit(r) \/ Reject(r) \/ RouteReturns(r) \/ RouteFails(r)
             \/ BudgetFails(r) \/ TurnAway(r) \/ Build(r)
      PROVE  PendingCountsRequests'
  BY <1>1, EarlyStepsKeepLines, CountSame
<1>2. ASSUME NEW r \in Requests, AcquireLock(r)
      PROVE  PendingCountsRequests'
  <2>1. stage[r] = "lock" /\ stage' = [stage EXCEPT ![r] = "infer"] /\ UNCHANGED <<checkpoint, pending>>
    BY <1>2 DEF AcquireLock, TakeLock, Offload
  <2>2. \A c \in Checkpoints : Admitted(c)' = Admitted(c)
    BY <2>1 DEF Admitted, IInv, TypeOK
  <2> QED
    BY <2>1, <2>2, CountSame
<1>3. ASSUME \/ \E r \in Requests : StartJob(r) \/ FinishJob(r)
             \/ ProbeArrives \/ ProbeAnswers
             \/ UNCHANGED vars
      PROVE  PendingCountsRequests'
  <2>1. UNCHANGED <<stage, checkpoint, pending>>
    BY <1>3, JobStepsPreserve
  <2> QED
    BY <2>1, CountSame DEF Admitted
<1> QED
  BY <1>1, <1>2, <1>3, CountUp, CountDown DEF Next, LoopStep

\* _pending[c] is always the number of handlers between the increment and the
\* `finally` of predict(): the counter cannot leak a slot nor free one twice.
THEOREM PendingExact == Spec => []PendingCountsRequests
<1>1. Init => PendingCountsRequests
  <2> SUFFICES ASSUME Init, NEW c \in Checkpoints PROVE pending[c] = Cardinality(Admitted(c))
    BY DEF PendingCountsRequests
  <2>1. Admitted(c) = {}
    BY DEF Admitted, Init
  <2> QED
    BY <2>1, FS_EmptySet DEF Init
<1> QED
  BY <1>1, NextCounts, Invariance, PTL DEF Spec

-----------------------------------------------------------------------------
(* Refinement: the scheduling of Engine.predict implements one bounded     *)
(* first-in-first-out line per checkpoint (CheckpointQueues).  The line of *)
(* a checkpoint is the owner of its lock followed by the lock's waiters.   *)
(* Admit joins it at the end, AcquireLock leaves it as it is, InferReturns *)
(* removes its head, TurnAway and the next Submit or Reject of that client *)
(* change only who is refused; every other step is a stutter.              *)


\* The line has as many requests as the counter says.
LEMMA LineIsCounted ==
    ASSUME IInv, NEW c \in Checkpoints
    PROVE  /\ Line(c) \in Seq(Requests)
           /\ Len(Line(c)) = pending[c]
<1>1. waiters[c] \in Seq(Requests) /\ Len(waiters[c]) \in Nat
  BY LineLengths DEF IInv
<1>2. pending[c] = Len(waiters[c]) + (IF holder[c] = None THEN 0 ELSE 1)
  BY DEF IInv, PendingCountsLine
<1>3. CASE holder[c] = None
  <2>1. Line(c) = waiters[c]
    BY <1>1, <1>3, ConcatEmptySeq DEF Line
  <2> QED
    BY <1>1, <1>2, <1>3, <2>1
<1>4. CASE holder[c] # None
  <2>1. <<holder[c]>> \in Seq(Requests) /\ Len(<<holder[c]>>) = 1
    BY <1>4 DEF IInv, TypeOK
  <2>2. Line(c) = <<holder[c]>> \o waiters[c]
    BY <1>4 DEF Line
  <2>3. Line(c) \in Seq(Requests) /\ Len(Line(c)) = 1 + Len(waiters[c])
    BY <1>1, <2>1, <2>2, ConcatProperties
  <2> QED
    BY <1>1, <1>2, <1>4, <2>3
<1> QED
  BY <1>3, <1>4

\* A request that is not past the depth check is in no line.
LEMMA EarlyInNoLine ==
    ASSUME IInv, NEW r \in Requests, stage[r] \notin {"lock", "infer"}, NEW c \in Checkpoints,
           NEW i \in 1..Len(Line(c))
    PROVE  Line(c)[i] # r
<1>1. waiters[c] \in Seq(Requests) /\ Len(waiters[c]) \in Nat
  BY LineLengths DEF IInv
<1>2. \A k \in 1..Len(waiters[c]) : waiters[c][k] # r
  BY DEF IInv, WaitersWait
<1>3. CASE holder[c] = None
  <2>1. Line(c) = waiters[c]
    BY <1>1, <1>3, ConcatEmptySeq DEF Line
  <2> QED
    BY <1>2, <2>1
<1>4. CASE holder[c] # None
  <2>1. holder[c] \in Requests \ {r}
    BY <1>4 DEF IInv, TypeOK, HolderRuns
  <2>2. Line(c) = <<holder[c]>> \o waiters[c]
    BY <1>4 DEF Line
  <2>3. <<holder[c]>> \in Seq(Requests) /\ Len(<<holder[c]>>) = 1 /\ <<holder[c]>>[1] = holder[c]
    BY <2>1
  <2>4. /\ Len(Line(c)) = 1 + Len(waiters[c])
        /\ Line(c)[i] = IF i <= 1 THEN <<holder[c]>>[i] ELSE waiters[c][i - 1]
    BY <1>1, <2>2, <2>3, ConcatProperties
  <2> QED
    BY <1>1, <1>2, <2>1, <2>3, <2>4
<1> QED
  BY <1>3, <1>4

\* No request, no line: the initial states map to the initial state.
LEMMA InitRefines == Init => Queues!Init
<1> SUFFICES ASSUME Init PROVE Queues!Init
  OBVIOUS
<1>1. \A c \in Checkpoints : Line(c) = <<>>
  BY EmptySeq, ConcatEmptySeq DEF Init, Line
<1>2. \A r \in Requests : Refused(r) = None
  BY DEF Init, Refused
<1> QED
  BY <1>1, <1>2 DEF Queues!Init

-----------------------------------------------------------------------------
(* The steps                                                               *)

\* The mapped variables.
Lines    == [c \in Checkpoints |-> Line(c)]
Refusals == [r \in Requests |-> Refused(r)]

\* No lock and no waiter moves: the lines are the same.
LEMMA SameLines ==
    ASSUME UNCHANGED <<holder, waiters>> PROVE Lines' = Lines
BY DEF Lines, Line

\* A step of one request changes at most what that request was told.
LEMMA OneRefusal ==
    ASSUME NEW r \in Requests, NEW c,
           Refused(r)' = c,
           \A s \in Requests \ {r} : /\ stage'[s] = stage[s]
                                      /\ response'[s] = response[s]
                                      /\ checkpoint'[s] = checkpoint[s]
    PROVE  Refusals' = [Refusals EXCEPT ![r] = c]
<1>1. \A s \in Requests \ {r} : Refused(s)' = Refused(s)
  BY DEF Refused
<1> QED
  BY <1>1 DEF Refusals

\* A step that answers nobody leaves what everybody was told.
LEMMA SameRefusals ==
    ASSUME NEW r \in Requests,
           Refused(r)' = Refused(r),
           \A s \in Requests \ {r} : /\ stage'[s] = stage[s]
                                      /\ response'[s] = response[s]
                                      /\ checkpoint'[s] = checkpoint[s]
    PROVE  Refusals' = Refusals
BY DEF Refusals, Refused

\* The end of the line of its checkpoint is where an admitted request goes.
LEMMA AdmitJoins ==
    ASSUME IInv, NEW r \in Requests, Admit(r)
    PROVE  Queues!Join(r, checkpoint[r])
<1>0. PICK c \in Checkpoints : c = checkpoint[r]
  BY DEF Admit, AcquireLock, InferReturns, TurnAway, IInv, CheckpointKnown
<1>1. /\ c \in Checkpoints /\ TypeOK /\ stage[r] = "budget"
      /\ pending[c] < MaxQueueDepth
      /\ UNCHANGED <<checkpoint, response>>
      /\ \E s \in {"infer", "lock"} : stage' = [stage EXCEPT ![r] = s]
  BY <1>0 DEF Admit, Admits, TakeLock, WaitForLock, Offload, IInv
<1>2. waiters[c] \in Seq(Requests) /\ r # None
  BY <1>1, LineLengths, NoneIsNothing
<1>3. Line(c)' = Append(Line(c), r)
  <2>1. CASE LockFree(c) /\ TakeLock(r, c) /\ UNCHANGED waiters
    <3>1. holder[c] = None /\ waiters[c] = <<>> /\ holder'[c] = r /\ waiters'[c] = <<>>
      BY <1>1, <2>1 DEF LockFree, TakeLock, TypeOK
    <3>2. Line(c) = <<>> \o <<>> /\ Line(c)' = <<r>> \o <<>>
      BY <1>2, <3>1 DEF Line
    <3>3. <<r>> \in Seq(Requests) /\ <<>> \in Seq(Requests)
      BY EmptySeq
    <3>4. <<>> \o <<>> = <<>> /\ <<r>> \o <<>> = <<r>>
      BY <3>3, ConcatEmptySeq
    <3>5. Append(<<>>, r) = <<r>>
      OBVIOUS
    <3> QED
      BY <3>2, <3>4, <3>5
  <2>2. CASE ~LockFree(c) /\ WaitForLock(r, c) /\ UNCHANGED <<holder, poolq>>
    <3>1. holder'[c] = holder[c] /\ waiters'[c] = Append(waiters[c], r)
      BY <1>1, <2>2 DEF WaitForLock, TypeOK
    <3>2. \A head \in Seq(Requests) :
              head \o Append(waiters[c], r) = Append(head \o waiters[c], r)
      BY <1>2
    <3>3. <<>> \in Seq(Requests) /\ (holder[c] # None => <<holder[c]>> \in Seq(Requests))
      BY <1>1, EmptySeq DEF TypeOK
    <3>4. CASE holder[c] = None
      <4>1. Line(c) = <<>> \o waiters[c] /\ Line(c)' = <<>> \o Append(waiters[c], r)
        BY <3>1, <3>4 DEF Line
      <4> QED
        BY <3>2, <3>3, <4>1
    <3>5. CASE holder[c] # None
      <4>1. /\ Line(c) = <<holder[c]>> \o waiters[c]
            /\ Line(c)' = <<holder[c]>> \o Append(waiters[c], r)
        BY <3>1, <3>5 DEF Line
      <4> QED
        BY <3>2, <3>3, <3>5, <4>1
    <3> QED
      BY <3>4, <3>5
  <2> QED
    BY <1>0, <2>1, <2>2 DEF Admit
<1>4. ASSUME NEW d \in Checkpoints, d # c
      PROVE  Line(d)' = Line(d)
  BY <1>0, <1>1, <1>4 DEF Admit, TakeLock, WaitForLock, TypeOK, Line
<1>5. Lines' = [Lines EXCEPT ![c] = Append(@, r)]
  BY <1>1, <1>3, <1>4 DEF Lines
<1>6. Refused(r) = None /\ Refusals' = Refusals
  <2>1. Refused(r) = None /\ Refused(r)' = None
    BY <1>1 DEF Refused, TypeOK
  <2> QED
    BY <1>1, <2>1, SameRefusals DEF TypeOK
<1>7. Len(Line(c)) < MaxQueueDepth
  BY <1>1, LineIsCounted
<1>8. \A d \in Checkpoints : ~Queues!InLine(r, d)
  BY <1>1, EarlyInNoLine DEF Queues!InLine
<1> QED
  BY <1>0, <1>1, <1>5, <1>6, <1>7, <1>8 DEF Queues!Join, Lines, Refusals

\* A waiter that becomes the owner stays at the head of the line.
LEMMA AcquireStutters ==
    ASSUME IInv, NEW r \in Requests, AcquireLock(r)
    PROVE  Lines' = Lines /\ Refusals' = Refusals
<1>0. PICK c \in Checkpoints : c = checkpoint[r]
  BY DEF Admit, AcquireLock, InferReturns, TurnAway, IInv, CheckpointKnown
<1>1. /\ c \in Checkpoints /\ TypeOK /\ stage[r] = "lock"
      /\ holder[c] = None /\ waiters[c] # <<>> /\ r = Head(waiters[c])
      /\ waiters' = [waiters EXCEPT ![c] = Tail(@)]
      /\ holder' = [holder EXCEPT ![c] = r]
      /\ UNCHANGED <<checkpoint, response>>
      /\ stage' = [stage EXCEPT ![r] = "infer"]
  BY <1>0 DEF AcquireLock, TakeLock, Offload, IInv
<1>2. waiters[c] \in Seq(Requests) /\ r # None
  BY <1>1, LineLengths, NoneIsNothing
<1>3. Line(c) = waiters[c]
  BY <1>1, <1>2, ConcatEmptySeq DEF Line
<1>4. Line(c)' = <<r>> \o Tail(waiters[c])
  BY <1>1, <1>2 DEF Line, TypeOK
<1>5. <<r>> \o Tail(waiters[c]) = waiters[c]
  BY <1>1, <1>2
<1>6. ASSUME NEW d \in Checkpoints, d # c
      PROVE  Line(d)' = Line(d)
  BY <1>1, <1>6 DEF TypeOK, Line
<1>7. Lines' = Lines
  BY <1>3, <1>4, <1>5, <1>6 DEF Lines
<1>8. Refusals' = Refusals
  <2>1. Refused(r) = None /\ Refused(r)' = None
    BY <1>1 DEF Refused, TypeOK
  <2> QED
    BY <1>1, <2>1, SameRefusals DEF TypeOK
<1> QED
  BY <1>7, <1>8

\* The end of a forward pass serves the head of the line.
LEMMA InferServes ==
    ASSUME IInv, NEW r \in Requests, InferReturns(r)
    PROVE  Queues!Serve(checkpoint[r])
<1>0. PICK c \in Checkpoints : c = checkpoint[r]
  BY DEF Admit, AcquireLock, InferReturns, TurnAway, IInv, CheckpointKnown
<1>1. /\ c \in Checkpoints /\ TypeOK /\ stage[r] = "infer"
      /\ holder' = [holder EXCEPT ![c] = None]
      /\ UNCHANGED <<checkpoint, waiters>>
      /\ stage' = [stage EXCEPT ![r] = "idle"]
      /\ \E status \in {200, 422, 500} : response' = [response EXCEPT ![r] = status]
  BY <1>0 DEF InferReturns, Release, Answer, IInv
<1>2. waiters[c] \in Seq(Requests) /\ holder[c] = r /\ r # None
  BY <1>0, <1>1, LineLengths, NoneIsNothing DEF IInv, HolderRuns
<1>3. Line(c) = <<r>> \o waiters[c] /\ Line(c)' = waiters[c]
  <2>1. Line(c)' = <<>> \o waiters[c]
    BY <1>1 DEF Line, TypeOK
  <2> QED
    BY <1>2, <2>1, ConcatEmptySeq DEF Line
<1>4. Line(c) # <<>> /\ Tail(Line(c)) = waiters[c]
  BY <1>2, <1>3
<1>5. ASSUME NEW d \in Checkpoints, d # c
      PROVE  Line(d)' = Line(d)
  BY <1>1, <1>5 DEF TypeOK, Line
<1>6. Lines' = [Lines EXCEPT ![c] = Tail(@)]
  BY <1>1, <1>3, <1>4, <1>5 DEF Lines
<1>7. Refusals' = Refusals
  <2>1. Refused(r) = None /\ Refused(r)' = None
    BY <1>1 DEF Refused, TypeOK
  <2> QED
    BY <1>1, <2>1, SameRefusals DEF TypeOK
<1> QED
  BY <1>0, <1>1, <1>4, <1>6, <1>7 DEF Queues!Serve, Lines, Refusals

\* A request is turned away from its own checkpoint, whose line is full.
LEMMA TurnAwayRefuses ==
    ASSUME IInv, NEW r \in Requests, TurnAway(r)
    PROVE  Queues!TurnAway(r, checkpoint[r])
<1>0. PICK c \in Checkpoints : c = checkpoint[r]
  BY DEF Admit, AcquireLock, InferReturns, TurnAway, IInv, CheckpointKnown
<1>1. /\ c \in Checkpoints /\ TypeOK /\ stage[r] = "budget"
      /\ ~(pending[c] < MaxQueueDepth)
      /\ UNCHANGED <<checkpoint, holder, waiters>>
      /\ stage' = [stage EXCEPT ![r] = "idle"]
      /\ response' = [response EXCEPT ![r] = 529]
  BY <1>0 DEF TurnAway, Admits, Answer, IInv
<1>2. Len(Line(c)) >= MaxQueueDepth
  BY <1>1, LineIsCounted, DepthIsInteger DEF TypeOK
<1>3. \A d \in Checkpoints : ~Queues!InLine(r, d)
  BY <1>1, EarlyInNoLine DEF Queues!InLine
<1>4. Refused(r) = None /\ Refused(r)' = c
  BY <1>0, <1>1 DEF Refused, TypeOK
<1>5. Refusals' = [Refusals EXCEPT ![r] = c]
  BY <1>1, <1>4, OneRefusal DEF TypeOK
<1> QED
  BY <1>0, <1>1, <1>2, <1>3, <1>4, <1>5, SameLines DEF Queues!TurnAway, Lines, Refusals

\* The next request of a client that was turned away, or a stutter.
LEMMA ReturnsOrStutters ==
    ASSUME IInv, NEW r \in Requests, Submit(r) \/ Reject(r)
    PROVE  Queues!ComeBack(r) \/ UNCHANGED Queues!vars
<1>1. /\ stage[r] = "idle" /\ TypeOK
      /\ UNCHANGED <<holder, waiters>>
      /\ \E s \in {"idle", "route"} : stage' = [stage EXCEPT ![r] = s]
      /\ \E status \in {0, 422} : response' = [response EXCEPT ![r] = status]
      /\ checkpoint' = [checkpoint EXCEPT ![r] = None]
  BY DEF Submit, Reject, Offload, Answer, IInv
<1>2. Refused(r)' = None
  BY <1>1 DEF Refused, TypeOK
<1>3. Refusals' = [Refusals EXCEPT ![r] = None]
  BY <1>1, <1>2, OneRefusal DEF TypeOK
<1>4. CASE Refused(r) = None
  <2>1. Refusals' = Refusals
    BY <1>3, <1>4 DEF Refusals
  <2> QED
    BY <1>1, <2>1, SameLines DEF Queues!vars, Lines, Refusals
<1>5. CASE Refused(r) # None
  BY <1>1, <1>3, <1>5, SameLines DEF Queues!ComeBack, Lines, Refusals
<1> QED
  BY <1>4, <1>5

\* The other steps of a request are none of the lines' business.
LEMMA OtherStepsStutter ==
    ASSUME IInv, NEW r \in Requests,
           RouteReturns(r) \/ RouteFails(r) \/ BudgetFails(r) \/ Build(r)
    PROVE  UNCHANGED Queues!vars
<1>1. /\ stage[r] # "idle" /\ TypeOK
      /\ UNCHANGED <<holder, waiters>>
  BY DEF RouteReturns, RouteFails, BudgetFails, Build, BuildReturns, BuildFails, IInv
<1>2. \/ response' = response /\ stage'[r] # "idle"
      \/ response'[r] \in {422, 500}
  BY <1>1 DEF RouteReturns, RouteFails, BudgetFails, Build, BuildReturns, BuildFails,
              Offload, Answer, TypeOK
<1>3. \A s \in Requests \ {r} : /\ stage'[s] = stage[s]
                                /\ response'[s] = response[s]
                                /\ checkpoint'[s] = checkpoint[s]
  BY <1>1 DEF RouteReturns, RouteFails, BudgetFails, Build, BuildReturns, BuildFails,
              Offload, Answer, TypeOK
<1>4. Refused(r) = None /\ Refused(r)' = None
  BY <1>1, <1>2 DEF Refused
<1> QED
  BY <1>1, <1>3, <1>4, SameLines, SameRefusals DEF Queues!vars, Lines, Refusals

\* Every step of the engine is a step of the lines, or none that they notice.
LEMMA NextRefines == IInv /\ [Next]_vars => [Queues!Next]_(Queues!vars)
<1> SUFFICES ASSUME IInv, [Next]_vars PROVE Queues!Next \/ UNCHANGED Queues!vars
  OBVIOUS
<1>1. ASSUME NEW r \in Requests, Submit(r) \/ Reject(r)
      PROVE  Queues!Next \/ UNCHANGED Queues!vars
  BY <1>1, ReturnsOrStutters DEF Queues!Next
<1>2. ASSUME NEW r \in Requests,
             RouteReturns(r) \/ RouteFails(r) \/ BudgetFails(r) \/ Build(r)
      PROVE  UNCHANGED Queues!vars
  BY <1>2, OtherStepsStutter
<1>3. ASSUME NEW r \in Requests, TurnAway(r) \/ Admit(r) \/ InferReturns(r)
      PROVE  Queues!Next
  <2>1. checkpoint[r] \in Checkpoints
    BY <1>3 DEF TurnAway, Admit, InferReturns, IInv, CheckpointKnown
  <2> QED
    BY <1>3, <2>1, TurnAwayRefuses, AdmitJoins, InferServes DEF Queues!Next
<1>4. ASSUME NEW r \in Requests, AcquireLock(r)
      PROVE  UNCHANGED Queues!vars
  BY <1>4, AcquireStutters DEF Queues!vars, Lines, Refusals
<1>5. ASSUME \/ \E r \in Requests : StartJob(r) \/ FinishJob(r)
             \/ ProbeArrives \/ ProbeAnswers
             \/ UNCHANGED vars
      PROVE  UNCHANGED Queues!vars
  <2>1. UNCHANGED <<stage, checkpoint, response, holder, waiters>>
    BY <1>5, JobStepsPreserve
  <2> QED
    BY <2>1, SameLines DEF Queues!vars, Lines, Refused
<1> QED
  BY <1>1, <1>2, <1>3, <1>4, <1>5 DEF Next, LoopStep

\* The locks, the counters and the depth check of predict() implement one
\* bounded first-in-first-out line per checkpoint: nobody overtakes, and a 529
\* comes only from the full line of the checkpoint the request was routed to.
THEOREM EngineImplementsQueues == Spec => IsCheckpointQueues
BY InitRefines, NextRefines, Invariance, PTL DEF Spec, IsCheckpointQueues, Queues!Spec
=============================================================================
