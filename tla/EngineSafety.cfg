\* Four requests over two checkpoints of which one is preloaded; no pool token
\* to spare.
SPECIFICATION Spec
CONSTANTS
    Requests = {r1, r2, r3, r4}
    Checkpoints = {english, multilingual}
    Preload = {english}
    MaxQueueDepth = 2
    PoolSize = 2
    Stuck = {}
    None = None
SYMMETRY RequestSymmetry
INVARIANTS
    TypeOK PendingCountsRequests ForwardPassExclusive QueueBounded AgentStaysResident
PROPERTIES IsCheckpointQueues
