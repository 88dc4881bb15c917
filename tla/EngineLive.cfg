\* Three requests over two checkpoints: one whose forward passes may hang, and
\* one that is built on demand.  A hung pass leaves one thread for all the rest.
SPECIFICATION FairSpec
CONSTANTS
    Requests = {r1, r2, r3}
    Checkpoints = {english, multilingual}
    Preload = {english}
    MaxQueueDepth = 2
    PoolSize = 2
    Stuck = {english}
    None = None
PROPERTIES OneRequestAnswered ProbeAnswered IsMovingCheckpointQueues
