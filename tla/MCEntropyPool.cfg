\* Two threads over two pools, a queue of two slots, and as many pushes
\* as take both counters round to 0.
CONSTANTS
    ENTROPY_QUEUE_SIZE = 2
    W = 4
    MAX_MIX_CHUNKS_PER_CALL = 2
    t1 = t1
    t2 = t2
    Threads = {t1, t2}
    p1 = p1
    p2 = p2
    Pools = {p1, p2}
    NoPool = NoPool
    MaxPushes = 4
    MaxBlocks = 2
SPECIFICATION MixingSpec
INVARIANTS
    ChunksMixedOnce
    SnapshotCurrent
    OutputsUnique
    SeededOutput
    Scrubbed
PROPERTY EntropyReachesPool
