SPECIFICATION FairSpec
CONSTANTS
    m1 = m1
    zero = zero
    Maximum = Maximum
    Torn = Torn
    Live = Live
    None = None
    Callers = {"rpc", "shutdown"}
    Stoppers = {"shutdown"}
    Queries = {"query"}
    Miners <- OneMiner
    Kinds <- TwoKinds
    nThreads = 1
    HasScript = TRUE
INVARIANTS
    OutlivesThread
    KindNotMissed
PROPERTIES
    OnlyQueryBlocks
CHECK_DEADLOCK FALSE
