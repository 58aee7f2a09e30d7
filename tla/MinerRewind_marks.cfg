SPECIFICATION MinerSpec
CONSTANTS
    g = g
    a1 = a1
    a2 = a2
    b1 = b1
    None = None
    Blocks <- FourBlocks
    Genesis = g
    pprev <- Competitor
    Address <- FourAddresses
    Invalid = {}
    Corrupt = {}
    BadBody = {}
    Threads = {"miner", "net"}
    Miner = "miner"
    MinBlocksToKeep = 5
    MaxCalls = 0
    MaxSequence = 4
INVARIANTS
    NothingStaysMarked
CHECK_DEADLOCK FALSE
