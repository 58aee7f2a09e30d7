SPECIFICATION FairSpec
CONSTANTS
    g = g
    a1 = a1
    a2 = a2
    a3 = a3
    b1 = b1
    b2 = b2
    b3 = b3
    b4 = b4
    None = None
    Blocks <- FiveBlocks
    pprev <- ShortBranches
    Address <- FiveAddresses
    Genesis = g
    Invalid = {b2}
    Corrupt = {}
    BadBody = {a2}
    Threads = {"t1", "t2"}
    MinBlocksToKeep = 5
    MaxCalls = 1
    MaxSequence = 4
INVARIANTS
    KeysStable
    
PROPERTIES
    ActivationEnds
CHECK_DEADLOCK FALSE
