CONSTANTS
    g = g
    a1 = a1
    a2 = a2
    a3 = a3
    a4 = a4
    good = good
    slow = slow
    None = None
    Blocks <- FourOnTop
    Genesis = g
    Parent <- OneChain
    Peers = {good, slow}
    PeerTip <- SlowBehind
    Answering = {good}
    Preferred = {good}
    BLOCK_DOWNLOAD_WINDOW = 2
    MAX_BLOCKS_IN_TRANSIT_PER_PEER = 2
    banscore = 1
SPECIFICATION FairSpec
INVARIANT InFlightConsistent
 
INVARIANT StallerOwes
PROPERTY Downloads
CHECK_DEADLOCK FALSE
