CONSTANTS
    g = g
    a1 = a1
    a2 = a2
    b1 = b1
    None = None
    Blocks <- MCBlocks
    Genesis = g
    Parent <- MCParent
    LastFile = 2
    BlocksPerFile = 2
    MIN_BLOCKS_TO_KEEP = 1
    nPruneAfterHeight = 1
    UINT_MAX = 15
    nCheckDepth = 1
    MaxTroubles = 1
SPECIFICATION Spec
INVARIANT DataSafe
INVARIANT UndoSafe
INVARIANT CoinsInIndex
PROPERTY KeepsRecent
INVARIANT CoinsAtTip
INVARIANT RestartsUnlessDamaged
\* a start that is refused is the end
CHECK_DEADLOCK FALSE
