SPECIFICATION Spec
CONSTANTS
    x = x
    y = y
    u = u
    v = v
    b0 = b0
    b1 = b1
    Pruned = Pruned
    NullHash = NullHash
    Txs <- TwoTxs
    Unspent <- TwoValues
    Blocks <- TwoBlocks
    Genesis = b0
INVARIANTS
    FlagsSound
    NoLogicError
PROPERTIES
    LedgerSpec
