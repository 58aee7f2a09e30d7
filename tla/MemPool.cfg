SPECIFICATION Spec

CONSTANTS
    tp = tp
    tc = tc
    td = td
    ts = ts
    tx = tx
    tk = tk
    tb = tb
    None = None
    Txs = {tp, tc, td, ts, tx}
    Inputs <- TheInputs
    Fee <- TheFees
    Coinbases = {tk}
    Base = tb
    Replaceable = {tp, td}
    nCoinbaseMaturity = 2
    nLimitAncestors = 3
    nLimitDescendants = 3
    MaxHeight = 2
    BlockSize = 3
    MaxCalls = 2
    nFeeDelta = 32

INVARIANTS
    PackagesFollowLinks
    LinksAreSpends
    InputsAvailable
    ParentsFirst
