CONSTANTS
    t1 = t1
    t2 = t2
    g = g
    b1 = b1
    b2 = b2
    c1 = c1
    c2 = c2
    TxId = {t1, t2}
    Block = {g, b1}
    Genesis = g
    Coins = {Pruned, c1, c2}
    Pruned = Pruned
    NoBlock = NoBlock
    NoEntry = NoEntry
    Unknown = Unknown
SPECIFICATION FaultySpec
INVARIANT DiskRepresentsBest
CHECK_DEADLOCK FALSE
