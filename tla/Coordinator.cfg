SPECIFICATION FairSpec
CONSTANTS
    Workers = {w1, w2, w3}
    UIDs = {u1, u2}
    Entries = {e1, e2, e3}
    NoEntry = NoEntry
INVARIANTS NoLeakedEntry
PROPERTIES LockSpec WaitEnds
