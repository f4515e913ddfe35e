\* An amount such as 0.005 is allowed.
CONSTANTS
    Ticks = 4
    MaxCents = 2
    Wallets = {1, 2}
    Requests = {r1}
    NoReq = NoReq
    Tasks = {}
    Amounts <- HalfCent
    Opening <- FirstOpening
    PoolSize = 2
SPECIFICATION FairSpec
INVARIANT
    CacheMatchesLedger
