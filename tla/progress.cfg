\* A status change waits for rows that three requests lock over two connections, each for half a cent.
CONSTANTS
    Ticks = 4
    MaxCents = 2
    Wallets = {1, 2}
    Requests = {r1, r2, r3}
    NoReq = NoReq
    Tasks = {t1}
    Amounts <- OnlyHalfCents
    Opening <- FirstOpening
    PoolSize = 2
SPECIFICATION FairOneActiveSpec
INVARIANTS
    SomeoneMoves
    DriftIsBounded
PROPERTIES
    RequestsFinish
    TasksFinish
