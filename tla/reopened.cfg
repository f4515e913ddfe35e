\* An unfreeze and a close of the same wallet.
CONSTANTS
    Ticks = 1
    MaxCents = 2
    Wallets = {1, 2}
    Requests = {r1}
    NoReq = NoReq
    Tasks = {t1, t2}
    Amounts <- OneCent
    Opening <- FirstOpening
    PoolSize = 2
SPECIFICATION FairSpec
PROPERTY
    ClosedIsFinal
