\* The owner of a closed wallet asks for a new one.
CONSTANTS
    Ticks = 1
    MaxCents = 2
    Wallets = {1, 2}
    Requests = {r1}
    NoReq = NoReq
    Tasks = {t1}
    Amounts <- OneCent
    Opening <- FirstOpening
    PoolSize = 2
SPECIFICATION FairSpec
PROPERTY
    ClosedWalletCanBeReplaced
