\* Two requests and one status change over two wallets.
CONSTANTS
    Ticks = 4
    MaxCents = 2
    Wallets = {1, 2}
    Requests = {r1, r2}
    NoReq = NoReq
    Tasks = {t1}
    Amounts <- FineAmounts
    Opening <- FirstOpening
    PoolSize = 2
SPECIFICATION Spec
SYMMETRY RequestSymmetry
INVARIANTS
    TypeOK
    IInv
    NoOverdraft
    LedgerChain
    CacheMatchesLedger
    AllOrNothing
    NoLockCycle
    MoneyIsConserved
PROPERTIES
    MoneyMovesOnlyWhenActive
    ImplementsAtomicBank
