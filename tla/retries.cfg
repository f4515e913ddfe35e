\* A payment sent three times, to either wallet, and one call of the wallet service.
CONSTANTS
    Ticks = 4
    MaxCents = 3
    Wallets = {1, 2}
    Requests = {a1, a2, a3}
    NoReq = NoReq
    Keys = {k1}
    Tasks = {t1}
    Amounts <- OneAmount
    Opening <- Empty
SPECIFICATION OneWalletSpec
SYMMETRY Symmetry
INVARIANTS
    PaymentInv
    ChargedOnce
    ChargeHasPayment
    AnswersAreCommitted
    EventsFollowCommits
    
    WaitsAreShort
