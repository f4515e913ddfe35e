\* Two payments, or one sent twice, under fairness.
CONSTANTS
    Ticks = 4
    MaxCents = 2
    Wallets = {1}
    Requests = {a1, a2}
    NoReq = NoReq
    Keys = {k1, k2}
    Tasks = {}
    Amounts <- TwoAmounts
    Opening <- Empty
SPECIFICATION FairActiveSpec
INVARIANTS
    TypeOK
    PaymentsExplainBalances
PROPERTIES
    ImplementsIdempotentPayments
    AttemptsFinish
    JobsEnd
