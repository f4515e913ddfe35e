\* One payment and its job.
CONSTANTS
    Ticks = 4
    MaxCents = 2
    Wallets = {1}
    Requests = {a1}
    NoReq = NoReq
    Keys = {k1}
    Tasks = {}
    Amounts <- OneAmount
    Opening <- Empty
SPECIFICATION FairActiveSpec
PROPERTY
    PaymentsSucceed
