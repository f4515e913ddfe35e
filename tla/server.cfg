SPECIFICATION FairSpec
CHECK_DEADLOCK FALSE
CONSTANTS
    Conns = {c1, c2}
    Calls = {s1, s2}
    Requests <- MCRequests
    NoRequest = NoRequest
INVARIANTS
    TypeOK
    ServerInv
    CleanExitIsDrained
    CleanExitEndsJobs
PROPERTIES
    ImplementsGracefulStop
    ShutdownEnds
    RequestsAnswered
