\* Three requests of two users.
CONSTANTS
    Users = {u1, u2}
    Calls = {c1, c2, c3}
    Passwords = {p1, p2}
    LastSecond = 1
    NoToken = NoToken
    NoPassword = NoPassword
SPECIFICATION ActiveSpec
SYMMETRY Symmetry
INVARIANTS
    TypeOK
    AccountInv
    RegisteredOnce
    AccountIsKept
PROPERTIES
    DeletedIsShutOut
    SessionsStartByLogin
    ImplementsAtomicAccounts
