SPECIFICATION Spec
CHECK_DEADLOCK FALSE
CONSTANTS
    Conns = {c1}
    Calls = {s1}
    Requests <- MCBodies
    NoRequest = NoRequest
INVARIANT InvalidPayloadIs400
