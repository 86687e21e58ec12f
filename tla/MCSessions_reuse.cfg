SPECIFICATION Spec
CONSTANTS
    Requests = {r1, r2, r3, r4}
    Unknown = Unknown
    NoOne = NoOne
SYMMETRY Interchangeable
INVARIANTS
    ReuseEndsFamily
CHECK_DEADLOCK FALSE
