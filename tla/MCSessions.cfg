SPECIFICATION FairSpec
CONSTANTS
    Requests = {r1, r2, r3, r4}
    Unknown = Unknown
    NoOne = NoOne
INVARIANTS
    TypeOK
    OneLivePerFamily
    SpentOnce
    SweptStaysGone
    Inv
PROPERTIES
    KeepsTokenChain
    EveryRequestAnswered
CHECK_DEADLOCK FALSE
