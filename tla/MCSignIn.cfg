SPECIFICATION FairSpec
CONSTANTS
    Requests = {r1, r2, r3}
    Addresses = {alice, bob}
    Passwords = {right, other}
    NoOne = NoOne
INVARIANTS
    TypeOK
    OneUserPerAddress
    SignedInMeansStored
PROPERTIES
    EveryRequestAnswered
CHECK_DEADLOCK FALSE
