SPECIFICATION FairSpec
CONSTANTS
    Requests = {r1, r2, r3, r4}
    Creators = {r1, r2}
    Patchers = {r3, r4}
    Users = {alice, bob}
    Names = {cash, isa}
    Unset = Unset
    Never = Never
    NoOne = NoOne
INVARIANTS
    TypeOK
    OneAccountPerName
PROPERTIES
    UnracedPatchesDoAsAsked
    OnlySentFieldsChange
    EveryRequestAnswered
CHECK_DEADLOCK FALSE
