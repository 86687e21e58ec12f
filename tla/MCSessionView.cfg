SPECIFICATION MCSpec
CONSTANTS
    left = left
    right = right
    Tabs <- BothTabs
    Busy = {left}
    Chains = {c0, c1}
    Held = c0
    NoChain = NoChain
    MaxNetworkRetries = 1
INVARIANTS
    TypeOK
    DataNeverOutlivesItsAccount
CHECK_DEADLOCK FALSE
PROPERTIES
    TabsComeToRest
    CheckingEnds
    SignOutBitesInTheEnd
