SPECIFICATION FairSpec
CONSTANTS
    c1 = c1
    c2 = c2
    c3 = c3
    left = left
    right = right
    Calls = {c1, c2, c3}
    Signers = {c3}
    Tabs = {left, right}
    Tab <- TwoTabs
    Held = Held
    NoToken = NoToken
    NoCall = NoCall
INVARIANTS
    TypeOK
PROPERTIES
    OnlyLostAnswersLookLikeTheft
    OnlyTheServerSignsOut
    EveryCallSettles
CHECK_DEADLOCK FALSE
