SPECIFICATION Spec
CONSTANTS
    alice = alice
    bob = bob
    cash = cash
    coin = coin
    purse = purse
    GBP = GBP
    BTC = BTC
    MaxDigits = 4
    Places = 2
    Precision = 3
    Fine = 3
    Drafts <- SomeDrafts
    Transfers <- SomeTransfers
    Ids = {1, 2, 3}
    Accounts <- AllAccounts
    Owner <- Owners
    Units = {GBP, BTC}
    Unit <- UnitsAtStart
    Readers = {alice}
    Periods <- SomePeriods
    Limits = {2}
    Overlaps = 1
INVARIANTS
    TypeOK
    SummaryAgrees
    WalksMissOnlyWhatMoves
    FittingAmountsAreExact
CHECK_DEADLOCK FALSE
