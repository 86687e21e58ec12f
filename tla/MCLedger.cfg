SPECIFICATION FairSpec
CONSTANTS
    alice = alice
    bob = bob
    chase = chase
    wise = wise
    monzo = monzo
    GBP = GBP
    USD = USD
    NoAccount = NoAccount
    NoOne = NoOne
    Requests = {r1, r2, r3}
    Creators = {r1}
    Users = {alice, bob}
    Accounts = {chase, wise, monzo}
    Owner <- TwoOwners
    Units = {GBP, USD}
    Amounts = {1, 2}
INVARIANTS
    TypeOK
    WholeTransfers
    TransfersCancel
    DeletedOnce
PROPERTIES
    TransferRowsAreFinal
    UnracedPatchesKeepSigns
    OnlyOwnersWrite
    EveryRequestAnswered
CHECK_DEADLOCK FALSE
