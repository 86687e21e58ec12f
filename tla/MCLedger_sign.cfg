SPECIFICATION Spec
CONSTANTS
    alice = alice
    bob = bob
    chase = chase
    wise = wise
    monzo = monzo
    GBP = GBP
    USD = USD
    NoAccount = NoAccount
    NoOne = NoOne
    Requests = {r1, r2, r3}
    Creators = {r1}
    Users = {alice}
    Accounts = {chase, wise}
    Owner <- OneOwner
    Units = {GBP}
    Amounts = {1, 2}
INVARIANTS
    SignFollowsKind
CHECK_DEADLOCK FALSE
