SPECIFICATION FairSpec
CONSTANTS
    Alice = Alice
    alice = alice
    Requests = {r1, r2}
    Emails = {Alice, alice}
    Casefold <- Lowered
    IPs = {home}
    MaxLoginsPerEmail = 1
    MaxLoginsPerIP = 2
    MaxRegistrationsPerIP = 1
    RateWindow = 2
INVARIANTS
    TypeOK
    BurstsAreLimited
PROPERTIES
    CountersRunOut
CHECK_DEADLOCK FALSE
