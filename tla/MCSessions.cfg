SPECIFICATION Spec
CONSTANTS
    alice = alice
    bob = bob
    gm = gm
    Accounts = {alice, bob, gm}
    SessionIds = {1, 2, 3, 4}
    AccountOf <- MCAccountOf
    Privileged = {gm}
    Limit = 1
    LastAttempt = 2
    MaxKeys <- MCMaxKeys
    MAX_PROCESSED_PACKETS = 0
    ExpireTicks = 2
    NoSession = 0
    NoAccount = NoAccount
INVARIANTS
    TypeOK
    NoDanglingSession
    QueueOnlyWhenFull
    LimitRespected
    LoginsReadSaves
    NobodyLeftBehind
PROPERTIES
    FirstComeFirstServed
    LostSessionsEnd
