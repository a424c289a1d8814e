SPECIFICATION Spec
CONSTANTS
    alice = alice
    bob = bob
    gm = gm
    Accounts = {alice}
    SessionIds = {1}
    AccountOf <- MCOneAccount
    Privileged = {}
    Limit = 1
    LastAttempt = 5
    MaxKeys <- MCFiveKeys
    MAX_PROCESSED_PACKETS = 0
    ExpireTicks = 2
    NoSession = 0
    NoAccount = NoAccount
PROPERTIES
    AbortedLoginsStayOut
