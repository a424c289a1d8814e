SPECIFICATION Spec
CONSTANTS
    a1 = a1
    a2 = a2
    s1 = s1
    buy = buy
    mail = mail
    save = save
    rename = rename
    empty = empty
    gold = gold
    item = item
    Connections <- MCConnections
    Async <- MCAsync
    Transactions <- MCTransactions
    Queued <- MCQueued
    Rows = {gold, item}
    Statements <- MCStatements
    Rejected <- MCRejected
    LoopBreaker = 2
    CanReconnect = FALSE
    MaxLosses = 0
    NoTransaction = NoTransaction
    NoRow = NoRow
    NoConnection = NoConnection
INVARIANTS
    TypeOK
    AllOrNothing
    DoneMeansDurable
PROPERTIES
    EveryTransactionEnds
    ImplementsAtomicTransactions
