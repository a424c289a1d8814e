SPECIFICATION Spec
CONSTANTS
    a1 = a1
    a2 = a2
    s1 = s1
    buy = buy
    mail = mail
    save = save
    rename = rename
    empty = empty
    gold = gold
    item = item
    Connections <- MCAsync
    Async <- MCAsync
    Transactions <- ReconnectTransactions
    Queued <- ReconnectTransactions
    Rows = {gold, item}
    Statements <- ReconnectStatements
    Rejected <- MCRejected
    LoopBreaker = 2
    CanReconnect = TRUE
    MaxLosses = 1
    NoTransaction = NoTransaction
    NoRow = NoRow
    NoConnection = NoConnection
INVARIANTS
    IdleHoldsNothing
PROPERTIES
    EveryTransactionEnds
