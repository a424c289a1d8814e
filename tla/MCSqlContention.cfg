SPECIFICATION HistorySpec
CONSTANTS
    a1 = a1
    a2 = a2
    buy = buy
    m1 = m1
    m2 = m2
    m3 = m3
    m4 = m4
    gold = gold
    item = item
    bank = bank
    Connections <- MCConnections
    Async <- MCConnections
    Transactions <- MCTransactions
    Queued <- MCTransactions
    Rows = {gold, item, bank}
    Statements <- MCStatements
    Rejected = {}
    LoopBreaker = 5
    CanReconnect = FALSE
    MaxLosses = 0
    NoTransaction = NoTransaction
    NoRow = NoRow
    NoConnection = NoConnection
SYMMETRY MCSymmetry
INVARIANTS
    DroppedOnlyIfOutrun
