SPECIFICATION Spec
CONSTANTS
    Workers = {w1}
    Clients = {c1}
    Stages = 1
    MaxSaves = 1
    MaxQueries = 1
    NoOperation = NoOperation
INVARIANT SavedBeforeClose
