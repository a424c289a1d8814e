SPECIFICATION Spec
CONSTANTS
    Workers = {w1, w2}
    Clients = {c1}
    Stages = 2
    MaxSaves = 2
    MaxQueries = 2
    NoOperation = NoOperation
INVARIANTS
    TypeOK
    LoadsSeeSaves
    NoCallbackLost
PROPERTIES
    CallbacksRun
    CloseEnds
