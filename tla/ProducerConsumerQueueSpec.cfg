SPECIFICATION Spec
CONSTANTS
    Consumers = {c1, c2, c3}
    Items = {i1, i2}
    NoItem = NoItem
    Capacity = 2
INVARIANTS
    TypeOK
    NoLostWakeup
    ShutdownWakesAll
PROPERTIES
    ImplementsWorkQueue
