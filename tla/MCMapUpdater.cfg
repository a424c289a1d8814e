SPECIFICATION Spec
CONSTANTS
    w1 = w1
    w2 = w2
    dungeon = dungeon
    continent = continent
    i1 = i1
    i2 = i2
    Workers <- MCWorkers
    BaseMaps <- MCBaseMaps
    Instances <- MCInstances
    Parent <- MCParent
    NoMap = NoMap
INVARIANTS
    TypeOK
    Barrier
    ExclusiveUpdate
    NoDanglingRequest
    RequestInHand
PROPERTIES
    OncePerTick
    EveryMapServed
    ImplementsMapTick
    ShutdownEnds
