\* Every type, with own ids and with one id for both; a writes through its handler.
SPECIFICATION Spec
CONSTANTS
    a = a
    b = b
    Replica = {a, b}
    Types = {"GCounter", "GSet", "TwoPSet", "MultiSet", "PriorityQueue", "Graph", "Vector", "LWWMultiSet", "ORSet", "GMap", "String"}
    Naming <- OwnOrOne
    HandlerWriter = {a}
    Element = {1, 2}
    Amount = {1, 2}
    Pair <- Pairs
    Vertex = {1}
    Edge <- Loop
    Stamp <- OwnTimes
    Sorted = TRUE
    MaxUpdates <- OnceAndTwice
INVARIANTS
    TypeOK
    SameStatesSameTable
    EntryIsLatest
    CacheLagsOwnWritesOnly
    RemovedStaysHidden
    GreatestValueWins
PROPERTIES
    TablesOnlyGrow
    ORSetCatchesUp
