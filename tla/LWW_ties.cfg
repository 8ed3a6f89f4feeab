\* Two replicas write to the same multiset at the same time.
SPECIFICATION Spec
CONSTANTS
    a = a
    b = b
    Replica = {a, b}
    Types = {"LWWMultiSet"}
    Naming <- OnlyOne
    HandlerWriter = {}
    Element = {1, 2}
    Amount = {1, 2}
    Pair <- Pairs
    Vertex = {1}
    Edge <- Loop
    Stamp <- SameTime
    Sorted = TRUE
    MaxUpdates <- OneWrite
INVARIANTS
    SameStatesSameTable
