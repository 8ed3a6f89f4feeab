\* A vector with one writer that appends in any order; its states arrive late.
SPECIFICATION Spec
CONSTANTS
    a = a
    b = b
    Replica = {a, b}
    Types = {"Vector"}
    Naming <- OnlyOwn
    HandlerWriter = {}
    Element = {1, 2}
    Amount = {1, 2}
    Pair <- Pairs
    Vertex = {1}
    Edge <- Loop
    Stamp <- OwnTimes
    Sorted = FALSE
    MaxUpdates <- OnceAndTwice
INVARIANTS
    ElementsKeepOrder
