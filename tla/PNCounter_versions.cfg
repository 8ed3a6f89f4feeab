\* Two replicas, each under its own id, with every snapshot ever taken still on
\* its way: a counts through its handler, b starts with an uninitialised total.
SPECIFICATION Spec
CONSTANTS
    a = a
    b = b
    Replica = {a, b}
    Id <- TwoIds
    id <- OwnIds
    HandlerWriter = {a}
    Amount = {1, 2}
    Modulus = 8
    IdOnly = {b}
    Garbage = {5}
    MaxUpdates = 2
INVARIANTS
    TypeOK
    EntryIsPastState
    PayloadLagsOwnUpdatesOnly
    GarbageIsContained
PROPERTIES
    TablesOnlyGrow
    ImplementsVersions
