\* Two replicas that count under the same id, one of them through its handler,
\* polled for ever; the other starts with an uninitialised total.
SPECIFICATION FairSpec
CONSTANTS
    a = a
    b = b
    Replica = {a, b}
    Id <- TwoIds
    id <- SharedId
    HandlerWriter = {a}
    Amount = {1, 2}
    Modulus = 8
    IdOnly = {b}
    Garbage = {5}
    MaxUpdates = 2
INVARIANTS
    EntryFromWriters
PROPERTIES
    Converges
