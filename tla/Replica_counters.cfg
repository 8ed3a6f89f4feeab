SPECIFICATION FairSpec
CONSTANTS
    p2020 = p2020
    p2021 = p2021
    Proc = {p2020, p2021}
    x = x
    None = None
    Modulus = 16
    Amount = {1}
    Element = {}
    MaxCount <- OneCounts
    Syncer = {p2021}
    MayEnd = {p2020}
INVARIANTS
    TypeOK
    OwnEntryCurrent
    SyncIsFresh
    TornTotalRepaired
PROPERTIES
    KnowledgeOnlyGrows
    CountersConverge
