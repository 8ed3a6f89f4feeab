SPECIFICATION FairSpec
CONSTANTS
    p2020 = p2020
    p2021 = p2021
    Proc = {p2020, p2021}
    x = x
    None = None
    Modulus = 16
    Amount = {}
    Element = {x}
    MaxCount <- BothCount
    Syncer = {p2020, p2021}
    MayEnd = {}
PROPERTIES
    SetsConverge
