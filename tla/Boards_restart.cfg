\* Each user at a process of his own, none of which crashes.
SPECIFICATION FairSpec
CONSTANTS
    p1 = p1
    p2 = p2
    alice = alice
    bob = bob
    None = None
    Process = {p1, p2}
    Account = {alice, bob}
    userName <- OwnNames
    Naming <- OwnOrOne
    Uses <- EachOwn
    MayCrash = {}
    Boards <- OneBoard
    Element = {1, 2}
    urgency <- OneUrgency
    words <- OwnWords
    Plans <- BothOrFirst
    MaxEdits <- ThreeEdits
    MaxLogins <- TwoLogins
    Modulus = 16
PROPERTY
    RestartsConverge
