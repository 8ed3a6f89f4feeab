\* Two users, the second also at the process of the first; one of the processes may crash.
SPECIFICATION FairSpec
CONSTANTS
    p1 = p1
    p2 = p2
    alice = alice
    bob = bob
    None = None
    Process = {p1, p2}
    Account = {alice, bob}
    userName <- OwnNames
    Naming <- OwnOrOne
    Uses <- BothAndOne
    MayCrash = {p1}
    Boards <- OneBoard
    Element = {1, 2}
    urgency <- OneUrgency
    words <- OwnWords
    Plans <- OwnTasks
    MaxEdits <- ThreeEdits
    MaxLogins <- TwoLogins
    Modulus = 16
INVARIANTS
    TypeOK
    CountIsShown
    PriorityOfShown
    NoTaskTwice
PROPERTIES
    DeletedStaysHidden
    FilesReachAll
    BoardsConverge
