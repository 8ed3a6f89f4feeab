\* Two processes, each running one of the two programs, and two accounts of one name.
SPECIFICATION FairSpec
CONSTANTS
    p1 = p1
    p2 = p2
    bob1 = bob1
    bob123 = bob123
    bob = bob
    None = None
    Process = {p1, p2}
    Account = {bob1, bob123}
    userName <- OneName
    Uses <- BothAndOne
    MayCrash = {p2}
INVARIANTS
    TypeOK
    StatusIsSession
    OneDatabaseSession
PROPERTIES
    AccountSurvives
    AccountsBecomeFree
