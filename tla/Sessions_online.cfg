\* Nobody is killed: the list of users online.
SPECIFICATION Spec
CONSTANTS
    p1 = p1
    p2 = p2
    bob1 = bob1
    bob123 = bob123
    bob = bob
    None = None
    Process = {p1, p2}
    Account = {bob1, bob123}
    userName <- OneName
    Uses <- BothAndOne
    MayCrash = {}
INVARIANT
    OnlineIsShown
