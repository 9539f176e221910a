SPECIFICATION Spec
CONSTANTS
    m1 = m1
    m2 = m2
    b1 = b1
    b2 = b2
    q1 = q1
    q2 = q2
    Builtins = {"slugify"}
    Questions = {q1, q2}
    Earlier = {}
    Markets = {m1, m2}
    Bets = {b1, b2}
    BETTING_WINDOW = 1
    MARGIN = 1
    ACCEPT_WINDOW = 3
    CAP = 3
    Stakes = {1}
    Windows = {1}
    Rewards = {1}
    BetSizes = {1, 2}
    MinReward = 2
    MinBet = 2
    Funds = 3
    MaxTime = 3
    MaxMoves = 1
    MaxFaults = 1
    MaxRequests = 2
    MaxOpen = 1
INVARIANTS
    ApprovedBeforeUse
    ErrorIsFree
    RepliesAreTrue
SYMMETRY Alike
CHECK_DEADLOCK FALSE
