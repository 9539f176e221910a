SPECIFICATION FairAppSpec
CONSTANTS
    t1 = t1
    t2 = t2
    Tasks = {t1, t2}
    Created = {t1}
    TaskA = t1
    TaskB = t2
    Late = 10
    Stake = 2
    BetSize = 1
    Verdicts <- YesAndNo
    Lines <- EarlierRun
    ServerCap = 2
    WebCap = 2
    MaxBets = 2
    MaxItems = 4
    MaxBreaks = 1
    MaxFaults = 1
    MaxReplays = 1
INVARIANTS
    ConsoleInStep
    MissedOnlyWhileAway
PROPERTIES
    KeepsReconnecting
    MockIsAMarket
CHECK_DEADLOCK FALSE
