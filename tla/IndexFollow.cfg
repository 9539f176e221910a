SPECIFICATION FairSpec
CONSTANTS
    t1 = t1
    t2 = t2
    w1 = w1
    w2 = w2
    NoWorker = NoWorker
    Tasks = {t1}
    Workers = {w1}
    CreatedFor = {NoWorker}
    Stakes = {2}
    BetSizes = {1}
    BETTING_WINDOW = 2
    Scores = {79, 80}
    VALIDATION_THRESHOLD = 80
    MaxBlock = 6
    MaxBets = 1
    KeepsAddress = FALSE
    MaxChains = 1
    MaxFaults = 1
INVARIANTS
    TablesFollowTheLog
    TrustFollowsTheLog
    HealthzIsHonest
PROPERTIES
    KeepsCatchingUp
CHECK_DEADLOCK FALSE
