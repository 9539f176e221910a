SPECIFICATION Spec
CONSTANTS
    client = client
    worker = worker
    validator = validator
    bettor = bettor
    skeptic = skeptic
    aWorker = aWorker
    aValidator = aValidator
    aBettor = aBettor
    aSkeptic = aSkeptic
    aNew = aNew
    NoAccount = NoAccount
    NoAgent = NoAgent
    NoHash = NoHash
    Accounts = {client, worker, validator, bettor, skeptic}
    Agents = {aWorker, aValidator, aBettor, aSkeptic}
    Owner = validator
    Hashes = {h1}
    MIN_SELF_STAKE_BPS = 1000
    PROTOCOL_FEE_BPS = 4000
    VALIDATOR_FEE_SHARE_BPS = 5000
    BETTING_WINDOW = 1
    ACCEPT_WINDOW = 0
    DISPUTE_WINDOW = 0
    GRACE_WINDOW = 1
    VALIDATION_THRESHOLD = 80
    MIN_BET = 1
    MAX_POOL_PER_SIDE = 3
    MIN_REWARD = 1
    DUST_SWEEP_DELAY = 1
    Jobs <- QuickJob
    Stakes = {1}
    Bets = {1, 2}
    Responses = {79, 80, 101}
    Requests <- RightRequest
    InitialOwners <- Registered
    WalletUpdates = {}
    Transfers = {}
    ReputationResults = {TRUE}
    MaxTasks = 1
    PauseTimes = {}
    MaxTime = 5
INVARIANTS
    TypeOK
    Solvency
    BooksMatchPositions
PROPERTIES
    EarlySweepTakesOnlyDust
    EntitlementsFrozen
    ImplementsPotEscrow
CHECK_DEADLOCK FALSE
