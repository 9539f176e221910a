SPECIFICATION Spec
CONSTANTS
    client = client
    worker = worker
    validator = validator
    bettor = bettor
    skeptic = skeptic
    aWorker = aWorker
    aValidator = aValidator
    aBettor = aBettor
    aSkeptic = aSkeptic
    aNew = aNew
    NoAccount = NoAccount
    NoAgent = NoAgent
    NoHash = NoHash
    Accounts = {client, worker, validator, bettor}
    Agents = {aWorker, aValidator, aNew}
    Owner = validator
    Hashes = {h1}
    MIN_SELF_STAKE_BPS = 1000
    PROTOCOL_FEE_BPS = 4000
    VALIDATOR_FEE_SHARE_BPS = 10000
    BETTING_WINDOW = 1
    ACCEPT_WINDOW = 0
    DISPUTE_WINDOW = 0
    GRACE_WINDOW = 0
    VALIDATION_THRESHOLD = 80
    MIN_BET = 1
    MAX_POOL_PER_SIDE = 3
    MIN_REWARD = 1
    DUST_SWEEP_DELAY = 1
    Jobs <- TwinJob
    Stakes = {1}
    Bets = {2}
    Responses = {79}
    Requests <- RightRequest
    InitialOwners <- Registered
    WalletUpdates = {}
    Transfers = {}
    ReputationResults = {TRUE}
    MaxTasks = 2
    PauseTimes = {}
    MaxTime = 3
INVARIANTS
    Solvency
CHECK_DEADLOCK FALSE
