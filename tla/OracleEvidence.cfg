SPECIFICATION Spec
CONSTANTS
    client = client
    worker = worker
    validator = validator
    bettor = bettor
    skeptic = skeptic
    aWorker = aWorker
    aValidator = aValidator
    aBettor = aBettor
    aSkeptic = aSkeptic
    aNew = aNew
    NoAccount = NoAccount
    NoAgent = NoAgent
    NoHash = NoHash
    Accounts = {client, worker, validator, bettor}
    Agents = {aWorker, aValidator, aBettor}
    Owner = validator
    Hashes = {h1}
    MIN_SELF_STAKE_BPS = 1000
    PROTOCOL_FEE_BPS = 4000
    VALIDATOR_FEE_SHARE_BPS = 5000
    BETTING_WINDOW = 1
    ACCEPT_WINDOW = 1
    DISPUTE_WINDOW = 1
    GRACE_WINDOW = 1
    VALIDATION_THRESHOLD = 80
    MIN_BET = 1
    MAX_POOL_PER_SIDE = 2
    MIN_REWARD = 1
    DUST_SWEEP_DELAY = 2
    Jobs <- AllJobs
    Stakes = {1}
    Bets = {1}
    Responses = {79, 80}
    Requests <- AnyRequest
    InitialOwners <- Registered
    WalletUpdates <- Rotations
    Transfers <- Sales
    ReputationResults = {TRUE}
    MaxTasks = 1
    PauseTimes = {}
    MaxTime = 6
INVARIANTS
    DecidedByTheBestEvidence
    RolesKeepTheirSide
    IncentivesAlign
PROPERTIES
    NoBetAgainstADelivery
CHECK_DEADLOCK FALSE
