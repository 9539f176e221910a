SPECIFICATION FairFleet
CONSTANTS
    client = client
    worker = worker
    validator = validator
    rival = rival
    aWorker = aWorker
    aValidator = aValidator
    aRival = aRival
    NoAccount = NoAccount
    NoAgent = NoAgent
    NoHash = NoHash
    Accounts = {client, worker, validator, rival}
    Agents = {aWorker, aValidator, aRival}
    Owner = client
    Hashes = {h1, h2}
    MIN_SELF_STAKE_BPS = 1000
    PROTOCOL_FEE_BPS = 4000
    VALIDATOR_FEE_SHARE_BPS = 5000
    BETTING_WINDOW = 1
    ACCEPT_WINDOW = 0
    DISPUTE_WINDOW = 1
    GRACE_WINDOW = 0
    VALIDATION_THRESHOLD = 80
    MIN_BET = 1
    MAX_POOL_PER_SIDE = 1
    MIN_REWARD = 1
    DUST_SWEEP_DELAY = 9
    Jobs <- OpenJob
    Stakes = {1}
    Bets = {}
    Responses = {80}
    Requests <- Squatter
    InitialOwners <- FleetOwners
    WalletUpdates = {}
    Transfers = {}
    ReputationResults = {TRUE}
    MaxTasks = 1
    PauseTimes = {3}
    MaxTime = 5
    Worker = worker
    WorkerAgent = aWorker
    Skews <- ClockSkews
    Validator = validator
    ValidatorAgent = aValidator
    Attempts = 2
    Rivals <- OneRival
    MaxFaults = 1
    MaxRestarts = 1
INVARIANTS
    MemoryMatchesTheChain
PROPERTIES
    WorkerFinishes
    WorkerIsPaid
    DeliveredIsAnswered
    AnsweredIsSettled
CHECK_DEADLOCK FALSE
