SPECIFICATION FairBettor
CONSTANTS
    client = client
    worker = worker
    validator = validator
    bettor = bettor
    aWorker = aWorker
    aValidator = aValidator
    aBettor = aBettor
    NoAccount = NoAccount
    NoAgent = NoAgent
    NoHash = NoHash
    Accounts = {client, worker, validator, bettor}
    Agents = {aWorker, aValidator, aBettor}
    Owner = client
    Hashes = {h1}
    MIN_SELF_STAKE_BPS = 1000
    PROTOCOL_FEE_BPS = 4000
    VALIDATOR_FEE_SHARE_BPS = 5000
    BETTING_WINDOW = 3
    ACCEPT_WINDOW = 1
    DISPUTE_WINDOW = 1
    GRACE_WINDOW = 0
    VALIDATION_THRESHOLD = 80
    MIN_BET = 1
    MAX_POOL_PER_SIDE = 4
    MIN_REWARD = 1
    DUST_SWEEP_DELAY = 9
    Jobs <- BettableJob
    Stakes = {1}
    Bets = {1}
    Responses = {79}
    Requests <- RightRequest
    InitialOwners <- BettorOwners
    WalletUpdates = {}
    Transfers = {}
    ReputationResults = {TRUE}
    MaxTasks = 1
    PauseTimes = {}
    MaxTime = 8
    Bettor = bettor
    BettorAgent = aBettor
    Skews <- ClockSkews
    BET_MARGIN = 1
    MaxFaults = 1
    MaxRestarts = 1
INVARIANTS
    EachFailureCostsOneBet
PROPERTIES
    BettorIsPaid
CHECK_DEADLOCK FALSE
