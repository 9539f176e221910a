SPECIFICATION FairSpec
CONSTANTS
    FLEET <- SmallFleet
    NEEDS_GAS <- SmallNeedsGas
    NEEDS_USDC <- SmallNeedsUsdc
    RELAYER = "relayer"
    GAS = 2
    RELAYER_GAS = 5
    USDC_EACH = 2000
    TAKEN = 5
    SCAN = 4
    Drip = 8
    MaxForeign = 1
    MaxMishaps = 2
    MIN_BET = 2
    MAX_BET = 250
    MAX_DELAY = 60
    WINDOW = 8
    ACCEPT_WINDOW = 4
    CAP = 600
    POLL = 2
    MARGIN = 1
    ODDS_PRICE = 1
    TRUST_PRICE = 5
    DEMO_SLACK = 6
    Slacks = {2, 6}
    Purses <- SomePurses
    Delays = {4, 5}
    THRESHOLD = 80
    MIN_SELF_STAKE_BPS = 1000
    Histories <- SomeHistories
    CustomRewards = {15, 2100}
    Confidences = {5, 50}
    ModelBets <- SomeModelBets
    Verdicts = {0, 8}
    MaxRunning = 2
    MaxReadFaults = 1
    MaxSlow = 2
INVARIANTS
    FleetAsRegistered
    RefusedForCause
    BettorsKeepToTheirRules
    DemoTellsItsStory
PROPERTIES
    SetupCompletes
CHECK_DEADLOCK FALSE
