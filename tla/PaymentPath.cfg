SPECIFICATION FairSpec
CONSTANTS
    rep = rep
    worker = worker
    Bettors = {rep}
    Workers = {worker}
    Rounds = 2
    Funds <- SmallFunds
    MaxFaults = 1
INVARIANTS
    ServedForPayment
    OnePaymentPerPurchase
    ConsoleMatchesRevenue
PROPERTIES
    CallsEnd
CHECK_DEADLOCK FALSE
