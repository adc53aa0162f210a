\* Three requests on one account, with retries and failing calls; a refund to the other account; no sweep.
SPECIFICATION Spec
CONSTANTS
    a1 = a1
    a2 = a2
    k1 = k1
    k2 = k2
    k3 = k3
    order = order
    gateway = gateway
    TWD = TWD
    Accounts = {a1, a2}
    Reqs = {r1, r2, r3}
    Keys = {k1, k2, k3}
    Sources = {order, gateway}
    Currencies = {TWD}
    CurrencyOf <- MCCurrencyOf
    Inputs <- RaceInputs
    Openings = {0, 2}
    Managed = {a1}
    NewStatuses = {"frozen"}
    Sweepers = {}
    SweepLimit = 2
    PinThreshold = 1
    MaxPinRetries = 2
    PinLock = 1
    Period = 1
    MaxLatency = 0
    MaxTime = 0
    MaxFaults = 2
SYMMETRY Symmetric
INVARIANTS
    TypeOK
    LedgerExplainsBalance
    FailureMovedNothing
PROPERTY ImplementsBook
CHECK_DEADLOCK FALSE
