\* Two overlapping expiry workers against a movement on the same account, with failing calls.
SPECIFICATION FairSpec
CONSTANTS
    a1 = a1
    a2 = a2
    k1 = k1
    k2 = k2
    k3 = k3
    order = order
    gateway = gateway
    TWD = TWD
    Accounts = {a1}
    Reqs = {r1}
    Keys = {k1, k2, k3}
    Sources = {order, gateway}
    Currencies = {TWD, "other"}
    CurrencyOf <- MCCurrencyOf
    Inputs <- AllInputs
    Openings = {1}
    Managed = {}
    NewStatuses = {}
    Sweepers = {s1, s2}
    SweepLimit = 2
    PinThreshold = 1
    MaxPinRetries = 2
    PinLock = 1
    Period = 1
    MaxLatency = 1
    MaxTime = 4
    MaxFaults = 2
INVARIANTS
    ExpiryTakesOnlyIdleMoney
    ExpiryKeyIsFresh
PROPERTY LapsedBalanceIsCleared
CHECK_DEADLOCK FALSE
