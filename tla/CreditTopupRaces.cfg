\* Two intents of one account, one of them named by the provider's id only.
SPECIFICATION Spec
CONSTANTS
    i1 = i1
    i2 = i2
    a1 = a1
    d1 = d1
    d2 = d2
    Intents = {i1, i2}
    Accounts = {a1}
    AccountOf <- OneAccount
    AmountOf <- TwoAmounts
    ByTransaction = {i2}
    Deliveries = {d1, d2}
    MaxFaults = 2
SYMMETRY Symmetric
INVARIANTS
    TypeOK
    CreditedIsCollected
    NeverMoreThanCollected
    PaidIsCredited
CHECK_DEADLOCK FALSE
