\* One intent; handlers that die and events the provider redelivers.
SPECIFICATION FairSpec
CONSTANTS
    i1 = i1
    i2 = i2
    a1 = a1
    d1 = d1
    d2 = d2
    Intents = {i1}
    Accounts = {a1}
    AccountOf <- OneAccount
    AmountOf <- TwoAmounts
    ByTransaction = {}
    Deliveries = {d1, d2}
    MaxFaults = 2
PROPERTY CreditIsRecorded
CHECK_DEADLOCK FALSE
