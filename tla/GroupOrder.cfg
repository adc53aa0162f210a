\* A host and a sweep finalize one group while its members change the cart and leave.
SPECIFICATION FairSpec
CONSTANTS
    i1 = i1
    i2 = i2
    m1 = m1
    m2 = m2
    Items = {i2}
    MaxQuantity = 2
    Members = {m1, m2}
    Host = m1
    OwnerOf <- OneEach
    Finalizers = {f1}
    Recoveries = {r1}
    Sweeps = {s1}
    Cleaners = {c1}
    Settings = {c1}   \* c1 is either call
    Prompt = {f1, s1}
    MaxFaults = 1
INVARIANTS
    TypeOK
    RecordedOrderCloses
    ClaimIsExclusive
    SettledIsTrue
    SnapshotIsWhole
PROPERTY EveryGroupCloses
CHECK_DEADLOCK FALSE
