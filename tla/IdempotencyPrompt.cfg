\* Two clients share a key and redeliver until told; handlers end within the lease.
SPECIFICATION FairSpec
CONSTANTS
    k1 = k1
    k2 = k2
    payment = payment
    credit = credit
    b1 = b1
    b2 = b2
    Reqs = {r1, r2}
    Keys = {k1, k2}
    Scopes = {payment, credit}
    Bodies = {b1, b2}
    Inputs <- MixedInputs
    Releasing = {payment}
    SweptScopes = {payment}
    TTL = 4
    Lease = 2
    MaxRun = 1
    MaxTime = 5
    MaxFaults = 1
    LastFault = 2
INVARIANTS
    TypeOK
    OneHandlerPerKey
    AcknowledgedRunIsLast
PROPERTY EveryRequestDecided
