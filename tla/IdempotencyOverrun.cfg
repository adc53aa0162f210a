\* Two clients share a key; handlers outlive their lease and even the TTL.
SPECIFICATION Spec
CONSTANTS
    k1 = k1
    k2 = k2
    payment = payment
    credit = credit
    b1 = b1
    b2 = b2
    Reqs = {r1, r2}
    Keys = {k1, k2}
    Scopes = {payment, credit}
    Bodies = {b1, b2}
    Inputs <- MixedInputs
    Releasing = {payment}
    SweptScopes = {payment}
    TTL = 2
    Lease = 1
    MaxRun = 3
    MaxTime = 3
    MaxFaults = 1
    LastFault = 3
INVARIANT ReplayIsOwnResponse
