\* One checkout to its end, two handlers at a time: paid, refunded or given back.
SPECIFICATION FairSpec
CONSTANTS
  c1 = c1
  c2 = c2
  p1 = p1
  p2 = p2
  ann = ann
  r1 = r1
  r2 = r2
  b1 = b1
  NONE = NONE
  Checkouts = {c1}
  Parts = {p1, p2}
  ClaimPart = p1
  Customers = {ann}
  Owner <- OneOwner
  UsageLimit = 1
  PerUserLimit = 1
  RequestWorkers = {r1}
  BackWorkers = {r1, b1}
  Disorders = {}
  MaxDisorders = 0
  Outnumbered = {c1}
  MaxRequests = 2
INVARIANTS
  DiscountIsRecorded
PROPERTIES
  PaidIsSettled
  RefundIsSettled
  HoldsAreReturned
CHECK_DEADLOCK FALSE
