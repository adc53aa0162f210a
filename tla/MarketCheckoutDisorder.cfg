\* One checkout and every disorder the handlers leave open.
SPECIFICATION Spec
CONSTANTS
  c1 = c1
  c2 = c2
  p1 = p1
  p2 = p2
  ann = ann
  r1 = r1
  r2 = r2
  b1 = b1
  NONE = NONE
  Checkouts = {c1}
  Parts = {p1, p2}
  ClaimPart = p1
  Customers = {ann}
  Owner <- OneOwner
  UsageLimit = 1
  PerUserLimit = 1
  RequestWorkers = {r1, r2}
  BackWorkers = {b1}
  Disorders = {
    "overlap", "editPending", "editRefunded", 
    "sweepOverlap", "refundOverlap", "storeError", 
    "lostReply", "crash", "reclaimed", "unreconciled"}
  MaxDisorders = 1
  Outnumbered = {}
  MaxRequests = 3
INVARIANTS
  SharesMatchTheCharge
  UsesAreOfPaidCheckouts
CHECK_DEADLOCK FALSE
