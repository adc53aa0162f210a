\* Two checkouts of one customer compete for the last use of the voucher.
SPECIFICATION Spec
CONSTANTS
  c1 = c1
  c2 = c2
  p1 = p1
  p2 = p2
  ann = ann
  r1 = r1
  r2 = r2
  b1 = b1
  NONE = NONE
  Checkouts = {c1, c2}
  Parts = {p1, p2}
  ClaimPart = p1
  Customers = {ann}
  Owner <- OneOwner
  UsageLimit = 2
  PerUserLimit = 1
  RequestWorkers = {r1}
  BackWorkers = {b1}
  Disorders = {}
  MaxDisorders = 0
  Outnumbered = {}
  MaxRequests = 3
SYMMETRY Alike
INVARIANTS
  TypeOK
  MoneyIsSettled
  UsesAreCounted
PROPERTY ImplementsVoucherBook
CHECK_DEADLOCK FALSE
