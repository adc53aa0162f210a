\* Two bookings in two slots, two requests at a time.  Any disorder may begin;
\* a behaviour is followed up to the first one.
SPECIFICATION Spec
CONSTANTS
  b1 = b1
  b2 = b2
  s1 = s1
  s2 = s2
  w1 = w1
  w2 = w2
  NONE = NONE
  Bookings = {b1, b2}
  Slots = {s1, s2}
  MaxCapacity = 1
  UsageLimit = 1
  Workers = {w1, w2}
  Disorders = {"lateSlot", "sameTick", "overLimit", "rollbackLate", "lostAnswer", "crash"}
SYMMETRY Alike
CONSTRAINT Orderly
INVARIANTS
  TypeOK
  SlotIsCounted
  CouponIsCounted
  CreditsWereSpent
CHECK_DEADLOCK FALSE
