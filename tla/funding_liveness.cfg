SPECIFICATION FairSpec
CONSTANTS
  c1 = c1
  c2 = c2
  Briefs = {b1}
  Seeded = {}
  Calls = {c1}
  Amounts = {1}
  Methods = {"paid", "processing"}
  Reversals = {"refunded", "disputed"}
  Expiring = {}
  MaxAttempt = 2
  MaxDeliveries = 2
PROPERTIES
  PaidIsRecorded
  ReversalIsFinal
CHECK_DEADLOCK FALSE
