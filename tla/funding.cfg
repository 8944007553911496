SPECIFICATION Spec
CONSTANTS
  c1 = c1
  c2 = c2
  Briefs = {b1}
  Seeded = {b1}
  Calls = {c1, c2}
  Amounts = {1, 2}
  Methods = {"paid", "processing"}
  Reversals = {"disputed"}
  Expiring = {b1}
  MaxAttempt = 3
  MaxDeliveries = 1
INVARIANTS
  TypeOK
  ChargedOnce
  FailedIsOver
  EscrowIsPaid
SYMMETRY Tabs
PROPERTY KeepsEscrow
CHECK_DEADLOCK FALSE
