SPECIFICATION Spec
CONSTANTS
  p1 = p1
  p2 = p2
  q1 = q1
  q2 = q2
  q3 = q3
  r1 = r1
  r2 = r2
  u1 = u1
  u2 = u2
  Payments = {p1}
  Qas = {q1}
  Records = {r1, r2}
  Users = {u1, u2}
  Clicks = {c1}
  Workers = {w1}
  PaymentOf <- OneBrief
  RecordOf <- RecordMap
  UserOf <- UserMap
  Cents <- TwoCents
  CentsOf <- Sums
  Funded <- FiveCents
  MaxCount <- NoTarget
  MaxOwn <- NoLimit
  External = {"pending"}
INVARIANT OwnRefundKeepsTransfers
