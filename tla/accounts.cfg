SPECIFICATION Spec
CONSTANTS
  c1 = c1
  c2 = c2
  Users = {"ann"}
  Countries = {"US", "CA"}
  Calls = {c1, c2}
  MaxTokens = 3
INVARIANTS
  TypeOK
  Rotated
  OnePayoutAccount
SYMMETRY AnyCall
