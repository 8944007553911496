SPECIFICATION Spec
CONSTANTS
  c1 = c1
  c2 = c2
  c3 = c3
  u1 = u1
  u2 = u2
  Users = {u1, u2}
  Hashes <- Prompts
  Near <- Alike
  Uploads <- Conversations
  Briefs = {"exact", "near"}
  Live = {"exact", "near"}
  Matched <- BothAndOne
  Terms <- Asked
  Calls = {c1, c2, c3}
  Placeholders = {"[X]"}
  ShortBelow = 2
  LongAbove = 3
  MaxTime = 2
INVARIANTS
  TypeOK
  FirstComeKeeps
  ByItself
SYMMETRY AnyCall
CHECK_DEADLOCK FALSE
