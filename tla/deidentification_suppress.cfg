SPECIFICATION Spec
CONSTANTS
  ann = ann
  bob = bob
  star = star
  Prompts <- Various
  Names = {ann, bob, star}
  Famous = {star}
  MaxTurns = 1
  PII_DENSITY_EXCLUDE_COUNT = 2
INVARIANT SuppressedIsGone
CHECK_DEADLOCK FALSE
