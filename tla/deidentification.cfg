SPECIFICATION Spec
CONSTANTS
  ann = ann
  bob = bob
  star = star
  Prompts <- Various
  Names = {ann, bob, star}
  Famous = {star}
  MaxTurns = 3
  PII_DENSITY_EXCLUDE_COUNT = 2
INVARIANTS
  TypeOK
  NothingSensitive
  OnePersonOnePseudonym
  NobodySingledOut
  AttestedAsIs
  KeptWhole
CHECK_DEADLOCK FALSE
