\* Lists that are longer than a page at first, or become so.
CONSTANTS
  MoodNames = {calm, cross}
  calm = calm
  cross = cross
  none = none
  default = default
  borg = borg
  young = young
  BuiltinMoods <- MCBuiltinMoods
  MaxId = 4
  MaxLimit = 3
  DefaultLimit = 3
  DbMayFail = FALSE
  NoKey = none
SPECIFICATION IterSpec
INVARIANTS IterTypeOK 
PROPERTIES EndsOnceShort
CHECK_DEADLOCK FALSE
