\* Lists longer than a page.
CONSTANTS
  MoodNames = {calm, cross}
  calm = calm
  cross = cross
  none = none
  default = default
  borg = borg
  young = young
  BuiltinMoods <- MCBuiltinMoods
  MaxId = 2
  MaxLimit = 2
  DefaultLimit = 2
  DbMayFail = FALSE
  NoKey = none
SPECIFICATION IterSpec
PROPERTIES IterEnds
CHECK_DEADLOCK FALSE
