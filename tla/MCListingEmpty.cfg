\* The conversations of a new user.
CONSTANTS
  MoodNames = {calm, cross}
  calm = calm
  cross = cross
  none = none
  default = default
  borg = borg
  young = young
  BuiltinMoods <- MCBuiltinMoods
  MaxId = 2
  MaxLimit = 4
  DbMayFail = FALSE
  NoKey = none
SPECIFICATION Spec
INVARIANTS ListingsDoNotPanic
