\* Walks over both lists while items come and go.
CONSTANTS
  MoodNames = {calm, cross, sad}
  calm = calm
  cross = cross
  sad = sad
  none = none
  default = default
  borg = borg
  young = young
  BuiltinMoods <- MCBuiltinMoods
  MaxId = 5
  MaxLimit = 4
  DbMayFail = TRUE
  NoKey = none
SPECIFICATION Spec
VIEW Situation
INVARIANTS TypeOK
PROPERTIES  NothingTwice 
