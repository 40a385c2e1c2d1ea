CONSTANTS
  c1 = c1
  c2 = c2
  key = key
  otherKey = otherKey
  NumStatements = 2
  Secrets = {key, otherKey}
  UserSecret = key
  Conns = {c1, c2}
  Calls <- MCCalls
  NoToken = NoToken
  Garbled = Garbled
SPECIFICATION CallSpec
INVARIANTS CallTypeOK ResourcesHeld HandlersGuarded OnRecord ReportsAreTrue TokensSurvive
PROPERTIES EveryRequestEnds
