\* One user, one request at a time: a mood is deleted while a line that spells
\* its name with a capital is in it.
CONSTANTS
  u1 = u1
  h1 = h1
  Users = {u1}
  Handlers = {h1}
  Names <- MCNames
  Builtins <- MCBuiltins
  Lower <- MCLower
  Looks = {look}
  ConvoIds = {cv1}
  LineIds = {ln1}
  MaxSerial = 2
  MaxInsertRetries = 2
  DbMayFail = FALSE
  look = look
  cv1 = cv1
  ln1 = ln1
SPECIFICATION Spec
PROPERTIES ConflictListsBlockers
