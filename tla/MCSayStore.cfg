\* The store the tables implement: every look counts, so there are two.
CONSTANTS
  u1 = u1
  u2 = u2
  h1 = h1
  h2 = h2
  Users = {u1, u2}
  Handlers = {h1, h2}
  Names <- MCNames
  Builtins <- MCBuiltins
  Lower <- MCLower
  Looks = {plain, wild}
  ConvoIds = {cv1, cv2}
  LineIds = {ln1}
  MaxSerial = 2
  MaxInsertRetries = 2
  DbMayFail = TRUE
  plain = plain
  wild = wild
  cv1 = cv1
  cv2 = cv2
  ln1 = ln1
SPECIFICATION Spec
SYMMETRY Symmetric
VIEW Situation
PROPERTIES ImplementsStore
