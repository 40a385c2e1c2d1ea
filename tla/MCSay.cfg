\* Safety of concurrent requests: two users, two requests in flight.
CONSTANTS
  u1 = u1
  u2 = u2
  h1 = h1
  h2 = h2
  Users = {u1, u2}
  Handlers = {h1, h2}
  Names <- MCNames
  Builtins <- MCBuiltins
  Lower <- MCLower
  Looks = {look}
  ConvoIds = {cv1, cv2}
  LineIds = {ln1, ln2}
  MaxSerial = 2
  MaxInsertRetries = 2
  DbMayFail = TRUE
  look = look
  cv1 = cv1
  cv2 = cv2
  ln1 = ln1
  ln2 = ln2
SPECIFICATION Spec
SYMMETRY Symmetric
VIEW Situation
INVARIANTS TypeOK LinkIntegrity MoodKeys CapturedIds
PROPERTIES AnswersTellTruth OwnRowsOnly
