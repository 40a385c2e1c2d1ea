\* Progress of requests: one user, and one public id of each kind, so that every
\* insert collides until the other handler deletes the row that has it.  The sequences
\* have a value for each of the MaxInsertRetries tries and for the row in the way: the
\* retry loops run to their own end, or to a success at a later try.
CONSTANTS
  u1 = u1
  h1 = h1
  h2 = h2
  Users = {u1}
  Handlers = {h1, h2}
  Names <- MCPlainNames
  Builtins <- MCBuiltins
  Lower <- MCPlainLower
  Looks = {look}
  ConvoIds = {cv1}
  LineIds = {ln1}
  MaxSerial = 4
  MaxInsertRetries = 3
  DbMayFail = FALSE
  look = look
  cv1 = cv1
  ln1 = ln1
SPECIFICATION Spec
PROPERTIES EveryRequestAnswered AnswersTellTruth
