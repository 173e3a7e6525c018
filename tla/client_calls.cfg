SPECIFICATION FairSpec
CONSTANTS
  json = json  raw = raw  upload = upload
  Request = {json, raw, upload}
  KindOf <- Kind
  Deactivates = TRUE
  MaxRetries = 2
  Faults = {"expiry", "failure", "lost", "refusal"}
  TokenCap = 2
  CallCap = 2
INVARIANTS ClientInv RefusedTokenNotResent AnswerTellsEffect AuthErrorIsEarned
PROPERTY EveryCallReturns
CHECK_DEADLOCK FALSE
