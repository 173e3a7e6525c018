SPECIFICATION Spec
CONSTANTS
  u1 = u1  u2 = u2  a = a  b = b  d = d  c1 = c1  c2 = c2  c3 = c3
  Note = {a, b, d}
  User = {u1}
  Call = {c1, c2}
  CallerOf <- Callers
  Scope <- OwnTwo
  Admins = {u1}
  MaxStored = 2
  Faults = {"kv"}
  MaxTime = 2
INVARIANTS CInv AnswersHold OnlyOldOnesDropOut
PROPERTY ReadStaysRead
CHECK_DEADLOCK FALSE
