SPECIFICATION Spec
CONSTANTS
  Call = {1, 2, 3, 4, 5, 6, 7, 8, 9}
  User = {"a", "b"}
  Id = {1, 2, 3}
  KindOf <- Kinds
  UserOf <- Users
  IdOf <- About
  Stored <- Before
  Limit = 2
  CallCap = 3
  MaxTime = 1
INVARIANTS ListInv WellFormed PagesCoverOwned KeptUnlessUndone AnswersTell
CHECK_DEADLOCK FALSE
