SPECIFICATION Spec
CONSTANTS
  Event <- All
  Present <- Old
  Unsupported = {"validation"}
  Silent = {"history"}
  Sizes = {0, 1}
  PageSize = 2
  MaxPageSize = 3
  MaxFetch = 5
  RemoveCap = 1
INVARIANTS TimelineInv SkipsOnlyForRemoved
PROPERTY PageIsExact
