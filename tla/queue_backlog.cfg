SPECIFICATION BacklogSpec
CONSTANTS
  n1 = n1  n2 = n2  w1 = w1  w2 = w2  j1 = j1  j2 = j2
  Node = {n1}
  Worker = {w1}
  Job = {j1, j2}
  NodeOf <- OneNode
  HostOf <- HostFirst
  Orphan = {}
  AttemptLimits = {1, 2}
  Faults = {}
  CountCap = 2
  IndexCap = 2
INVARIANTS QueuedJobIsRetained
PROPERTIES BacklogDrains StopCompletes
