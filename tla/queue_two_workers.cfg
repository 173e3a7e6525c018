SPECIFICATION Spec
CONSTANTS
  n1 = n1  n2 = n2  w1 = w1  w2 = w2  j1 = j1  j2 = j2
  Node = {n1}
  Worker = {w1, w2}
  Job = {j1}
  NodeOf <- OneNode
  HostOf <- HostFirst
  Orphan = {w1}
  AttemptLimits = {2}
  Faults = {}
  CountCap = 2
  IndexCap = 2
INVARIANT AtMostOneTicket
