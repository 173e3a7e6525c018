SPECIFICATION Spec
CONSTANTS
  n1 = n1  n2 = n2  r1 = r1  r2 = r2  r3 = r3  r4 = r4  r5 = r5
  e1 = e1  e2 = e2  bad = bad
  Node = {n1, n2}
  Request = {r1, r2}
  Event = {e1, e2, bad}
  EventOf <- Payload
  NodeOf <- Server
  Malformed = {bad}
  Claiming <- Deployed
  Faults = {}
  WindowCap = 1
INVARIANT OncePerWindow
CHECK_DEADLOCK FALSE
