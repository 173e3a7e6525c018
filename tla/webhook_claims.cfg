SPECIFICATION FairSpec
CONSTANTS
  n1 = n1  n2 = n2  r1 = r1  r2 = r2  r3 = r3  r4 = r4  r5 = r5
  e1 = e1  e2 = e2  bad = bad
  Node = {n1, n2}
  Request = {r1, r2, r3, r4, r5}
  Event = {e1, e2, bad}
  EventOf <- Payload
  NodeOf <- Server
  Malformed = {bad}
  Claiming <- AtomicE1
  Faults = {"kv", "crash", "noService"}
  WindowCap = 2
INVARIANTS WInv
PROPERTIES AcknowledgedIsAccounted AnnouncesOncePerWindow
CHECK_DEADLOCK FALSE
