\* All requests may be over: the system may stop.
CHECK_DEADLOCK FALSE
CONSTANTS
  Request = {r1, r2}
  Chat = {c1}
  None = None
  MaxDeltas = 0
SPECIFICATION Spec
PROPERTY CleanUpOnlyOrphans
