CONSTANTS
  r1 = r1
  c1 = c1
  c2 = c2
  c3 = c3
  None = None
  Room = {r1}
  Call = {c1, c2, c3}
  Requests = {"start", "stop"}
  Failures = {}
  MaxGen = 3
SPECIFICATION Spec
INVARIANT ActiveHasRuntime
CHECK_DEADLOCK FALSE
