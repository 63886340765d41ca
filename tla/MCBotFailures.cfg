\* Two calls, every failure; the generations run out at MaxGen, so nothing may be
\* left to do.
CONSTANTS
  r1 = r1
  c1 = c1
  c2 = c2
  None = None
  Room = {r1}
  Call = {c1, c2}
  Requests = {"start", "stop", "join", "leave"}
  Failures = {"auth", "platform", "store"}
  MaxGen = 3
SPECIFICATION FairSpec
PROPERTY CallsReturn
CHECK_DEADLOCK FALSE
