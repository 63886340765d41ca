\* Two rooms, three calls: a start, a stop and a join, or a third start, at once.
CONSTANTS
  r1 = r1
  r2 = r2
  c1 = c1
  c2 = c2
  c3 = c3
  None = None
  Room = {r1, r2}
  Call = {c1, c2, c3}
  Requests = {"start", "stop", "join", "leave"}
  Failures = {}
  MaxGen = 3
SPECIFICATION Spec
SYMMETRY CallsAndRooms
INVARIANT TypeOK
INVARIANT StoppedIsQuiet
INVARIANT OneCurrentStart
INVARIANT RuntimeIsCurrent

