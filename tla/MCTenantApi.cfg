\* Two tenants and two bots; three requests, two of them in flight at once.
CONSTANTS
  t1 = t1 t2 = t2 b1 = b1 b2 = b2 x1 = x1 c1 = c1 f1 = f1 f2 = f2 r1 = r1 r2 = r2 r3 = r3
  None = None
  Tenant = {t1, t2}
  Bot = {b1, b2}
  Room = {x1}
  Credential = {c1}
  Field = {f1, f2}
  Request = {r1, r2, r3}
  MaxInFlight = 2
SPECIFICATION Spec
SYMMETRY Interchangeable
INVARIANTS TypeOK Isolation PatchesKept RemovedIsQuiet
PROPERTY WritesInside
CHECK_DEADLOCK FALSE
