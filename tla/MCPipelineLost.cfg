CONSTANTS
  m1 = m1
  u1 = u1
  t1 = t1
  h1 = h1
  s1 = s1
  k1 = k1
  k2 = k2
  k3 = k3
  None = None
  Event = {m1, u1}
  Message = {m1}
  Joined <- OneAuthor
  Tenant = {t1}
  Home = t1
  Handler = {h1}
  Sync = {s1}
  Token = {k1, k2, k3}
  MaxAttempts = 2
  StaleAfter = 0
  AttemptCap = 2
  MayThrow = FALSE
  RecoverLimit = 1
  DeliveryCap = 1
SPECIFICATION Spec
INVARIANT AcceptedIsKept
