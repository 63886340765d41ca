\* Two syncs that overlap, two deliveries handled at once.
CONSTANTS
  m1 = m1
  u1 = u1
  t1 = t1
  h1 = h1
  h2 = h2
  s1 = s1
  s2 = s2
  k1 = k1
  k2 = k2
  k3 = k3
  k4 = k4
  None = None
  Event = {m1, u1}
  Message = {m1}
  Joined <- OneAuthor
  Tenant = {t1}
  Home = t1
  Handler = {h1, h2}
  Sync = {s1, s2}
  Token = {k1, k2, k3, k4}
  MaxAttempts = 2
  StaleAfter = 0
  AttemptCap = 2
  MayThrow = TRUE
  RecoverLimit = 1
  DeliveryCap = 1
SPECIFICATION Spec
SYMMETRY Interchangeable
INVARIANT TypeOK
INVARIANT DurableFirst
INVARIANT RerunNeedsCause
PROPERTY ProcessedIsFinal
