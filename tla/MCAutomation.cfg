SPECIFICATION Spec
CONSTANTS
  m1 = m1 m2 = m2 m3 = m3 u1 = u1 u2 = u2
  Message = {m1, m2, m3}
  User = {u1, u2}
  Author <- MCAuthor
  Content <- MCContent
  TriggerMode = "mention"
  Account = "named"
  Window = 2
  RateMax = 1
  RateWindow = 2
  IdleTime = 0
  MaxBuckets = 1
  MaxAttempts = 2
  MaxRequests = 2
  Epoch = 2
  Horizon = 4
  ClaimCap = 2
  MaxCrashes = 1
INVARIANTS
  TypeOK
  OneAnswerInTheMaking
  ReservationsReturned
  RateRespected
PROPERTIES
  AnswersAreSpaced
SYMMETRY Symmetry
CHECK_DEADLOCK FALSE
