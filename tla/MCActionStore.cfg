\* One action, three runs that compete for it; the lease is taken over twice before
\* the clock stops.
CONSTANTS
  a1 = a1
  c1 = c1
  c2 = c2
  c3 = c3
  k1 = k1
  k2 = k2
  k3 = k3
  k4 = k4
  None = None
  Key = {a1}
  Caller = {c1, c2, c3}
  Token = {k1, k2, k3, k4}
  MaxAttempts = 2
  LeaseTime = 1
  Horizon = 4
  AttemptCap = 3
SPECIFICATION Spec
SYMMETRY CallersAndTokens
INVARIANT TypeOK
INVARIANT ExclusiveWork
INVARIANT DuplicateNeedsIncident
PROPERTY TerminalIsFinal
PROPERTY ImplementsLease
CHECK_DEADLOCK FALSE
