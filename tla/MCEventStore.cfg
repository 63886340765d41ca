\* Two tenants share the one event id, as two bots in one room do; three handlers
\* compete, so that a claim is taken over twice.
CONSTANTS
  e1 = e1
  t1 = t1
  t2 = t2
  h1 = h1
  h2 = h2
  h3 = h3
  k1 = k1
  k2 = k2
  k3 = k3
  k4 = k4
  k5 = k5
  None = None
  Event = {e1}
  Tenant = {t1, t2}
  Handler = {h1, h2, h3}
  Token = {k1, k2, k3, k4, k5}
  MaxAttempts = 2
  StaleAfter = 1
  AttemptCap = 4
SPECIFICATION Spec
SYMMETRY HandlersAndTokens
INVARIANT TypeOK
INVARIANT ExclusiveWork
INVARIANT BudgetRespected
INVARIANT TenantBoundary
PROPERTY TerminalIsFinal
PROPERTY ImplementsLease
