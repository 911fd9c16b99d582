\* One browser with two requests in flight; two of its tabs.
SPECIFICATION IdentitySpec
CONSTANTS
  b1 = b1
  r1 = r1
  r2 = r2
  \* Sessions
  Browsers = {b1}
  Requests = {r1, r2}
  MaxCredentials = 3
  MaxVersion = 2
  MaxFaults = 1
  MaxFamilySessions = 2
  RotationEnabled = TRUE
  \* AuthTabs
  t1 = t1
  t2 = t2
  Pages = {t1, t2}
  MaxEvents = 2
SYMMETRY Interchangeable
VIEW IdentityView
INVARIANTS LogoutIsFinal EpochCoversFamily RedeemedOnce EverySessionEnumerable
INVARIANT LogoutHitsItsSession
CHECK_DEADLOCK FALSE
