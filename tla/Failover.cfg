SPECIFICATION Spec
CONSTANTS
  Requests = {r1, r2}
  Keys = {k1}
  Subs = {s1, s2}
  Operated = {k1}
  MaxOAuth = 1
  PauseAfter = 2
SYMMETRY Alike
INVARIANT FailoverHolds
PROPERTY VerifiedByFreshAnswer
