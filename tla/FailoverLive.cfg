SPECIFICATION ServeSpec
CONSTANTS
  Requests = {r1}
  Keys = {k1, k2}
  Subs = {s1}
  Operated = {}
  MaxOAuth = 1
  PauseAfter = 2
PROPERTIES RequestsEnd KeyRecovers
