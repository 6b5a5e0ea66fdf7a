SPECIFICATION MCSpec
CONSTANTS
  Users = {"u1", "u2"}
  Workspaces <- Pair
  Personal <- Home
  NoKey = "no key"
  Calls = {"c1", "f1", "f2"}
  Call <- Called
  Keys <- CallKeys
  Members <- Joined
  MaxOverdraft = 1
  Handlers = {m1, m2}
  Deposit = 2
  MaxSends <- Twice
  MaxFailures = 1
  Emails = {"e"}
  IPs = {"ip"}
  NoIP = "none"
  EmailWins <- Windows
  IpWins <- AddressWindows
  Longest = 4
  ClaimMax = 2
  ClaimWidth = 2
  UserMax = 2
  UserWidth = 2
  LastTick = 5
  Right = {n1, n2}
  Inboxes = {"e"}
  Attempts = 2
  Mails = 2
  Deaths = 1
  SsoCodes = {"c"}
  Ttl = 1
  Grace = 1
  Horizon = 3
  Updates = 1
  Operators = {"u1"}
  Issues = 2
  Holders = {"u1"}
  Owner <- OneOwner
  Bills = {1}
  DayCap = 1
  MonthCap = 1
  MemberCap = 1
  KeyDay = 1
  KeyMonth = 1
  AdminCaps = {0, 1}
  DaysPerMonth = 2
  MaxDay = 1
  MaxSpend = 3
  MaxSecrets = 2
  Tokens = {"a", "b"}
  First = {"a"}
  Providers = {"claude", "codex"}
  Scale <- Scales
  Weekly = 1
  Ceilings = {0, 1}
  Default = 0
  MaxEdits = 2
  Parties <- Everyone
  Purses <- Wallets
  HomeOf <- Homes
  Offers <- Rewards
  Welcome = 1
  DayTicks = 2
  Alone <- OneInvite
  Together <- TwoInvites
  i1 = i1
  i2 = i2
SYMMETRY Alike
CHECK_DEADLOCK FALSE
INVARIANT RefundsWithinCharge
