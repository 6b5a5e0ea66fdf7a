SPECIFICATION MCSpec
CONSTANTS
  Components = {"gifts"}
  Users <- People
  Workspaces <- Wallets
  Personal <- Own
  NoKey = "no key"
  Codes = {"g1", "g2"}
  Gift <- Sent
  Newcomers = {"u2"}
  MoneyIn <- Funds
  MaxCrashes = 1
  OAuth = {"o1"}
  Keys = {"k1"}
  MaxOAuth = 3
  MaxTurns = 2
CHECK_DEADLOCK FALSE
INVARIANT BonusNeverMoved
