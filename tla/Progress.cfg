SPECIFICATION MCSpec
CONSTANTS
  Components = {"gifts", "turn"}
  Users <- People
  Workspaces <- Wallets
  Personal <- Own
  NoKey = "no key"
  Codes = {"g1"}
  Gift <- Sent
  Newcomers = {"u2"}
  MoneyIn <- Funds
  MaxCrashes = 1
  OAuth = {"o1"}
  Keys = {"k1"}
  MaxOAuth = 3
  MaxTurns = 2
CHECK_DEADLOCK FALSE
  
PROPERTIES EscrowEnds SilentTurnsEnd
