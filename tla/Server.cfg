SPECIFICATION MCSpec
CONSTANTS
  Products <- Goods
  Cards <- Left
  Orders <- Right
  Handlers <- Left
  MaxMails = 1
  MaxEvents = 2
  Single <- OneSession
  Couple <- TwoSessions
  Bearers = {"r1", "r2", "r3"}
  Threshold = 3
  MaxTokens = 3
  CodexKeys = {"k1", "k2"}
  Models <- ModelNames
  PlanModels = {"a"}
  RelayModels = {"b"}
  KeyOnly = {"c"}
  Base <- BaseOf
  ClaudeCreds = {"c1", "c2"}
  Kind <- KindOf
  MaxUsage = 1
  MaxTurns = 2
  Convs = {"c", "d"}
  Callers <- Clients
  Trusted = {"r"}
  Openings = {"hi", "yo"}
  FanCreds = {"o1", "o2"}
  Buckets = {"b0", "b1"}
  Bucket <- Hash
  MaxSeen = 1
  MaxChats = 2
  MaxFailures = 1
  OAuthNames <- Right
  KeyNames = {"k"}
  Holders = {"x", "y"}
  Editors <- Left
  MaxObjects = 3
  MaxEdits = 1
  Auths <- Probed
  Checked <- Left
  Judged <- How
  Cap = 1
  MaxChanges = 1
  Cached <- Left
  Panels <- Right
  Ttl = 1
  MaxStale = 2
  MaxEntries = 1
  MaxTime = 2
  MaxVersions = 1
  Conns = {"c"}
  Reporters <- Left
  RecoverCooldown = 1
  MaxRecoverAttempts = 1
  AttemptReset = 1
  AlertCooldown = 2
  MaxUnlinks = 1
  MaxInstants = 4
  Keep = 2
  MaxCrashes = 3
  MaxDay = 5
  Secrets = {}
  Openers <- Processes
  Binary <- Built
  Members <- Accounts
  Rows <- OldRows
  Owner <- Payer
  Ref <- Named
  NoToken = "none"
  MaxOpens = 2
  Endpoints = {"claude", "codex"}
  Work <- Left
  Configs <- Sections
  Tickets = {"t"}
  MaxMessages = 3
  MaxSeconds = 3
  Players = {"u"}
  Hits <- Left
  Viewers = {"v"}
  RingSize = 1
  Buffer = 1
  Newcomers <- Accounts
  Origins <- Pairs
  NoFp = "none"
  Disposable = {"spam"}
  FreeMail = {"e"}
  SubnetThreshold = 1
  EmailDomainThreshold = 1
  Window = 0
  RequireFingerprint = TRUE
  TrialBonus = 1
  Channels <- Offers
  MaxHours = 1
  MaxChannelEdits = 1
  MaxDeaths = 1
  Sids <- Left
  Labels <- Right
  MaxDwell = 1
  MaxHops = 1
  MaxHits = 2
  MaxBoots = 2
  m1 = m1
  m2 = m2
  n1 = n1
  n2 = n2
SYMMETRY Alike
CHECK_DEADLOCK FALSE
INVARIANTS  SocketHolds RefreshHolds ModelsHold FanoutHolds    ShopHolds  
