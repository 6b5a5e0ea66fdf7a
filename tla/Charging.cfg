SPECIFICATION Spec
CONSTANTS
  u1 = u1
  u2 = u2
  w1 = w1
  w2 = w2
  t1 = t1
  t2 = t2
  r1 = r1
  r2 = r2
  r3 = r3
  NoKey = NoKey
  Unset = Unset
  Users = {u1, u2}
  Workspaces = {w1, w2}
  Personal <- MCPersonal
  Tokens = {t1, t2}
  Requests = {r1, r2, r3}
  Bill <- MCBill
  Attempts = 2
  MaxIdemAmount = 3
  ConfigOverdraft = 2
  DefaultOverdraft = 2
  Reconcilers = {1}
  Deposits = {2}
  MaxDeposits = 1
  MaxLostAcks = 1
CHECK_DEADLOCK FALSE
INVARIANTS TypeOK BalanceIsLedgerSum IdemKeyUnique LogMatchesLedger BackfillOnlyDropped BilledOnceUnlessAckLost FloorHeld
PROPERTIES ImplementsChargeOnce
