--------------------------- MODULE ChargingProofs ---------------------------
(***************************************************************************)
(* Theorems about Charging, for every number of requests, users, wallets,  *)
(* retries, reconcile commands, lost acknowledgements and crashes.         *)
(*                                                                         *)
(* The argument: every step changes the wallet by posting at most one row, *)
(* of one of three kinds (StepPosts); a row's key says which request and   *)
(* which path it bills (RowShape); and where a request stands says which   *)
(* rows of the live path exist for it (LiveState, LogState).               *)
(***************************************************************************)
EXTENDS Charging, WalletProofs

-----------------------------------------------------------------------------
(* Types of the constants and of the operators built from them.            *)

LEMMA BillType ==
  ASSUME NEW r \in Requests
  PROVE  /\ Bill[r].user \in Users /\ Bill[r].ws \in Workspaces
         /\ Bill[r].amount \in Nat \ {0}
BY ChargingAssumption

LEMMA FloorType == MaxOverdraft \in Nat /\ ReconcileFloor \in Nat
BY ChargingAssumption DEF MaxOverdraft, ReconcileFloor

LEMMA KeyType ==
  ASSUME NEW r \in Requests
  PROVE  /\ LiveKey(r) \in AllKeys /\ RowKey(r) \in AllKeys
         /\ LiveKey(r) # NoKey /\ RowKey(r) # NoKey
BY ChargingAssumption DEF LiveKey, RowKey, AllKeys

LEMMA KeysDiffer ==
  ASSUME NEW r \in Requests, NEW q \in Requests
  PROVE  /\ LiveKey(r) # RowKey(q)
         /\ LiveKey(r) = LiveKey(q) => r = q
         /\ RowKey(r) = RowKey(q) => r = q
BY DEF LiveKey, RowKey

-----------------------------------------------------------------------------
(* What a step posts.                                                      *)

\* The charge row that bills x of request r under key.
BillRow(r, x, key) == Row(Bill[r].ws, Bill[r].user, "charge", -x, r, key)

\* A charge of x leaves its wallet at or above the floor max.
Fits(r, x, max) == max > 0 => balance[Bill[r].ws] - x >= -max

LivePost(r, x) ==
  /\ phase[r] = "served"
  /\ x \in 1..Bill[r].amount
  /\ Fits(r, x, MaxOverdraft)
  /\ IF Keyed(r)
     THEN ~Claimed(LiveKey(r)) /\ Post(BillRow(r, x, LiveKey(r)))
     ELSE Post(BillRow(r, x, NoKey))

BackfillPost(r, x) ==
  /\ \E p \in Reconcilers : r \in todo[p]
  /\ x \in 1..Bill[r].amount
  /\ Fits(r, x, ReconcileFloor)
  /\ ~Claimed(RowKey(r))
  /\ Post(BillRow(r, x, RowKey(r)))

TopUpPost(u, d) == Post(Row(Personal[u], u, "topup", d, "order", NoKey))

\* One try of the live debit posts at most one row.
LEMMA DebitPosts ==
  ASSUME TypeOK, NEW r \in Requests, Trying(r), DebitTx(r)
  PROVE  UNCHANGED walletVars \/ \E x \in 1..Bill[r].amount : LivePost(r, x)
<1> DEFINE c == clampCharge(balance[Bill[r].ws], Bill[r].amount, MaxOverdraft)
<1>1. /\ balance[Bill[r].ws] \in Int
      /\ Bill[r].amount \in Nat \ {0}
      /\ MaxOverdraft \in Nat
  BY BillType, FloorType DEF TypeOK
<1>2. c \in 0..Bill[r].amount /\ (c > 0 /\ MaxOverdraft > 0 => Fits(r, c, MaxOverdraft))
  BY <1>1, ClampBounds DEF Fits
<1>3. CASE Keyed(r)
  <2> DEFINE req == LiveReq(r)
  <2>1. /\ req.key = LiveKey(r) /\ req.kind = "charge" /\ req.ws = Bill[r].ws
        /\ req.user = Bill[r].user /\ req.amount = Bill[r].amount /\ req.ref = r
        /\ req.max = MaxOverdraft
    BY DEF LiveReq, IdemReq
  <2>2. walletIdemOnce(req) BY <1>3 DEF DebitTx
  <2>3. \/ UNCHANGED walletVars
        \/ ~Claimed(LiveKey(r)) /\ c # 0 /\ Post(ChargeRow(req))
    <3> HIDE DEF req
    <3> QED BY <2>1, <2>2, IdemChargeCases
  <2>4. ChargeRow(req) = BillRow(r, c, LiveKey(r))
    <3> HIDE DEF req
    <3> QED BY <2>1 DEF ChargeRow, BillRow
  <2>5. CASE ~Claimed(LiveKey(r)) /\ c # 0 /\ Post(ChargeRow(req))
    <3>1. c \in 1..Bill[r].amount BY <1>1, <1>2, <2>5
    <3> HIDE DEF c, req
    <3>2. LivePost(r, c)
      BY <1>2, <1>3, <2>4, <2>5, <3>1 DEF LivePost, Trying, Fits
    <3> QED BY <3>1, <3>2
  <2> QED BY <2>3, <2>5
<1>4. CASE ~Keyed(r)
  <2>1. CASE c = 0
    BY <1>1, <1>4, <2>1 DEF DebitTx, ChargeWorkspaceWithFloor
  <2>2. CASE c # 0
    <3>1. Post(BillRow(r, c, NoKey))
      BY <1>1, <1>4, <2>2 DEF DebitTx, ChargeWorkspaceWithFloor, BillRow
    <3>2. c \in 1..Bill[r].amount BY <1>1, <1>2, <2>2
    <3> HIDE DEF c
    <3>3. LivePost(r, c) BY <1>2, <1>4, <3>1, <3>2 DEF LivePost, Trying, Fits
    <3> QED BY <3>2, <3>3
  <2> QED BY <2>1, <2>2
<1> QED BY <1>3, <1>4

\* One row of a reconcile command posts at most one row.
LEMMA BackfillPosts ==
  ASSUME TypeOK, NEW p \in Reconcilers, NEW r \in Requests, r \in todo[p],
         walletIdemOnce(RowReq(r))
  PROVE  UNCHANGED walletVars \/ \E x \in 1..Bill[r].amount : BackfillPost(r, x)
<1> DEFINE c == clampCharge(balance[Bill[r].ws], Bill[r].amount, ReconcileFloor)
           req == RowReq(r)
<1>1. /\ balance[Bill[r].ws] \in Int
      /\ Bill[r].amount \in Nat \ {0}
      /\ ReconcileFloor \in Nat
  BY BillType, FloorType DEF TypeOK
<1>2. c \in 0..Bill[r].amount /\ (c > 0 /\ ReconcileFloor > 0 => Fits(r, c, ReconcileFloor))
  BY <1>1, ClampBounds DEF Fits
<1>3. /\ req.key = RowKey(r) /\ req.kind = "charge" /\ req.ws = Bill[r].ws
      /\ req.user = Bill[r].user /\ req.amount = Bill[r].amount /\ req.ref = r
      /\ req.max = ReconcileFloor
  BY DEF RowReq, IdemReq
<1>4. \/ UNCHANGED walletVars
      \/ ~Claimed(RowKey(r)) /\ c # 0 /\ Post(ChargeRow(req))
  <2> HIDE DEF req
  <2>1. walletIdemOnce(req) BY DEF req
  <2> QED BY <1>3, <2>1, IdemChargeCases
<1>5. ChargeRow(req) = BillRow(r, c, RowKey(r))
  <2> HIDE DEF req
  <2> QED BY <1>3 DEF ChargeRow, BillRow
<1>6. CASE ~Claimed(RowKey(r)) /\ c # 0 /\ Post(ChargeRow(req))
  <2>1. c \in 1..Bill[r].amount BY <1>1, <1>2, <1>6
  <2> HIDE DEF c, req
  <2>2. BackfillPost(r, c) BY <1>2, <1>5, <1>6, <2>1 DEF BackfillPost, Fits
  <2> QED BY <2>1, <2>2
<1> QED BY <1>4, <1>6

\* Every step posts at most one row, and says whose.  A request over the
\* idempotent ceiling gets one try.
LEMMA StepPosts ==
  ASSUME TypeOK, [Next]_vars
  PROVE  \/ UNCHANGED walletVars
         \/ \E r \in Requests : \E x \in 1..Bill[r].amount :
              LivePost(r, x) /\ (~Keyed(r) => phase'[r] = "returned")
         \/ \E r \in Requests : \E x \in 1..Bill[r].amount : BackfillPost(r, x)
         \/ \E u \in Users, d \in Deposits : TopUpPost(u, d)
<1>1. CASE UNCHANGED vars BY <1>1 DEF vars, walletVars
<1>2. ASSUME NEW r \in Requests, DebitSucceeds(r) \/ DebitAckLost(r)
      PROVE  \/ UNCHANGED walletVars
             \/ \E x \in 1..Bill[r].amount :
                  LivePost(r, x) /\ (~Keyed(r) => phase'[r] = "returned")
  <2>1. Trying(r) /\ DebitTx(r) BY <1>2 DEF DebitSucceeds, DebitAckLost
  <2>2. ~Keyed(r) => phase'[r] = "returned"
    BY <1>2 DEF DebitSucceeds, DebitAckLost, RetryOrGiveUp, LastTry, TypeOK
  <2> QED BY <2>1, <2>2, DebitPosts
<1>3. ASSUME NEW p \in Reconcilers, NEW r \in Requests,
             SettleRow(p, r) \/ ReconcileAckLost(p, r)
      PROVE  UNCHANGED walletVars \/ \E x \in 1..Bill[r].amount : BackfillPost(r, x)
  <2>1. r \in todo[p] /\ (UNCHANGED walletVars \/ walletIdemOnce(RowReq(r)))
    BY <1>3 DEF SettleRow, ReconcileAckLost
  <2> QED BY <2>1, BackfillPosts
<1>4. ASSUME NEW u \in Users, NEW d \in Deposits, TopUp(u, d) PROVE TopUpPost(u, d)
  BY <1>4 DEF TopUp, AddBalanceTx, addWorkspaceBalanceTx, TopUpPost
<1>5. ASSUME NEW r \in Requests, Serve(r) \/ DebitFails(r) \/ EmitLog(r)
      PROVE  UNCHANGED walletVars
  BY <1>5 DEF Serve, DebitFails, EmitLog, walletVars
<1>6. CASE Crash BY <1>6 DEF Crash, walletVars
<1>7. ASSUME NEW p \in Reconcilers, ReadDropped(p) \/ ReconcileAborts(p)
      PROVE  UNCHANGED walletVars
  BY <1>7 DEF ReadDropped, ReconcileAborts, walletVars
<1>8. ASSUME NEW t \in Tokens, TokenGone(t) PROVE UNCHANGED walletVars
  BY <1>8 DEF TokenGone, walletVars
<1> HIDE DEF walletVars
<1> QED
  BY <1>1, <1>2, <1>3, <1>4, <1>5, <1>6, <1>7, <1>8 DEF Next

-----------------------------------------------------------------------------
(* Types.                                                                  *)

LEMMA BillRowType ==
  ASSUME NEW r \in Requests, NEW x \in 1..Bill[r].amount,
         NEW key \in {LiveKey(r), RowKey(r), NoKey}
  PROVE  BillRow(r, x, key) \in RowType
BY BillType, KeyType DEF BillRow, Row, RowType

LEMMA TopUpRowType ==
  ASSUME NEW u \in Users, NEW d \in Deposits
  PROVE  Row(Personal[u], u, "topup", d, "order", NoKey) \in RowType
BY PersonalAssumption, ChargingAssumption DEF Row, RowType

\* The row a step posts, if it posts one, is well typed.
LEMMA WalletType ==
  ASSUME TypeOK, [Next]_vars
  PROVE  balance' \in [Workspaces -> Int] /\ ledger' \in Seq(RowType)
<1>0. balance \in [Workspaces -> Int] /\ ledger \in Seq(RowType) BY DEF TypeOK
<1>1. ASSUME NEW row \in RowType, Post(row)
      PROVE  balance' \in [Workspaces -> Int] /\ ledger' \in Seq(RowType)
  <2>1. row.ws \in Workspaces /\ row.amount \in Int BY DEF RowType
  <2> QED BY <1>0, <1>1, <2>1 DEF Post
<1>2. CASE UNCHANGED walletVars BY <1>0, <1>2 DEF walletVars
<1>3. ASSUME NEW r \in Requests, NEW x \in 1..Bill[r].amount,
             LivePost(r, x) \/ BackfillPost(r, x)
      PROVE  \E row \in RowType : Post(row)
  BY <1>3, BillRowType DEF LivePost, BackfillPost
<1>4. ASSUME NEW u \in Users, NEW d \in Deposits, TopUpPost(u, d)
      PROVE  \E row \in RowType : Post(row)
  BY <1>4, TopUpRowType DEF TopUpPost
<1> QED BY <1>1, <1>2, <1>3, <1>4, StepPosts

\* What a successful try reports is a natural number.
LEMMA DebitMovesType ==
  ASSUME TypeOK, NEW r \in Requests
  PROVE  DebitMoves(r) \in Nat
<1> DEFINE c == clampCharge(balance[Bill[r].ws], Bill[r].amount, MaxOverdraft)
           req == LiveReq(r)
<1>1. c \in Nat
  <2>1. balance[Bill[r].ws] \in Int /\ Bill[r].amount \in Nat /\ MaxOverdraft \in Nat
    BY BillType, FloorType DEF TypeOK
  <2>2. c \in 0..Bill[r].amount BY <2>1, ClampBounds
  <2> QED BY <2>1, <2>2
<1>2. Movable(req) = c BY DEF Movable, LiveReq, IdemReq
<1>3. IdemOutcome(req).moved \in Nat
  <2> HIDE DEF req, c
  <2>1. CASE Claimed(req.key)
    <3> DEFINE i == TxOf(req.key)
    <3>1. i \in DOMAIN ledger BY <2>1 DEF Claimed, TxOf
    <3>2. ledger[i].amount \in Int
      <4>1. ledger \in Seq(RowType) BY DEF TypeOK
      <4> HIDE DEF i
      <4>2. ledger[i] \in RowType BY <3>1, <4>1
      <4> QED BY <4>2 DEF RowType
    <3>3. Magnitude(ledger[i].amount) \in Nat BY <3>2 DEF Magnitude
    <3> QED BY <2>1, <3>3 DEF IdemOutcome, findIdemRow
  <2>2. CASE ~Claimed(req.key)
    BY <1>1, <1>2, <2>2 DEF IdemOutcome
  <2> QED BY <2>1, <2>2
<1> QED BY <1>1, <1>3 DEF DebitMoves

\* A request that is being tried has tries left.
AttemptsLeft ==
  \A r \in Requests :
    /\ phase[r] = "new" => attempt[r] = 0
    /\ phase[r] = "served" => attempt[r] < Attempts

TypeInv == TypeOK /\ AttemptsLeft

LEMMA TypeInit == Init => TypeInv
<1> SUFFICES ASSUME Init PROVE TypeInv OBVIOUS
<1>1. balance \in [Workspaces -> Int] /\ ledger \in Seq(RowType)
  BY DEF Init, WalletInit
<1>2. AttemptsLeft BY ChargingAssumption DEF Init, AttemptsLeft
<1> QED
  BY <1>1, <1>2, ChargingAssumption DEF Init, TypeOK, TypeInv, NoResult, NoLog

\* One more try, or none left.
LEMMA RetryType ==
  ASSUME TypeInv, NEW r \in Requests, Trying(r), RetryOrGiveUp(r)
  PROVE  /\ phase' \in [Requests -> {"new", "served", "returned", "logged", "gone"}]
         /\ attempt' \in [Requests -> 0..Attempts]
         /\ result' \in [Requests -> [err : BOOLEAN, billed : Nat]]
         /\ AttemptsLeft'
<1> USE DEF TypeInv, TypeOK, Trying
<1>1. Attempts \in Nat \ {0} /\ attempt[r] \in 0..Attempts /\ attempt[r] < Attempts
  BY ChargingAssumption DEF AttemptsLeft
<1>2. attempt' = [attempt EXCEPT ![r] = @ + 1] BY DEF RetryOrGiveUp
<1>3. CASE LastTry(r)
  <2>1. /\ phase' = [phase EXCEPT ![r] = "returned"]
        /\ result' = [result EXCEPT ![r] = [err |-> TRUE, billed |-> 0]]
    BY <1>3 DEF RetryOrGiveUp
  <2> QED BY <1>1, <1>2, <2>1 DEF AttemptsLeft
<1>4. CASE ~LastTry(r)
  <2>1. UNCHANGED <<phase, result>> BY <1>4 DEF RetryOrGiveUp
  <2>2. attempt[r] + 1 # Attempts BY <1>4 DEF LastTry
  <2>3. \A m, n \in Int : m < n /\ m + 1 # n => m + 1 < n OBVIOUS
  <2>4. attempt[r] + 1 < Attempts
    <3>1. attempt[r] \in Int /\ Attempts \in Int BY <1>1
    <3> QED BY <1>1, <2>2, <2>3, <3>1, Zenon
  <2> QED BY <1>1, <1>2, <2>1, <2>4 DEF AttemptsLeft
<1> QED BY <1>3, <1>4

LEMMA TypeStep == TypeInv /\ [Next]_vars => TypeInv'
<1> SUFFICES ASSUME TypeInv, [Next]_vars PROVE TypeInv' OBVIOUS
<1> USE DEF TypeInv
<1>0. balance' \in [Workspaces -> Int] /\ ledger' \in Seq(RowType) BY WalletType
<1>1. CASE UNCHANGED vars BY <1>0, <1>1 DEF vars, TypeOK, AttemptsLeft
<1>2. ASSUME NEW r \in Requests, Serve(r) PROVE TypeInv'
  BY <1>0, <1>2, ChargingAssumption DEF Serve, TypeOK, AttemptsLeft
<1>3. ASSUME NEW r \in Requests, DebitSucceeds(r) PROVE TypeInv'
  <2>1. DebitMoves(r) \in Nat BY DebitMovesType
  <2>2. result' \in [Requests -> [err : BOOLEAN, billed : Nat]]
    <3> DEFINE e == DebitConflicts(r)
    <3>1. e \in BOOLEAN BY DEF DebitConflicts, Keyed
    <3>2. (IF e THEN 0 ELSE DebitMoves(r)) \in Nat BY <2>1
    <3>3. result' = [result EXCEPT ![r] =
                       [err |-> e, billed |-> IF e THEN 0 ELSE DebitMoves(r)]]
      BY <1>3 DEF DebitSucceeds
    <3> HIDE DEF e
    <3> QED BY <3>1, <3>2, <3>3 DEF TypeOK
  <2> QED BY <1>0, <1>3, <2>2 DEF DebitSucceeds, TypeOK, AttemptsLeft
<1>4. ASSUME NEW r \in Requests, DebitFails(r) PROVE TypeInv'
  <2>1. Trying(r) /\ RetryOrGiveUp(r) BY <1>4 DEF DebitFails
  <2> QED BY <1>0, <1>4, <2>1, RetryType DEF DebitFails, RetryOrGiveUp, TypeOK
<1>5. ASSUME NEW r \in Requests, DebitAckLost(r) PROVE TypeInv'
  <2>1. Trying(r) /\ RetryOrGiveUp(r) BY <1>5 DEF DebitAckLost
  <2>2. lostAcks' \in Nat BY <1>5 DEF DebitAckLost, TypeOK
  <2>3. UNCHANGED <<reqlog, alive, todo>> BY <2>1 DEF RetryOrGiveUp
  <2> QED BY <1>0, <2>1, <2>2, <2>3, RetryType DEF TypeOK
<1>6. ASSUME NEW r \in Requests, EmitLog(r) PROVE TypeInv'
  BY <1>0, <1>6 DEF EmitLog, TypeOK, AttemptsLeft
<1>7. CASE Crash BY <1>0, <1>7 DEF Crash, TypeOK, AttemptsLeft
<1>8. ASSUME NEW p \in Reconcilers, ReadDropped(p) \/ ReconcileAborts(p) PROVE TypeInv'
  BY <1>0, <1>8 DEF ReadDropped, ReconcileAborts, DroppedRows, TypeOK, AttemptsLeft
<1>9. ASSUME NEW p \in Reconcilers, NEW r \in Requests,
             SettleRow(p, r) \/ ReconcileAckLost(p, r)
      PROVE  TypeInv'
  <2>1. todo' \in [Reconcilers -> SUBSET Requests]
    BY <1>9 DEF SettleRow, ReconcileAckLost, TypeOK
  <2>2. UNCHANGED <<phase, attempt, result, reqlog, alive>> /\ lostAcks' \in Nat
    BY <1>9 DEF SettleRow, ReconcileAckLost, TypeOK
  <2> QED BY <1>0, <2>1, <2>2 DEF TypeOK, AttemptsLeft
<1>10. ASSUME NEW u \in Users, NEW d \in Deposits, TopUp(u, d) PROVE TypeInv'
  BY <1>0, <1>10 DEF TopUp, TypeOK, AttemptsLeft
<1>11. ASSUME NEW t \in Tokens, TokenGone(t) PROVE TypeInv'
  BY <1>0, <1>11 DEF TokenGone, TypeOK, AttemptsLeft
<1> QED
  BY <1>1, <1>2, <1>3, <1>4, <1>5, <1>6, <1>7, <1>8, <1>9, <1>10, <1>11 DEF Next

\* Every state of the charge path is well typed, and no debit loop runs past
\* its last try.
THEOREM TypeCorrect == Spec => []TypeInv
BY TypeInit, TypeStep, PTL DEF Spec

\* The variables of the charge path keep their types in every reachable state,
\* for any number of requests, members, tries and reconcile commands.
THEOREM TypesHold == Spec => []TypeOK
<1>1. TypeInv => TypeOK BY DEF TypeInv
<1> QED BY <1>1, TypeCorrect, PTL
-----------------------------------------------------------------------------
(* Balances and keys.                                                      *)

\* What every step does to the wallet, as one posting.
LEMMA StepPosting ==
  ASSUME TypeOK, [Next]_vars
  PROVE  \/ UNCHANGED walletVars
         \/ \E row \in RowType : Post(row) /\ (row.key = NoKey \/ ~Claimed(row.key))
<1>1. ASSUME NEW r \in Requests, NEW x \in 1..Bill[r].amount, LivePost(r, x)
      PROVE  \E row \in RowType : Post(row) /\ (row.key = NoKey \/ ~Claimed(row.key))
  <2>1. CASE Keyed(r)
    BY <1>1, <2>1, BillRowType DEF LivePost, BillRow, Row
  <2>2. CASE ~Keyed(r)
    BY <1>1, <2>2, BillRowType DEF LivePost, BillRow, Row
  <2> QED BY <2>1, <2>2
<1>2. ASSUME NEW r \in Requests, NEW x \in 1..Bill[r].amount, BackfillPost(r, x)
      PROVE  \E row \in RowType : Post(row) /\ (row.key = NoKey \/ ~Claimed(row.key))
  BY <1>2, BillRowType DEF BackfillPost, BillRow, Row
<1>3. ASSUME NEW u \in Users, NEW d \in Deposits, TopUpPost(u, d)
      PROVE  \E row \in RowType : Post(row) /\ (row.key = NoKey \/ ~Claimed(row.key))
  BY <1>3, TopUpRowType DEF TopUpPost, Row
<1> QED BY <1>1, <1>2, <1>3, StepPosts

MoneyInv == BalanceIsLedgerSum /\ IdemKeyUnique

LEMMA MoneyInit == Init => MoneyInv
BY InitBalances DEF Init, MoneyInv, IdemKeyUnique, WalletInit

LEMMA MoneyStep == TypeOK /\ MoneyInv /\ [Next]_vars => MoneyInv'
<1> SUFFICES ASSUME TypeOK, MoneyInv, [Next]_vars PROVE MoneyInv' OBVIOUS
<1>1. CASE UNCHANGED walletVars
  BY <1>1, StutterBalances, StutterKeepsKeys DEF MoneyInv
<1>2. ASSUME NEW row \in RowType, Post(row), row.key = NoKey \/ ~Claimed(row.key)
      PROVE  MoneyInv'
  <2>1. ledger \in Seq(RowType) /\ balance \in [Workspaces -> Int] BY DEF TypeOK
  <2>2. row.ws \in Workspaces /\ \A r \in RowType : r.amount \in Int BY DEF RowType
  <2>3. BalanceIsLedgerSum' BY <1>2, <2>1, <2>2, PostBalances DEF MoneyInv
  <2>4. IdemKeyUnique' BY <1>2, <2>1, PostKeepsKeys DEF MoneyInv
  <2> QED BY <2>3, <2>4 DEF MoneyInv
<1> QED BY <1>1, <1>2, StepPosting

\* A wallet's balance is the sum of its ledger rows in every reachable state:
\* no retry, crash or backfill moves one without the other.
THEOREM BalancesAreLedgerSums == Spec => []BalanceIsLedgerSum
<1>1. MoneyInv => BalanceIsLedgerSum BY DEF MoneyInv
<1>2. TypeInv => TypeOK BY DEF TypeInv
<1> QED BY <1>1, <1>2, MoneyInit, MoneyStep, TypeCorrect, PTL DEF Spec

\* No idempotency key is ever on two rows, whatever is retried or replayed.
THEOREM KeysAreUnique == Spec => []IdemKeyUnique
<1>1. MoneyInv => IdemKeyUnique BY DEF MoneyInv
<1>2. TypeInv => TypeOK BY DEF TypeInv
<1> QED BY <1>1, <1>2, MoneyInit, MoneyStep, TypeCorrect, PTL DEF Spec

-----------------------------------------------------------------------------
(* The overdraft floor.                                                    *)

LEMMA FloorStep ==
  ASSUME ConfigOverdraft # Unset
  PROVE  TypeOK /\ FloorHeld /\ [Next]_vars => FloorHeld'
<1> SUFFICES ASSUME TypeOK, FloorHeld, [Next]_vars, MaxOverdraft > 0,
                    NEW w \in Workspaces
             PROVE  balance'[w] >= -MaxOverdraft
  BY DEF FloorHeld, MaxOverdraft
<1>1. ReconcileFloor = MaxOverdraft BY DEF ReconcileFloor, MaxOverdraft
<1>2. /\ balance \in [Workspaces -> Int] /\ balance[w] >= -MaxOverdraft
      /\ MaxOverdraft \in Nat
  BY FloorType DEF TypeOK, FloorHeld
<1>3. ASSUME NEW r \in Requests, NEW x \in 1..Bill[r].amount, NEW key,
             Post(BillRow(r, x, key)), Fits(r, x, MaxOverdraft)
      PROVE  balance'[w] >= -MaxOverdraft
  <2>1. Bill[r].ws \in Workspaces /\ x \in Int
    BY BillType
  <2>2. balance' = [balance EXCEPT ![Bill[r].ws] = @ + (-x)]
    BY <1>3 DEF Post, BillRow, Row
  <2>3. CASE w = Bill[r].ws
    <3>1. balance'[w] = balance[Bill[r].ws] - x BY <1>2, <2>1, <2>2, <2>3
    <3> QED BY <1>3, <3>1 DEF Fits
  <2>4. CASE w # Bill[r].ws BY <1>2, <2>1, <2>2, <2>4
  <2> QED BY <2>3, <2>4
<1>4. ASSUME NEW u \in Users, NEW d \in Deposits, TopUpPost(u, d)
      PROVE  balance'[w] >= -MaxOverdraft
  <2>1. Personal[u] \in Workspaces /\ d \in Nat
    BY PersonalAssumption, ChargingAssumption
  <2>2. balance' = [balance EXCEPT ![Personal[u]] = @ + d]
    BY <1>4 DEF TopUpPost, Post, Row
  <2> QED BY <1>2, <2>1, <2>2
<1>5. CASE UNCHANGED walletVars BY <1>2, <1>5 DEF walletVars
<1> QED
  BY <1>1, <1>3, <1>4, <1>5, StepPosts DEF LivePost, BackfillPost

\* With the overdraft configured (so that the live path and the reconcile
\* command use one floor), no interleaving of charges takes a wallet below it.
\* (Unconfigured, reconcile-charges passes no floor and can go below it.)
THEOREM FloorIsHeld ==
  ASSUME ConfigOverdraft # Unset
  PROVE  Spec => []FloorHeld
<1>1. Init => FloorHeld
  BY FloorType DEF Init, WalletInit, FloorHeld
<1>2. TypeInv => TypeOK BY DEF TypeInv
<1> QED BY <1>1, <1>2, FloorStep, TypeCorrect, PTL DEF Spec

-----------------------------------------------------------------------------
(* Rows: a key says which request it bills, and by which path.             *)

\* The key the live path bills r under.
KeyOfLive(r) == IF Keyed(r) THEN LiveKey(r) ELSE NoKey

RowShape(row) ==
  \/ row.kind = "topup" /\ row.key = NoKey
  \/ \E r \in Requests : \E x \in 1..Bill[r].amount :
       row = BillRow(r, x, KeyOfLive(r)) \/ row = BillRow(r, x, RowKey(r))

RowsShaped == \A i \in DOMAIN ledger : RowShape(ledger[i])

LEMMA RowsInit == Init => RowsShaped
BY DEF Init, WalletInit, RowsShaped

\* Every step keeps the rows it finds, and adds at most one, shaped row.
LEMMA StepRow ==
  ASSUME TypeOK, [Next]_vars
  PROVE  \/ UNCHANGED walletVars
         \/ \E row \in RowType : Post(row) /\ RowShape(row)
<1>1. ASSUME NEW r \in Requests, NEW x \in 1..Bill[r].amount, LivePost(r, x)
      PROVE  \E row \in RowType : Post(row) /\ RowShape(row)
  <2>1. Post(BillRow(r, x, KeyOfLive(r))) BY <1>1 DEF LivePost, KeyOfLive
  <2>2. BillRow(r, x, KeyOfLive(r)) \in RowType BY BillRowType DEF KeyOfLive
  <2> QED BY <2>1, <2>2 DEF RowShape
<1>2. ASSUME NEW r \in Requests, NEW x \in 1..Bill[r].amount, BackfillPost(r, x)
      PROVE  \E row \in RowType : Post(row) /\ RowShape(row)
  BY <1>2, BillRowType DEF BackfillPost, RowShape
<1>3. ASSUME NEW u \in Users, NEW d \in Deposits, TopUpPost(u, d)
      PROVE  \E row \in RowType : Post(row) /\ RowShape(row)
  BY <1>3, TopUpRowType DEF TopUpPost, RowShape, Row
<1> QED BY <1>1, <1>2, <1>3, StepPosts

LEMMA RowsStep == TypeOK /\ RowsShaped /\ [Next]_vars => RowsShaped'
<1> SUFFICES ASSUME TypeOK, RowsShaped, [Next]_vars PROVE RowsShaped' OBVIOUS
<1>1. CASE UNCHANGED walletVars BY <1>1 DEF walletVars, RowsShaped
<1>2. ASSUME NEW row \in RowType, Post(row), RowShape(row) PROVE RowsShaped'
  <2> SUFFICES ASSUME NEW i \in DOMAIN ledger' PROVE RowShape(ledger'[i])
    BY DEF RowsShaped, RowShape
  <2>1. ledger \in Seq(RowType) BY DEF TypeOK
  <2>2. i \in DOMAIN ledger \/ i = Len(ledger) + 1 BY <1>2, <2>1, PostIndex
  <2> QED BY <1>2, <2>1, <2>2, PostIndex DEF RowsShaped
<1> QED BY <1>1, <1>2, StepRow
\* Which rows carry a key of r.
LEMMA RowOfKey ==
  ASSUME RowsShaped, NEW r \in Requests, NEW i \in DOMAIN ledger,
         ledger[i].key \in {LiveKey(r), RowKey(r)}
  PROVE  \E x \in 1..Bill[r].amount :
           ledger[i] = BillRow(r, x, ledger[i].key)
<1>1. PICK q \in Requests : \E x \in 1..Bill[q].amount :
        ledger[i] = BillRow(q, x, KeyOfLive(q)) \/ ledger[i] = BillRow(q, x, RowKey(q))
  BY KeyType DEF RowsShaped, RowShape
<1>2a. PICK x \in 1..Bill[q].amount :
        ledger[i] = BillRow(q, x, KeyOfLive(q)) \/ ledger[i] = BillRow(q, x, RowKey(q))
  BY <1>1
<1>2. /\ BillRow(q, x, KeyOfLive(q)).key = KeyOfLive(q)
      /\ BillRow(q, x, RowKey(q)).key = RowKey(q)
  BY DEF BillRow, Row
<1>3. q = r
  BY <1>2, <1>2a, KeyType, KeysDiffer DEF KeyOfLive
<1>4. ledger[i] = BillRow(q, x, ledger[i].key) BY <1>2, <1>2a
<1> QED BY <1>3, <1>4

\* The live rows of a keyed request are the rows under its live key.
LEMMA LiveRowsKeyed ==
  ASSUME RowsShaped, NEW r \in Requests, Keyed(r)
  PROVE  LiveRows(r) = {i \in DOMAIN ledger : ledger[i].key = LiveKey(r)}
<1>1. ASSUME NEW i \in LiveRows(r) PROVE ledger[i].key = LiveKey(r)
  <2>1. i \in DOMAIN ledger /\ ledger[i].kind = "charge" /\ ledger[i].ref = r
        /\ ledger[i].key # RowKey(r)
    BY DEF LiveRows, ChargeRows
  <2>2. PICK q \in Requests : \E x \in 1..Bill[q].amount :
          ledger[i] = BillRow(q, x, KeyOfLive(q)) \/ ledger[i] = BillRow(q, x, RowKey(q))
    BY <2>1 DEF RowsShaped, RowShape
  <2>3. q = r BY <2>1, <2>2 DEF BillRow, Row
  <2>4. ledger[i].key \in {KeyOfLive(r), RowKey(r)} BY <2>2, <2>3 DEF BillRow, Row
  <2> QED BY <2>1, <2>4 DEF KeyOfLive
<1>2. ASSUME NEW i \in DOMAIN ledger, ledger[i].key = LiveKey(r) PROVE i \in LiveRows(r)
  <2>1. PICK x \in 1..Bill[r].amount : ledger[i] = BillRow(r, x, LiveKey(r))
    BY <1>2, RowOfKey
  <2>2. ledger[i].kind = "charge" /\ ledger[i].ref = r BY <2>1 DEF BillRow, Row
  <2> QED BY <1>2, <2>2, KeysDiffer DEF LiveRows, ChargeRows
<1>3. LiveRows(r) \subseteq DOMAIN ledger BY DEF LiveRows, ChargeRows
<1> QED BY <1>1, <1>2, <1>3

-----------------------------------------------------------------------------
(* Backfills.                                                              *)

\* What a reconcile command has read stays a drop: a log row is written once.
BackfillInv ==
  /\ \A r \in Requests : reqlog[r].present => phase[r] = "logged"
  /\ \A p \in Reconcilers : \A r \in todo[p] : reqlog[r].present /\ ~reqlog[r].owner
  /\ BackfillOnlyDropped

\* A log row never changes.
LEMMA LogKept ==
  ASSUME TypeOK, BackfillInv, [Next]_vars, NEW r \in Requests, reqlog[r].present
  PROVE  reqlog'[r] = reqlog[r] /\ phase'[r] = "logged"
<1>1. phase[r] = "logged" /\ phase \in [Requests -> {"new", "served", "returned", "logged", "gone"}]
  BY DEF BackfillInv, TypeOK
<1>2. CASE UNCHANGED vars BY <1>1, <1>2 DEF vars
<1>3. ASSUME NEW q \in Requests, Serve(q) PROVE reqlog'[r] = reqlog[r] /\ phase'[r] = "logged"
  BY <1>1, <1>3 DEF Serve
<1>4. ASSUME NEW q \in Requests, DebitSucceeds(q) \/ DebitFails(q) \/ DebitAckLost(q)
      PROVE  reqlog'[r] = reqlog[r] /\ phase'[r] = "logged"
  BY <1>1, <1>4 DEF DebitSucceeds, DebitFails, DebitAckLost, RetryOrGiveUp, Trying
<1>5. ASSUME NEW q \in Requests, EmitLog(q) PROVE reqlog'[r] = reqlog[r] /\ phase'[r] = "logged"
  BY <1>1, <1>5 DEF EmitLog, TypeOK
<1>6. CASE Crash BY <1>1, <1>6 DEF Crash
<1>7. CASE UNCHANGED <<phase, reqlog>> BY <1>1, <1>7
<1>8. ASSUME NEW p \in Reconcilers, ReadDropped(p) \/ ReconcileAborts(p)
      PROVE  UNCHANGED <<phase, reqlog>>
  BY <1>8 DEF ReadDropped, ReconcileAborts
<1>9. ASSUME NEW p \in Reconcilers, NEW q \in Requests,
             SettleRow(p, q) \/ ReconcileAckLost(p, q)
      PROVE  UNCHANGED <<phase, reqlog>>
  BY <1>9 DEF SettleRow, ReconcileAckLost
<1>10. ASSUME NEW u \in Users, NEW d \in Deposits, TopUp(u, d) PROVE UNCHANGED <<phase, reqlog>>
  BY <1>10 DEF TopUp
<1>11. ASSUME NEW t \in Tokens, TokenGone(t) PROVE UNCHANGED <<phase, reqlog>>
  BY <1>11 DEF TokenGone
<1> QED
  BY <1>2, <1>3, <1>4, <1>5, <1>6, <1>7, <1>8, <1>9, <1>10, <1>11 DEF Next

\* Only a backfill of r claims r's row key.
LEMMA RowKeyClaimed ==
  ASSUME TypeOK, [Next]_vars, NEW r \in Requests, ~Claimed(RowKey(r)), Claimed(RowKey(r))'
  PROVE  \E p \in Reconcilers : r \in todo[p]
<1>0. ledger \in Seq(RowType) BY DEF TypeOK
<1>1. PICK i \in DOMAIN ledger' : ledger'[i].key = RowKey(r)
  BY DEF Claimed, RowKey
<1>2. ASSUME NEW row \in RowType, Post(row), row.key # RowKey(r) PROVE FALSE
  <2>1. i \in DOMAIN ledger \/ i = Len(ledger) + 1 BY <1>0, <1>2, PostIndex
  <2>2. i \in DOMAIN ledger BY <1>0, <1>1, <1>2, <2>1, PostIndex
  <2>3. ledger[i].key = RowKey(r) BY <1>0, <1>1, <1>2, <2>2, PostIndex
  <2> QED BY <2>2, <2>3 DEF Claimed
<1>3. CASE UNCHANGED walletVars BY <1>1, <1>3 DEF walletVars, Claimed
<1>4. ASSUME NEW q \in Requests, NEW x \in 1..Bill[q].amount, LivePost(q, x) PROVE FALSE
  <2>1. Post(BillRow(q, x, KeyOfLive(q))) BY <1>4 DEF LivePost, KeyOfLive
  <2>2. BillRow(q, x, KeyOfLive(q)) \in RowType BY BillRowType DEF KeyOfLive
  <2>3. BillRow(q, x, KeyOfLive(q)).key # RowKey(r)
    BY KeyType, KeysDiffer DEF BillRow, Row, KeyOfLive
  <2> QED BY <1>2, <2>1, <2>2, <2>3
<1>5. ASSUME NEW u \in Users, NEW d \in Deposits, TopUpPost(u, d) PROVE FALSE
  BY <1>2, <1>5, TopUpRowType, KeyType DEF TopUpPost, Row
<1>6. ASSUME NEW q \in Requests, NEW x \in 1..Bill[q].amount, BackfillPost(q, x)
      PROVE  \E p \in Reconcilers : r \in todo[p]
  <2>1. Post(BillRow(q, x, RowKey(q))) /\ BillRow(q, x, RowKey(q)) \in RowType
    BY <1>6, BillRowType DEF BackfillPost
  <2>2. BillRow(q, x, RowKey(q)).key = RowKey(q) BY DEF BillRow, Row
  <2>3. q = r BY <1>2, <2>1, <2>2, KeysDiffer
  <2> QED BY <1>6, <2>3 DEF BackfillPost
<1> QED BY <1>3, <1>4, <1>5, <1>6, StepPosts

LEMMA BackfillStep == TypeOK /\ BackfillInv /\ [Next]_vars => BackfillInv'
<1> SUFFICES ASSUME TypeOK, BackfillInv, [Next]_vars PROVE BackfillInv' OBVIOUS
<1>1. ASSUME NEW r \in Requests, reqlog'[r].present PROVE phase'[r] = "logged"
  <2>1. CASE reqlog[r].present BY <2>1, LogKept
  <2>2. CASE ~reqlog[r].present
    <3>1. \A q \in Requests : EmitLog(q) => phase'[r] = "logged"
      BY <1>1, <2>2 DEF EmitLog, TypeOK
    <3>2. (~\E q \in Requests : EmitLog(q)) => UNCHANGED reqlog
      BY DEF Next, vars, Serve, DebitSucceeds, DebitFails, DebitAckLost, RetryOrGiveUp,
             Crash, ReadDropped, ReconcileAborts, SettleRow, ReconcileAckLost, TopUp,
             TokenGone
    <3> QED BY <1>1, <2>2, <3>1, <3>2
  <2> QED BY <2>1, <2>2
<1>2. ASSUME NEW p \in Reconcilers, NEW r \in todo'[p]
      PROVE  r \in Requests /\ (r \in todo[p] \/ r \in DroppedRows)
  <2>1. todo \in [Reconcilers -> SUBSET Requests] BY DEF TypeOK
  <2>2. CASE UNCHANGED todo BY <1>2, <2>1, <2>2
  <2>3. ASSUME NEW c \in Reconcilers, ReadDropped(c)
        PROVE  r \in Requests /\ (r \in todo[p] \/ r \in DroppedRows)
    BY <1>2, <2>1, <2>3 DEF ReadDropped, DroppedRows
  <2>4. ASSUME NEW c \in Reconcilers, ReconcileAborts(c)
        PROVE  r \in Requests /\ (r \in todo[p] \/ r \in DroppedRows)
    BY <1>2, <2>1, <2>4 DEF ReconcileAborts
  <2>5. ASSUME NEW c \in Reconcilers, NEW q \in Requests,
               SettleRow(c, q) \/ ReconcileAckLost(c, q)
        PROVE  r \in Requests /\ (r \in todo[p] \/ r \in DroppedRows)
    BY <1>2, <2>1, <2>5 DEF SettleRow, ReconcileAckLost
  <2>6. \/ UNCHANGED todo
        \/ \E c \in Reconcilers : ReadDropped(c) \/ ReconcileAborts(c)
        \/ \E c \in Reconcilers, q \in Requests : SettleRow(c, q) \/ ReconcileAckLost(c, q)
    BY DEF Next, vars, Serve, DebitSucceeds, DebitFails, DebitAckLost, RetryOrGiveUp,
           EmitLog, Crash, TopUp, TokenGone
  <2> QED BY <2>2, <2>3, <2>4, <2>5, <2>6
<1>3. ASSUME NEW p \in Reconcilers, NEW r \in todo'[p]
      PROVE  reqlog'[r].present /\ ~reqlog'[r].owner
  <2>1. r \in Requests /\ reqlog[r].present /\ ~reqlog[r].owner
    BY <1>2 DEF BackfillInv, DroppedRows
  <2> QED BY <2>1, LogKept
<1>4. ASSUME NEW r \in Requests, Claimed(RowKey(r))'
      PROVE  reqlog'[r].present /\ ~reqlog'[r].owner
  <2>1. reqlog[r].present /\ ~reqlog[r].owner
    <3>1. CASE Claimed(RowKey(r)) BY <3>1 DEF BackfillInv, BackfillOnlyDropped
    <3>2. CASE ~Claimed(RowKey(r)) BY <1>4, <3>2, RowKeyClaimed DEF BackfillInv
    <3> QED BY <3>1, <3>2
  <2> QED BY <2>1, LogKept
<1> QED BY <1>1, <1>3, <1>4 DEF BackfillInv, BackfillOnlyDropped

LEMMA BackfillInit == Init => BackfillInv
BY DEF Init, WalletInit, BackfillInv, BackfillOnlyDropped, Claimed, NoLog

\* The reconcile command bills only requests whose log row is a drop.
THEOREM BackfillsAreDrops == Spec => []BackfillOnlyDropped
<1>1. BackfillInv => BackfillOnlyDropped BY DEF BackfillInv
<1>2. TypeInv => TypeOK BY DEF TypeInv
<1> QED BY <1>1, <1>2, BackfillInit, BackfillStep, TypeCorrect, PTL DEF Spec
-----------------------------------------------------------------------------
(* The request log and the ledger.                                         *)

\* The live path has exactly the row that billing b for r would leave.
Agrees(r, b) ==
  IF b = 0 THEN LiveRows(r) = {}
  ELSE \E i \in DOMAIN ledger : LiveRows(r) = {i} /\ ledger[i].amount = -b

\* An unkeyed request has no row before its one try; a result that is no
\* error, and a log row that is no drop, agree with the ledger.
LogInv ==
  \A r \in Requests :
    /\ ~Keyed(r) /\ phase[r] \in {"new", "served"} => LiveRows(r) = {}
    /\ phase[r] = "returned" /\ ~result[r].err => Agrees(r, result[r].billed)
    /\ reqlog[r].present /\ reqlog[r].owner => Agrees(r, reqlog[r].billed)

\* Posting a row that is not a live charge of r changes nothing for r.
LEMMA LiveRowsFrame ==
  ASSUME TypeOK, NEW r \in Requests, NEW row \in RowType, Post(row),
         ~(row.kind = "charge" /\ row.ref = r /\ row.key # RowKey(r))
  PROVE  /\ LiveRows(r)' = LiveRows(r)
         /\ \A b : Agrees(r, b) => Agrees(r, b)'
<1>0. ledger \in Seq(RowType) BY DEF TypeOK
<1>1. ASSUME NEW i PROVE i \in LiveRows(r)' <=> i \in LiveRows(r)
  <2>1. i \in DOMAIN ledger' <=> i \in DOMAIN ledger \/ i = Len(ledger) + 1
    BY <1>0, PostIndex
  <2>2. CASE i \in DOMAIN ledger
    BY <1>0, <2>1, <2>2, PostIndex DEF LiveRows, ChargeRows, RowKey
  <2>3. CASE i \notin DOMAIN ledger
    BY <1>0, <2>1, <2>3, PostIndex DEF LiveRows, ChargeRows, RowKey
  <2> QED BY <2>2, <2>3
<1>2. LiveRows(r)' = LiveRows(r)
  <2>1. LiveRows(r)' \subseteq DOMAIN ledger' /\ LiveRows(r) \subseteq DOMAIN ledger
    BY DEF LiveRows, ChargeRows
  <2> QED BY <1>1, <2>1
<1>3. ASSUME NEW b, Agrees(r, b) PROVE Agrees(r, b)'
  BY <1>0, <1>2, <1>3, PostIndex DEF Agrees
<1> QED BY <1>2, <1>3

\* Posting a live charge of x for r, when it had none, leaves exactly that one.
LEMMA LiveRowPosted ==
  ASSUME TypeOK, NEW r \in Requests, NEW x \in 1..Bill[r].amount,
         LiveRows(r) = {}, Post(BillRow(r, x, KeyOfLive(r)))
  PROVE  Agrees(r, x)'
<1> DEFINE row == BillRow(r, x, KeyOfLive(r))
           n == Len(ledger) + 1
<1>1. row \in RowType /\ ledger \in Seq(RowType)
  BY BillRowType DEF KeyOfLive, TypeOK
<1>2. row.kind = "charge" /\ row.ref = r /\ row.key # RowKey(r) /\ row.amount = -x
  BY KeyType, KeysDiffer DEF BillRow, Row, KeyOfLive
<1>3. /\ DOMAIN ledger' = DOMAIN ledger \cup {n} /\ ledger'[n] = row
      /\ \A i \in DOMAIN ledger : ledger'[i] = ledger[i]
  <2> HIDE DEF row
  <2>1. Post(row) BY DEF row
  <2>2. /\ Len(ledger) \in Nat /\ DOMAIN ledger = 1..Len(ledger)
        /\ DOMAIN ledger' = 1..(Len(ledger) + 1) /\ ledger'[n] = row
        /\ \A i \in DOMAIN ledger : ledger'[i] = ledger[i]
    BY <1>1, <2>1, PostIndex
  <2>3. 1..(Len(ledger) + 1) = 1..Len(ledger) \cup {Len(ledger) + 1} BY <2>2
  <2> QED BY <2>2, <2>3
<1>4. LiveRows(r)' = {n}
  <2> HIDE DEF row, n
  <2> QED BY <1>2, <1>3 DEF LiveRows, ChargeRows, RowKey
<1>5. x # 0 /\ n \in DOMAIN ledger' BY <1>3
<1> HIDE DEF row, n
<1> QED BY <1>2, <1>3, <1>4, <1>5 DEF Agrees

\* A step posts a live charge of r only while r is being tried; and one for a
\* request over the ceiling ends its only try.
LEMMA LiveRowsKept ==
  ASSUME TypeOK, [Next]_vars, NEW r \in Requests,
         phase[r] # "served" \/ (~Keyed(r) /\ phase'[r] # "returned")
  PROVE  LiveRows(r)' = LiveRows(r) /\ \A b : Agrees(r, b) => Agrees(r, b)'
<1>1. CASE UNCHANGED walletVars
  BY <1>1 DEF walletVars, LiveRows, ChargeRows, RowKey, Agrees
<1>2. ASSUME NEW q \in Requests, NEW x \in 1..Bill[q].amount,
             LivePost(q, x), ~Keyed(q) => phase'[q] = "returned"
      PROVE  LiveRows(r)' = LiveRows(r) /\ \A b : Agrees(r, b) => Agrees(r, b)'
  <2>1. q # r BY <1>2 DEF LivePost
  <2>2. Post(BillRow(q, x, KeyOfLive(q))) /\ BillRow(q, x, KeyOfLive(q)) \in RowType
    BY <1>2, BillRowType DEF LivePost, KeyOfLive
  <2>3. BillRow(q, x, KeyOfLive(q)).ref = q BY DEF BillRow, Row
  <2> QED BY <2>1, <2>2, <2>3, LiveRowsFrame
<1>3. ASSUME NEW q \in Requests, NEW x \in 1..Bill[q].amount, BackfillPost(q, x)
      PROVE  LiveRows(r)' = LiveRows(r) /\ \A b : Agrees(r, b) => Agrees(r, b)'
  <2>1. Post(BillRow(q, x, RowKey(q))) /\ BillRow(q, x, RowKey(q)) \in RowType
    BY <1>3, BillRowType DEF BackfillPost
  <2>2. BillRow(q, x, RowKey(q)).ref = q /\ BillRow(q, x, RowKey(q)).key = RowKey(q)
    BY DEF BillRow, Row
  <2> QED BY <2>1, <2>2, LiveRowsFrame
<1>4. ASSUME NEW u \in Users, NEW d \in Deposits, TopUpPost(u, d)
      PROVE  LiveRows(r)' = LiveRows(r) /\ \A b : Agrees(r, b) => Agrees(r, b)'
  <2>1. Row(Personal[u], u, "topup", d, "order", NoKey).kind = "topup" BY DEF Row
  <2> QED BY <1>4, <2>1, TopUpRowType, LiveRowsFrame DEF TopUpPost
<1> QED BY <1>1, <1>2, <1>3, <1>4, StepPosts

\* A try that succeeds without conflict reports what the ledger shows.
LEMMA SuccessAgrees ==
  ASSUME TypeOK, RowsShaped, IdemKeyUnique, LogInv,
         NEW r \in Requests, DebitSucceeds(r), ~DebitConflicts(r),
         NEW b, b = DebitMoves(r)
  PROVE  Agrees(r, b)'
<1> DEFINE c == clampCharge(balance[Bill[r].ws], Bill[r].amount, MaxOverdraft)
           req == LiveReq(r)
<1>0. DebitTx(r) /\ phase[r] = "served" BY DEF DebitSucceeds, Trying
<1>1. c \in 0..Bill[r].amount /\ Bill[r].amount \in Nat \ {0}
  <2>1. balance[Bill[r].ws] \in Int /\ Bill[r].amount \in Nat \ {0} /\ MaxOverdraft \in Nat
    BY BillType, FloorType DEF TypeOK
  <2> QED BY <2>1, ClampBounds
<1>2. /\ req.key = LiveKey(r) /\ req.kind = "charge" /\ req.ws = Bill[r].ws
      /\ req.user = Bill[r].user /\ req.amount = Bill[r].amount /\ req.ref = r
      /\ req.max = MaxOverdraft
  BY DEF LiveReq, IdemReq
<1>3. CASE Keyed(r) /\ Claimed(LiveKey(r))
  <2> DEFINE i == TxOf(LiveKey(r))
  <2>1. i \in DOMAIN ledger /\ ledger[i].key = LiveKey(r)
    BY <1>3 DEF Claimed, TxOf
  <2>2. UNCHANGED walletVars
    <3> HIDE DEF req
    <3>1. walletIdemOnce(req) BY <1>0, <1>3 DEF DebitTx, req
    <3>2. IdemOutcome(req).status # "moved" BY <1>2, <1>3 DEF IdemOutcome, findIdemRow
    <3> QED BY <3>1, <3>2 DEF walletIdemOnce
  <2> HIDE DEF i
  <2>3. LiveRows(r) = {i}
    <3>1. LiveRows(r) = {j \in DOMAIN ledger : ledger[j].key = LiveKey(r)}
      BY <1>3, LiveRowsKeyed
    <3> QED BY <2>1, <3>1, KeyType DEF IdemKeyUnique
  <2>4. PICK x \in 1..Bill[r].amount : ledger[i] = BillRow(r, x, LiveKey(r))
    BY <2>1, RowOfKey
  <2>5. SameMovement(ledger[i], req)
    <3> HIDE DEF req
    <3> QED BY <1>2, <2>4 DEF SameMovement, BillRow, Row
  <2>6. ledger[i].amount = -x BY <2>4 DEF BillRow, Row
  <2>7. IdemOutcome(req).moved = Magnitude(ledger[i].amount)
    <3> HIDE DEF req
    <3> QED BY <1>2, <1>3, <2>5 DEF IdemOutcome, findIdemRow, i
  <2>8. b = x
    <3>1. x \in Nat \ {0} BY <1>1
    <3>2. Magnitude(ledger[i].amount) = x BY <2>6, <3>1 DEF Magnitude
    <3>3. b = IdemOutcome(req).moved BY <1>3 DEF DebitMoves
    <3> HIDE DEF req
    <3> QED BY <2>7, <3>2, <3>3
  <2>9. x # 0 BY <1>1
  <2>10. Agrees(r, x) BY <2>1, <2>3, <2>6, <2>9 DEF Agrees
  <2>11. Agrees(r, x)' BY <2>2, <2>10 DEF Agrees, LiveRows, ChargeRows, RowKey, walletVars
  <2> QED BY <2>8, <2>11
<1>4. CASE Keyed(r) /\ ~Claimed(LiveKey(r))
  <2>1. LiveRows(r) = {}
    <3>1. LiveRows(r) = {j \in DOMAIN ledger : ledger[j].key = LiveKey(r)}
      BY <1>4, LiveRowsKeyed
    <3> QED BY <1>4, <3>1 DEF Claimed
  <2>2. b = c
    <3>1. b = IdemOutcome(req).moved BY <1>4 DEF DebitMoves
    <3> HIDE DEF req
    <3> QED BY <1>2, <1>4, <3>1 DEF IdemOutcome, Movable
  <2>3. \/ UNCHANGED walletVars /\ c = 0
        \/ c # 0 /\ Post(ChargeRow(req))
    <3> HIDE DEF req
    <3>1. walletIdemOnce(req) BY <1>0, <1>4 DEF DebitTx, req
    <3> QED BY <1>2, <1>4, <3>1, IdemChargeCases
  <2>4. CASE UNCHANGED walletVars /\ c = 0
    BY <1>1, <2>1, <2>2, <2>4 DEF Agrees, LiveRows, ChargeRows, RowKey, walletVars
  <2>5. CASE c # 0 /\ Post(ChargeRow(req))
    <3>1. ChargeRow(req) = BillRow(r, c, KeyOfLive(r))
      <4> HIDE DEF req
      <4> QED BY <1>2, <1>4 DEF ChargeRow, BillRow, KeyOfLive
    <3>2. c \in 1..Bill[r].amount BY <1>1, <2>5
    <3> HIDE DEF c, req
    <3> QED BY <2>1, <2>2, <2>5, <3>1, <3>2, LiveRowPosted
  <2> QED BY <2>3, <2>4, <2>5
<1>5. CASE ~Keyed(r)
  <2>1. LiveRows(r) = {} BY <1>0, <1>5 DEF LogInv
  <2>2. b = c BY <1>5 DEF DebitMoves
  <2>3. \/ UNCHANGED walletVars /\ c = 0
        \/ c # 0 /\ Post(BillRow(r, c, KeyOfLive(r)))
    BY <1>0, <1>1, <1>5 DEF DebitTx, ChargeWorkspaceWithFloor, BillRow, KeyOfLive
  <2>4. CASE UNCHANGED walletVars /\ c = 0
    BY <1>1, <2>1, <2>2, <2>4 DEF Agrees, LiveRows, ChargeRows, RowKey, walletVars
  <2>5. CASE c # 0 /\ Post(BillRow(r, c, KeyOfLive(r)))
    <3>1. c \in 1..Bill[r].amount BY <1>1, <2>5
    <3> HIDE DEF c
    <3> QED BY <2>1, <2>2, <2>5, <3>1, LiveRowPosted
  <2> QED BY <2>3, <2>4, <2>5
<1> QED BY <1>3, <1>4, <1>5
\* Where r's settlement, its result and its log row came from in the last step.
Origin(r) ==
  /\ phase'[r] \in {"new", "served"} => phase[r] \in {"new", "served"}
  /\ phase'[r] = "returned" /\ ~result'[r].err =>
       \/ phase[r] = "returned" /\ result'[r] = result[r]
       \/ DebitSucceeds(r) /\ ~DebitConflicts(r)
            /\ result'[r].billed = DebitMoves(r)
  /\ reqlog'[r].present /\ reqlog'[r].owner =>
       \/ reqlog[r].present /\ reqlog'[r] = reqlog[r]
       \/ EmitLog(r) /\ phase[r] = "returned" /\ ~result[r].err
            /\ reqlog'[r].billed = result[r].billed

LEMMA PhaseBefore ==
  ASSUME TypeOK, [Next]_vars, NEW r \in Requests
  PROVE  Origin(r)
<1>0. /\ phase \in [Requests -> {"new", "served", "returned", "logged", "gone"}]
      /\ result \in [Requests -> [err : BOOLEAN, billed : Nat]]
      /\ reqlog \in [Requests -> [present : BOOLEAN, owner : BOOLEAN, billed : Nat]]
  BY DEF TypeOK
<1>1. CASE UNCHANGED <<phase, result, reqlog>> BY <1>0, <1>1 DEF Origin
<1>2. ASSUME NEW q \in Requests, Serve(q) PROVE Origin(r)
  BY <1>0, <1>2 DEF Serve, Origin
<1>3. ASSUME NEW q \in Requests, DebitSucceeds(q) PROVE Origin(r)
  <2>1. CASE q = r
    <3> DEFINE e == DebitConflicts(r)
               m == DebitMoves(r)
    <3>1. /\ phase'[r] = "returned" /\ phase[r] = "served" /\ UNCHANGED reqlog
          /\ result'[r] = [err |-> e, billed |-> IF e THEN 0 ELSE m]
      BY <1>0, <1>3, <2>1 DEF DebitSucceeds, Trying
    <3>2. DebitSucceeds(r) BY <1>3, <2>1
    <3>3. result'[r].err = e /\ (~e => result'[r].billed = m)
      <4> HIDE DEF e, m
      <4> QED BY <3>1
    <3> HIDE DEF e, m
    <3> QED BY <1>0, <3>1, <3>2, <3>3 DEF e, m, Origin
  <2>2. CASE q # r BY <1>0, <1>3, <2>2 DEF DebitSucceeds, Origin
  <2> QED BY <2>1, <2>2
<1>4. ASSUME NEW q \in Requests, DebitFails(q) \/ DebitAckLost(q) PROVE Origin(r)
  <2>1. Trying(q) /\ RetryOrGiveUp(q) BY <1>4 DEF DebitFails, DebitAckLost
  <2>2. CASE LastTry(q)
    <3>1. /\ phase' = [phase EXCEPT ![q] = "returned"]
          /\ result' = [result EXCEPT ![q] = [err |-> TRUE, billed |-> 0]]
          /\ UNCHANGED reqlog
      BY <2>1, <2>2 DEF RetryOrGiveUp
    <3> QED BY <1>0, <2>1, <3>1 DEF Origin
  <2>3. CASE ~LastTry(q) BY <1>1, <2>1, <2>3 DEF RetryOrGiveUp
  <2> QED BY <2>2, <2>3
<1>5. ASSUME NEW q \in Requests, EmitLog(q) PROVE Origin(r)
  <2>1. CASE q = r
    <3>1. /\ phase[r] = "returned" /\ phase'[r] = "logged" /\ EmitLog(r)
          /\ reqlog'[r] = [present |-> TRUE, owner |-> ~result[r].err,
                            billed |-> result[r].billed]
      BY <1>0, <1>5, <2>1 DEF EmitLog
    <3>2. reqlog'[r].billed = result[r].billed BY <3>1
    <3>3. reqlog'[r].owner => ~result[r].err
      <4>1. \A e, b : [present |-> TRUE, owner |-> ~e, billed |-> b].owner = ~e
        BY Zenon
      <4> QED BY <3>1, <4>1, Zenon
    <3> QED BY <3>1, <3>2, <3>3 DEF Origin
  <2>2. CASE q # r BY <1>0, <1>5, <2>2 DEF EmitLog, Origin
  <2> QED BY <2>1, <2>2
<1>6. CASE Crash
  <2>1. phase' = [q \in Requests |->
          IF phase[q] \in {"served", "returned"} THEN "gone" ELSE phase[q]]
        /\ UNCHANGED <<result, reqlog>>
    BY <1>6 DEF Crash
  <2> QED BY <1>0, <2>1 DEF Origin
<1>7. ASSUME NEW p \in Reconcilers, ReadDropped(p) \/ ReconcileAborts(p) PROVE Origin(r)
  BY <1>1, <1>7 DEF ReadDropped, ReconcileAborts
<1>8. ASSUME NEW p \in Reconcilers, NEW q \in Requests,
             SettleRow(p, q) \/ ReconcileAckLost(p, q)
      PROVE  Origin(r)
  BY <1>1, <1>8 DEF SettleRow, ReconcileAckLost
<1>9. ASSUME NEW u \in Users, NEW d \in Deposits, TopUp(u, d) PROVE Origin(r)
  BY <1>1, <1>9 DEF TopUp
<1>10. ASSUME NEW t \in Tokens, TokenGone(t) PROVE Origin(r)
  BY <1>1, <1>10 DEF TokenGone
<1>11. CASE UNCHANGED vars BY <1>1, <1>11 DEF vars
<1> QED
  BY <1>2, <1>3, <1>4, <1>5, <1>6, <1>7, <1>8, <1>9, <1>10, <1>11 DEF Next

LEMMA LogStep ==
  TypeOK /\ RowsShaped /\ IdemKeyUnique /\ BackfillInv /\ LogInv /\ [Next]_vars => LogInv'
<1> SUFFICES ASSUME TypeOK, RowsShaped, IdemKeyUnique, BackfillInv, LogInv, [Next]_vars,
                    NEW r \in Requests
             PROVE  /\ ~Keyed(r) /\ phase'[r] \in {"new", "served"} => LiveRows(r)' = {}
                    /\ phase'[r] = "returned" /\ ~result'[r].err
                         => Agrees(r, result[r].billed)'
                    /\ reqlog'[r].present /\ reqlog'[r].owner
                         => Agrees(r, reqlog[r].billed)'
  BY DEF LogInv, Keyed
<1>1. ASSUME ~Keyed(r), phase'[r] \in {"new", "served"} PROVE LiveRows(r)' = {}
  BY <1>1, PhaseBefore, LiveRowsKept DEF LogInv, Origin
<1>2. ASSUME phase'[r] = "returned", ~result'[r].err, NEW b, b = result'[r].billed
      PROVE  Agrees(r, b)'
  <2>1. CASE phase[r] = "returned" /\ result'[r] = result[r]
    <3>1. Agrees(r, b) BY <1>2, <2>1 DEF LogInv
    <3> QED BY <2>1, <3>1, LiveRowsKept
  <2>2. CASE DebitSucceeds(r) /\ ~DebitConflicts(r) /\ result'[r].billed = DebitMoves(r)
    BY <1>2, <2>2, SuccessAgrees
  <2> QED BY <1>2, <2>1, <2>2, PhaseBefore DEF Origin
<1>3. ASSUME reqlog'[r].present, reqlog'[r].owner, NEW b, b = reqlog'[r].billed
      PROVE  Agrees(r, b)'
  <2>1. CASE reqlog[r].present /\ reqlog'[r] = reqlog[r]
    <3>1. Agrees(r, b) BY <1>3, <2>1 DEF LogInv
    <3>2. phase[r] = "logged" BY <2>1 DEF BackfillInv
    <3> QED BY <3>1, <3>2, LiveRowsKept
  <2>2. CASE EmitLog(r) /\ phase[r] = "returned" /\ ~result[r].err
               /\ reqlog'[r].billed = result[r].billed
    <3>1. Agrees(r, b) BY <1>3, <2>2 DEF LogInv
    <3> QED BY <2>2, <3>1, LiveRowsKept
  <2> QED BY <1>3, <2>1, <2>2, PhaseBefore DEF Origin
<1>4. phase'[r] = "returned" /\ ~result'[r].err => Agrees(r, result[r].billed)'
  BY <1>2 DEF Agrees
<1>5. reqlog'[r].present /\ reqlog'[r].owner => Agrees(r, reqlog[r].billed)'
  BY <1>3 DEF Agrees
<1> QED BY <1>1, <1>4, <1>5

LEMMA LogInit == Init => LogInv
BY DEF Init, WalletInit, LogInv, LiveRows, ChargeRows, NoLog

\* A request that the log shows as billed has exactly the ledger row the log
\* claims, through every retry, lost acknowledgement, crash and backfill.
THEOREM LogIsLedger == Spec => []LogMatchesLedger
<1>1. LogInv => LogMatchesLedger BY DEF LogInv, LogMatchesLedger, Agrees
<1>2. TypeInv => TypeOK BY DEF TypeInv
<1> QED
  BY <1>1, <1>2, LogInit, LogStep, RowsInit, RowsStep, BackfillInit, BackfillStep,
     KeysAreUnique, TypeCorrect, PTL DEF Spec

-----------------------------------------------------------------------------
(* One row per request, while every acknowledgement arrives.               *)

\* A request has at most one row of the live path ...
SingleBill(r) == \A i, j \in LiveRows(r) : i = j

\* ... and none while no try of it has succeeded: before its debit, and for
\* good once Charge has returned an error.
Unbilled(r) ==
  /\ phase[r] \in {"new", "served"} => LiveRows(r) = {}
  /\ phase[r] = "returned" /\ result[r].err => LiveRows(r) = {}
  /\ reqlog[r].present /\ ~reqlog[r].owner => LiveRows(r) = {}

OnceInv == lostAcks = 0 => \A r \in Requests : SingleBill(r) /\ Unbilled(r)

\* A step that is not a try of r that commits keeps r's live rows.
LEMMA OthersKeepLiveRows ==
  ASSUME TypeOK, [Next]_vars, NEW r \in Requests, ~DebitSucceeds(r), ~DebitAckLost(r)
  PROVE  LiveRows(r)' = LiveRows(r)
<1>1. CASE UNCHANGED walletVars
  BY <1>1 DEF walletVars, LiveRows, ChargeRows, RowKey
<1>2. ASSUME NEW q \in Requests, DebitSucceeds(q) \/ DebitAckLost(q)
      PROVE  LiveRows(r)' = LiveRows(r)
  <2>1. q # r /\ Trying(q) /\ DebitTx(q) BY <1>2 DEF DebitSucceeds, DebitAckLost
  <2>2. ASSUME NEW x \in 1..Bill[q].amount, LivePost(q, x)
        PROVE  LiveRows(r)' = LiveRows(r)
    <3>1. Post(BillRow(q, x, KeyOfLive(q))) /\ BillRow(q, x, KeyOfLive(q)) \in RowType
      BY <2>2, BillRowType DEF LivePost, KeyOfLive
    <3>2. BillRow(q, x, KeyOfLive(q)).ref = q BY DEF BillRow, Row
    <3> QED BY <2>1, <3>1, <3>2, LiveRowsFrame
  <2> QED BY <1>1, <2>1, <2>2, DebitPosts
<1>3. CASE phase[r] # "served" BY <1>3, LiveRowsKept
<1>4. ASSUME NEW p \in Reconcilers, NEW q \in Requests,
             SettleRow(p, q) \/ ReconcileAckLost(p, q)
      PROVE  LiveRows(r)' = LiveRows(r)
  <2>1. q \in todo[p] /\ (UNCHANGED walletVars \/ walletIdemOnce(RowReq(q)))
    BY <1>4 DEF SettleRow, ReconcileAckLost
  <2>2. ASSUME NEW x \in 1..Bill[q].amount, BackfillPost(q, x)
        PROVE  LiveRows(r)' = LiveRows(r)
    <3>1. Post(BillRow(q, x, RowKey(q))) /\ BillRow(q, x, RowKey(q)) \in RowType
      BY <2>2, BillRowType DEF BackfillPost
    <3>2. BillRow(q, x, RowKey(q)).ref = q /\ BillRow(q, x, RowKey(q)).key = RowKey(q)
      BY DEF BillRow, Row
    <3> QED BY <3>1, <3>2, LiveRowsFrame
  <2> QED BY <1>1, <2>1, <2>2, BackfillPosts
<1>5. ASSUME NEW u \in Users, NEW d \in Deposits, TopUp(u, d)
      PROVE  LiveRows(r)' = LiveRows(r)
  <2>1. TopUpPost(u, d) BY <1>5 DEF TopUp, AddBalanceTx, addWorkspaceBalanceTx, TopUpPost
  <2>2. Row(Personal[u], u, "topup", d, "order", NoKey).kind = "topup" BY DEF Row
  <2> QED BY <2>1, <2>2, TopUpRowType, LiveRowsFrame DEF TopUpPost
<1>6. \/ UNCHANGED walletVars
      \/ \E q \in Requests : DebitSucceeds(q) \/ DebitAckLost(q)
      \/ \E p \in Reconcilers, q \in Requests : SettleRow(p, q) \/ ReconcileAckLost(p, q)
      \/ \E u \in Users, d \in Deposits : TopUp(u, d)
  BY DEF Next, vars, walletVars, Serve, DebitFails, EmitLog, Crash, ReadDropped,
         ReconcileAborts, TokenGone
<1> HIDE DEF walletVars
<1> QED BY <1>1, <1>2, <1>4, <1>5, <1>6

\* Where an error, and a dropped log row, came from in the last step.
LEMMA DropOrigin ==
  ASSUME TypeOK, [Next]_vars, NEW r \in Requests
  PROVE  /\ phase'[r] = "returned" /\ result'[r].err =>
              \/ phase[r] = "returned" /\ result[r].err
              \/ phase[r] = "served"
         /\ reqlog'[r].present /\ ~reqlog'[r].owner =>
              \/ reqlog[r].present /\ ~reqlog[r].owner
              \/ phase[r] = "returned" /\ result[r].err
<1>0. /\ phase \in [Requests -> {"new", "served", "returned", "logged", "gone"}]
      /\ result \in [Requests -> [err : BOOLEAN, billed : Nat]]
      /\ reqlog \in [Requests -> [present : BOOLEAN, owner : BOOLEAN, billed : Nat]]
  BY DEF TypeOK
<1> DEFINE Goal == /\ phase'[r] = "returned" /\ result'[r].err =>
                        \/ phase[r] = "returned" /\ result[r].err
                        \/ phase[r] = "served"
                   /\ reqlog'[r].present /\ ~reqlog'[r].owner =>
                        \/ reqlog[r].present /\ ~reqlog[r].owner
                        \/ phase[r] = "returned" /\ result[r].err
<1>1. CASE UNCHANGED <<phase, result, reqlog>> BY <1>0, <1>1
<1>2. ASSUME NEW q \in Requests, Serve(q) PROVE Goal BY <1>0, <1>2 DEF Serve
<1>3. ASSUME NEW q \in Requests, DebitSucceeds(q) \/ DebitFails(q) \/ DebitAckLost(q)
      PROVE  Goal
  <2>1. UNCHANGED reqlog /\ phase[q] = "served"
    BY <1>3 DEF DebitSucceeds, DebitFails, DebitAckLost, RetryOrGiveUp, Trying
  <2>2. CASE q = r BY <1>0, <2>1, <2>2
  <2>3. CASE q # r
    <3>1. phase'[r] = phase[r] /\ result'[r] = result[r]
      BY <1>0, <1>3, <2>3 DEF DebitSucceeds, DebitFails, DebitAckLost, RetryOrGiveUp
    <3> QED BY <1>0, <2>1, <3>1
  <2> QED BY <2>2, <2>3
<1>4. ASSUME NEW q \in Requests, EmitLog(q) PROVE Goal
  <2>0. phase' = [phase EXCEPT ![q] = "logged"] /\ UNCHANGED result
    BY <1>4 DEF EmitLog
  <2>1. CASE q = r
    <3>1. phase[r] = "returned" /\ phase'[r] = "logged" BY <1>0, <1>4, <2>1 DEF EmitLog
    <3>2. reqlog'[r] = [present |-> TRUE, owner |-> ~result[r].err,
                         billed |-> result[r].billed]
      BY <1>0, <1>4, <2>1 DEF EmitLog
    <3>3. \A e, b : [present |-> TRUE, owner |-> ~e, billed |-> b].owner = ~e
      BY Zenon
    <3>4. ~reqlog'[r].owner => result[r].err BY <3>2, <3>3, Zenon
    <3> QED BY <3>1, <3>4
  <2>2. CASE q # r
    <3>1. reqlog'[r] = reqlog[r] BY <1>0, <1>4, <2>2 DEF EmitLog
    <3> QED BY <1>0, <2>0, <2>2, <3>1
  <2> QED BY <2>1, <2>2
<1>5. CASE Crash BY <1>0, <1>5 DEF Crash
<1>6. \/ UNCHANGED <<phase, result, reqlog>>
      \/ \E q \in Requests : Serve(q)
      \/ \E q \in Requests : DebitSucceeds(q) \/ DebitFails(q) \/ DebitAckLost(q)
      \/ \E q \in Requests : EmitLog(q)
      \/ Crash
  BY DEF Next, vars, ReadDropped, ReconcileAborts, SettleRow, ReconcileAckLost, TopUp,
         TokenGone
<1> HIDE DEF Goal
<1>7. Goal BY <1>1, <1>2, <1>3, <1>4, <1>5, <1>6 DEF Goal
<1> QED BY <1>7 DEF Goal

\* No acknowledgement is ever found again.
LEMMA LostAcksGrow ==
  ASSUME TypeOK, [Next]_vars, lostAcks' = 0
  PROVE  lostAcks = 0 /\ \A r \in Requests : ~DebitAckLost(r)
<1>1. lostAcks \in Nat BY DEF TypeOK
<1>2. \A r \in Requests : ~DebitAckLost(r) BY <1>1 DEF DebitAckLost
<1>3. \A p \in Reconcilers, r \in Requests : ~ReconcileAckLost(p, r)
  BY <1>1 DEF ReconcileAckLost
<1>4. UNCHANGED lostAcks
  BY <1>2, <1>3 DEF Next, vars, Serve, DebitSucceeds, DebitFails, EmitLog, Crash,
     ReadDropped, ReconcileAborts, SettleRow, TopUp, TokenGone
<1> QED BY <1>2, <1>4

\* The try that succeeds is the first that committed: it leaves one row, or
\* none, and no error.
LEMMA FirstTryBills ==
  ASSUME TypeOK, RowsShaped, IdemKeyUnique, LogInv, NEW r \in Requests,
         LiveRows(r) = {}, DebitSucceeds(r)
  PROVE  SingleBill(r)' /\ phase'[r] = "returned" /\ ~result'[r].err
<1>1. Keyed(r) => ~Claimed(LiveKey(r))
  BY LiveRowsKeyed DEF Claimed
<1>2. ~DebitConflicts(r)
  <2>1. LiveReq(r).key = LiveKey(r) BY DEF LiveReq, IdemReq
  <2> QED BY <1>1, <2>1 DEF DebitConflicts, IdemOutcome
<1>3. ASSUME NEW b, b = DebitMoves(r) PROVE Agrees(r, b)' BY <1>2, <1>3, SuccessAgrees
<1>4. SingleBill(r)'
  <2>1. ASSUME NEW b, b = DebitMoves(r) PROVE SingleBill(r)'
    BY <1>3, <2>1 DEF Agrees, SingleBill
  <2> QED BY <2>1
<1>5. phase'[r] = "returned" /\ result'[r].err = DebitConflicts(r)
  BY DEF DebitSucceeds, TypeOK
<1> QED BY <1>2, <1>4, <1>5

LEMMA OnceLiveStep ==
  TypeOK /\ RowsShaped /\ IdemKeyUnique /\ BackfillInv /\ LogInv /\ OnceInv /\ [Next]_vars
    => OnceInv'
<1> SUFFICES ASSUME TypeOK, RowsShaped, IdemKeyUnique, BackfillInv, LogInv, OnceInv,
                    [Next]_vars, lostAcks' = 0, NEW r \in Requests
             PROVE  SingleBill(r)' /\ Unbilled(r)'
  BY DEF OnceInv
<1>1. /\ SingleBill(r) /\ Unbilled(r) /\ ~DebitAckLost(r)
      /\ reqlog[r].present => phase[r] = "logged"
  BY LostAcksGrow DEF OnceInv, BackfillInv
<1>2. CASE DebitSucceeds(r)
  <2>1. phase[r] = "served" /\ UNCHANGED reqlog BY <1>2 DEF DebitSucceeds, Trying
  <2>2. SingleBill(r)' /\ phase'[r] = "returned" /\ ~result'[r].err
    BY <1>1, <1>2, <2>1, FirstTryBills DEF Unbilled
  <2>3. ~reqlog'[r].present BY <1>1, <2>1
  <2> QED BY <2>2, <2>3 DEF Unbilled
<1>3. CASE ~DebitSucceeds(r)
  <2>1. LiveRows(r)' = LiveRows(r) BY <1>1, <1>3, OthersKeepLiveRows
  <2>2. phase'[r] \in {"new", "served"} => phase[r] \in {"new", "served"}
    BY PhaseBefore DEF Origin
  <2>3. /\ phase'[r] \in {"new", "served"} => LiveRows(r)' = {}
        /\ phase'[r] = "returned" /\ result'[r].err => LiveRows(r)' = {}
        /\ reqlog'[r].present /\ ~reqlog'[r].owner => LiveRows(r)' = {}
    BY <1>1, <2>1, <2>2, DropOrigin DEF Unbilled
  <2> QED BY <1>1, <2>1, <2>3 DEF SingleBill, Unbilled
<1> QED BY <1>2, <1>3

\* A row that is not of the live path carries the row key, and a request whose
\* row key is claimed was dropped: the live path never billed it.
LEMMA OnceIsBilledOnce ==
  BackfillInv /\ IdemKeyUnique /\ OnceInv => BilledOnceUnlessAckLost
<1> SUFFICES ASSUME BackfillInv, IdemKeyUnique, OnceInv, lostAcks = 0,
                    NEW r \in Requests, NEW i \in ChargeRows(r), NEW j \in ChargeRows(r)
             PROVE  i = j
  BY DEF BilledOnceUnlessAckLost, BilledAtMostOnce
<1>1. SingleBill(r) /\ Unbilled(r) BY DEF OnceInv
<1>2. i \in DOMAIN ledger /\ j \in DOMAIN ledger BY DEF ChargeRows
<1>3. CASE i \in LiveRows(r) /\ j \in LiveRows(r) BY <1>1, <1>3 DEF SingleBill
<1>4. CASE i \notin LiveRows(r) \/ j \notin LiveRows(r)
  <2>1. Claimed(RowKey(r)) BY <1>2, <1>4 DEF LiveRows, Claimed
  <2>2. LiveRows(r) = {} BY <1>1, <2>1 DEF BackfillInv, BackfillOnlyDropped, Unbilled
  <2>3. ledger[i].key = RowKey(r) /\ ledger[j].key = RowKey(r) BY <2>2 DEF LiveRows
  <2> QED BY <1>2, <2>3, KeyType DEF IdemKeyUnique
<1> QED BY <1>3, <1>4

\* Overlapping, aborted and repeated reconcile commands bill no request twice,
\* as long as every debit that committed was also acknowledged.
THEOREM BilledOnce == Spec => []BilledOnceUnlessAckLost
<1>1. Init => OnceInv
  BY DEF Init, WalletInit, OnceInv, SingleBill, Unbilled, LiveRows, ChargeRows
<1>2. TypeInv => TypeOK BY DEF TypeInv
<1> QED
  BY <1>1, <1>2, OnceIsBilledOnce, OnceLiveStep, LogInit, LogStep, RowsInit, RowsStep,
     BackfillInit, BackfillStep, KeysAreUnique, TypeCorrect, PTL DEF Spec

-----------------------------------------------------------------------------
(* Refinement.                                                             *)

\* What is taken under a key is the amount of the one row that carries it.
LEMMA PaidOfRow ==
  ASSUME IdemKeyUnique, NEW i \in DOMAIN ledger, ledger[i].key # NoKey
  PROVE  Paid(ledger[i].key) = Magnitude(ledger[i].amount)
<1> DEFINE j == TxOf(ledger[i].key)
<1>1. Claimed(ledger[i].key) BY DEF Claimed
<1>2. j \in DOMAIN ledger /\ ledger[j].key = ledger[i].key BY <1>1 DEF Claimed, TxOf
<1>3. j = i BY <1>2 DEF IdemKeyUnique
<1> QED BY <1>1, <1>3 DEF Paid

\* A posting pays its own key, and no other.
LEMMA PaidStep ==
  ASSUME TypeOK, IdemKeyUnique, IdemKeyUnique', NEW row \in RowType, Post(row)
  PROVE  \A k \in AllKeys :
           Paid(k)' = IF k = row.key THEN Magnitude(row.amount) ELSE Paid(k)
<1> SUFFICES ASSUME NEW k \in AllKeys
             PROVE  Paid(k)' = IF k = row.key THEN Magnitude(row.amount) ELSE Paid(k)
  OBVIOUS
<1>0. ledger \in Seq(RowType) /\ k # NoKey BY ChargingAssumption DEF TypeOK
<1> DEFINE n == Len(ledger) + 1
<1>1. /\ DOMAIN ledger' = DOMAIN ledger \cup {n} /\ ledger'[n] = row
      /\ \A i \in DOMAIN ledger : ledger'[i] = ledger[i]
  <2>1. /\ Len(ledger) \in Nat /\ DOMAIN ledger = 1..Len(ledger)
        /\ DOMAIN ledger' = 1..(Len(ledger) + 1) /\ ledger'[n] = row
        /\ \A i \in DOMAIN ledger : ledger'[i] = ledger[i]
    BY <1>0, PostIndex
  <2>2. 1..(Len(ledger) + 1) = 1..Len(ledger) \cup {Len(ledger) + 1} BY <2>1
  <2> QED BY <2>1, <2>2
<1> HIDE DEF n
\* the row now under a claimed key, and what it pays
<1>2. ASSUME NEW i \in DOMAIN ledger', ledger'[i].key = k
      PROVE  Paid(k)' = Magnitude(ledger'[i].amount)
  <2> DEFINE j == TxOf(k)'
  <2>1. Claimed(k)' BY <1>2 DEF Claimed
  <2>2. j \in DOMAIN ledger' /\ ledger'[j].key = k BY <2>1 DEF Claimed, TxOf
  <2>3. j = i BY <1>0, <1>2, <2>2 DEF IdemKeyUnique
  <2> QED BY <2>1, <2>3 DEF Paid
<1>3. CASE k = row.key BY <1>1, <1>2, <1>3
<1>4. CASE k # row.key
  <2>1. CASE Claimed(k)
    <3>1. PICK i \in DOMAIN ledger : ledger[i].key = k BY <2>1 DEF Claimed
    <3>2. Paid(k) = Magnitude(ledger[i].amount) BY <1>0, <3>1, PaidOfRow
    <3> QED BY <1>1, <1>2, <1>4, <3>1, <3>2
  <2>2. CASE ~Claimed(k)
    <3>1. ~Claimed(k)' BY <1>1, <1>4, <2>2 DEF Claimed
    <3> QED BY <1>4, <2>2, <3>1 DEF Paid
  <2> QED BY <2>1, <2>2
<1> QED BY <1>3, <1>4

PaidMap == [k \in AllKeys |-> Paid(k)]

LEMMA OnceInit == Init => Once!Init
BY DEF Init, WalletInit, Once!Init, Paid, Claimed

\* A posting under a fresh key of r is ChargeOnce's Pay.
LEMMA KeyedPostPays ==
  ASSUME TypeOK, IdemKeyUnique, IdemKeyUnique', NEW r \in Requests,
         NEW x \in 1..Bill[r].amount, NEW key \in {LiveKey(r), RowKey(r)},
         ~Claimed(key), Post(BillRow(r, x, key))
  PROVE  Once!Pay(key)
<1> DEFINE row == BillRow(r, x, key)
<1>1. row \in RowType /\ key \in AllKeys /\ key[2] = r
  <2>1. row \in RowType BY BillRowType
  <2>2. key \in AllKeys BY KeyType
  <2>3. LiveKey(r)[2] = r /\ RowKey(r)[2] = r BY DEF LiveKey, RowKey
  <2> QED BY <2>1, <2>2, <2>3
<1>2. row.key = key /\ row.amount = -x BY DEF BillRow, Row
<1>3. Magnitude(-x) = x BY BillType DEF Magnitude
<1>4. \A k \in AllKeys : Paid(k)' = IF k = key THEN x ELSE Paid(k)
  <2> HIDE DEF row
  <2>1. Post(row) BY DEF row
  <2> QED BY <1>1, <1>2, <1>3, <2>1, PaidStep
<1>5. PaidMap' = [PaidMap EXCEPT ![key] = x]
  BY <1>1, <1>4 DEF PaidMap
<1>6. PaidMap[key] = 0 BY <1>1 DEF PaidMap, Paid
<1>7. [k \in AllKeys |-> Bill[k[2]].amount][key] = Bill[r].amount BY <1>1
<1> QED BY <1>5, <1>6, <1>7 DEF Once!Pay, PaidMap

LEMMA OnceStep ==
  ASSUME TypeOK, IdemKeyUnique, IdemKeyUnique', [Next]_vars
  PROVE  [Once!Next]_PaidMap
<1>1. CASE UNCHANGED walletVars
  BY <1>1 DEF walletVars, PaidMap, Paid, Claimed, TxOf
<1>2. ASSUME NEW row \in RowType, Post(row), row.key = NoKey PROVE UNCHANGED PaidMap
  BY <1>2, PaidStep, ChargingAssumption DEF PaidMap
<1>3. ASSUME NEW r \in Requests, NEW x \in 1..Bill[r].amount,
             NEW key \in {LiveKey(r), RowKey(r)},
             ~Claimed(key), Post(BillRow(r, x, key))
      PROVE  Once!Next
  <2>1. Once!Pay(key) /\ key \in AllKeys BY <1>3, KeyedPostPays, KeyType
  <2> QED BY <2>1 DEF Once!Next
<1>4. ASSUME NEW r \in Requests, NEW x \in 1..Bill[r].amount, LivePost(r, x)
      PROVE  [Once!Next]_PaidMap
  <2>1. CASE Keyed(r) BY <1>3, <1>4, <2>1 DEF LivePost
  <2>2. CASE ~Keyed(r)
    <3>1. Post(BillRow(r, x, NoKey)) /\ BillRow(r, x, NoKey).key = NoKey
      BY <1>4, <2>2 DEF LivePost, BillRow, Row
    <3> QED BY <1>2, <3>1, BillRowType
  <2> QED BY <2>1, <2>2
<1>5. ASSUME NEW r \in Requests, NEW x \in 1..Bill[r].amount, BackfillPost(r, x)
      PROVE  [Once!Next]_PaidMap
  BY <1>3, <1>5 DEF BackfillPost
<1>6. ASSUME NEW u \in Users, NEW d \in Deposits, TopUpPost(u, d)
      PROVE  [Once!Next]_PaidMap
  BY <1>2, <1>6, TopUpRowType DEF TopUpPost, Row
<1> QED BY <1>1, <1>4, <1>5, <1>6, StepPosts

\* Retries, lost acknowledgements, crashes and re-run reconciliations implement
\* ChargeOnce: under each key money moves at most once, by at most what is owed.
THEOREM ChargingImplementsChargeOnce == Spec => ImplementsChargeOnce
<1>1. TypeInv => TypeOK BY DEF TypeInv
<1>2. TypeInv /\ IdemKeyUnique /\ IdemKeyUnique' /\ [Next]_vars
        => [Once!Next]_[k \in AllKeys |-> Paid(k)]
  BY <1>1, OnceStep DEF PaidMap
<1>3. Spec => Once!Init BY OnceInit DEF Spec
<1>4. Spec => [][Once!Next]_[k \in AllKeys |-> Paid(k)]
  BY <1>2, TypeCorrect, KeysAreUnique, PTL DEF Spec
<1> QED BY <1>3, <1>4, PTL DEF ImplementsChargeOnce, Once!Spec
=============================================================================
