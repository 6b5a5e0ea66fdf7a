------------------------------ MODULE Wallet ------------------------------
(***************************************************************************)
(* The money core of hypitoken: workspace balances (workspaces.balance_usd)*)
(* and the wallet_tx ledger, with every operation of internal/saas/db that *)
(* writes them.  SQLite is opened with _txlock=immediate (db.go), so each  *)
(* BeginTx ... Commit is one atomic step here.                             *)
(*                                                                         *)
(* Amounts are integers (micro-dollars); a row keeps the columns the money *)
(* logic reads.  Other components EXTEND this module and compose Post and  *)
(* the operations below with their own tables in one transaction.          *)
(***************************************************************************)
EXTENDS Integers, Sequences

CONSTANTS
  Users,        \* user ids
  Workspaces,   \* workspace ids, personal and enterprise
  Personal,     \* users.personal_workspace_id: [Users -> Workspaces]
  NoKey         \* the empty idem_key of every non-idempotent row

VARIABLES
  balance,      \* workspaces.balance_usd
  ledger        \* wallet_tx in id order: ledger[i] is the row with id i

walletVars == <<balance, ledger>>

ASSUME PersonalAssumption == Personal \in [Users -> Workspaces]

WalletInit ==
  /\ balance = [w \in Workspaces |-> 0]
  /\ ledger = << >>

-----------------------------------------------------------------------------
(* Rows and sums.                                                          *)

\* Running totals of a sequence of integers: the function f with f[0] = 0
\* and f[i] = f[i-1] + s[i].
Partial(s) == LET f[i \in 0..Len(s)] == IF i = 0 THEN 0 ELSE f[i-1] + s[i]
              IN  f

\* The sum of a sequence of integers: SQL's SUM, which counts equal rows twice.
Total(s) == Partial(s)[Len(s)]

Row(ws, user, kind, amount, ref, key) ==
  [ws |-> ws, user |-> user, kind |-> kind, amount |-> amount,
   ref |-> ref, key |-> key]

\* SELECT SUM(amount_usd) FROM wallet_tx WHERE workspace_id = w.
LedgerAmounts(l, w) == [i \in 1..Len(l) |-> IF l[i].ws = w THEN l[i].amount ELSE 0]
LedgerSum(w) == Total(LedgerAmounts(ledger, w))

\* Mutant: the failed INSERT of the ledger row is swallowed.
PostWithoutRow(row) ==
  /\ balance' = [balance EXCEPT ![row.ws] = @ + row.amount]
  /\ UNCHANGED ledger

\* UPDATE workspaces SET balance_usd and INSERT INTO wallet_tx, always together.
Post(row) ==
  /\ balance' = [balance EXCEPT ![row.ws] = @ + row.amount]
  /\ ledger' = Append(ledger, row)

-----------------------------------------------------------------------------
(* Plain balance moves: top-ups, bonuses, admin adjustments, gifts.        *)

\* The refusal addWorkspaceBalanceTx makes: ErrInsufficientBalance.
Affordable(ws, delta, allowNegative) == allowNegative \/ balance[ws] + delta >= 0

addWorkspaceBalanceTx(ws, user, kind, delta, ref, allowNegative) ==
  /\ Affordable(ws, delta, allowNegative)
  /\ Post(Row(ws, user, kind, delta, ref, NoKey))

\* Money-in for a user always lands on the user's personal workspace.
AddBalanceTx(user, kind, delta, ref, allowNegative) ==
  addWorkspaceBalanceTx(Personal[user], user, kind, delta, ref, allowNegative)

-----------------------------------------------------------------------------
(* Charges: clamped to the overdraft floor.                                *)

Lesser(a, b) == IF a <= b THEN a ELSE b
Greater(a, b) == IF a >= b THEN a ELSE b

\* Mutants: the floor is not applied; the two comparisons are swapped.
clampChargeNoFloor(bal, amount, max) == amount
clampChargeSwapped(bal, amount, max) ==
  IF max > 0 THEN Greater(0, Greater(amount, bal + max)) ELSE amount

\* How much of amount may be taken from a wallet at bal; max <= 0 means no floor.
clampCharge(bal, amount, max) ==
  IF max > 0 THEN Greater(0, Lesser(amount, bal + max)) ELSE amount

\* The single-shot debit: no key, and no row when the clamp leaves nothing.
ChargeWorkspaceWithFloor(ws, user, amount, ref, max) ==
  LET charged == IF amount <= 0 THEN 0 ELSE clampCharge(balance[ws], amount, max)
  IN  IF charged = 0
      THEN UNCHANGED walletVars
      ELSE Post(Row(ws, user, "charge", -charged, ref, NoKey))

-----------------------------------------------------------------------------
(* Idempotent movements (wallet_idem.go): one row per key.                 *)

IdemReq(key, kind, ws, user, amount, ref, max) ==
  [key |-> key, kind |-> kind, ws |-> ws, user |-> user,
   amount |-> amount, ref |-> ref, max |-> max]

Claimed(key) == \E i \in DOMAIN ledger : ledger[i].key = key
TxOf(key) == CHOOSE i \in DOMAIN ledger : ledger[i].key = key

\* A replay must describe the same movement; anything else is ErrIdemConflict.
\* (The amount and the ref are not compared.)
SameMovement(row, req) == row.kind = req.kind /\ row.ws = req.ws /\ row.user = req.user

Magnitude(x) == IF x < 0 THEN -x ELSE x

\* The settled movement of a key, as its replay reports it.
findIdemRow(req) ==
  LET i == TxOf(req.key)
  IN  IF SameMovement(ledger[i], req)
      THEN [status |-> "replayed", moved |-> Magnitude(ledger[i].amount), tx |-> i]
      ELSE [status |-> "conflict", moved |-> 0, tx |-> 0]

\* What an unclaimed request would move now.
Movable(req) ==
  IF req.kind = "charge" THEN clampCharge(balance[req.ws], req.amount, req.max)
                         ELSE req.amount

\* Mutant: the key is not looked up before the movement.
IdemOutcomeNoLookup(req) ==
  IF Movable(req) = 0 THEN [status |-> "floor", moved |-> 0, tx |-> 0]
  ELSE [status |-> "moved", moved |-> Movable(req), tx |-> Len(ledger) + 1]

\* The result a caller of walletIdem gets when the transaction runs now.
IdemOutcome(req) ==
  IF Claimed(req.key) THEN findIdemRow(req)
  ELSE IF Movable(req) = 0 THEN [status |-> "floor", moved |-> 0, tx |-> 0]
  ELSE [status |-> "moved", moved |-> Movable(req), tx |-> Len(ledger) + 1]

\* walletIdemOnce: a claimed key replays or conflicts and moves nothing; a
\* charge clamped to nothing leaves its key unclaimed.
walletIdemOnce(req) ==
  IF IdemOutcome(req).status = "moved"
  THEN Post(Row(req.ws, req.user, req.kind,
                IF req.kind = "charge" THEN -Movable(req) ELSE Movable(req),
                req.ref, req.key))
  ELSE UNCHANGED walletVars

-----------------------------------------------------------------------------
(* Properties every component that moves money inherits.                   *)

\* A wallet's balance is the sum of its ledger rows, whatever interleaving of
\* top-ups, charges, refunds, gifts and adjustments produced them: no code path
\* writes balance_usd without a wallet_tx row of the same amount.
BalanceIsLedgerSum == \A w \in Workspaces : balance[w] = LedgerSum(w)

\* idem_key is unique: no retry, replay or concurrent call records a second
\* movement under a key that already has one.
IdemKeyUnique ==
  \A i, j \in DOMAIN ledger :
    ledger[i].key # NoKey /\ ledger[i].key = ledger[j].key => i = j
=============================================================================
