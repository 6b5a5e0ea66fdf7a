----------------------------- MODULE Charging -----------------------------
(***************************************************************************)
(* The live charge path and its repair: a served request is debited by     *)
(* Adapter.Charge / debit (up to Attempts tries, each of which can fail    *)
(* before or after its commit), its outcome is written to the request log, *)
(* and `hypitoken reconcile-charges` later bills the rows the log shows as *)
(* dropped.  The server can crash at any point; several reconcile commands *)
(* can run, overlap, fail half-way and be run again.                       *)
(***************************************************************************)
EXTENDS Wallet, FiniteSets

CONSTANTS
  Requests,       \* charge slots: (request, "main" | "advisor:m" | "turn:n")
  Bill,           \* [Requests -> [user, ws, token, amount]], amount = price x multiplier
  Tokens,         \* API keys (user_tokens)
  Attempts,       \* len(chargeRetryBackoff) + 1
  MaxIdemAmount,  \* db.MaxIdemAmountUSD, the idempotent per-call ceiling
  ConfigOverdraft,  \* saas.max_overdraft_usd as configured, or Unset
  DefaultOverdraft, \* DefaultMaxOverdraftUSD
  Unset,            \* the absent (nil) configuration value
  Reconcilers,    \* invocations of the reconcile command
  Deposits,       \* amounts a top-up may add
  MaxDeposits,    \* bound: top-ups in a behaviour
  MaxLostAcks     \* bound: commits whose acknowledgement is lost

VARIABLES
  phase,      \* where each request's settlement stands
  attempt,    \* tries debit has used up
  result,     \* what Charge returned: [err, billed]
  reqlog,     \* the request log's row: [present, owner (user_id # 0), billed]
  alive,      \* tokens that still resolve
  todo,       \* rows each reconcile command has read and not yet settled
  lostAcks    \* commits whose acknowledgement was lost so far

chargeVars == <<phase, attempt, result, reqlog>>
vars == <<balance, ledger, phase, attempt, result, reqlog, alive, todo, lostAcks>>

\* The two namespaces of idempotency keys: "charge:<base>:<slot>", minted per
\* request, and "reconcile:row:<hash>", derived from the log row.
LiveKey(r) == <<"charge", r>>
RowKey(r) == <<"reconcile", r>>
AllKeys == {"charge", "reconcile"} \X Requests

\* The floor of the live path: NewAdapter's default unless configured.
MaxOverdraft == IF ConfigOverdraft = Unset THEN DefaultOverdraft ELSE ConfigOverdraft

\* The floor the reconcile command passes: 0, no floor, unless configured.
ReconcileFloor == IF ConfigOverdraft = Unset THEN 0 ELSE ConfigOverdraft

ASSUME ChargingAssumption ==
  /\ Bill \in [Requests -> [user : Users, ws : Workspaces, token : Tokens,
                            amount : Nat \ {0}]]
  /\ Attempts \in Nat \ {0}
  /\ MaxIdemAmount \in Nat
  /\ DefaultOverdraft \in Nat
  /\ ConfigOverdraft # Unset => ConfigOverdraft \in Nat
  /\ Deposits \subseteq Nat \ {0}
  /\ NoKey \notin AllKeys

NoResult == [err |-> FALSE, billed |-> 0]
NoLog == [present |-> FALSE, owner |-> FALSE, billed |-> 0]

Init ==
  /\ WalletInit
  /\ phase = [r \in Requests |-> "new"]
  /\ attempt = [r \in Requests |-> 0]
  /\ result = [r \in Requests |-> NoResult]
  /\ reqlog = [r \in Requests |-> NoLog]
  /\ alive = Tokens
  /\ todo = [p \in Reconcilers |-> {}]
  /\ lostAcks = 0

-----------------------------------------------------------------------------
(* The live debit.                                                         *)

\* A movement over the ceiling takes the single-shot, unkeyed path.
Keyed(r) == Bill[r].amount <= MaxIdemAmount

LiveReq(r) ==
  IdemReq(LiveKey(r), "charge", Bill[r].ws, Bill[r].user, Bill[r].amount, r, MaxOverdraft)

\* One try's transaction, and what it would report.
DebitTx(r) ==
  IF Keyed(r) THEN walletIdemOnce(LiveReq(r))
  ELSE ChargeWorkspaceWithFloor(Bill[r].ws, Bill[r].user, Bill[r].amount, r, MaxOverdraft)

\* Mutant: the price is reported, not what the floor let through.
DebitMovesPrice(r) == Bill[r].amount

DebitMoves(r) ==
  IF Keyed(r) THEN IdemOutcome(LiveReq(r)).moved
  ELSE clampCharge(balance[Bill[r].ws], Bill[r].amount, MaxOverdraft)

DebitConflicts(r) == Keyed(r) /\ IdemOutcome(LiveReq(r)).status = "conflict"

\* The upstream answered; the handler enters Charge.
Serve(r) ==
  /\ phase[r] = "new"
  /\ phase' = [phase EXCEPT ![r] = "served"]
  /\ UNCHANGED <<balance, ledger, attempt, result, reqlog, alive, todo, lostAcks>>

Trying(r) == phase[r] = "served"

\* Mutant: one try too many.
LastTryLate(r) == ~Keyed(r) \/ attempt[r] = Attempts

\* The loop's last try (the single-shot path has only one).
LastTry(r) == ~Keyed(r) \/ attempt[r] + 1 = Attempts

\* Charge returns the debited amount; a key conflict is a final error.
DebitSucceeds(r) ==
  /\ Trying(r)
  /\ DebitTx(r)
  /\ phase' = [phase EXCEPT ![r] = "returned"]
  /\ result' = [result EXCEPT ![r] =
       [err |-> DebitConflicts(r),
        billed |-> IF DebitConflicts(r) THEN 0 ELSE DebitMoves(r)]]
  /\ UNCHANGED <<attempt, reqlog, alive, todo, lostAcks>>

\* An error sends the loop to its next try, or out of it with the error
\* (noteChargeDrop, and the caller records billed = 0).
RetryOrGiveUp(r) ==
  /\ attempt' = [attempt EXCEPT ![r] = @ + 1]
  /\ IF LastTry(r)
     THEN /\ phase' = [phase EXCEPT ![r] = "returned"]
          /\ result' = [result EXCEPT ![r] = [err |-> TRUE, billed |-> 0]]
     ELSE UNCHANGED <<phase, result>>
  /\ UNCHANGED <<reqlog, alive, todo>>

\* SQLITE_BUSY, an I/O error: nothing was committed.
DebitFails(r) ==
  /\ Trying(r)
  /\ RetryOrGiveUp(r)
  /\ UNCHANGED <<balance, ledger, lostAcks>>

\* The transaction committed but the caller sees an error.
DebitAckLost(r) ==
  /\ Trying(r)
  /\ lostAcks < MaxLostAcks
  /\ lostAcks' = lostAcks + 1
  /\ DebitTx(r)
  /\ RetryOrGiveUp(r)

\* emitLog: user_id is set only when Charge returned no error.
EmitLog(r) ==
  /\ phase[r] = "returned"
  /\ phase' = [phase EXCEPT ![r] = "logged"]
  /\ reqlog' = [reqlog EXCEPT ![r] =
       [present |-> TRUE, owner |-> ~result[r].err, billed |-> result[r].billed]]
  /\ UNCHANGED <<balance, ledger, attempt, result, alive, todo, lostAcks>>

\* The server dies: every settlement still in memory is gone, ledger and log stay.
Crash ==
  /\ \E r \in Requests : phase[r] \in {"served", "returned"}
  /\ phase' = [r \in Requests |->
       IF phase[r] \in {"served", "returned"} THEN "gone" ELSE phase[r]]
  /\ UNCHANGED <<balance, ledger, attempt, result, reqlog, alive, todo, lostAcks>>

-----------------------------------------------------------------------------
(* reconcile-charges.                                                      *)

\* Mutant: the rows that were billed are not filtered out.
AllLoggedRows == {r \in Requests : reqlog[r].present /\ Bill[r].token \in alive}

\* readDroppedCharges + buildUnmasker: rows with a cost and no user_id, whose
\* token still resolves.
DroppedRows ==
  {r \in Requests : reqlog[r].present /\ ~reqlog[r].owner /\ Bill[r].token \in alive}

ReadDropped(p) ==
  /\ todo[p] = {}
  /\ DroppedRows # {}
  /\ todo' = [todo EXCEPT ![p] = DroppedRows]
  /\ UNCHANGED <<balance, ledger, phase, attempt, result, reqlog, alive, lostAcks>>

RowReq(r) ==
  IdemReq(RowKey(r), "charge", Bill[r].ws, Bill[r].user, Bill[r].amount, r, ReconcileFloor)

\* walletIdem refuses an amount over the ceiling, and applySettlements returns
\* at the first error: the rest of the rows wait for another invocation.
SettleRefused(r) == ~Keyed(r) \/ IdemOutcome(RowReq(r)).status = "conflict"

SettleRow(p, r) ==
  /\ r \in todo[p]
  /\ IF SettleRefused(r) THEN UNCHANGED walletVars ELSE walletIdemOnce(RowReq(r))
  /\ todo' = [todo EXCEPT ![p] = IF SettleRefused(r) THEN {} ELSE @ \ {r}]
  /\ UNCHANGED <<phase, attempt, result, reqlog, alive, lostAcks>>

\* The command stops early: killed, or an error before the commit ...
ReconcileAborts(p) ==
  /\ todo[p] # {}
  /\ todo' = [todo EXCEPT ![p] = {}]
  /\ UNCHANGED <<balance, ledger, phase, attempt, result, reqlog, alive, lostAcks>>

\* ... or an error reported after it.
ReconcileAckLost(p, r) ==
  /\ r \in todo[p]
  /\ ~SettleRefused(r)
  /\ lostAcks < MaxLostAcks
  /\ lostAcks' = lostAcks + 1
  /\ walletIdemOnce(RowReq(r))
  /\ todo' = [todo EXCEPT ![p] = {}]
  /\ UNCHANGED <<phase, attempt, result, reqlog, alive>>

-----------------------------------------------------------------------------
(* The environment.                                                        *)

TopUps == {i \in DOMAIN ledger : ledger[i].kind = "topup"}

TopUp(u, amount) ==
  /\ Cardinality(TopUps) < MaxDeposits
  /\ AddBalanceTx(u, "topup", amount, "order", FALSE)
  /\ UNCHANGED <<phase, attempt, result, reqlog, alive, todo, lostAcks>>

\* DELETE FROM user_tokens, or a rotation: the masked value no longer resolves.
\* A command that has already resolved its rows is not affected.
TokenGone(t) ==
  /\ t \in alive
  /\ alive' = alive \ {t}
  /\ UNCHANGED <<balance, ledger, phase, attempt, result, reqlog, todo, lostAcks>>

Next ==
  \/ \E r \in Requests : Serve(r)
  \/ \E r \in Requests : DebitSucceeds(r) \/ DebitFails(r) \/ DebitAckLost(r) \/ EmitLog(r)
  \/ Crash
  \/ \E p \in Reconcilers : ReadDropped(p) \/ ReconcileAborts(p)
  \/ \E p \in Reconcilers, r \in Requests : SettleRow(p, r) \/ ReconcileAckLost(p, r)
  \/ \E u \in Users, d \in Deposits : TopUp(u, d)
  \/ \E t \in Tokens : TokenGone(t)

Spec == Init /\ [][Next]_vars

-----------------------------------------------------------------------------
(* Properties.                                                             *)

RowType ==
  [ws : Workspaces, user : Users, kind : {"topup", "charge"}, amount : Int,
   ref : Requests \cup {"order"}, key : AllKeys \cup {NoKey}]

TypeOK ==
  /\ balance \in [Workspaces -> Int]
  /\ ledger \in Seq(RowType)
  /\ phase \in [Requests -> {"new", "served", "returned", "logged", "gone"}]
  /\ attempt \in [Requests -> 0..Attempts]
  /\ result \in [Requests -> [err : BOOLEAN, billed : Nat]]
  /\ reqlog \in [Requests -> [present : BOOLEAN, owner : BOOLEAN, billed : Nat]]
  /\ alive \subseteq Tokens
  /\ todo \in [Reconcilers -> SUBSET Requests]
  /\ lostAcks \in Nat

\* The charge rows of the ledger that bill request r, by the live path or not.
ChargeRows(r) == {i \in DOMAIN ledger : ledger[i].kind = "charge" /\ ledger[i].ref = r}
LiveRows(r) == {i \in ChargeRows(r) : ledger[i].key # RowKey(r)}

\* A request the log shows as billed has exactly the ledger row the log
\* claims: one debit of the logged amount, or none when the floor clamped it
\* to zero, however many tries and lost acknowledgements it took
\* (Adapter.Charge: "the log row matches the wallet ledger byte-for-byte").
LogMatchesLedger ==
  \A r \in Requests :
    reqlog[r].present /\ reqlog[r].owner =>
      IF reqlog[r].billed = 0
      THEN LiveRows(r) = {}
      ELSE \E i \in DOMAIN ledger :
             LiveRows(r) = {i} /\ ledger[i].amount = -reqlog[r].billed

\* The reconcile command only ever bills a request whose log row is a drop: a
\* request the log shows as billed is never touched by a backfill.
BackfillOnlyDropped ==
  \A r \in Requests : Claimed(RowKey(r)) => reqlog[r].present /\ ~reqlog[r].owner

\* No request is billed by two ledger rows, live and backfilled together
\* (reconcile_cmd.go: "The one thing it must not do is bill twice").
BilledAtMostOnce ==
  \A r \in Requests : \A i, j \in ChargeRows(r) : i = j

\* Overlapping, aborted and repeated reconcile commands never bill a request
\* twice, as long as every debit that committed was also acknowledged.
BilledOnceUnlessAckLost == lostAcks = 0 => BilledAtMostOnce

\* Charges, retried or backfilled, in any order, never drive a wallet below
\* the overdraft floor of the live path.
FloorHeld == MaxOverdraft > 0 => \A w \in Workspaces : balance[w] >= -MaxOverdraft

\* What has been taken under a key, and what the key was minted for.
Paid(k) == IF Claimed(k) THEN Magnitude(ledger[TxOf(k)].amount) ELSE 0
Once == INSTANCE ChargeOnce WITH
          ChargeKeys <- AllKeys,
          Owed <- [k \in AllKeys |-> Bill[k[2]].amount],
          paid <- [k \in AllKeys |-> Paid(k)]

\* Retries, lost acknowledgements, crashes and re-run reconciliations implement
\* the once-only payment of ChargeOnce.
ImplementsChargeOnce == Once!Spec
=============================================================================
