---------------------------- MODULE ServiceApi ----------------------------
(***************************************************************************)
(* The service-to-service wallet API (internal/saas/adapter/service.go):   *)
(* a sibling product charges a customer's wallet over HTTP and may refund  *)
(* what it charged.  It cannot tell a failed call from a lost answer, so   *)
(* it sends a call again, possibly while the first one is still running:   *)
(* a handler's work is detached from its caller's socket (svcCtx).         *)
(***************************************************************************)
EXTENDS Wallet, FiniteSets

CONSTANTS
  Calls,        \* charge and refund requests; a retry is the same call again
  Call,         \* [Calls -> [op, key, user, ws, amount, of]]
  Keys,         \* idempotency keys
  Members,      \* workspace_members, initially
  MaxOverdraft, \* the adapter's floor
  Handlers,     \* concurrent handlers
  Deposit,      \* what each personal wallet may be topped up by, once
  MaxSends,     \* bound: times each call is sent: [Calls -> Nat]
  MaxFailures   \* bound: handlers that fail or lose their answer

VARIABLES
  member,    \* workspace_members: <<workspace, user>>
  handler,   \* what each handler has established: [pc, call, tx]
  sends,     \* times each call has been sent
  answers,   \* answers the caller has received, per call
  failures,
  raced      \* history: charges two of whose refunds were in flight at once

vars == <<balance, ledger, member, handler, sends, answers, failures, raced>>

NoCall == "none"    \* of, for a charge

ASSUME ServiceAssumption ==
  /\ NoKey \notin Keys /\ NoCall \notin Calls
  /\ Call \in [Calls -> [op : {"charge", "refund"}, key : Keys, user : Users,
                         ws : Workspaces, amount : Nat \ {0}, of : Calls \cup {NoCall}]]
  /\ \A c \in Calls : Call[c].op = "refund" => Call[c].of # NoCall
  /\ Members \subseteq Workspaces \X Users
  /\ MaxOverdraft \in Nat /\ Deposit \in Nat
  /\ MaxSends \in [Calls -> Nat] /\ MaxFailures \in Nat

Idle == [pc |-> "idle"]

Init ==
  /\ WalletInit
  /\ member = Members
  /\ handler = [h \in Handlers |-> Idle]
  /\ sends = [c \in Calls |-> 0]
  /\ answers = [c \in Calls |-> {}]
  /\ failures = 0
  /\ raced = {}

-----------------------------------------------------------------------------
(* The caller.                                                             *)

\* The charge's wallet_tx id, as its caller learned it.
KnownTx(c) == {a.tx : a \in answers[c]} \ {0}

\* A refund names the tx_id the charge was answered with; charges name none.
Named(c) == IF Call[c].op = "refund" THEN KnownTx(Call[c].of) ELSE {0}

Send(h, c) ==
  /\ handler[h] = Idle
  /\ sends[c] < MaxSends[c]
  /\ sends' = [sends EXCEPT ![c] = @ + 1]
  /\ \E tx \in Named(c) :
       handler' = [handler EXCEPT ![h] = [pc |-> "subject", call |-> c, tx |-> tx]]
  /\ UNCHANGED <<balance, ledger, member, answers, failures, raced>>

-----------------------------------------------------------------------------
(* The handlers.                                                           *)

Serving(h, pc) == handler[h].pc = pc
Current(h) == Call[handler[h].call]

\* The handler answers its caller and ends.
Reply(h, status, moved, tx) ==
  /\ handler' = [handler EXCEPT ![h] = Idle]
  /\ answers' = [answers EXCEPT ![handler[h].call] =
                   @ \cup {[status |-> status, moved |-> moved, tx |-> tx]}]

Proceed(h, pc) ==
  /\ handler' = [handler EXCEPT ![h].pc = pc]
  /\ UNCHANGED answers

\* validSubject: the user is a member of the workspace now.
CheckSubject(h) ==
  /\ Serving(h, "subject")
  /\ IF <<Current(h).ws, Current(h).user>> \notin member
     THEN Reply(h, "subject_mismatch", 0, 0)
     ELSE Proceed(h, IF Current(h).op = "refund" THEN "row" ELSE "tx")
  /\ UNCHANGED <<balance, ledger, member, sends, failures, raced>>

RefundRef(tx) == <<"refund", tx>>
CallRef(c) == <<"call", c>>
OrderRef == <<"order", NoCall>>

\* The row a refund names must be a charge against the same workspace.
CheckRow(h) ==
  LET row == ledger[handler[h].tx]
  IN  /\ Serving(h, "row")
      /\ IF row.ws # Current(h).ws \/ row.kind # "charge"
         THEN Reply(h, "subject_mismatch", 0, 0)
         ELSE Proceed(h, "history")
      /\ UNCHANGED <<balance, ledger, member, sends, failures, raced>>

\* What has been refunded of tx under keys other than key.
RefundedBefore(tx, key) ==
  Total([i \in 1..Len(ledger) |->
           IF /\ ledger[i].kind = "refund"
              /\ ledger[i].ref = RefundRef(tx)
              /\ ledger[i].key # key
           THEN ledger[i].amount ELSE 0])

\* Mutants: earlier refunds are not counted; the call's own counts against it.
RemainderGross(tx, key) == -ledger[tx].amount
RemainderWithOwn(tx, key) == Greater(0, -ledger[tx].amount - RefundedBefore(tx, NoKey))

Remainder(tx, key) == Greater(0, -ledger[tx].amount - RefundedBefore(tx, key))

\* Another refund of tx has read the remainder and not yet used it up.
InFlight(tx, key) ==
  \E g \in Handlers :
    Serving(g, "tx") /\ handler[g].tx = tx /\ Current(g).op = "refund" /\ Current(g).key # key

\* The remainder is read here and the credit is a later transaction.
CheckRemainder(h) ==
  LET tx == handler[h].tx
      key == Current(h).key
  IN  /\ Serving(h, "history")
      /\ IF Current(h).amount > Remainder(tx, key)
         THEN Reply(h, "refund_exceeds_charge", 0, 0)
         ELSE Proceed(h, "tx")
      /\ raced' = IF InFlight(tx, key) THEN raced \cup {tx} ELSE raced
      /\ UNCHANGED <<balance, ledger, member, sends, failures>>

\* The movement a handler asks the ledger for.
ServiceReq(h) ==
  LET c == Current(h)
  IN  IdemReq(c.key, c.op, c.ws, c.user, c.amount,
              IF c.op = "refund" THEN RefundRef(handler[h].tx) ELSE CallRef(handler[h].call),
              MaxOverdraft)

\* ChargeWorkspaceIdem or CreditWorkspaceIdem, and its result as the answer.
MoveMoney(h) ==
  LET out == IdemOutcome(ServiceReq(h))
  IN  /\ Serving(h, "tx")
      /\ walletIdemOnce(ServiceReq(h))
      /\ Reply(h, out.status, out.moved, out.tx)
      /\ UNCHANGED <<member, sends, failures, raced>>

\* An error before the commit, answered or not, or the server dying.
HandlerFails(h) ==
  /\ handler[h] # Idle
  /\ failures < MaxFailures
  /\ failures' = failures + 1
  /\ handler' = [handler EXCEPT ![h] = Idle]
  /\ UNCHANGED <<balance, ledger, member, sends, answers, raced>>

\* The movement committed and the caller never hears of it.
AnswerLost(h) ==
  /\ Serving(h, "tx")
  /\ failures < MaxFailures
  /\ failures' = failures + 1
  /\ walletIdemOnce(ServiceReq(h))
  /\ handler' = [handler EXCEPT ![h] = Idle]
  /\ UNCHANGED <<member, sends, answers, raced>>

-----------------------------------------------------------------------------
(* The rest of the product.                                                *)

Deposited(u) == \E i \in DOMAIN ledger : ledger[i].kind = "topup" /\ ledger[i].user = u

TopUp(u) ==
  /\ Deposit > 0 /\ ~Deposited(u)
  /\ AddBalanceTx(u, "topup", Deposit, OrderRef, FALSE)
  /\ UNCHANGED <<member, handler, sends, answers, failures, raced>>

\* A member of somebody else's workspace is removed from it.
RemoveWorkspaceMember(w, u) ==
  /\ <<w, u>> \in member /\ w # Personal[u]
  /\ member' = member \ {<<w, u>>}
  /\ UNCHANGED <<balance, ledger, handler, sends, answers, failures, raced>>

Next ==
  \/ \E h \in Handlers, c \in Calls : Send(h, c)
  \/ \E h \in Handlers : \/ CheckSubject(h) \/ CheckRow(h) \/ CheckRemainder(h)
                         \/ MoveMoney(h) \/ HandlerFails(h) \/ AnswerLost(h)
  \/ \E u \in Users : TopUp(u)
  \/ \E w \in Workspaces, u \in Users : RemoveWorkspaceMember(w, u)

Spec == Init /\ [][Next]_vars

-----------------------------------------------------------------------------
(* Properties.                                                             *)

Statuses == {"moved", "replayed", "floor", "conflict", "subject_mismatch",
             "refund_exceeds_charge"}

RowType ==
  [ws : Workspaces, user : Users, kind : {"topup", "charge", "refund"},
   amount : Int, key : Keys \cup {NoKey},
   ref : {OrderRef} \cup ({"call"} \X Calls) \cup ({"refund"} \X Nat)]

TypeOK ==
  /\ balance \in [Workspaces -> Int]
  /\ ledger \in Seq(RowType)
  /\ member \subseteq Workspaces \X Users
  /\ handler \in [Handlers -> {Idle} \cup
       [pc : {"subject", "row", "history", "tx"}, call : Calls, tx : Nat]]
  /\ sends \in [Calls -> Nat] /\ \A c \in Calls : sends[c] <= MaxSends[c]
  /\ answers \in [Calls -> SUBSET [status : Statuses, moved : Nat, tx : Nat]]
  /\ failures \in 0..MaxFailures
  /\ raced \subseteq Nat

\* However often a call is sent, in parallel or after lost answers, every
\* answer that reports a movement describes the one ledger row of its key: the
\* same row, the amount really moved, on the wallet the call names.  The
\* answer to a retry therefore never disagrees with the answer that was lost.
AnswersMatchLedger ==
  \A c \in Calls : \A a \in answers[c] :
    a.tx # 0 =>
      /\ ledger[a.tx].key = Call[c].key
      /\ ledger[a.tx].ws = Call[c].ws
      /\ ledger[a.tx].kind = Call[c].op
      /\ Magnitude(ledger[a.tx].amount) = a.moved

\* Money refunded goes back where it came from: every refund row reverses a
\* charge row of its own wallet, which was committed before it.
RefundsReverseCharges ==
  \A i \in DOMAIN ledger :
    ledger[i].kind = "refund" =>
      \E j \in 1..(i - 1) :
        /\ ledger[i].ref = RefundRef(j)
        /\ ledger[j].kind = "charge"
        /\ ledger[j].ws = ledger[i].ws

Overdrawn(i) == RefundedBefore(i, NoKey) > -ledger[i].amount
Charges == {i \in DOMAIN ledger : ledger[i].kind = "charge"}

\* The refunds of a charge never add up to more than was collected
\* (service.go:497-505: without the sum of prior refunds, "distinct
\* idempotency keys ... each credit in full").
RefundsWithinCharge == \A i \in Charges : ~Overdrawn(i)

\* They do not as long as one refund of a charge is over before another reads
\* what remains of it: whatever is retried, lost or reordered, and whatever
\* other calls run, a charge is not given back twice.
SerialRefundsWithinCharge == \A i \in Charges \ raced : ~Overdrawn(i)

\* The three together: what the service API tells its callers and moves.
ServiceHolds ==
  TypeOK /\ AnswersMatchLedger /\ RefundsReverseCharges /\ SerialRefundsWithinCharge

CreditedUnder(key) == {i \in DOMAIN ledger : ledger[i].kind = "refund" /\ ledger[i].key = key}

\* A refund that has been credited is answered with a replay when it is sent
\* again, and not told that it exceeds the charge it has itself used up (again
\* but for charges whose refunds have raced).
RetryAnswer ==
  \A c \in Calls : \A a \in answers'[c] \ answers[c] :
    a.status = "refund_exceeds_charge" =>
      \A i \in CreditedUnder(Call[c].key) : ledger[i].ref[2] \in raced
RefundRetryReplays == [][RetryAnswer]_vars
=============================================================================
