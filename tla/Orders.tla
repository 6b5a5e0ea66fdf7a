------------------------------ MODULE Orders ------------------------------
(***************************************************************************)
(* Top-ups: internal/saas/billing and the alipay_orders table.             *)
(*                                                                         *)
(* A customer's topup request checks a sliding rate window and a cap on    *)
(* pending orders, creates a trade at the payment gateway and inserts the  *)
(* order.  The gateway reports a paid trade until it is acknowledged; the  *)
(* notify handler (QR rails), the Stripe webhook, the status poll and the  *)
(* admin reconcile each READ the order, then act on what they read.  The   *)
(* sweeper expires and later deletes orders in between.                    *)
(***************************************************************************)
EXTENDS Wallet, FiniteSets

CONSTANTS
  OrderIds,      \* out_trade_no values
  Owner,         \* [OrderIds -> Users]
  Credit,        \* [OrderIds -> Nat \ {0}], usd_credit
  Handlers,      \* concurrent HTTP handlers that settle orders
  MaxOrdersPerWindow, \* maxOrdersPerHour
  RateWindow,    \* one hour
  MaxPending,    \* MaxPendingPerUser
  OrderTTL,      \* age after which a pending order is stale
  Retention,     \* expiredOrderRetention
  PayWindow,     \* external: the gateway accepts payment up to this age
  SettleWindow,  \* external: a Stripe payment is reported within this delay
  MaxTime,       \* bound: the clock
  MaxFailures    \* bound: settling handlers that fail or lose their answer

VARIABLES
  now,       \* the clock
  order,     \* alipay_orders: [status, created]
  topup,     \* program counter of the topup request that creates each order
  stamps,    \* Handler.createdAt: <<order, time>> per slot consumed
  trade,     \* the gateway's side: [state, at, rail]
  acked,     \* how the gateway's report was answered last
  handler,   \* what each settling handler has read: [pc, id, src, seen, settled]
  sweep,     \* the sweeper: the tick's time between its UPDATE and its DELETE
  failures   \* failed settling handlers so far

orderVars == <<now, order, topup, stamps, trade, acked, handler, sweep, failures>>
vars == <<balance, ledger, now, order, topup, stamps, trade, acked, handler, sweep, failures>>

ASSUME OrdersAssumption ==
  /\ Owner \in [OrderIds -> Users]
  /\ Credit \in [OrderIds -> Nat \ {0}]
  /\ {MaxOrdersPerWindow, RateWindow, MaxPending, OrderTTL, Retention} \subseteq Nat
  /\ {PayWindow, SettleWindow, MaxTime, MaxFailures} \subseteq Nat

NoOrder == [status |-> "none", created |-> 0]
Idle == [pc |-> "idle"]
NotSweeping == -1

Init ==
  /\ WalletInit
  /\ now = 0
  /\ order = [o \in OrderIds |-> NoOrder]
  /\ topup = [o \in OrderIds |-> "idle"]
  /\ stamps = {}
  /\ trade = [o \in OrderIds |-> [state |-> "none", at |-> 0, rail |-> "none"]]
  /\ acked = [o \in OrderIds |-> "no"]
  /\ handler = [h \in Handlers |-> Idle]
  /\ sweep = NotSweeping
  /\ failures = 0

-----------------------------------------------------------------------------
(* Creating an order.                                                      *)

\* pruneLocked: the user's slots still inside the sliding window.
Recent(u) == {s \in stamps : Owner[s[1]] = u /\ s[2] > now - RateWindow}

PendingOrders(u) == {o \in OrderIds : Owner[o] = u /\ order[o].status = "pending"}

\* allowCreate: a full window answers 429 without consuming a slot.
TopupAllowed(o) ==
  /\ topup[o] = "idle"
  /\ topup' = [topup EXCEPT ![o] =
       IF Cardinality(Recent(Owner[o])) < MaxOrdersPerWindow THEN "allowed" ELSE "refused"]
  /\ UNCHANGED <<balance, ledger, now, order, stamps, trade, acked, handler, sweep, failures>>

\* CountPendingOrders, then noteCreate: the cap is checked here and the order
\* is inserted two steps later.
TopupCounted(o) ==
  /\ topup[o] = "allowed"
  /\ IF Cardinality(PendingOrders(Owner[o])) >= MaxPending
     THEN /\ topup' = [topup EXCEPT ![o] = "refused"]
          /\ UNCHANGED stamps
     ELSE /\ topup' = [topup EXCEPT ![o] = "noted"]
          /\ stamps' = stamps \cup {<<o, now>>}
  /\ UNCHANGED <<balance, ledger, now, order, trade, acked, handler, sweep, failures>>

\* CreatePayment or CreateTopUpSession, by the method asked for, succeeds ...
OpenTrade(o, rail) ==
  /\ topup[o] = "noted"
  /\ topup' = [topup EXCEPT ![o] = "traded"]
  /\ trade' = [trade EXCEPT ![o] = [state |-> "open", at |-> now, rail |-> rail]]
  /\ UNCHANGED <<balance, ledger, now, order, stamps, acked, handler, sweep, failures>>

TopupTrade(o) == OpenTrade(o, "qr")
topupStripe(o) == OpenTrade(o, "stripe")

\* ... or the request fails: Stripe disabled, an unknown method, a gateway
\* error, or the INSERT of the order itself.
TopupFails(o) ==
  /\ topup[o] \in {"noted", "traded"}
  /\ topup' = [topup EXCEPT ![o] = "failed"]
  /\ UNCHANGED <<balance, ledger, now, order, stamps, trade, acked, handler, sweep, failures>>

\* CreateOrder; only now does the customer learn how to pay.
TopupInserted(o) ==
  /\ topup[o] = "traded"
  /\ topup' = [topup EXCEPT ![o] = "created"]
  /\ order' = [order EXCEPT ![o] = [status |-> "pending", created |-> now]]
  /\ UNCHANGED <<balance, ledger, now, stamps, trade, acked, handler, sweep, failures>>

-----------------------------------------------------------------------------
(* The gateway (external).                                                 *)

PayTrade(o) ==
  /\ topup[o] = "created"
  /\ trade[o].state = "open"
  /\ now <= trade[o].at + PayWindow
  /\ trade' = [trade EXCEPT ![o].state = "paid", ![o].at = now]
  /\ UNCHANGED <<balance, ledger, now, order, topup, stamps, acked, handler, sweep, failures>>

-----------------------------------------------------------------------------
(* Settling an order: notify, webhook, poll, reconcile.                    *)

Sources(o) == IF trade[o].rail = "qr" THEN {"notify", "reconcile"} ELSE {"webhook", "poll"}

\* Only the gateway's own deliveries have an answer the gateway acts on, and
\* it stops delivering once answered with success.
Delivered(src) == src \in {"notify", "webhook"}

\* A handler starts with what the gateway says of the trade and GetOrder.  The
\* webhook is only sent for a paid session; notify also for an open trade.
SettleRead(h, o, src) ==
  /\ handler[h] = Idle
  /\ trade[o].state # "none"
  /\ topup[o] = "created"
  /\ src \in Sources(o)
  /\ Delivered(src) => acked[o] = "no"
  /\ src = "webhook" => trade[o].state = "paid"
  /\ handler' = [handler EXCEPT ![h] =
       [pc |-> "read", id |-> o, src |-> src, seen |-> order[o],
        settled |-> trade[o].state = "paid"]]
  /\ UNCHANGED <<balance, ledger, now, order, topup, stamps, trade, acked, sweep, failures>>

Reading(h, srcs) == handler[h].pc = "read" /\ handler[h].src \in srcs

\* The handler ends; ans says how the gateway's delivery was answered.
Answer(h, ans) ==
  LET o == handler[h].id
  IN  /\ handler' = [handler EXCEPT ![h] = Idle]
      /\ acked' = IF Delivered(handler[h].src) /\ ans # "no"
                  THEN [acked EXCEPT ![o] = ans] ELSE acked

\* The age check of applyNotification.
TooOld(seen) == now - seen.created > OrderTTL

\* applyNotification's early returns: unknown and expired orders are terminal
\* and acknowledged, a paid order is success, an unsettled trade is retried.
NotifyEarlyAnswer(h) ==
  LET seen == handler[h].seen
  IN  CASE seen.status \in {"deleted", "expired"} -> "terminal"
        [] seen.status = "paid"                   -> "success"
        [] OTHER                                  -> "no"

NotifyReturnsEarly(h) ==
  /\ Reading(h, {"notify", "reconcile"})
  /\ handler[h].seen.status # "pending" \/ ~handler[h].settled
  /\ Answer(h, NotifyEarlyAnswer(h))
  /\ UNCHANGED <<balance, ledger, now, order, topup, stamps, trade, sweep, failures>>

\* A pending order past its TTL is expired on the spot (MarkOrderExpired).
NotifyExpires(h) ==
  /\ Reading(h, {"notify", "reconcile"})
  /\ handler[h].seen.status = "pending" /\ handler[h].settled
  /\ TooOld(handler[h].seen)
  /\ LET o == handler[h].id
     IN  order' = IF order[o].status = "pending"
                  THEN [order EXCEPT ![o].status = "expired"] ELSE order
  /\ Answer(h, "terminal")
  /\ UNCHANGED <<balance, ledger, now, topup, stamps, trade, sweep, failures>>

\* The age check passed; the credit transaction is a later step.
NotifyChecks(h) ==
  /\ Reading(h, {"notify", "reconcile"})
  /\ handler[h].seen.status = "pending" /\ handler[h].settled
  /\ ~TooOld(handler[h].seen)
  /\ handler' = [handler EXCEPT ![h].pc = "credit"]
  /\ UNCHANGED <<balance, ledger, now, order, topup, stamps, trade, acked, sweep, failures>>

\* Mutant: the UPDATE has no status guard.
CreditAlways(o, from) ==
  /\ order' = [order EXCEPT ![o].status = "paid"]
  /\ AddBalanceTx(Owner[o], "topup", Credit[o], o, TRUE)

\* Mark paid and credit the owner's personal wallet, in one transaction, if
\* the order's status is still one of from; otherwise ErrOrderNotPending, which
\* every caller answers as success.
CreditIf(o, from) ==
  IF order[o].status \in from
  THEN /\ order' = [order EXCEPT ![o].status = "paid"]
       /\ AddBalanceTx(Owner[o], "topup", Credit[o], o, TRUE)
  ELSE UNCHANGED <<balance, ledger, order>>

\* Mutant: an expired QR order is rescued as a Stripe order is.
CreditExpiredOrder(h) ==
  /\ handler[h].pc = "credit"
  /\ CreditIf(handler[h].id, {"pending", "expired"})

CreditPaidOrder(h) ==
  /\ handler[h].pc = "credit"
  /\ CreditIf(handler[h].id, {"pending"})

\* The webhook and the poll: nothing to do for an order seen missing or paid,
\* for a session not paid yet, or (poll only) for one no longer pending.
StripeSkips(h) ==
  LET seen == handler[h].seen
  IN  \/ seen.status \in {"deleted", "paid"}
      \/ ~handler[h].settled
      \/ handler[h].src = "poll" /\ seen.status # "pending"

StripeReturnsEarly(h) ==
  /\ Reading(h, {"webhook", "poll"})
  /\ StripeSkips(h)
  /\ Answer(h, "success")
  /\ UNCHANGED <<balance, ledger, now, order, topup, stamps, trade, sweep, failures>>

\* Mutant: no rescue.
CreditPendingStripe(h) ==
  /\ Reading(h, {"webhook", "poll"})
  /\ ~StripeSkips(h)
  /\ CreditIf(handler[h].id, {"pending"})

\* CreditStripeOrder rescues an order the sweeper has already expired.
CreditStripeOrder(h) ==
  /\ Reading(h, {"webhook", "poll"})
  /\ ~StripeSkips(h)
  /\ CreditIf(handler[h].id, {"pending", "expired"})

SettleCommits(h) ==
  /\ CreditPaidOrder(h) \/ CreditStripeOrder(h)
  /\ Answer(h, "success")
  /\ UNCHANGED <<now, topup, stamps, trade, sweep, failures>>

\* The credit committed, and the answer to the gateway was lost: it delivers
\* again.
AnswerLost(h) ==
  /\ failures < MaxFailures
  /\ failures' = failures + 1
  /\ CreditPaidOrder(h) \/ CreditStripeOrder(h)
  /\ handler' = [handler EXCEPT ![h] = Idle]
  /\ UNCHANGED <<now, topup, stamps, trade, acked, sweep>>

\* A database error, a failed session retrieval, or the server dying before it
\* answers: nothing is acknowledged and the gateway delivers again.
SettleFails(h) ==
  /\ handler[h] # Idle
  /\ failures < MaxFailures
  /\ failures' = failures + 1
  /\ handler' = [handler EXCEPT ![h] = Idle]
  /\ UNCHANGED <<balance, ledger, now, order, topup, stamps, trade, acked, sweep>>

-----------------------------------------------------------------------------
(* RunExpirySweeper: one tick is an UPDATE and then a DELETE.              *)

Older(o, t, age) == order[o].created < t - age

SweepExpire ==
  /\ sweep = NotSweeping
  /\ \E o \in OrderIds : order[o].status \in {"pending", "expired"}
  /\ order' = [o \in OrderIds |->
       IF order[o].status = "pending" /\ Older(o, now, OrderTTL)
       THEN [order[o] EXCEPT !.status = "expired"] ELSE order[o]]
  /\ sweep' = now
  /\ UNCHANGED <<balance, ledger, now, topup, stamps, trade, acked, handler, failures>>

SweepDelete ==
  /\ sweep # NotSweeping
  /\ order' = [o \in OrderIds |->
       IF order[o].status = "expired" /\ Older(o, sweep, Retention)
       THEN [order[o] EXCEPT !.status = "deleted"] ELSE order[o]]
  /\ sweep' = NotSweeping
  /\ UNCHANGED <<balance, ledger, now, topup, stamps, trade, acked, handler, failures>>

\* A paid Stripe session that has not been credited yet.
Unsettled(o) == trade[o].rail = "stripe" /\ trade[o].state = "paid" /\ order[o].status # "paid"

\* Time passes; Stripe and the server settle a paid session within SettleWindow.
Tick ==
  /\ now < MaxTime
  /\ \A o \in OrderIds : Unsettled(o) => now < trade[o].at + SettleWindow
  /\ now' = now + 1
  /\ UNCHANGED <<balance, ledger, order, topup, stamps, trade, acked, handler, sweep, failures>>

Create(o) ==
  TopupAllowed(o) \/ TopupCounted(o) \/ TopupTrade(o) \/ topupStripe(o) \/ TopupFails(o) \/ TopupInserted(o)

Settle(h) ==
  \/ NotifyReturnsEarly(h) \/ NotifyExpires(h) \/ NotifyChecks(h)
  \/ StripeReturnsEarly(h) \/ SettleCommits(h)

Next ==
  \/ \E o \in OrderIds : Create(o) \/ PayTrade(o)
  \/ \E h \in Handlers, o \in OrderIds :
       \E src \in {"notify", "reconcile", "webhook", "poll"} : SettleRead(h, o, src)
  \/ \E h \in Handlers : Settle(h) \/ SettleFails(h) \/ AnswerLost(h)
  \/ SweepExpire \/ SweepDelete
  \/ Tick

\* A handler that has started runs to its end.  Stripe delivers a webhook
\* again until it is answered with success, and the server never runs out of
\* handlers (the model does, hence strong fairness on the delivery).
Fairness ==
  /\ \A h \in Handlers : WF_vars(Settle(h))
  /\ \A o \in OrderIds : SF_vars(\E h \in Handlers : SettleRead(h, o, "webhook"))

Spec == Init /\ [][Next]_vars /\ Fairness

-----------------------------------------------------------------------------
(* Properties.                                                             *)

OrderStatus == {"none", "pending", "paid", "expired", "deleted"}
OrderRow == [status : OrderStatus, created : Nat]

TypeOK ==
  /\ balance \in [Workspaces -> Int]
  /\ ledger \in Seq([ws : Workspaces, user : Users, kind : {"topup"}, amount : Int,
                     ref : OrderIds, key : {NoKey}])
  /\ now \in Nat
  /\ order \in [OrderIds -> OrderRow]
  /\ topup \in [OrderIds -> {"idle", "allowed", "refused", "noted", "traded",
                             "failed", "created"}]
  /\ stamps \subseteq OrderIds \X Nat
  /\ trade \in [OrderIds -> [state : {"none", "open", "paid"}, at : Nat,
                          rail : {"none", "qr", "stripe"}]]
  /\ acked \in [OrderIds -> {"no", "success", "terminal"}]
  /\ handler \in [Handlers -> {Idle} \cup
       [pc : {"read", "credit"}, id : OrderIds, seen : OrderRow, settled : BOOLEAN,
        src : {"notify", "reconcile", "webhook", "poll"}]]
  /\ sweep \in Nat \cup {NotSweeping}
  /\ failures \in Nat

CreditRows(o) == {i \in DOMAIN ledger : ledger[i].ref = o}

\* An order is paid exactly when its credit is on its owner's wallet, once and
\* in full, and only if the gateway has the money: no interleaving of duplicate
\* notifications, polls, reconciliations and the sweeper credits an order
\* twice, credits it unpaid, or takes "paid" back.
PaidIffCredited ==
  \A o \in OrderIds :
    IF order[o].status = "paid"
    THEN /\ trade[o].state = "paid"
         /\ \E i \in DOMAIN ledger :
              /\ CreditRows(o) = {i}
              /\ ledger[i].amount = Credit[o]
              /\ ledger[i].ws = Personal[Owner[o]]
    ELSE CreditRows(o) = {}

\* A QR order that has expired is never credited afterwards, not even by a
\* handler that read it while it was pending (RunExpirySweeper: "so late
\* notifications and reconciliation calls can't credit them").
ExpiredQrStaysUncredited ==
  [][\A o \in OrderIds : trade[o].rail = "qr" /\ order[o].status \in {"expired", "deleted"}
                         => order'[o].status # "paid"]_vars

\* The retention is long enough that the sweeper never deletes the row of a
\* Stripe session that was paid (DeleteExpiredOrdersBefore: "can never lose
\* its row").
StripeRowKept ==
  \A o \in OrderIds :
    trade[o].rail = "stripe" /\ trade[o].state = "paid" => order[o].status # "deleted"

\* The three together: the money of an order, whichever rail and handler.
OrdersHold == TypeOK /\ PaidIffCredited /\ StripeRowKept

\* A paid Stripe session is credited in the end, also when the order expired
\* first, handlers failed or answers were lost.
StripePaymentCredited ==
  \A o \in OrderIds :
    trade[o].rail = "stripe" /\ trade[o].state = "paid" ~> order[o].status = "paid"

\* A QR notification answered with success belongs to a credited order: the
\* code takes ErrOrderNotPending to mean "A concurrent webhook already credited
\* this order" (billing/handlers.go:514).
SuccessMeansCredited ==
  \A o \in OrderIds : trade[o].rail = "qr" /\ acked[o] = "success" => order[o].status = "paid"

\* For TLC: every order is one user's and worth two units.
OneWallet == [u \in Users |-> CHOOSE w \in Workspaces : TRUE]
OneOwner == [o \in OrderIds |-> CHOOSE u \in Users : TRUE]
TwoUnits == [o \in OrderIds |-> 2]
=============================================================================
