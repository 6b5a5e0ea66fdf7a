-------------------------------- MODULE Shop --------------------------------
(***************************************************************************)
(* The card shop: its products and pool of card secrets, the orders buyers *)
(* place and pay at Stripe, their settlement by webhook and by polling,    *)
(* the delivery emails sent in the background, the operator's corrections  *)
(* and the shutdown that waits for the emails.                             *)
(*                                                                         *)
(* A database transaction is one step.  A handler that reads an order and  *)
(* settles it afterwards takes two, so webhooks, polls and the expiry      *)
(* sweeper interleave between them.                                        *)
(***************************************************************************)
EXTENDS Naturals, FiniteSets

CONSTANTS
  Products, Cards, Orders,
  Handlers,      \* webhook and poll requests in progress
  MaxMails       \* bound: delivery emails in progress that an operator adds to

VARIABLES
  product,   \* shop_products: [exists, active, delivery, stock]
  card,      \* shop_card_secrets: [of, consumed, by]; without a row `of` is NoProduct
  order,     \* shop_orders: [status, of, text, sent]; status "none" without a row
  buying,    \* the product an order's form was read against, before it is inserted
  stripe,    \* the checkout session: "none", "open" or "paid"
  handler,   \* the order a handler read as settleable with a paid session, or NoOrder
  mail,      \* delivery goroutines: set of [order, text, stage]
  inbox,     \* the texts emailed to the buyer of an order
  server     \* "up", "draining", "closed"

vars == <<product, card, order, buying, stripe, handler, mail, inbox, server>>

NoProduct == "no product"
NoOrder == "no order"
\* What an order delivers: a card, the product's template, the operator's words.
NoCards == {"nothing", "template", "manual"}
Texts == Cards \cup NoCards

ASSUME ShopAssumption ==
  /\ NoProduct \notin Products /\ NoOrder \notin Orders
  /\ IsFiniteSet(Cards) /\ Cards \cap NoCards = {}

NoCard == [of |-> NoProduct, consumed |-> FALSE, by |-> NoOrder]
Unplaced == [status |-> "none", of |-> NoProduct, text |-> "nothing", sent |-> FALSE]

Init ==
  /\ product = [p \in Products |-> [exists |-> TRUE, active |-> TRUE, delivery |-> "card", stock |-> 0]]
  /\ card = [c \in Cards |-> NoCard]
  /\ order = [o \in Orders |-> Unplaced]
  /\ buying = [o \in Orders |-> NoProduct]
  /\ stripe = [o \in Orders |-> "none"]
  /\ handler = [h \in Handlers |-> NoOrder]
  /\ mail = {}
  /\ inbox = [o \in Orders |-> {}]
  /\ server = "up"

serving == server = "up"
settleable(status) == status \in {"pending", "expired"}
Pool(p) == {c \in Cards : card[c].of = p /\ ~card[c].consumed}

-----------------------------------------------------------------------------
(* The catalogue.                                                          *)

\* UpdateProduct: everything but the stock.
UpdateProduct(p, active, delivery) ==
  /\ serving /\ product[p].exists
  /\ product' = [product EXCEPT ![p].active = active, ![p].delivery = delivery]
  /\ UNCHANGED <<card, order, buying, stripe, handler, mail, inbox, server>>

\* DeleteProduct: its card secrets go with it, sold ones too.
DeleteProduct(p) ==
  /\ serving /\ product[p].exists
  /\ product' = [product EXCEPT ![p].exists = FALSE]
  /\ card' = [c \in Cards |-> IF card[c].of = p THEN [card[c] EXCEPT !.of = NoProduct] ELSE card[c]]
  /\ UNCHANGED <<order, buying, stripe, handler, mail, inbox, server>>

\* AppendCardSecrets: the row and the stock in one transaction.
AppendCardSecrets(p, c) ==
  /\ serving /\ product[p].exists
  /\ card[c] = NoCard   \* a secret never sold
  /\ card' = [card EXCEPT ![c] = [of |-> p, consumed |-> FALSE, by |-> NoOrder]]
  /\ product' = [product EXCEPT ![p].stock = @ + 1]
  /\ UNCHANGED <<order, buying, stripe, handler, mail, inbox, server>>

\* DeleteUnconsumedSecret: refused for a card that was sold.
DeleteUnconsumedSecret(c) ==
  /\ serving
  /\ card[c].of # NoProduct /\ ~card[c].consumed
  /\ card' = [card EXCEPT ![c] = NoCard]
  /\ product' = [product EXCEPT ![card[c].of].stock = IF @ = 0 THEN 0 ELSE @ - 1]
  /\ UNCHANGED <<order, buying, stripe, handler, mail, inbox, server>>

-----------------------------------------------------------------------------
(* Buying.                                                                 *)

\* handleCreateOrder, first half: the product is active and has stock, which
\* nothing reserves; then a checkout session is created.
StartOrder(o, p) ==
  /\ serving
  /\ order[o] = Unplaced /\ buying[o] = NoProduct
  /\ product[p].exists /\ product[p].active
  /\ product[p].delivery = "card" => product[p].stock > 0
  /\ buying' = [buying EXCEPT ![o] = p]
  /\ UNCHANGED <<product, card, order, stripe, handler, mail, inbox, server>>

\* Second half: the pending row, and the buyer is sent to the session.
PlaceOrder(o) ==
  /\ serving
  /\ buying[o] # NoProduct
  /\ order' = [order EXCEPT ![o] = [status |-> "pending", of |-> buying[o], text |-> "nothing", sent |-> FALSE]]
  /\ stripe' = [stripe EXCEPT ![o] = "open"]
  /\ buying' = [buying EXCEPT ![o] = NoProduct]
  /\ UNCHANGED <<product, card, handler, mail, inbox, server>>

\* The buyer pays at Stripe, whenever.
Pay(o) ==
  /\ stripe[o] = "open"
  /\ stripe' = [stripe EXCEPT ![o] = "paid"]
  /\ UNCHANGED <<product, card, order, buying, handler, mail, inbox, server>>

\* ExpirePendingBefore: the sweeper, however old the order is.
Expire(o) ==
  /\ serving
  /\ order[o].status = "pending"
  /\ order' = [order EXCEPT ![o].status = "expired"]
  /\ UNCHANGED <<product, card, buying, stripe, handler, mail, inbox, server>>

\* handleStripeWebhook, redelivered until it is acknowledged, and
\* maybeSettleStripeOrder on every poll: the order is read and found
\* settleable, the session is paid.  Stripe may deliver an event twice.
ReadSettleable(h, o) ==
  /\ serving
  /\ handler[h] = NoOrder
  /\ settleable(order[o].status)
  /\ stripe[o] = "paid"
  /\ handler' = [handler EXCEPT ![h] = o]
  /\ UNCHANGED <<product, card, order, buying, stripe, mail, inbox, server>>

\* MarkOrderPaidAndFulfil after its guard: a card product pops a card nobody
\* bought, or waits for the operator, as does an order whose product is gone.
\* Then goDispatchOrderEmail.
FulfilOrder(h, o) ==
  LET p == order[o].of
      delivery == IF product[p].exists THEN product[p].delivery ELSE "await"
      free == IF delivery = "card" THEN Pool(p) ELSE {}
      other == IF delivery = "auto" THEN "template" ELSE "nothing"
  IN /\ \E text \in IF free # {} THEN free ELSE {other} :
          /\ order' = [order EXCEPT ![o].status = IF text = "nothing" THEN "await_manual" ELSE "paid",
                                    ![o].text = text]
          /\ card' = [c \in Cards |-> IF c = text THEN [card[c] EXCEPT !.consumed = TRUE, !.by = o]
                                      ELSE card[c]]
          /\ product' = [product EXCEPT ![p].stock = IF text \in Cards /\ @ > 0 THEN @ - 1 ELSE @]
          /\ mail' = mail \cup {[order |-> o, text |-> text, stage |-> "sending"]}
     /\ handler' = [handler EXCEPT ![h] = NoOrder]
     /\ UNCHANGED <<buying, stripe, inbox, server>>

\* Mutant: the status is not read again inside the transaction.
MarkUnlocked(h, o) == serving /\ FulfilOrder(h, o)

\* MarkOrderPaidAndFulfil: one transaction from lockPendingOrder to the order's
\* row.
MarkOrderPaidAndFulfil(h, o) ==
  /\ serving
  /\ settleable(order[o].status)
  /\ FulfilOrder(h, o)

\* applyStripeSession: the transaction, a race lost to another handler, or a
\* database error, which the webhook answers with 500 for Stripe to come back.
Settle(h) ==
  LET o == handler[h] IN
  /\ o # NoOrder
  /\ \/ MarkOrderPaidAndFulfil(h, o)
     \/ /\ serving
        /\ handler' = [handler EXCEPT ![h] = NoOrder]
        /\ UNCHANGED <<product, card, order, buying, stripe, mail, inbox, server>>

-----------------------------------------------------------------------------
(* Delivery.                                                               *)

\* dispatchOrderEmail: the mail leaves with the text the order had when the
\* goroutine started, or fails.
SendMail(m) ==
  /\ server # "closed"
  /\ m.stage = "sending"
  /\ \/ /\ mail' = (mail \ {m}) \cup {[m EXCEPT !.stage = "marking"]}
        /\ inbox' = [inbox EXCEPT ![m.order] = @ \cup {m.text}]
     \/ /\ mail' = mail \ {m}
        /\ UNCHANGED inbox
  /\ UNCHANGED <<product, card, order, buying, stripe, handler, server>>

\* MarkEmailSent.
MarkEmailSent(m) ==
  /\ server # "closed"
  /\ m.stage = "marking"
  /\ mail' = mail \ {m}
  /\ order' = [order EXCEPT ![m.order].sent = TRUE]
  /\ UNCHANGED <<product, card, buying, stripe, handler, inbox, server>>

\* handleAdminResendEmail.
ResendEmail(o) ==
  /\ serving
  /\ order[o].status \in {"paid", "await_manual"}
  /\ Cardinality(mail) < MaxMails
  /\ mail' = mail \cup {[order |-> o, text |-> order[o].text, stage |-> "sending"]}
  /\ UNCHANGED <<product, card, order, buying, stripe, handler, inbox, server>>

\* SetFulfillment: the operator's words replace the text, with or without a mail.
SetFulfillment(o, notify) ==
  /\ serving
  /\ order[o].status \in {"paid", "await_manual"}
  /\ notify => Cardinality(mail) < MaxMails
  /\ order' = [order EXCEPT ![o].status = "paid", ![o].text = "manual"]
  /\ mail' = IF notify THEN mail \cup {[order |-> o, text |-> "manual", stage |-> "sending"]} ELSE mail
  /\ UNCHANGED <<product, card, buying, stripe, handler, inbox, server>>

\* Shutdown stops the handlers, then WaitDeliveries waits for the emails.
Drain ==
  /\ serving
  /\ \A h \in Handlers : handler[h] = NoOrder
  /\ \A o \in Orders : buying[o] = NoProduct
  /\ server' = "draining"
  /\ UNCHANGED <<product, card, order, buying, stripe, handler, mail, inbox>>

\* The database closes when every delivery is done, or when the wait runs out.
Close ==
  /\ server = "draining"
  /\ server' = "closed"
  /\ UNCHANGED <<product, card, order, buying, stripe, handler, mail, inbox>>

\* A closed server, or one that crashes in the middle of anything, starts again;
\* goroutines and requests are lost.
Restart ==
  /\ server' = "up"
  /\ mail' = {}
  /\ handler' = [h \in Handlers |-> NoOrder]
  /\ buying' = [o \in Orders |-> NoProduct]
  /\ UNCHANGED <<product, card, order, stripe, inbox>>

Next ==
  \/ \E p \in Products, a \in BOOLEAN, d \in {"auto", "card"} : UpdateProduct(p, a, d)
  \/ \E p \in Products : DeleteProduct(p)
  \/ \E p \in Products, c \in Cards : AppendCardSecrets(p, c)
  \/ \E c \in Cards : DeleteUnconsumedSecret(c)
  \/ \E o \in Orders, p \in Products : StartOrder(o, p)
  \/ \E o \in Orders : PlaceOrder(o) \/ Pay(o) \/ Expire(o) \/ ResendEmail(o)
  \/ \E h \in Handlers, o \in Orders : ReadSettleable(h, o)
  \/ \E h \in Handlers : Settle(h)
  \/ \E m \in mail : SendMail(m) \/ MarkEmailSent(m)
  \/ \E o \in Orders, notify \in BOOLEAN : SetFulfillment(o, notify)
  \/ Drain \/ Close \/ Restart

Spec == Init /\ [][Next]_vars

-----------------------------------------------------------------------------
TypeOK ==
  /\ product \in [Products -> [exists : BOOLEAN, active : BOOLEAN, delivery : {"auto", "card"},
                              stock : 0..Cardinality(Cards)]]
  /\ card \in [Cards -> [of : Products \cup {NoProduct}, consumed : BOOLEAN,
                         by : Orders \cup {NoOrder}]]
  /\ order \in [Orders -> [status : {"none", "pending", "expired", "paid", "await_manual"},
                           of : Products \cup {NoProduct}, text : Texts, sent : BOOLEAN]]
  /\ buying \in [Orders -> Products \cup {NoProduct}]
  /\ stripe \in [Orders -> {"none", "open", "paid"}]
  /\ handler \in [Handlers -> Orders \cup {NoOrder}]
  /\ mail \subseteq [order : Orders, text : Texts, stage : {"sending", "marking"}]
  /\ inbox \in [Orders -> SUBSET Texts]
  /\ server \in {"up", "draining", "closed"}

\* However many buyers passed the stock check together, and however webhooks
\* and polls race, a card is in the hands of one buyer: the order it is marked
\* for, the only one it is the text of and the only one it was ever mailed to.
CardsSoldOnce ==
  /\ \A c \in Cards : Cardinality({o \in Orders : c \in inbox[o] \cup {order[o].text}}) <= 1
  /\ \A o \in Orders : Cardinality({c \in Cards : card[c].consumed /\ card[c].by = o}) <= 1
  /\ \A c \in Cards, o \in Orders :
       order[o].text = c => card[c].consumed /\ card[c].by = o

\* The stock buyers see is the pool of cards nobody bought.
StockIsPool ==
  \A p \in Products : product[p].exists => product[p].stock = Cardinality(Pool(p))

\* Nothing leaves unpaid: orders are settled, and mails sent, for paid sessions.
DeliveredIsPaid ==
  \A o \in Orders :
    order[o].status \in {"paid", "await_manual"} \/ inbox[o] # {} => stripe[o] = "paid"

\* The flag that tells the operator a mail left is never set before one did.
SentIsMailed == \A o \in Orders : order[o].sent => inbox[o] # {}

\* The shop sells each card once, for money, and tells the truth about both.
ShopHolds == TypeOK /\ CardsSoldOnce /\ StockIsPool /\ DeliveredIsPaid /\ SentIsMailed
=============================================================================
