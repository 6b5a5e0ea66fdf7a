----------------------------- MODULE ShopProofs -----------------------------
(***************************************************************************)
(* Theorems about the shop and about the components of MCServer that go    *)
(* with the pool, the panels and the people who visit, for every value of  *)
(* their constants.                                                        *)
(*                                                                         *)
(* The arguments.  Shop: a card is marked for one order in the transaction *)
(* that settles it, an order is settled once, and a marked card is never   *)
(* free again; what an order delivers, and what was or will be mailed for  *)
(* it, is a card marked for it or no card at all.  Bearers: who exchanges  *)
(* holds the gate and saw the current token.  Models: what a refresh was   *)
(* served since it began it has found or has yet to ask for.  Help desk: a *)
(* hidden reply that nothing covers has been the last word since it was    *)
(* written (DeskShape).  Fan-out: a conversation has its caller's slot and *)
(* the slot's credential (Conversation).  Credentials: a file and the pool *)
(* differ only by what a job has in hand.  Health: the cycle has looked at *)
(* what it has left behind (LookedAt).  Caches: what is held or on its way *)
(* is no older than any answer (Ordered).  Arena, signups, visitors:       *)
(* counters are sizes of sets of what was counted, a row is what           *)
(* its registration did so far (OnRecord), rows and log tell the same      *)
(* history (RowMatches).                                                   *)
(*                                                                         *)
(* Every component has an inductive invariant "...Inv", with the lemmas    *)
(* that it holds at first ("...Init") and that every step keeps it         *)
(* ("...Step").  The theorems at the end put them together: a behaviour    *)
(* runs one component.                                                     *)
(***************************************************************************)
EXTENDS MCServer, SequenceTheorems, FiniteSetTheorems, TLAPS

-----------------------------------------------------------------------------
(* The inductive invariant.                                                *)

Sold(c, o) == card[c].consumed /\ card[c].by = o
Settled(o) == order[o].status \in {"paid", "await_manual"}

\* What text an order may deliver.
May(text, o) == text \in Cards => Sold(text, o)

Sales ==
  /\ \A o \in Orders : May(order[o].text, o)
  /\ \A o \in Orders : \A text \in inbox[o] : May(text, o)
  /\ \A m \in mail : May(m.text, m.order)
  /\ \A o \in Orders : \A c, d \in Cards : Sold(c, o) /\ Sold(d, o) => c = d
  /\ \A o \in Orders : ~Settled(o) => \A c \in Cards : ~Sold(c, o)

Payments ==
  /\ \A o \in Orders :
       /\ Settled(o) => stripe[o] = "paid"
       /\ buying[o] # NoProduct => order[o].status = "none"
       /\ settleable(order[o].status) => order[o].of \in Products
       /\ inbox[o] # {} => Settled(o)
       /\ order[o].sent => inbox[o] # {}
  /\ \A h \in Handlers :
       handler[h] # NoOrder => stripe[handler[h]] = "paid" /\ order[handler[h]].status # "none"
  /\ \A m \in mail : Settled(m.order) /\ (m.stage = "marking" => inbox[m.order] # {})

Stocks ==
  /\ StockIsPool
  /\ \A c \in Cards : card[c].of # NoProduct => product[card[c].of].exists

ShopInv == TypeOK /\ Sales /\ Payments /\ Stocks

-----------------------------------------------------------------------------
(* Types.                                                                  *)

ProductType == [exists : BOOLEAN, active : BOOLEAN, delivery : {"auto", "card"},
                stock : 0..Cardinality(Cards)]
CardType == [of : Products \cup {NoProduct}, consumed : BOOLEAN, by : Orders \cup {NoOrder}]
OrderType == [status : {"none", "pending", "expired", "paid", "await_manual"},
              of : Products \cup {NoProduct}, text : Texts, sent : BOOLEAN]
MailType == [order : Orders, text : Texts, stage : {"sending", "marking"}]

LEMMA Size == Cardinality(Cards) \in Nat
BY FS_CardinalityType, ShopAssumption

LEMMA PoolSize ==
  \A p : /\ IsFiniteSet(Pool(p)) /\ Cardinality(Pool(p)) \in Nat
         /\ Cardinality(Pool(p)) <= Cardinality(Cards)
<1> SUFFICES ASSUME NEW p PROVE /\ IsFiniteSet(Pool(p)) /\ Cardinality(Pool(p)) \in Nat
                                /\ Cardinality(Pool(p)) <= Cardinality(Cards)
  OBVIOUS
<1>1. Pool(p) \subseteq Cards BY DEF Pool
<1> QED BY <1>1, FS_Subset, FS_CardinalityType, ShopAssumption

LEMMA Vars ==
  ASSUME TypeOK
  PROVE  /\ product \in [Products -> ProductType] /\ card \in [Cards -> CardType]
         /\ order \in [Orders -> OrderType] /\ buying \in [Orders -> Products \cup {NoProduct}]
         /\ stripe \in [Orders -> {"none", "open", "paid"}]
         /\ handler \in [Handlers -> Orders \cup {NoOrder}]
         /\ mail \subseteq MailType /\ inbox \in [Orders -> SUBSET Texts]
         /\ server \in {"up", "draining", "closed"}
BY DEF TypeOK, ProductType, CardType, OrderType, MailType

\* A card that joins a pool makes room for itself.
LEMMA PoolRoom ==
  ASSUME TypeOK, Stocks, NEW p \in Products, product[p].exists, NEW c \in Cards, c \notin Pool(p)
  PROVE  product[p].stock + 1 \in 0..Cardinality(Cards)
<1>1. IsFiniteSet(Pool(p)) BY PoolSize
<1>2. Cardinality(Pool(p) \cup {c}) = Cardinality(Pool(p)) + 1 BY <1>1, FS_AddElement
<1>3. Pool(p) \cup {c} \subseteq Cards BY DEF Pool
<1>4. Cardinality(Pool(p) \cup {c}) <= Cardinality(Cards)
  BY <1>3, FS_Subset, ShopAssumption
<1>5. product[p].stock = Cardinality(Pool(p)) BY DEF Stocks, StockIsPool
<1>6. Cardinality(Pool(p)) \in Nat BY PoolSize
<1> QED BY <1>2, <1>4, <1>5, <1>6, Size

-----------------------------------------------------------------------------
(* The step that settles an order.                                         *)

\* With a card from the pool, with the product's template, or with nothing yet.
Fulfils(h, o, p, text) ==
  /\ p \in Products /\ o \in Orders /\ h \in Handlers
  /\ handler[h] = o /\ order[o].of = p /\ settleable(order[o].status)
  /\ text \in {"nothing", "template"} \/ (text \in Pool(p) /\ product[p].exists)
  /\ order' = [order EXCEPT ![o].status = IF text = "nothing" THEN "await_manual" ELSE "paid",
                            ![o].text = text]
  /\ card' = [c \in Cards |-> IF c = text THEN [card[c] EXCEPT !.consumed = TRUE, !.by = o]
                              ELSE card[c]]
  /\ product' = [product EXCEPT ![p].stock = IF text \in Cards /\ @ > 0 THEN @ - 1 ELSE @]
  /\ mail' = mail \cup {[order |-> o, text |-> text, stage |-> "sending"]}
  /\ handler' = [handler EXCEPT ![h] = NoOrder]
  /\ UNCHANGED <<buying, stripe, inbox, server>>

LEMMA SettleSteps ==
  ASSUME TypeOK, Payments, NEW h \in Handlers, Settle(h)
  PROVE  \/ \E o, p, text : Fulfils(h, o, p, text)
         \/ /\ handler' = [handler EXCEPT ![h] = NoOrder]
            /\ UNCHANGED <<product, card, order, buying, stripe, mail, inbox, server>>
<1> DEFINE o == handler[h]
           p == order[o].of
           delivery == IF product[p].exists THEN product[p].delivery ELSE "await"
           free == IF delivery = "card" THEN Pool(p) ELSE {}
           other == IF delivery = "auto" THEN "template" ELSE "nothing"
<1>1. o \in Orders BY Vars DEF Settle
<1>2. CASE MarkOrderPaidAndFulfil(h, o)
  <2>1. settleable(order[o].status) /\ FulfilOrder(h, o) BY <1>2 DEF MarkOrderPaidAndFulfil
  <2>2. p \in Products BY <1>1, <2>1 DEF Payments
  <2>3. PICK text \in IF free # {} THEN free ELSE {other} :
          /\ order' = [order EXCEPT ![o].status = IF text = "nothing" THEN "await_manual" ELSE "paid",
                                    ![o].text = text]
          /\ card' = [c \in Cards |-> IF c = text THEN [card[c] EXCEPT !.consumed = TRUE, !.by = o]
                                      ELSE card[c]]
          /\ product' = [product EXCEPT ![p].stock = IF text \in Cards /\ @ > 0 THEN @ - 1 ELSE @]
          /\ mail' = mail \cup {[order |-> o, text |-> text, stage |-> "sending"]}
    BY <2>1 DEF FulfilOrder
  <2>4. /\ handler' = [handler EXCEPT ![h] = NoOrder]
        /\ UNCHANGED <<buying, stripe, inbox, server>>
    BY <2>1 DEF FulfilOrder
  <2>5. text \in {"nothing", "template"} \/ (text \in Pool(p) /\ product[p].exists) BY <2>3
  <2> HIDE DEF delivery, free, other
  <2>6. Fulfils(h, o, p, text) BY <1>1, <2>1, <2>2, <2>3, <2>4, <2>5 DEF Fulfils
  <2> QED BY <2>6
<1>3. CASE /\ handler' = [handler EXCEPT ![h] = NoOrder]
           /\ UNCHANGED <<product, card, order, buying, stripe, mail, inbox, server>>
  BY <1>3
<1> QED BY <1>2, <1>3 DEF Settle

LEMMA FulfilTypes ==
  ASSUME TypeOK, Stocks, NEW h, NEW o, NEW p, NEW text, Fulfils(h, o, p, text)
  PROVE  /\ TypeOK'
         /\ text \in Texts /\ (text \in Cards => text \in Pool(p) /\ product[p].exists)
<1> USE Vars
<1>1. text \in Texts /\ (text \in Cards => text \in Pool(p) /\ product[p].exists)
  BY ShopAssumption DEF Fulfils, Texts, NoCards, Pool
<1>2. p \in Products /\ o \in Orders /\ h \in Handlers BY DEF Fulfils
<1>3. order' \in [Orders -> OrderType]
  <2>1. order[o] \in OrderType BY <1>2
  <2>2. [order[o] EXCEPT !.status = IF text = "nothing" THEN "await_manual" ELSE "paid",
                         !.text = text] \in OrderType
    BY <1>1, <2>1 DEF OrderType
  <2>3. order' = [order EXCEPT ![o] = [order[o] EXCEPT
                    !.status = IF text = "nothing" THEN "await_manual" ELSE "paid", !.text = text]]
    BY <1>2 DEF Fulfils
  <2> QED BY <1>2, <2>2, <2>3
<1>4. card' \in [Cards -> CardType]
  <2>1. \A c \in Cards : [card[c] EXCEPT !.consumed = TRUE, !.by = o] \in CardType
    <3> SUFFICES ASSUME NEW c \in Cards
                 PROVE  [card[c] EXCEPT !.consumed = TRUE, !.by = o] \in CardType
      OBVIOUS
    <3>1. card[c] \in CardType OBVIOUS
    <3> QED BY <1>2, <3>1 DEF CardType
  <2> QED BY <2>1 DEF Fulfils
<1>5. product' \in [Products -> ProductType]
  <2>1. product[p] \in ProductType BY <1>2
  <2> DEFINE n == IF text \in Cards /\ product[p].stock > 0 THEN product[p].stock - 1
                  ELSE product[p].stock
  <2>2. product' = [product EXCEPT ![p] = [product[p] EXCEPT !.stock = n]] BY <1>2 DEF Fulfils
  <2>3. n \in 0..Cardinality(Cards) BY <2>1, Size DEF ProductType
  <2> HIDE DEF n
  <2>4. [product[p] EXCEPT !.stock = n] \in ProductType BY <2>1, <2>3 DEF ProductType
  <2> QED BY <1>2, <2>2, <2>4
<1>6. mail' \subseteq MailType
  <2>1. [order |-> o, text |-> text, stage |-> "sending"] \in MailType BY <1>1, <1>2 DEF MailType
  <2> QED BY <2>1 DEF Fulfils
<1>7. /\ handler' \in [Handlers -> Orders \cup {NoOrder}]
      /\ UNCHANGED <<buying, stripe, inbox, server>>
  BY <1>2 DEF Fulfils
<1> QED BY <1>1, <1>3, <1>4, <1>5, <1>6, <1>7
        DEF TypeOK, ProductType, CardType, OrderType, MailType

LEMMA TypeStep == TypeOK /\ Payments /\ Stocks /\ [Next]_vars => TypeOK'
<1> SUFFICES ASSUME TypeOK, Payments, Stocks, [Next]_vars PROVE TypeOK' OBVIOUS
<1> USE Vars, Size, ShopAssumption
<1>0. ASSUME /\ product' \in [Products -> ProductType] /\ card' \in [Cards -> CardType]
             /\ order' \in [Orders -> OrderType] /\ buying' \in [Orders -> Products \cup {NoProduct}]
             /\ stripe' \in [Orders -> {"none", "open", "paid"}]
             /\ handler' \in [Handlers -> Orders \cup {NoOrder}]
             /\ mail' \subseteq MailType /\ inbox' \in [Orders -> SUBSET Texts]
             /\ server' \in {"up", "draining", "closed"}
      PROVE  TypeOK'
  BY <1>0 DEF TypeOK, ProductType, CardType, OrderType, MailType
<1>1. ASSUME NEW p \in Products, NEW a \in BOOLEAN, NEW d \in {"auto", "card"}, UpdateProduct(p, a, d)
      PROVE  TypeOK'
  <2>1. product[p] \in ProductType OBVIOUS
  <2>2. [product[p] EXCEPT !.active = a, !.delivery = d] \in ProductType BY <2>1 DEF ProductType
  <2>3. product' = [product EXCEPT ![p] = [product[p] EXCEPT !.active = a, !.delivery = d]]
    BY <1>1 DEF UpdateProduct
  <2> QED BY <1>0, <1>1, <2>2, <2>3 DEF UpdateProduct
<1>2. ASSUME NEW p \in Products, DeleteProduct(p) PROVE TypeOK'
  <2>1. product[p] \in ProductType OBVIOUS
  <2>2. [product[p] EXCEPT !.exists = FALSE] \in ProductType BY <2>1 DEF ProductType
  <2>3. product' = [product EXCEPT ![p] = [product[p] EXCEPT !.exists = FALSE]]
    BY <1>2 DEF DeleteProduct
  <2>4. \A c \in Cards : [card[c] EXCEPT !.of = NoProduct] \in CardType
    <3> SUFFICES ASSUME NEW c \in Cards PROVE [card[c] EXCEPT !.of = NoProduct] \in CardType
      OBVIOUS
    <3>1. card[c] \in CardType OBVIOUS
    <3> QED BY <3>1 DEF CardType
  <2>5. card' \in [Cards -> CardType] BY <1>2, <2>4 DEF DeleteProduct
  <2> QED BY <1>0, <1>2, <2>2, <2>3, <2>5 DEF DeleteProduct
<1>3. ASSUME NEW p \in Products, NEW c \in Cards, AppendCardSecrets(p, c) PROVE TypeOK'
  <2>1. product[p] \in ProductType /\ product[p].exists BY <1>3 DEF AppendCardSecrets
  <2>2. c \notin Pool(p) BY <1>3 DEF AppendCardSecrets, Pool, NoCard
  <2>3. product[p].stock + 1 \in 0..Cardinality(Cards) BY <2>1, <2>2, PoolRoom
  <2>4. [product[p] EXCEPT !.stock = product[p].stock + 1] \in ProductType
    BY <2>1, <2>3 DEF ProductType
  <2>5. product' = [product EXCEPT ![p] = [product[p] EXCEPT !.stock = product[p].stock + 1]]
    BY <1>3 DEF AppendCardSecrets
  <2>6. [of |-> p, consumed |-> FALSE, by |-> NoOrder] \in CardType BY DEF CardType
  <2> QED BY <1>0, <1>3, <2>4, <2>5, <2>6 DEF AppendCardSecrets
<1>4. ASSUME NEW c \in Cards, DeleteUnconsumedSecret(c) PROVE TypeOK'
  <2> DEFINE p == card[c].of
             n == IF product[p].stock = 0 THEN 0 ELSE product[p].stock - 1
  <2>1. card[c] \in CardType OBVIOUS
  <2>2. p \in Products /\ product[p] \in ProductType
    BY <1>4, <2>1 DEF DeleteUnconsumedSecret, CardType
  <2>3. product' = [product EXCEPT ![p] = [product[p] EXCEPT !.stock = n]]
    BY <1>4, <2>2 DEF DeleteUnconsumedSecret
  <2>4. n \in 0..Cardinality(Cards) BY <2>2 DEF ProductType
  <2>5. NoCard \in CardType BY DEF NoCard, CardType
  <2> HIDE DEF n
  <2>6. [product[p] EXCEPT !.stock = n] \in ProductType BY <2>2, <2>4 DEF ProductType
  <2> QED BY <1>0, <1>4, <2>2, <2>3, <2>5, <2>6 DEF DeleteUnconsumedSecret
<1>5. ASSUME NEW o \in Orders, NEW p \in Products, StartOrder(o, p) PROVE TypeOK'
  BY <1>0, <1>5 DEF StartOrder
<1>6. ASSUME NEW o \in Orders, PlaceOrder(o) PROVE TypeOK'
  <2>1. [status |-> "pending", of |-> buying[o], text |-> "nothing", sent |-> FALSE] \in OrderType
    BY DEF OrderType, Texts, NoCards
  <2> QED BY <1>0, <1>6, <2>1 DEF PlaceOrder
<1>7. ASSUME NEW o \in Orders, Pay(o) PROVE TypeOK' BY <1>0, <1>7 DEF Pay
<1>8. ASSUME NEW o \in Orders, Expire(o) PROVE TypeOK'
  <2>1. order[o] \in OrderType OBVIOUS
  <2>2. [order[o] EXCEPT !.status = "expired"] \in OrderType BY <2>1 DEF OrderType
  <2>3. order' = [order EXCEPT ![o] = [order[o] EXCEPT !.status = "expired"]] BY <1>8 DEF Expire
  <2> QED BY <1>0, <1>8, <2>2, <2>3 DEF Expire
<1>9. ASSUME NEW o \in Orders, ResendEmail(o) PROVE TypeOK'
  <2>1. order[o] \in OrderType OBVIOUS
  <2>2. [order |-> o, text |-> order[o].text, stage |-> "sending"] \in MailType
    BY <2>1 DEF MailType, OrderType
  <2> QED BY <1>0, <1>9, <2>2 DEF ResendEmail
<1>10. ASSUME NEW h \in Handlers, NEW o \in Orders, ReadSettleable(h, o) PROVE TypeOK'
  BY <1>0, <1>10 DEF ReadSettleable
<1>11. ASSUME NEW h \in Handlers, Settle(h) PROVE TypeOK'
  <2>1. ASSUME NEW o, NEW p, NEW text, Fulfils(h, o, p, text) PROVE TypeOK'
    BY <2>1, FulfilTypes
  <2>2. CASE /\ handler' = [handler EXCEPT ![h] = NoOrder]
             /\ UNCHANGED <<product, card, order, buying, stripe, mail, inbox, server>>
    BY <1>0, <2>2
  <2> QED BY <1>11, <2>1, <2>2, SettleSteps
<1>12. ASSUME NEW m \in mail, SendMail(m) PROVE TypeOK'
  <2>1. m \in MailType OBVIOUS
  <2>2. [m EXCEPT !.stage = "marking"] \in MailType BY <2>1 DEF MailType
  <2>3. m.order \in Orders /\ m.text \in Texts BY <2>1 DEF MailType
  <2>4. mail' \subseteq MailType /\ inbox' \in [Orders -> SUBSET Texts]
    BY <1>12, <2>2, <2>3 DEF SendMail
  <2> QED BY <1>0, <1>12, <2>4 DEF SendMail
<1>13. ASSUME NEW m \in mail, MarkEmailSent(m) PROVE TypeOK'
  <2>1. m.order \in Orders BY DEF MailType
  <2>2. order[m.order] \in OrderType BY <2>1
  <2>3. [order[m.order] EXCEPT !.sent = TRUE] \in OrderType BY <2>2 DEF OrderType
  <2>4. order' = [order EXCEPT ![m.order] = [order[m.order] EXCEPT !.sent = TRUE]]
    BY <1>13 DEF MarkEmailSent
  <2> QED BY <1>0, <1>13, <2>1, <2>3, <2>4 DEF MarkEmailSent
<1>14. ASSUME NEW o \in Orders, NEW notify \in BOOLEAN, SetFulfillment(o, notify) PROVE TypeOK'
  <2>1. order[o] \in OrderType /\ "manual" \in Texts BY DEF Texts, NoCards
  <2>2. [order[o] EXCEPT !.status = "paid", !.text = "manual"] \in OrderType
    BY <2>1 DEF OrderType
  <2>3. order' = [order EXCEPT ![o] = [order[o] EXCEPT !.status = "paid", !.text = "manual"]]
    BY <1>14 DEF SetFulfillment
  <2>4. [order |-> o, text |-> "manual", stage |-> "sending"] \in MailType BY <2>1 DEF MailType
  <2>5. mail' \subseteq MailType BY <1>14, <2>4 DEF SetFulfillment
  <2> QED BY <1>0, <1>14, <2>2, <2>3, <2>5 DEF SetFulfillment
<1>15. CASE Drain BY <1>0, <1>15 DEF Drain
<1>16. CASE Close BY <1>0, <1>16 DEF Close
<1>17. CASE Restart BY <1>0, <1>17 DEF Restart
<1>18. CASE UNCHANGED vars BY <1>0, <1>18 DEF vars
<1> QED BY <1>1, <1>2, <1>3, <1>4, <1>5, <1>6, <1>7, <1>8, <1>9, <1>10, <1>11, <1>12, <1>13,
           <1>14, <1>15, <1>16, <1>17, <1>18 DEF Next

-----------------------------------------------------------------------------
(* Cards are sold once.                                                    *)

\* No card changes hands, no order is unsettled, and what is delivered or
\* mailed was delivered or on its way before, or is no card.
LEMMA SalesKept ==
  ASSUME TypeOK, TypeOK', Sales,
         \A c \in Cards, o \in Orders : Sold(c, o)' <=> Sold(c, o),
         \A o \in Orders : Settled(o) => Settled(o)',
         \A o \in Orders : order'[o].text = order[o].text \/ order'[o].text \notin Cards,
         \A o \in Orders : \A text \in inbox'[o] :
           text \in inbox[o] \/ \E m \in mail : m.order = o /\ m.text = text,
         \A m \in mail' :
           \/ \E n \in mail : n.order = m.order /\ n.text = m.text
           \/ m.text = order[m.order].text \/ m.text \notin Cards
  PROVE  Sales'
<1> USE DEF Sales
<1>0. \A m \in mail' : m.order \in Orders BY Vars DEF TypeOK
<1>1. \A text, o : o \in Orders /\ May(text, o) => May(text, o)' BY DEF May
<1>2. \A o \in Orders : May(order[o].text, o)'
  BY <1>1 DEF May
<1>3. \A o \in Orders : \A text \in inbox'[o] : May(text, o)'
  BY <1>1
<1>4. \A m \in mail' : May(m.text, m.order)'
  <2> SUFFICES ASSUME NEW m \in mail' PROVE May(m.text, m.order)' OBVIOUS
  <2>1. m.order \in Orders BY <1>0
  <2>2. May(m.text, m.order) \/ m.text \notin Cards BY <2>1
  <2> QED BY <1>1, <2>1, <2>2 DEF May
<1> QED BY <1>2, <1>3, <1>4

LEMMA SalesStep == TypeOK /\ TypeOK' /\ Sales /\ Payments /\ [Next]_vars => Sales'
<1> SUFFICES ASSUME TypeOK, TypeOK', Sales, Payments, [Next]_vars PROVE Sales' OBVIOUS
<1> USE Vars
<1>a. \A o \in Orders : order[o] \in OrderType OBVIOUS
<1>b. \A m \in mail : m \in MailType OBVIOUS
<1>c. "nothing" \notin Cards /\ "template" \notin Cards /\ "manual" \notin Cards
  BY ShopAssumption DEF NoCards
\* A step that leaves the sales alone.
<1>0. ASSUME UNCHANGED <<card, order, mail, inbox>> PROVE Sales'
  BY <1>0, SalesKept DEF Sold, Settled
<1>1. ASSUME NEW p \in Products, NEW a \in BOOLEAN, NEW d \in {"auto", "card"}, UpdateProduct(p, a, d)
      PROVE  Sales'
  BY <1>0, <1>1 DEF UpdateProduct
<1>2. ASSUME NEW p \in Products, DeleteProduct(p) PROVE Sales'
  <2>1. UNCHANGED <<order, mail, inbox>> BY <1>2 DEF DeleteProduct
  <2>2. \A c \in Cards : card'[c].consumed = card[c].consumed /\ card'[c].by = card[c].by
    <3> SUFFICES ASSUME NEW c \in Cards
                 PROVE  card'[c].consumed = card[c].consumed /\ card'[c].by = card[c].by
      OBVIOUS
    <3>1. card[c] \in CardType OBVIOUS
    <3>2. card'[c] = IF card[c].of = p THEN [card[c] EXCEPT !.of = NoProduct] ELSE card[c]
      BY <1>2 DEF DeleteProduct
    <3> QED BY <3>1, <3>2 DEF CardType
  <2>3. \A c \in Cards, o \in Orders : Sold(c, o)' <=> Sold(c, o) BY <2>2 DEF Sold
  <2> QED BY <2>1, <2>3, SalesKept DEF Settled
<1>3. ASSUME NEW p \in Products, NEW c \in Cards, AppendCardSecrets(p, c) PROVE Sales'
  <2>1. UNCHANGED <<order, mail, inbox>> BY <1>3 DEF AppendCardSecrets
  <2>2. /\ card' = [card EXCEPT ![c] = [of |-> p, consumed |-> FALSE, by |-> NoOrder]]
        /\ card[c].consumed = FALSE
    BY <1>3 DEF AppendCardSecrets, NoCard
  <2>3. \A b \in Cards, o \in Orders : Sold(b, o)' <=> Sold(b, o) BY <2>2 DEF Sold
  <2> QED BY <2>1, <2>3, SalesKept DEF Settled
<1>4. ASSUME NEW c \in Cards, DeleteUnconsumedSecret(c) PROVE Sales'
  <2>1. UNCHANGED <<order, mail, inbox>> BY <1>4 DEF DeleteUnconsumedSecret
  <2>2. /\ card' = [card EXCEPT ![c] = NoCard] /\ ~card[c].consumed /\ ~NoCard.consumed
    BY <1>4 DEF DeleteUnconsumedSecret, NoCard
  <2>3. \A b \in Cards, o \in Orders : Sold(b, o)' <=> Sold(b, o) BY <2>2 DEF Sold
  <2> QED BY <2>1, <2>3, SalesKept DEF Settled
<1>5. ASSUME NEW o \in Orders, NEW p \in Products, StartOrder(o, p) PROVE Sales'
  BY <1>0, <1>5 DEF StartOrder
<1>6. ASSUME NEW o \in Orders, PlaceOrder(o) PROVE Sales'
  <2>1. order' = [order EXCEPT ![o] =
                    [status |-> "pending", of |-> buying[o], text |-> "nothing", sent |-> FALSE]]
    BY <1>6 DEF PlaceOrder
  <2>2. order[o].status = "none" BY <1>6 DEF PlaceOrder, Payments
  <2>3. \A q \in Orders : Settled(q) => Settled(q)' BY <2>1, <2>2 DEF Settled
  <2>4. \A q \in Orders : order'[q].text = order[q].text \/ order'[q].text \notin Cards
    BY <1>c, <2>1
  <2> QED BY <1>6, <2>3, <2>4, SalesKept DEF PlaceOrder, Sold
<1>7. ASSUME NEW o \in Orders, Pay(o) PROVE Sales' BY <1>0, <1>7 DEF Pay
<1>8. ASSUME NEW o \in Orders, Expire(o) PROVE Sales'
  <2>1. \A q \in Orders : Settled(q) => Settled(q)' BY <1>8 DEF Expire, Settled
  <2>2. \A q \in Orders : order'[q].text = order[q].text BY <1>8, <1>a DEF Expire, OrderType
  <2> QED BY <1>8, <2>1, <2>2, SalesKept DEF Expire, Sold
<1>9. ASSUME NEW o \in Orders, ResendEmail(o) PROVE Sales'
  <2>1. \A m \in mail' : m \in mail \/ (m.order = o /\ m.text = order[o].text)
    BY <1>9 DEF ResendEmail
  <2> QED BY <1>9, <2>1, SalesKept DEF ResendEmail, Sold, Settled
<1>10. ASSUME NEW h \in Handlers, NEW o \in Orders, ReadSettleable(h, o) PROVE Sales'
  BY <1>0, <1>10 DEF ReadSettleable
<1>11. ASSUME NEW h \in Handlers, NEW o, NEW p, NEW text, Fulfils(h, o, p, text) PROVE Sales'
  <2>1. /\ o \in Orders /\ ~Settled(o)
        /\ text \in Cards => ~card[text].consumed
        /\ order' = [order EXCEPT ![o].status = IF text = "nothing" THEN "await_manual" ELSE "paid",
                                 ![o].text = text]
        /\ card' = [c \in Cards |-> IF c = text THEN [card[c] EXCEPT !.consumed = TRUE, !.by = o]
                                    ELSE card[c]]
        /\ mail' = mail \cup {[order |-> o, text |-> text, stage |-> "sending"]}
        /\ inbox' = inbox
    BY <1>11, <1>c DEF Fulfils, Settled, settleable, Pool
  <2>2. /\ order'[o].text = text /\ Settled(o)'
        /\ \A q \in Orders \ {o} : order'[q] = order[q]
    BY <1>a, <2>1 DEF Settled, OrderType
  <2>3. \A c \in Cards, q \in Orders : Sold(c, q)' <=> (Sold(c, q) \/ (c = text /\ q = o))
    <3> SUFFICES ASSUME NEW c \in Cards, NEW q \in Orders
                 PROVE  Sold(c, q)' <=> (Sold(c, q) \/ (c = text /\ q = o))
      OBVIOUS
    <3>1. card[c] \in CardType OBVIOUS
    <3>2. c = text => card'[c].consumed /\ card'[c].by = o BY <2>1, <3>1 DEF CardType
    <3>3. c # text => card'[c] = card[c] BY <2>1
    <3> QED BY <2>1, <3>2, <3>3 DEF Sold
  <2>4. \A c \in Cards : ~Sold(c, o) BY <2>1 DEF Sales
  <2>5. \A x, q : q \in Orders /\ May(x, q) => May(x, q)' BY <2>3 DEF May
  <2>6. May(text, o)' BY <2>1, <2>3 DEF May
  <2>7. \A q \in Orders : May(order[q].text, q)' BY <2>2, <2>5, <2>6 DEF Sales, May
  <2>8. \A q \in Orders : \A x \in inbox'[q] : May(x, q)' BY <2>1, <2>5 DEF Sales
  <2>9. \A m \in mail' : May(m.text, m.order)'
    <3> SUFFICES ASSUME NEW m \in mail' PROVE May(m.text, m.order)' OBVIOUS
    <3>1. CASE m \in mail
      <4>1. m.order \in Orders BY <3>1 DEF MailType
      <4> QED BY <2>5, <3>1, <4>1 DEF Sales
    <3>2. CASE m.order = o /\ m.text = text BY <2>6, <3>2
    <3>3. m \in mail \/ m = [order |-> o, text |-> text, stage |-> "sending"] BY <2>1
    <3>4. m \in mail \/ (m.order = o /\ m.text = text) BY <3>3
    <3> QED BY <3>1, <3>2, <3>4
  <2>10. \A q \in Orders : \A c, d \in Cards : Sold(c, q)' /\ Sold(d, q)' => c = d
    BY <2>3, <2>4 DEF Sales
  <2>11. \A q \in Orders : ~Settled(q)' => \A c \in Cards : ~Sold(c, q)'
    BY <2>2, <2>3 DEF Sales, Settled
  <2> QED BY <2>7, <2>8, <2>9, <2>10, <2>11 DEF Sales
<1>12. ASSUME NEW m \in mail, SendMail(m) PROVE Sales'
  <2>1. \A n \in mail' : \E k \in mail : k.order = n.order /\ k.text = n.text
    <3>1. [m EXCEPT !.stage = "marking"].order = m.order /\ [m EXCEPT !.stage = "marking"].text = m.text
      BY <1>b DEF MailType
    <3> QED BY <1>12, <3>1 DEF SendMail
  <2>2. \A o \in Orders : \A text \in inbox'[o] :
          text \in inbox[o] \/ \E k \in mail : k.order = o /\ k.text = text
    BY <1>12 DEF SendMail
  <2> QED BY <1>12, <2>1, <2>2, SalesKept DEF SendMail, Sold, Settled
<1>13. ASSUME NEW m \in mail, MarkEmailSent(m) PROVE Sales'
  <2>1. order' = [order EXCEPT ![m.order].sent = TRUE] BY <1>13 DEF MarkEmailSent
  <2>2. \A o \in Orders : order'[o].text = order[o].text /\ order'[o].status = order[o].status
    BY <1>a, <2>1 DEF OrderType
  <2> QED BY <1>13, <2>2, SalesKept DEF MarkEmailSent, Sold, Settled
<1>14. ASSUME NEW o \in Orders, NEW notify \in BOOLEAN, SetFulfillment(o, notify) PROVE Sales'
  <2>1. order' = [order EXCEPT ![o].status = "paid", ![o].text = "manual"]
    BY <1>14 DEF SetFulfillment
  <2>2. \A q \in Orders : Settled(q) => Settled(q)' BY <1>a, <2>1 DEF Settled, OrderType
  <2>3. \A q \in Orders : order'[q].text = order[q].text \/ order'[q].text \notin Cards
    BY <1>a, <1>c, <2>1 DEF OrderType
  <2>4. \A m \in mail' : m \in mail \/ m.text \notin Cards BY <1>14, <1>c DEF SetFulfillment
  <2> QED BY <1>14, <2>2, <2>3, <2>4, SalesKept DEF SetFulfillment, Sold
<1>15. CASE Drain BY <1>0, <1>15 DEF Drain
<1>16. CASE Close BY <1>0, <1>16 DEF Close
<1>17. CASE Restart BY <1>17, SalesKept DEF Restart, Sold, Settled
<1>18. CASE UNCHANGED vars BY <1>0, <1>18 DEF vars
<1>19. ASSUME NEW h \in Handlers, Settle(h) PROVE Sales'
  BY <1>0, <1>11, <1>19, SettleSteps
<1> QED BY <1>1, <1>2, <1>3, <1>4, <1>5, <1>6, <1>7, <1>8, <1>9, <1>10, <1>12, <1>13,
           <1>14, <1>15, <1>16, <1>17, <1>18, <1>19 DEF Next

-----------------------------------------------------------------------------
(* Orders are paid before anything is delivered.                           *)

\* An order keeps its product, and once settled, paid and mailed stays so.
LEMMA PaymentsKept ==
  ASSUME TypeOK, TypeOK', Payments,
         \A o \in Orders :
           /\ Settled(o) => Settled(o)'
           /\ stripe[o] = "paid" => stripe'[o] = "paid"
           /\ inbox[o] \subseteq inbox'[o]
           /\ order'[o].of = order[o].of
           /\ settleable(order'[o].status) => settleable(order[o].status)
           /\ order'[o].status = "none" <=> order[o].status = "none"
           /\ Settled(o)' => Settled(o) \/ stripe[o] = "paid"
           /\ buying'[o] # NoProduct => buying[o] # NoProduct \/ order[o].status = "none"
           /\ inbox'[o] # {} => inbox[o] # {} \/ Settled(o)
           /\ order'[o].sent => order[o].sent \/ inbox[o] # {},
         \A h \in Handlers : handler'[h] # NoOrder =>
           \/ handler'[h] = handler[h]
           \/ stripe[handler'[h]] = "paid" /\ order[handler'[h]].status # "none",
         \A m \in mail' :
           \/ m \in mail
           \/ Settled(m.order)' /\ (m.stage = "marking" => inbox'[m.order] # {})
  PROVE  Payments'
<1> USE Vars
<1>1. \A o \in Orders :
        /\ Settled(o)' => stripe'[o] = "paid"
        /\ buying'[o] # NoProduct => order'[o].status = "none"
        /\ settleable(order'[o].status) => order'[o].of \in Products
        /\ inbox'[o] # {} => Settled(o)'
        /\ order'[o].sent => inbox'[o] # {}
  BY DEF Payments
<1>2. \A h \in Handlers :
        handler'[h] # NoOrder => stripe'[handler'[h]] = "paid" /\ order'[handler'[h]].status # "none"
  <2> SUFFICES ASSUME NEW h \in Handlers, handler'[h] # NoOrder
               PROVE  stripe'[handler'[h]] = "paid" /\ order'[handler'[h]].status # "none"
    OBVIOUS
  <2>1. handler'[h] \in Orders BY DEF TypeOK
  <2>2. stripe[handler'[h]] = "paid" /\ order[handler'[h]].status # "none" BY DEF Payments
  <2> QED BY <2>1, <2>2
<1>3. \A m \in mail' : Settled(m.order)' /\ (m.stage = "marking" => inbox'[m.order] # {})
  <2> SUFFICES ASSUME NEW m \in mail'
               PROVE  Settled(m.order)' /\ (m.stage = "marking" => inbox'[m.order] # {})
    OBVIOUS
  <2>1. m \in mail => m.order \in Orders BY DEF MailType
  <2>2. m \in mail => Settled(m.order) /\ (m.stage = "marking" => inbox[m.order] # {})
    BY DEF Payments
  <2> QED BY <2>1, <2>2
<1> QED BY <1>1, <1>2, <1>3 DEF Payments

LEMMA PaymentsStep == TypeOK /\ TypeOK' /\ Payments /\ [Next]_vars => Payments'
<1> SUFFICES ASSUME TypeOK, TypeOK', Payments, [Next]_vars PROVE Payments' OBVIOUS
<1> USE Vars
<1>a. \A o \in Orders : order[o] \in OrderType OBVIOUS
<1>b. \A m \in mail : m \in MailType OBVIOUS
<1>c. \A m \in mail : m.order \in Orders BY <1>b DEF MailType
<1>0. ASSUME UNCHANGED <<order, buying, stripe, handler, mail, inbox>> PROVE Payments'
  BY <1>0, PaymentsKept DEF Settled
<1>1. ASSUME NEW p \in Products, NEW a \in BOOLEAN, NEW d \in {"auto", "card"}, UpdateProduct(p, a, d)
      PROVE  Payments'
  BY <1>0, <1>1 DEF UpdateProduct
<1>2. ASSUME NEW p \in Products, DeleteProduct(p) PROVE Payments' BY <1>0, <1>2 DEF DeleteProduct
<1>3. ASSUME NEW p \in Products, NEW c \in Cards, AppendCardSecrets(p, c) PROVE Payments'
  BY <1>0, <1>3 DEF AppendCardSecrets
<1>4. ASSUME NEW c \in Cards, DeleteUnconsumedSecret(c) PROVE Payments'
  BY <1>0, <1>4 DEF DeleteUnconsumedSecret
<1>5. ASSUME NEW o \in Orders, NEW p \in Products, StartOrder(o, p) PROVE Payments'
  <2>1. order[o].status = "none" BY <1>5 DEF StartOrder, Unplaced
  <2> QED BY <1>5, <2>1, PaymentsKept DEF StartOrder, Settled
<1>6. ASSUME NEW o \in Orders, PlaceOrder(o) PROVE Payments'
  <2>1. /\ order' = [order EXCEPT ![o] =
                      [status |-> "pending", of |-> buying[o], text |-> "nothing", sent |-> FALSE]]
        /\ stripe' = [stripe EXCEPT ![o] = "open"] /\ buying' = [buying EXCEPT ![o] = NoProduct]
        /\ UNCHANGED <<handler, mail, inbox>> /\ buying[o] # NoProduct
    BY <1>6 DEF PlaceOrder
  <2>2. order[o].status = "none" /\ ~Settled(o) /\ inbox[o] = {} /\ buying[o] \in Products
    BY <2>1 DEF Payments, Settled
  <2>3. /\ order'[o].status = "pending" /\ order'[o].of \in Products /\ ~order'[o].sent
        /\ buying'[o] = NoProduct
        /\ \A q \in Orders \ {o} :
             order'[q] = order[q] /\ stripe'[q] = stripe[q] /\ buying'[q] = buying[q]
    BY <2>1, <2>2
  <2>4. \A q \in Orders :
          /\ Settled(q)' => stripe'[q] = "paid"
          /\ buying'[q] # NoProduct => order'[q].status = "none"
          /\ settleable(order'[q].status) => order'[q].of \in Products
          /\ inbox'[q] # {} => Settled(q)'
          /\ order'[q].sent => inbox'[q] # {}
    <3> SUFFICES ASSUME NEW q \in Orders
                 PROVE  /\ Settled(q)' => stripe'[q] = "paid"
                        /\ buying'[q] # NoProduct => order'[q].status = "none"
                        /\ settleable(order'[q].status) => order'[q].of \in Products
                        /\ inbox'[q] # {} => Settled(q)'
                        /\ order'[q].sent => inbox'[q] # {}
      OBVIOUS
    <3>1. CASE q = o BY <2>1, <2>2, <2>3, <3>1 DEF Settled
    <3>2. CASE q # o BY <2>1, <2>3, <3>2 DEF Payments, Settled
    <3> QED BY <3>1, <3>2
  <2>5. \A h \in Handlers :
          handler'[h] # NoOrder => stripe'[handler'[h]] = "paid" /\ order'[handler'[h]].status # "none"
    BY <2>1, <2>2, <2>3 DEF Payments
  <2>6. \A m \in mail' : Settled(m.order)' /\ (m.stage = "marking" => inbox'[m.order] # {})
    BY <1>c, <2>1, <2>2, <2>3 DEF Payments, Settled
  <2> QED BY <2>4, <2>5, <2>6 DEF Payments
<1>7. ASSUME NEW o \in Orders, Pay(o) PROVE Payments' BY <1>7, PaymentsKept DEF Pay, Settled
<1>8. ASSUME NEW o \in Orders, Expire(o) PROVE Payments'
  <2>1. order' = [order EXCEPT ![o].status = "expired"] /\ order[o].status = "pending"
    BY <1>8 DEF Expire
  <2>2. /\ order'[o].status = "expired" /\ order'[o].of = order[o].of /\ order'[o].sent = order[o].sent
        /\ \A q \in Orders \ {o} : order'[q] = order[q]
    BY <1>a, <2>1 DEF OrderType
  <2> QED BY <1>8, <2>1, <2>2, PaymentsKept DEF Expire, Settled, settleable
<1>9. ASSUME NEW o \in Orders, ResendEmail(o) PROVE Payments'
  <2>1. \A m \in mail' : m \in mail \/ (m.order = o /\ m.stage = "sending")
    BY <1>9 DEF ResendEmail
  <2>2. Settled(o) /\ UNCHANGED <<order, buying, stripe, handler, inbox>>
    BY <1>9 DEF ResendEmail, Settled
  <2> QED BY <2>1, <2>2, PaymentsKept DEF Settled
<1>10. ASSUME NEW h \in Handlers, NEW o \in Orders, ReadSettleable(h, o) PROVE Payments'
  <2>1. stripe[o] = "paid" /\ order[o].status # "none" BY <1>10 DEF ReadSettleable, settleable
  <2>2. handler' = [handler EXCEPT ![h] = o] /\ UNCHANGED <<order, buying, stripe, mail, inbox>>
    BY <1>10 DEF ReadSettleable
  <2>3. \A g \in Handlers : handler'[g] = handler[g] \/ handler'[g] = o BY <2>2
  <2> QED BY <2>1, <2>2, <2>3, PaymentsKept DEF Settled
<1>11. ASSUME NEW h \in Handlers, NEW o, NEW p, NEW text, Fulfils(h, o, p, text) PROVE Payments'
  <2>1. /\ o \in Orders /\ settleable(order[o].status) /\ handler[h] = o
        /\ order' = [order EXCEPT ![o].status = IF text = "nothing" THEN "await_manual" ELSE "paid",
                                 ![o].text = text]
        /\ handler' = [handler EXCEPT ![h] = NoOrder]
        /\ mail' = mail \cup {[order |-> o, text |-> text, stage |-> "sending"]}
        /\ UNCHANGED <<buying, stripe, inbox>>
    BY <1>11 DEF Fulfils
  <2>2. stripe[o] = "paid" /\ ~Settled(o) BY <1>11, <2>1, ShopAssumption DEF Payments, settleable, Settled
  <2>3. /\ Settled(o)' /\ ~settleable(order'[o].status) /\ order'[o].of = order[o].of
        /\ order'[o].sent = order[o].sent /\ order[o].status # "none"
        /\ \A q \in Orders \ {o} : order'[q] = order[q]
    BY <1>a, <2>1 DEF OrderType, Settled, settleable
  <2>4. order'[o].status # "none" BY <2>3 DEF Settled
  <2>5. \A m \in mail' : m \in mail \/ (m.order = o /\ m.stage = "sending") BY <2>1
  <2>6. \A g \in Handlers : handler'[g] # NoOrder => handler'[g] = handler[g] BY <2>1
  <2> QED BY <2>1, <2>2, <2>3, <2>4, <2>5, <2>6, PaymentsKept DEF Settled
<1>12. ASSUME NEW m \in mail, SendMail(m) PROVE Payments'
  <2>1. Settled(m.order) /\ m.order \in Orders BY <1>c DEF Payments
  <2>2. UNCHANGED <<order, buying, stripe, handler>> BY <1>12 DEF SendMail
  <2>3. CASE mail' = mail \ {m} /\ inbox' = inbox
    BY <2>2, <2>3, PaymentsKept DEF Settled
  <2>4. CASE /\ mail' = (mail \ {m}) \cup {[m EXCEPT !.stage = "marking"]}
             /\ inbox' = [inbox EXCEPT ![m.order] = inbox[m.order] \cup {m.text}]
    <3>1. [m EXCEPT !.stage = "marking"].order = m.order BY <1>b DEF MailType
    <3>2. \A n \in mail' : n \in mail \/ n.order = m.order BY <2>4, <3>1
    <3>3. /\ inbox'[m.order] # {} /\ \A q \in Orders : inbox[q] \subseteq inbox'[q]
          /\ \A q \in Orders \ {m.order} : inbox'[q] = inbox[q]
      BY <2>1, <2>4
    <3> QED BY <2>1, <2>2, <3>2, <3>3, PaymentsKept DEF Settled
  <2> QED BY <1>12, <2>3, <2>4 DEF SendMail
<1>13. ASSUME NEW m \in mail, MarkEmailSent(m) PROVE Payments'
  <2>1. order' = [order EXCEPT ![m.order].sent = TRUE] /\ m.order \in Orders
    BY <1>13, <1>c DEF MarkEmailSent
  <2>2. inbox[m.order] # {} BY <1>13 DEF MarkEmailSent, Payments
  <2>3. \A q \in Orders :
          /\ order'[q].of = order[q].of /\ order'[q].status = order[q].status
          /\ q # m.order => order'[q] = order[q]
    BY <1>a, <2>1 DEF OrderType
  <2> QED BY <1>13, <2>1, <2>2, <2>3, PaymentsKept DEF MarkEmailSent, Settled
<1>14. ASSUME NEW o \in Orders, NEW notify \in BOOLEAN, SetFulfillment(o, notify) PROVE Payments'
  <2>1. /\ order' = [order EXCEPT ![o].status = "paid", ![o].text = "manual"] /\ Settled(o)
        /\ UNCHANGED <<buying, stripe, handler, inbox>>
    BY <1>14 DEF SetFulfillment, Settled
  <2>2. /\ order'[o].status = "paid" /\ order'[o].of = order[o].of /\ order'[o].sent = order[o].sent
        /\ \A q \in Orders \ {o} : order'[q] = order[q]
    BY <1>a, <2>1 DEF OrderType
  <2>3. \A m \in mail' : m \in mail \/ (m.order = o /\ m.stage = "sending")
    BY <1>14 DEF SetFulfillment
  <2> QED BY <2>1, <2>2, <2>3, PaymentsKept DEF Settled, settleable
<1>15. CASE Drain BY <1>0, <1>15 DEF Drain
<1>16. CASE Close BY <1>0, <1>16 DEF Close
<1>17. CASE Restart BY <1>17, PaymentsKept DEF Restart, Settled
<1>18. CASE UNCHANGED vars BY <1>0, <1>18 DEF vars
<1>19. ASSUME NEW h \in Handlers, Settle(h) PROVE Payments'
  <2>1. CASE /\ handler' = [handler EXCEPT ![h] = NoOrder]
             /\ UNCHANGED <<product, card, order, buying, stripe, mail, inbox, server>>
    BY <2>1, PaymentsKept DEF Settled
  <2> QED BY <1>11, <1>19, <2>1, SettleSteps
<1> QED BY <1>1, <1>2, <1>3, <1>4, <1>5, <1>6, <1>7, <1>8, <1>9, <1>10, <1>12, <1>13,
           <1>14, <1>15, <1>16, <1>17, <1>18, <1>19 DEF Next

-----------------------------------------------------------------------------
(* The stock is the pool.                                                  *)

LEMMA StocksKept ==
  ASSUME TypeOK, Stocks, UNCHANGED card,
         \A p \in Products : product'[p].exists = product[p].exists /\ product'[p].stock = product[p].stock
  PROVE  Stocks'
<1>1. \A p : Pool(p)' = Pool(p) BY DEF Pool
<1>2. \A c \in Cards : card[c].of # NoProduct => card[c].of \in Products BY Vars DEF CardType
<1> QED BY <1>1, <1>2 DEF Stocks, StockIsPool

\* The stock is the pool when it is for one product, and nothing else moves.
LEMMA OneStock ==
  ASSUME Stocks, NEW p \in Products,
         \A q \in Products \ {p} : product'[q] = product[q] /\ Pool(q)' = Pool(q),
         product'[p].exists => product'[p].stock = Cardinality(Pool(p)')
  PROVE  StockIsPool'
<1> SUFFICES ASSUME NEW q \in Products, product'[q].exists
             PROVE  product'[q].stock = Cardinality(Pool(q)')
  BY DEF StockIsPool
<1>1. CASE q = p BY <1>1
<1>2. CASE q # p
  <2>1. product'[q] = product[q] /\ Pool(q)' = Pool(q) BY <1>2
  <2>2. product[q].stock = Cardinality(Pool(q)) BY <2>1 DEF Stocks, StockIsPool
  <2> QED BY <2>1, <2>2
<1> QED BY <1>1, <1>2

LEMMA StocksStep == TypeOK /\ Payments /\ Stocks /\ [Next]_vars => Stocks'
<1> SUFFICES ASSUME TypeOK, Payments, Stocks, [Next]_vars PROVE Stocks' OBVIOUS
<1> USE Vars
<1>a. \A p \in Products : product[p] \in ProductType OBVIOUS
<1>b. \A c \in Cards : card[c] \in CardType OBVIOUS
<1>c. \A c \in Cards : card[c].of # NoProduct => card[c].of \in Products BY <1>b DEF CardType
<1>d. NoProduct \notin Products BY ShopAssumption
<1>0. ASSUME UNCHANGED <<product, card>> PROVE Stocks' BY <1>0, StocksKept
<1>1. ASSUME NEW p \in Products, NEW a \in BOOLEAN, NEW d \in {"auto", "card"}, UpdateProduct(p, a, d)
      PROVE  Stocks'
  <2>1. product' = [product EXCEPT ![p].active = a, ![p].delivery = d] /\ UNCHANGED card
    BY <1>1 DEF UpdateProduct
  <2>2. \A q \in Products : product'[q].exists = product[q].exists /\ product'[q].stock = product[q].stock
    BY <1>a, <2>1 DEF ProductType
  <2> QED BY <2>1, <2>2, StocksKept
<1>2. ASSUME NEW p \in Products, DeleteProduct(p) PROVE Stocks'
  <2>1. /\ product' = [product EXCEPT ![p].exists = FALSE]
        /\ card' = [c \in Cards |-> IF card[c].of = p THEN [card[c] EXCEPT !.of = NoProduct] ELSE card[c]]
    BY <1>2 DEF DeleteProduct
  <2>2. ~product'[p].exists /\ \A q \in Products \ {p} : product'[q] = product[q]
    BY <1>a, <2>1 DEF ProductType
  <2>3. \A c \in Cards : card'[c].of = IF card[c].of = p THEN NoProduct ELSE card[c].of
    BY <1>b, <2>1 DEF CardType
  <2>4. \A c \in Cards : card[c].of # p => card'[c] = card[c] BY <2>1
  <2>5. \A q \in Products \ {p} : Pool(q)' = Pool(q) BY <1>d, <2>3, <2>4 DEF Pool
  <2> QED BY <1>c, <2>2, <2>3, <2>5 DEF Stocks, StockIsPool
<1>3. ASSUME NEW p \in Products, NEW c \in Cards, AppendCardSecrets(p, c) PROVE Stocks'
  <2>1. /\ product[p].exists /\ card[c] = NoCard
        /\ card' = [card EXCEPT ![c] = [of |-> p, consumed |-> FALSE, by |-> NoOrder]]
        /\ product' = [product EXCEPT ![p].stock = product[p].stock + 1]
    BY <1>3 DEF AppendCardSecrets
  <2>2. /\ product'[p].exists /\ product'[p].stock = product[p].stock + 1
        /\ \A q \in Products \ {p} : product'[q] = product[q]
    BY <1>a, <2>1 DEF ProductType
  <2>3. card[c].of = NoProduct BY <2>1 DEF NoCard
  <2>4. \A q \in Products \ {p} : Pool(q)' = Pool(q) BY <1>d, <2>1, <2>3 DEF Pool
  <2>5. c \notin Pool(p) /\ Pool(p)' = Pool(p) \cup {c} BY <1>d, <2>1, <2>3 DEF Pool
  <2>6. Cardinality(Pool(p) \cup {c}) = Cardinality(Pool(p)) + 1 BY <2>5, PoolSize, FS_AddElement
  <2>a. product[p].stock = Cardinality(Pool(p)) BY <2>1 DEF Stocks, StockIsPool
  <2>7. StockIsPool' BY <2>2, <2>4, <2>5, <2>6, <2>a, OneStock
  <2>8. \A b \in Cards : card'[b].of # NoProduct => product'[card'[b].of].exists
    BY <1>c, <2>1, <2>2 DEF Stocks
  <2> QED BY <2>7, <2>8 DEF Stocks
<1>4. ASSUME NEW c \in Cards, DeleteUnconsumedSecret(c) PROVE Stocks'
  <2>d. card[c].of \in Products BY <1>4, <1>c DEF DeleteUnconsumedSecret
  <2>p. PICK p \in Products : card[c].of = p BY <2>d
  <2>1. /\ p \in Products /\ product[p].exists /\ ~card[c].consumed
        /\ card' = [card EXCEPT ![c] = NoCard]
        /\ product' = [product EXCEPT ![p].stock = IF @ = 0 THEN 0 ELSE @ - 1]
    BY <1>4, <1>d, <2>p DEF DeleteUnconsumedSecret, Stocks
  <2>2. c \in Pool(p) BY <2>1, <2>p DEF Pool
  <2>3. \A q \in Products \ {p} : Pool(q)' = Pool(q) BY <1>d, <2>1, <2>p DEF Pool, NoCard
  <2>b. p # NoProduct BY <1>d
  <2>4. Pool(p)' = Pool(p) \ {c}
    <3>1. card'[c].of # p BY <2>1, <2>b DEF NoCard
    <3>2. \A b \in Cards \ {c} : card'[b] = card[b] BY <2>1
    <3> QED BY <3>1, <3>2 DEF Pool
  <2>5. /\ product'[p].exists = product[p].exists
        /\ product'[p].stock = IF product[p].stock = 0 THEN 0 ELSE product[p].stock - 1
        /\ \A q \in Products \ {p} : product'[q] = product[q]
    BY <1>a, <2>1 DEF ProductType
  <2>6. Cardinality(Pool(p) \ {c}) = Cardinality(Pool(p)) - 1 /\ Cardinality(Pool(p)) \in Nat
    BY <2>2, PoolSize, FS_RemoveElement
  <2>7. Pool(p) \ {c} \subseteq Pool(p) /\ Cardinality(Pool(p) \ {c}) \in Nat
    BY PoolSize, FS_Subset, FS_CardinalityType
  <2>8. product[p].stock = Cardinality(Pool(p)) /\ product[p].stock # 0
    BY <2>1, <2>6, <2>7 DEF Stocks, StockIsPool
  <2>c. product'[p].stock = Cardinality(Pool(p)') BY <2>4, <2>5, <2>6, <2>8
  <2>9. StockIsPool' BY <2>1, <2>3, <2>5, <2>c, OneStock
  <2>10. \A b \in Cards : card'[b].of # NoProduct => product'[card'[b].of].exists
    BY <1>c, <2>1, <2>5 DEF Stocks, NoCard
  <2> QED BY <2>9, <2>10 DEF Stocks
<1>5. ASSUME NEW h \in Handlers, NEW o, NEW p, NEW text, Fulfils(h, o, p, text) PROVE Stocks'
  <2>1. /\ p \in Products /\ text \in Texts
        /\ text \in Cards => text \in Pool(p) /\ product[p].exists
        /\ card' = [c \in Cards |-> IF c = text THEN [card[c] EXCEPT !.consumed = TRUE, !.by = o]
                                    ELSE card[c]]
        /\ product' = [product EXCEPT ![p].stock = IF text \in Cards /\ @ > 0 THEN @ - 1 ELSE @]
    <3>1. text \in Texts /\ (text \in Cards => text \in Pool(p) /\ product[p].exists)
      BY <1>5, <1>a, FulfilTypes
    <3> QED BY <1>5, <3>1 DEF Fulfils
  <2>2. /\ product'[p].exists = product[p].exists
        /\ product'[p].stock = IF text \in Cards /\ product[p].stock > 0 THEN product[p].stock - 1
                               ELSE product[p].stock
        /\ \A q \in Products \ {p} : product'[q] = product[q]
    BY <1>a, <2>1 DEF ProductType
  <2>3. /\ \A c \in Cards : card'[c].of = card[c].of
        /\ \A c \in Cards \ {text} : card'[c] = card[c]
        /\ text \in Cards => card'[text].consumed
    <3> SUFFICES ASSUME NEW c \in Cards
                 PROVE  /\ card'[c].of = card[c].of
                        /\ IF c = text THEN card'[c].consumed ELSE card'[c] = card[c]
      OBVIOUS
    <3>1. card[c] \in CardType BY <1>b
    <3> QED BY <2>1, <3>1 DEF CardType
  <2>4. \A c \in Cards : card'[c].of # NoProduct => product'[card'[c].of].exists
    BY <1>c, <2>2, <2>3 DEF Stocks
  <2>5. CASE text \notin Cards
    <3>1. \A q : Pool(q)' = Pool(q) BY <2>3, <2>5 DEF Pool
    <3>2. StockIsPool' BY <2>2, <2>5, <3>1 DEF Stocks, StockIsPool
    <3> QED BY <2>4, <3>2 DEF Stocks
  <2>6. CASE text \in Cards
    <3>1. text \in Pool(p) /\ card[text].of = p BY <2>1, <2>6 DEF Pool
    <3>2. \A q \in Products \ {p} : Pool(q)' = Pool(q) BY <2>3, <3>1 DEF Pool
    <3>3. Pool(p)' = Pool(p) \ {text} BY <2>3, <2>6 DEF Pool
    <3>4. Cardinality(Pool(p) \ {text}) = Cardinality(Pool(p)) - 1 /\ Cardinality(Pool(p)) \in Nat
      <4>1. IsFiniteSet(Pool(p)) /\ Cardinality(Pool(p)) \in Nat BY PoolSize
      <4> QED BY <3>1, <4>1, FS_RemoveElement
    <3>5. Cardinality(Pool(p) \ {text}) \in Nat
      <4>1. Pool(p) \ {text} \subseteq Pool(p) OBVIOUS
      <4> QED BY <4>1, PoolSize, FS_Subset, FS_CardinalityType
    <3>6. product[p].stock = Cardinality(Pool(p)) BY <2>1, <2>6 DEF Stocks, StockIsPool
    <3>7. product'[p].stock = Cardinality(Pool(p)') BY <2>2, <2>6, <3>3, <3>4, <3>5, <3>6
    <3>8. StockIsPool' BY <2>2, <3>2, <3>7 DEF Stocks, StockIsPool
    <3> QED BY <2>4, <3>8 DEF Stocks
  <2> QED BY <2>5, <2>6
<1>6. ASSUME NEW h \in Handlers, Settle(h) PROVE Stocks' BY <1>0, <1>5, <1>6, SettleSteps
<1>7. ASSUME NEW o \in Orders, NEW p \in Products, StartOrder(o, p) PROVE Stocks'
  BY <1>0, <1>7 DEF StartOrder
<1>8. ASSUME NEW o \in Orders, PlaceOrder(o) \/ Pay(o) \/ Expire(o) \/ ResendEmail(o) PROVE Stocks'
  BY <1>0, <1>8 DEF PlaceOrder, Pay, Expire, ResendEmail
<1>9. ASSUME NEW h \in Handlers, NEW o \in Orders, ReadSettleable(h, o) PROVE Stocks'
  BY <1>0, <1>9 DEF ReadSettleable
<1>10. ASSUME NEW m \in mail, SendMail(m) \/ MarkEmailSent(m) PROVE Stocks'
  BY <1>0, <1>10 DEF SendMail, MarkEmailSent
<1>11. ASSUME NEW o \in Orders, NEW notify \in BOOLEAN, SetFulfillment(o, notify) PROVE Stocks'
  BY <1>0, <1>11 DEF SetFulfillment
<1>12. CASE Drain \/ Close \/ Restart BY <1>0, <1>12 DEF Drain, Close, Restart
<1>13. CASE UNCHANGED vars BY <1>0, <1>13 DEF vars
<1> QED BY <1>1, <1>2, <1>3, <1>4, <1>6, <1>7, <1>8, <1>9, <1>10, <1>11, <1>12, <1>13 DEF Next

-----------------------------------------------------------------------------
(* The theorem.                                                            *)

LEMMA ShopInit == Init => ShopInv
<1> SUFFICES ASSUME Init PROVE ShopInv OBVIOUS
<1> USE DEF Init
<1>1. Unplaced \in OrderType /\ NoCard \in CardType
  BY DEF Unplaced, NoCard, OrderType, CardType, Texts, NoCards
<1>2. [exists |-> TRUE, active |-> TRUE, delivery |-> "card", stock |-> 0] \in ProductType
  BY Size DEF ProductType
<1>4. TypeOK BY <1>1, <1>2 DEF TypeOK, ProductType, CardType, OrderType
<1>5. Sales
  <2>1. \A c \in Cards, o \in Orders : ~Sold(c, o) BY DEF Sold, NoCard
  <2>2. \A o \in Orders : order[o].text \notin Cards BY ShopAssumption DEF Unplaced, NoCards
  <2> QED BY <2>1, <2>2 DEF Sales, May
<1>6. Payments BY DEF Payments, Settled, settleable, Unplaced
<1>7. Stocks
  <2>1. \A p \in Products : Pool(p) = {} BY ShopAssumption DEF Pool, NoCard
  <2>2. \A p \in Products : product[p].stock = 0 OBVIOUS
  <2>3. StockIsPool BY <2>1, <2>2, FS_EmptySet DEF StockIsPool
  <2> QED BY <2>3 DEF Stocks, NoCard
<1> QED BY <1>4, <1>5, <1>6, <1>7 DEF ShopInv

LEMMA ShopStep == ShopInv /\ [Next]_vars => ShopInv'
BY TypeStep, SalesStep, PaymentsStep, StocksStep DEF ShopInv

\* A set of at most one thing.
LEMMA AtMostOne ==
  ASSUME NEW S, \A x, y \in S : x = y
  PROVE  Cardinality(S) <= 1
<1>1. CASE S = {} BY <1>1, FS_EmptySet
<1>2. CASE S # {}
  <2>1. PICK x \in S : TRUE BY <1>2
  <2>2. S = {x} BY <2>1
  <2> QED BY <2>2, FS_Singleton
<1> QED BY <1>1, <1>2

LEMMA InvHolds == ShopInv => ShopHolds
<1> SUFFICES ASSUME ShopInv PROVE ShopHolds OBVIOUS
<1>1. TypeOK /\ Sales /\ Payments /\ StockIsPool BY DEF ShopInv, Stocks
<1>2. \A c \in Cards, o \in Orders : c \in inbox[o] \cup {order[o].text} => Sold(c, o)
  BY <1>1 DEF Sales, May
<1>3. CardsSoldOnce
  <2>1. ASSUME NEW c \in Cards
        PROVE  Cardinality({o \in Orders : c \in inbox[o] \cup {order[o].text}}) <= 1
    <3> DEFINE S == {o \in Orders : c \in inbox[o] \cup {order[o].text}}
    <3>1. \A o, q \in S : o = q BY <1>2 DEF Sold
    <3> HIDE DEF S
    <3>2. Cardinality(S) <= 1 BY <3>1, AtMostOne
    <3> QED BY <3>2 DEF S
  <2>2. ASSUME NEW o \in Orders
        PROVE  Cardinality({c \in Cards : card[c].consumed /\ card[c].by = o}) <= 1
    <3> DEFINE S == {c \in Cards : card[c].consumed /\ card[c].by = o}
    <3>1. \A c, d \in S : c = d BY <1>1 DEF Sales, Sold
    <3> HIDE DEF S
    <3>2. Cardinality(S) <= 1 BY <3>1, AtMostOne
    <3> QED BY <3>2 DEF S
  <2>3. \A c \in Cards, o \in Orders : order[o].text = c => card[c].consumed /\ card[c].by = o
    BY <1>2 DEF Sold
  <2> QED BY <2>1, <2>2, <2>3 DEF CardsSoldOnce
<1>4. DeliveredIsPaid BY <1>1 DEF DeliveredIsPaid, Payments, Settled
<1>5. SentIsMailed BY <1>1 DEF SentIsMailed, Payments
<1> QED BY <1>1, <1>3, <1>4, <1>5 DEF ShopHolds

\* However webhooks, polls, operators, emails, shutdowns and crashes
\* interleave, a card reaches one buyer, the stock shown is the pool, and
\* nothing is delivered unpaid (MarkOrderPaidAndFulfil and its callers).
THEOREM ShopCorrect == Spec => []ShopHolds
<1>1. Init => ShopInv BY ShopInit
<1>2. ShopInv /\ [Next]_vars => ShopInv' BY ShopStep
<1>3. ShopInv => ShopHolds BY InvHolds
<1> QED BY <1>1, <1>2, <1>3, PTL DEF Spec

-----------------------------------------------------------------------------
(* A credential's rejected bearers.                                         *)

\* What a request saw is no newer than the token, and the holder of the gate is
\* the request that exchanges, for the token that is still the current one.
RefreshInv ==
  /\ Re!RefreshHolds
  /\ \A r \in Bearers : bearer[r].seen <= token
  /\ gate # Re!Nobody => Re!At(gate, "exchange")

\* The first state: the gate is free.
LEMMA RefreshInit == ASSUME Re!Init PROVE RefreshInv
<1> USE ServerAssumption DEF Re!RefreshAssumption
<1>0. [pc |-> "idle", seen |-> 0]
        \in [pc : {"idle", "sent", "wait", "exchange", "report"}, seen : 0..MaxTokens]
  BY DEF Re!RefreshAssumption
<1>1. token \in 1..MaxTokens /\ strikes \in Nat BY DEF Re!RefreshAssumption, Re!Init
<1>2. alive \in BOOLEAN /\ hard \in BOOLEAN /\ cooling \in BOOLEAN BY DEF Re!Init
<1>3. gate \in Bearers \cup {Re!Nobody} BY DEF Re!Init
<1>4. Re!TypeOK BY <1>0, <1>1, <1>2, <1>3 DEF Re!Init, Re!TypeOK
<1> QED
  BY <1>4 DEF Re!RefreshAssumption, RefreshInv, Re!Init, Re!RefreshHolds, Re!ExchangesAreNeeded,
              Re!StrikesRetire, Re!At

\* No step puts two requests behind the gate, or one there for an old token.
LEMMA RefreshStep ==
  ASSUME RefreshInv, Re!Next \/ UNCHANGED grants
  PROVE  RefreshInv'
<1> USE ServerAssumption DEF Re!RefreshAssumption, RefreshInv, Re!RefreshHolds, Re!TypeOK, Re!ExchangesAreNeeded,
            Re!StrikesRetire, Re!At, Re!Health, Re!Tokens
<1>1. ASSUME NEW r \in Bearers, Re!Send(r) PROVE RefreshInv' BY <1>1 DEF Re!Send, Re!Go
<1>2. ASSUME NEW r \in Bearers, Re!Served(r) PROVE RefreshInv' BY <1>2 DEF Re!Served, Re!Go
<1>3. ASSUME NEW r \in Bearers, Re!Reject(r) PROVE RefreshInv'
  <2>1. strikes' = strikes + 1 /\ UNCHANGED <<token, alive, cooling, gate>> /\ Re!At(r, "sent")
    BY <1>3 DEF Re!Reject
  <2>2. Re!Go(r, "idle") \/ Re!Go(r, "wait")
    <3>1. Re!Go(r, IF hard' THEN "idle" ELSE "wait") BY <1>3 DEF Re!Reject
    <3> QED BY <3>1
  <2>3. hard' \in BOOLEAN /\ (hard' \/ strikes' < Threshold)
    <3>1. hard' = (hard \/ strikes + 1 >= Threshold) BY <1>3 DEF Re!Reject
    <3>2. CASE strikes + 1 >= Threshold BY <3>1, <3>2
    <3>3. CASE ~(strikes + 1 >= Threshold)
      <4>1. strikes' < Threshold BY <2>1, <3>3
      <4> QED BY <3>1, <3>3, <4>1
    <3> QED BY <3>2, <3>3
  <2>4. /\ bearer' \in [Bearers -> [pc : {"idle", "sent", "wait", "exchange", "report"},
                                     seen : 0..MaxTokens]]
        /\ \A q \in Bearers :
             /\ bearer'[q].seen = bearer[q].seen
             /\ bearer'[q].pc = "exchange" <=> bearer[q].pc = "exchange"
    BY <2>1, <2>2 DEF Re!Go
  <2> QED BY <2>1, <2>3, <2>4
<1>4. ASSUME NEW r \in Bearers, Re!Enter(r) PROVE RefreshInv' BY <1>4 DEF Re!Enter, Re!Reminted, Re!Go
<1>5. ASSUME NEW r \in Bearers, Re!Mint(r) PROVE RefreshInv' BY <1>5 DEF Re!Mint, Re!Go
<1>6. ASSUME NEW r \in Bearers, Re!MintFails(r) PROVE RefreshInv' BY <1>6 DEF Re!MintFails, Re!Go
<1>7. ASSUME NEW r \in Bearers, Re!Report(r) PROVE RefreshInv' BY <1>7 DEF Re!Report, Re!Go
<1>8. ASSUME Re!Invalidate PROVE RefreshInv' BY <1>8 DEF Re!Invalidate
<1>9. ASSUME Re!CoolOff PROVE RefreshInv' BY <1>9 DEF Re!CoolOff
<1>10. CASE UNCHANGED grants BY <1>10 DEF grants
<1> QED
  BY <1>1, <1>2, <1>3, <1>4, <1>5, <1>6, <1>7, <1>8, <1>9, <1>10 DEF Re!Next

-----------------------------------------------------------------------------
(* The catalogue of models.                                                 *)

\* What a refresh has been served ever since it began it has found or has yet
\* to ask for, and what is behind the catalogue is in it.
ModelsInv ==
  /\ Mo!ModelsHold
  /\ offers \in [CodexKeys -> SUBSET RelayModels]
  /\ catalog \in [set : BOOLEAN, models : SUBSET Models]
  /\ refresh \in [on : BOOLEAN, ask : SUBSET CodexKeys, found : SUBSET Models]
  /\ since \subseteq Mo!Serving
  /\ refresh.on => \A p \in since : p[1] \in refresh.ask \/ p[2] \in refresh.found
  /\ \A p \in steady : p[2] \in catalog.models

LEMMA ModelsInit == ASSUME Mo!Init PROVE ModelsInv
<1> USE ServerAssumption DEF Mo!ModelsAssumption
<1>1. [set |-> FALSE, models |-> {}] \in [set : BOOLEAN, models : SUBSET Models] OBVIOUS
<1>2. [on |-> FALSE, ask |-> {}, found |-> {}]
        \in [on : BOOLEAN, ask : SUBSET CodexKeys, found : SUBSET Models]
  OBVIOUS
<1>3. catalog = Mo!Unset /\ refresh = Mo!NoRefresh /\ since = {} /\ steady = {}
      /\ verdict.is = "none" /\ enabled \subseteq CodexKeys /\ ~refresh.on
      /\ offers \in [CodexKeys -> SUBSET RelayModels]
  BY DEF Mo!Init, Mo!NoVerdict, Mo!NoRefresh
<1> QED
  BY <1>1, <1>2, <1>3 DEF ModelsInv, Mo!ModelsHold, Mo!TypeOK, Mo!ServedIsNotRefused, Mo!FailsOpen,
                          Mo!Unset, Mo!NoRefresh

LEMMA ModelsStep == ASSUME ModelsInv, Mo!Next \/ UNCHANGED served PROVE ModelsInv'
<1> USE ServerAssumption
    DEF Mo!ModelsAssumption, ModelsInv, Mo!ModelsHold, Mo!TypeOK, Mo!ServedIsNotRefused,
        Mo!FailsOpen, Mo!Serving, Mo!Pool, Mo!Answer
<1>1. ASSUME NEW m \in Models, Mo!GuardKeyOnly(m) PROVE ModelsInv'
  BY <1>1 DEF Mo!GuardKeyOnly
<1>2. ASSUME NEW m \in Models, Mo!GuardPlan(m) PROVE ModelsInv'
  BY <1>2 DEF Mo!GuardPlan
<1>3. ASSUME NEW m \in Models, Mo!GuardRelay(m) PROVE ModelsInv'
  <2>1. refresh' \in [on : BOOLEAN, ask : SUBSET CodexKeys, found : SUBSET Models]
    <3>1. [on |-> TRUE, ask |-> enabled, found |-> {}]
            \in [on : BOOLEAN, ask : SUBSET CodexKeys, found : SUBSET Models]
      OBVIOUS
    <3>2. refresh' = [on |-> TRUE, ask |-> enabled, found |-> {}] \/ refresh' = refresh
      BY <1>3 DEF Mo!GuardRelay, Mo!apiKeyModels
    <3> QED BY <3>1, <3>2
  <2>2. UNCHANGED <<enabled, offers, catalog, stale, steady>> BY <1>3 DEF Mo!GuardRelay
  <2>3. /\ since' \subseteq Mo!Serving
        /\ refresh'.on => \A p \in since' : p[1] \in refresh'.ask \/ p[2] \in refresh'.found
    BY <1>3 DEF Mo!GuardRelay, Mo!apiKeyModels
  <2>4. PICK is \in {"keys", "refused"} : verdict' = [model |-> m, is |-> is]
          /\ (is = "refused" => catalog.set /\ ~Mo!codexModelServable(m, catalog.models))
    BY <1>3 DEF Mo!GuardRelay
  <2>5. ~Mo!codexModelServable(m, PlanModels) BY <1>3 DEF Mo!GuardRelay
  <2>6. verdict'.is = is /\ verdict'.model = m BY <2>4
  <2>7. is = "refused" => \A p \in steady : p[2] \notin Mo!codexModelCandidates(m)
    BY <2>4 DEF Mo!codexModelServable
  <2> QED BY <2>1, <2>2, <2>3, <2>4, <2>5, <2>6, <2>7
<1>4. ASSUME NEW k \in CodexKeys, Mo!Ask(k) PROVE ModelsInv'
  <2>1. refresh' = [refresh EXCEPT !.ask = @ \ {k}, !.found = @ \cup offers[k]]
    BY <1>4 DEF Mo!Ask
  <2>2. UNCHANGED <<enabled, offers, catalog, stale, steady, rested, since, verdict>>
    BY <1>4 DEF Mo!Ask
  <2>3. offers[k] \subseteq Models OBVIOUS
  <2>4. refresh' \in [on : BOOLEAN, ask : SUBSET CodexKeys, found : SUBSET Models]
    BY <2>1, <2>3
  <2>5. \A p \in since : p[1] = k => p[2] \in offers[k] OBVIOUS
  <2>6. refresh'.on = refresh.on /\ refresh'.ask = refresh.ask \ {k}
        /\ refresh'.found = refresh.found \cup offers[k]
    BY <2>1
  <2>7. refresh'.on => \A p \in since : p[1] \in refresh'.ask \/ p[2] \in refresh'.found
    BY <2>5, <2>6
  <2> QED BY <2>2, <2>4, <2>7
<1>5. CASE Mo!Finish
  <2>1. /\ refresh.on /\ refresh.ask = {} /\ refresh' = Mo!NoRefresh
        /\ catalog' = [set |-> TRUE, models |-> refresh.found] /\ steady' = since
        /\ verdict' = Mo!NoVerdict /\ UNCHANGED <<enabled, offers, since>>
    BY <1>5 DEF Mo!Finish, Mo!Arm
  <2>2. verdict'.is = "none" BY <2>1 DEF Mo!NoVerdict
  <2>3. refresh' \in [on : BOOLEAN, ask : SUBSET CodexKeys, found : SUBSET Models] /\ ~refresh'.on
    BY <2>1 DEF Mo!NoRefresh
  <2>4. catalog' \in [set : BOOLEAN, models : SUBSET Models] /\ catalog'.models = refresh.found
    BY <2>1
  <2> QED BY <2>1, <2>2, <2>3, <2>4
<1>6. CASE Mo!Fails
  <2>1. refresh' \in [on : BOOLEAN, ask : SUBSET CodexKeys, found : SUBSET Models] /\ ~refresh'.on
    BY <1>6 DEF Mo!Fails, Mo!NoRefresh
  <2> QED BY <1>6, <2>1 DEF Mo!Fails
<1>7. CASE Mo!Expire BY <1>7 DEF Mo!Expire
<1>8. ASSUME NEW k \in CodexKeys, NEW on \in BOOLEAN, NEW ms \in SUBSET RelayModels,
             Mo!Change(k, on, ms)
      PROVE  ModelsInv'
  <2>1. /\ enabled' = IF on THEN enabled \cup {k} ELSE enabled \ {k}
        /\ offers' = [offers EXCEPT ![k] = ms]
        /\ steady' \subseteq steady /\ since' = {p \in since : p[1] # k \/ (on /\ p[2] \in ms)}
        /\ verdict' = Mo!NoVerdict /\ UNCHANGED <<catalog, stale, rested, refresh>>
    BY <1>8 DEF Mo!Change
  <2>2. verdict'.is = "none" BY <2>1 DEF Mo!NoVerdict
  <2>3. enabled' \subseteq CodexKeys /\ offers' \in [CodexKeys -> SUBSET RelayModels] BY <2>1
  <2>4. since' \subseteq {p \in CodexKeys \X Models : p[1] \in enabled' /\ p[2] \in offers'[p[1]]}
    <3> SUFFICES ASSUME NEW p \in since'
                 PROVE  p \in CodexKeys \X Models /\ p[1] \in enabled' /\ p[2] \in offers'[p[1]]
      OBVIOUS
    <3>1. p \in since /\ (p[1] # k \/ (on /\ p[2] \in ms)) BY <2>1
    <3>2. p \in CodexKeys \X Models /\ p[1] \in enabled /\ p[2] \in offers[p[1]] BY <3>1
    <3> QED BY <2>1, <3>1, <3>2
  <2> QED BY <2>1, <2>2, <2>3, <2>4
<1>9. CASE UNCHANGED served BY <1>9 DEF served
<1> QED BY <1>1, <1>2, <1>3, <1>4, <1>5, <1>6, <1>7, <1>8, <1>9 DEF Mo!Next

-----------------------------------------------------------------------------
(* The help desk.                                                           *)

TicketType ==
  [status : Su!Statuses, linked : BOOLEAN, key : BOOLEAN, actor : {"user", "admin"},
   updated : Nat, seen : Nat]

\* One ticket: what arrives while its thread is being read is covered, and what
\* is hidden and not covered has been the last word ever since it was written.
DeskShape(t) ==
  /\ ticket[t].seen <= second /\ ticket[t].updated <= second
  /\ displayed[t] <= Len(thread[t]) /\ Len(thread[t]) <= MaxMessages
  /\ Su!Filed(t) =>
       /\ Len(thread[t]) >= 1 /\ ticket[t].actor = thread[t][Len(thread[t])]
       /\ ticket[t].linked \/ ticket[t].key
  /\ ~Su!Filed(t) => reading[t] = Su!NotReading
  /\ reading[t] # Su!NotReading =>
       /\ reading[t] <= Len(thread[t])
       /\ \A i \in 1..Len(thread[t]) :
            i > reading[t] /\ thread[t][i] = "admin" => i \in covered[t]
  /\ \A i \in 1..Len(thread[t]) :
       i > displayed[t] /\ thread[t][i] = "admin" /\ i \notin covered[t] =>
         ticket[t].actor = "admin" /\ ticket[t].updated > ticket[t].seen

DeskType ==
  /\ second \in Nat /\ ticket \in [Tickets -> TicketType]
  /\ thread \in [Tickets -> Seq({"user", "admin"})]
  /\ reading \in [Tickets -> 0..Su!NotReading] /\ displayed \in [Tickets -> Nat]
  /\ covered \in [Tickets -> SUBSET Nat]

DeskInv == DeskType /\ \A t \in Tickets : DeskShape(t)

LEMMA DeskInit == ASSUME Su!Init PROVE DeskInv
<1> USE ServerAssumption DEF Su!SupportAssumption
<1>1. [status |-> "none", linked |-> FALSE, key |-> FALSE, actor |-> "user", updated |-> 0,
       seen |-> 0] \in TicketType
  BY DEF TicketType, Su!Statuses
<1>2. << >> \in Seq({"user", "admin"}) /\ Len(<< >>) = 0 OBVIOUS
<1>3. DeskType BY <1>1, <1>2 DEF Su!Init, DeskType, Su!NotReading
<1>4. ASSUME NEW t \in Tickets PROVE DeskShape(t)
  <2>1. Len(thread[t]) = 0 BY <1>2 DEF Su!Init
  <2> QED BY <2>1 DEF Su!Init, DeskShape, Su!Filed
<1> QED BY <1>3, <1>4 DEF DeskInv

\* A step on one ticket leaves the others as they are.
LEMMA OtherTickets ==
  ASSUME DeskInv, NEW t \in Tickets, second' = second, DeskType', DeskShape(t)',
         \A u \in Tickets \ {t} :
           /\ ticket'[u] = ticket[u] /\ thread'[u] = thread[u] /\ reading'[u] = reading[u]
           /\ displayed'[u] = displayed[u] /\ covered'[u] = covered[u]
  PROVE  DeskInv'
<1>1. ASSUME NEW u \in Tickets \ {t} PROVE DeskShape(u)' BY <1>1 DEF DeskInv, DeskShape, Su!Filed
<1> QED BY <1>1 DEF DeskInv

LEMMA DeskStep == ASSUME DeskInv, Su!Next \/ UNCHANGED desk PROVE DeskInv'
<1> USE ServerAssumption DEF Su!SupportAssumption
<1>1. ASSUME NEW t \in Tickets, NEW signedIn \in BOOLEAN, Su!CreateWithMeta(t, signedIn)
      PROVE  DeskInv'
  <2> DEFINE tk == [status |-> "open", linked |-> signedIn, key |-> ~signedIn,
                    actor |-> "user", updated |-> second, seen |-> 0]
  <2>1. /\ ticket' = [ticket EXCEPT ![t] = tk] /\ thread' = [thread EXCEPT ![t] = <<"user">>]
        /\ displayed' = [displayed EXCEPT ![t] = 1]
        /\ UNCHANGED <<second, reading, covered>> /\ ~Su!Filed(t)
    BY <1>1 DEF Su!CreateWithMeta
  <2>2. tk \in TicketType BY DEF TicketType, Su!Statuses, DeskInv, DeskType
  <2>3. <<"user">> \in Seq({"user", "admin"}) /\ Len(<<"user">>) = 1 OBVIOUS
  <2>4. DeskType'
    <3> HIDE DEF tk
    <3> QED BY <2>1, <2>2, <2>3 DEF DeskInv, DeskType
  <2>5. DeskShape(t)'
    <3>1. ticket'[t] = tk /\ thread'[t] = <<"user">> /\ displayed'[t] = 1 /\ reading'[t] = reading[t]
      BY <2>1 DEF DeskInv, DeskType
    <3>2. reading[t] = Su!NotReading BY <2>1 DEF DeskInv, DeskShape
    <3>3. /\ ticket'[t].seen = 0 /\ ticket'[t].updated = second /\ ticket'[t].status = "open"
          /\ ticket'[t].actor = "user" /\ (ticket'[t].linked \/ ticket'[t].key)
      <4>1. /\ tk.seen = 0 /\ tk.updated = second /\ tk.status = "open" /\ tk.actor = "user"
            /\ tk.linked = signedIn /\ tk.key = ~signedIn
        OBVIOUS
      <4>2. tk.linked \/ tk.key BY ONLY <4>1
      <4> HIDE DEF tk
      <4> QED BY <3>1, <4>1, <4>2
    <3>4. Len(thread'[t]) = 1 /\ thread'[t][1] = "user" BY <3>1
    <3>5. second \in Nat BY DEF DeskInv, DeskType
    <3>6. \A i \in 1..Len(thread'[t]) : ~(i > displayed'[t]) BY <3>1, <3>4
    <3>7. displayed'[t] <= Len(thread'[t]) /\ Len(thread'[t]) <= MaxMessages BY <3>1, <3>4
    <3>8. ticket'[t].actor = thread'[t][Len(thread'[t])] BY <3>3, <3>4
    <3> HIDE DEF tk
    <3>9. ticket'[t].seen <= second' /\ ticket'[t].updated <= second' BY <2>1, <3>3, <3>5
    <3> QED BY ONLY <2>1, <3>1, <3>2, <3>3, <3>4, <3>6, <3>7, <3>8, <3>9 DEF DeskShape, Su!Filed
  <2> QED BY <2>1, <2>4, <2>5, OtherTickets DEF DeskInv, DeskType
<1>2. ASSUME NEW t \in Tickets, Su!LinkAppeal(t) PROVE DeskInv'
  <2>1. /\ ticket' = [ticket EXCEPT ![t].linked = TRUE] /\ Su!Filed(t)
        /\ UNCHANGED <<second, thread, reading, displayed, covered>>
    BY <1>2 DEF Su!LinkAppeal
  <2>2. ticket'[t] = [ticket[t] EXCEPT !.linked = TRUE] /\ ticket'[t] \in TicketType
    BY <2>1 DEF DeskInv, DeskType, TicketType
  <2>3. DeskType' BY <2>1, <2>2 DEF DeskInv, DeskType
  <2>4. /\ ticket'[t].seen = ticket[t].seen /\ ticket'[t].updated = ticket[t].updated
        /\ ticket'[t].status = ticket[t].status /\ ticket'[t].actor = ticket[t].actor
        /\ ticket'[t].linked
    BY <2>2 DEF DeskInv, DeskType, TicketType
  <2>5. DeskShape(t)' BY <2>1, <2>4 DEF DeskInv, DeskShape, Su!Filed
  <2> QED BY <2>1, <2>3, <2>5, OtherTickets DEF DeskInv, DeskType
<1>3. ASSUME NEW t \in Tickets, NEW author \in {"user", "admin"}, Su!Reply(t, author),
             UNCHANGED <<second, reading>>, DeskType
      PROVE  /\ ticket'[t] \in TicketType /\ ticket' \in [Tickets -> TicketType]
             /\ thread' \in [Tickets -> Seq({"user", "admin"})]
             /\ Len(thread'[t]) = Len(thread[t]) + 1 /\ Len(thread'[t]) <= MaxMessages
             /\ Len(thread[t]) \in Nat /\ Su!Filed(t) /\ Su!Filed(t)'
             /\ \A i \in 1..Len(thread[t]) : thread'[t][i] = thread[t][i]
             /\ thread'[t][Len(thread[t]) + 1] = author
             /\ ticket'[t].actor = author /\ ticket'[t].updated = second
             /\ ticket'[t].seen = ticket[t].seen
             /\ (ticket'[t].linked <=> ticket[t].linked) /\ (ticket'[t].key <=> ticket[t].key)
             /\ \A u \in Tickets \ {t} : ticket'[u] = ticket[u] /\ thread'[u] = thread[u]
  <2> DEFINE s == IF author = "admin" THEN "pending" ELSE "open"
  <2>1. /\ ticket' = [ticket EXCEPT ![t].status = s, ![t].actor = author, ![t].updated = second]
        /\ thread' = [thread EXCEPT ![t] = Append(@, author)] /\ Su!Filed(t)
        /\ Len(thread[t]) < MaxMessages
    BY <1>3 DEF Su!Reply
  <2>2. s \in {"pending", "open"} OBVIOUS
  <2> HIDE DEF s
  <2>3. ticket'[t] = [ticket[t] EXCEPT !.status = s, !.actor = author, !.updated = second]
    BY <1>3, <2>1 DEF DeskType
  <2>4. ticket[t] \in TicketType /\ second \in Nat BY <1>3 DEF DeskType
  <2>5. /\ ticket'[t] \in TicketType /\ ticket'[t].status = s /\ ticket'[t].actor = author
        /\ ticket'[t].updated = second /\ ticket'[t].seen = ticket[t].seen
        /\ (ticket'[t].linked <=> ticket[t].linked) /\ (ticket'[t].key <=> ticket[t].key)
    BY <2>2, <2>3, <2>4 DEF TicketType, Su!Statuses
  <2>6. thread[t] \in Seq({"user", "admin"}) /\ thread'[t] = Append(thread[t], author)
    BY <1>3, <2>1 DEF DeskType
  <2>7. ticket' \in [Tickets -> TicketType] /\ thread' \in [Tickets -> Seq({"user", "admin"})]
    BY <1>3, <2>1, <2>5, <2>6 DEF DeskType
  <2>8. \A u \in Tickets \ {t} : ticket'[u] = ticket[u] /\ thread'[u] = thread[u]
    BY <1>3, <2>1 DEF DeskType
  <2>9. Len(thread'[t]) = Len(thread[t]) + 1 /\ Len(thread'[t]) <= MaxMessages
    BY <2>1, <2>6
  <2> QED BY <2>1, <2>2, <2>5, <2>6, <2>7, <2>8, <2>9 DEF Su!Filed
<1>4. ASSUME NEW t \in Tickets, Su!AdminReply(t) PROVE DeskInv'
  <2> DEFINE n == Len(thread[t]) + 1
  <2>1. /\ Su!Reply(t, "admin") /\ UNCHANGED <<second, reading, displayed>>
        /\ covered' = [covered EXCEPT ![t] =
             IF reading[t] # Su!NotReading \/ ticket[t].seen = second THEN @ \cup {n} ELSE @]
    BY <1>4 DEF Su!AdminReply
  <2>2. DeskType /\ DeskShape(t) BY DEF DeskInv
  <2>3. /\ ticket'[t] \in TicketType /\ ticket' \in [Tickets -> TicketType]
        /\ thread' \in [Tickets -> Seq({"user", "admin"})]
        /\ Len(thread'[t]) = n /\ n <= MaxMessages
        /\ Len(thread[t]) \in Nat /\ Su!Filed(t) /\ Su!Filed(t)'
        /\ \A i \in 1..Len(thread[t]) : thread'[t][i] = thread[t][i]
        /\ thread'[t][n] = "admin"
        /\ ticket'[t].actor = "admin" /\ ticket'[t].updated = second
        /\ ticket'[t].seen = ticket[t].seen
        /\ (ticket'[t].linked <=> ticket[t].linked) /\ (ticket'[t].key <=> ticket[t].key)
        /\ \A u \in Tickets \ {t} : ticket'[u] = ticket[u] /\ thread'[u] = thread[u]
    BY <1>3, <2>1, <2>2
  <2> HIDE DEF n
  <2>n. n = Len(thread[t]) + 1 /\ n \in Nat BY <2>3 DEF n
  <2>4. covered' \in [Tickets -> SUBSET Nat] BY <2>1, <2>2, <2>n DEF DeskType
  <2>5. covered'[t] = IF reading[t] # Su!NotReading \/ ticket[t].seen = second
                      THEN covered[t] \cup {n} ELSE covered[t]
    BY <2>1, <2>2 DEF DeskType
  <2>6. DeskType' BY <2>1, <2>2, <2>3, <2>4 DEF DeskType
  <2>7. ticket[t].seen \in Nat /\ ticket[t].updated \in Nat /\ second \in Nat
        /\ displayed[t] \in Nat /\ reading[t] \in Nat
    BY <2>2 DEF DeskType, TicketType, Su!NotReading
  <2>8. ASSUME NEW i \in 1..n, i > displayed[t], thread'[t][i] = "admin", i \notin covered'[t]
        PROVE  second > ticket[t].seen
    <3>1. CASE i = n
      <4>1. ticket[t].seen # second BY <2>5, <2>8, <3>1
      <4>2. ticket[t].seen <= second BY <2>2 DEF DeskShape
      <4> QED BY <2>7, <4>1, <4>2
    <3>2. CASE i # n
      <4>1. i \in 1..Len(thread[t]) /\ i \notin covered[t] /\ thread[t][i] = "admin"
        BY <2>3, <2>5, <2>8, <2>n, <3>2
      <4>2. ticket[t].updated > ticket[t].seen /\ ticket[t].updated <= second
        BY <2>2, <2>8, <4>1 DEF DeskShape
      <4> QED BY <2>7, <4>2
    <3> QED BY <3>1, <3>2
  <2>9. ASSUME reading[t] # Su!NotReading, NEW i \in 1..n, i > reading[t], thread'[t][i] = "admin"
        PROVE  i \in covered'[t]
    <3>1. CASE i = n BY <2>5, <2>9, <3>1
    <3>2. CASE i # n
      <4>1. i \in 1..Len(thread[t]) /\ thread[t][i] = "admin" BY <2>3, <2>9, <2>n, <3>2
      <4> QED BY <2>2, <2>5, <2>9, <4>1 DEF DeskShape
    <3> QED BY <3>1, <3>2
  <2>10. /\ displayed[t] <= n /\ n >= 1 /\ ticket[t].seen <= second
         /\ (reading[t] # Su!NotReading => reading[t] <= n)
         /\ ticket[t].linked \/ ticket[t].key
    BY <2>2, <2>3, <2>7, <2>n DEF DeskShape
  <2>11. DeskShape(t)' BY <2>1, <2>3, <2>7, <2>8, <2>9, <2>10 DEF DeskShape
  <2>12. \A u \in Tickets \ {t} : covered'[u] = covered[u] BY <2>1, <2>2 DEF DeskType
  <2> QED BY <2>1, <2>3, <2>6, <2>11, <2>12, OtherTickets
<1>5. ASSUME NEW t \in Tickets, Su!UserReply(t) PROVE DeskInv'
  <2> DEFINE n == Len(thread[t]) + 1
  <2>1. /\ Su!Reply(t, "user") /\ UNCHANGED <<second, reading, covered>>
        /\ displayed' = [displayed EXCEPT ![t] = n]
    BY <1>5 DEF Su!UserReply
  <2>2. DeskType /\ DeskShape(t) BY DEF DeskInv
  <2>3. /\ ticket'[t] \in TicketType /\ ticket' \in [Tickets -> TicketType]
        /\ thread' \in [Tickets -> Seq({"user", "admin"})]
        /\ Len(thread'[t]) = n /\ n <= MaxMessages
        /\ Len(thread[t]) \in Nat /\ Su!Filed(t) /\ Su!Filed(t)'
        /\ \A i \in 1..Len(thread[t]) : thread'[t][i] = thread[t][i]
        /\ thread'[t][n] = "user"
        /\ ticket'[t].actor = "user" /\ ticket'[t].updated = second
        /\ ticket'[t].seen = ticket[t].seen
        /\ (ticket'[t].linked <=> ticket[t].linked) /\ (ticket'[t].key <=> ticket[t].key)
        /\ \A u \in Tickets \ {t} : ticket'[u] = ticket[u] /\ thread'[u] = thread[u]
    BY <1>3, <2>1, <2>2
  <2> HIDE DEF n
  <2>n. n = Len(thread[t]) + 1 /\ n \in Nat BY <2>3 DEF n
  <2>4. displayed' \in [Tickets -> Nat] /\ displayed'[t] = n
        /\ \A u \in Tickets \ {t} : displayed'[u] = displayed[u]
    BY <2>1, <2>2, <2>n DEF DeskType
  <2>5. DeskType' BY <2>1, <2>2, <2>3, <2>4 DEF DeskType
  <2>6. reading[t] \in Nat BY <2>2 DEF DeskType, Su!NotReading
  <2>7. ASSUME reading[t] # Su!NotReading, NEW i \in 1..n, i > reading[t], thread'[t][i] = "admin"
        PROVE  i \in covered[t]
    <3>1. i # n BY <2>3, <2>7
    <3>2. i \in 1..Len(thread[t]) /\ thread[t][i] = "admin" BY <2>3, <2>7, <2>n, <3>1
    <3> QED BY <2>2, <2>7, <3>2 DEF DeskShape
  <2>8. /\ n >= 1 /\ ticket[t].seen <= second
        /\ (reading[t] # Su!NotReading => reading[t] <= n)
        /\ ticket[t].linked \/ ticket[t].key
    BY <2>2, <2>3, <2>6, <2>n DEF DeskShape
  <2>9. second \in Nat BY <2>2 DEF DeskType
  <2>10. \A i \in 1..Len(thread'[t]) : ~(i > displayed'[t]) BY <2>3, <2>4, <2>n
  <2>11. reading'[t] # Su!NotReading =>
           \A i \in 1..Len(thread'[t]) :
             i > reading'[t] /\ thread'[t][i] = "admin" => i \in covered'[t]
    BY <2>1, <2>3, <2>7
  <2>12. /\ (ticket'[t].linked \/ ticket'[t].key) /\ ticket'[t].seen <= second'
         /\ ticket'[t].updated <= second'
    BY <2>1, <2>3, <2>8, <2>9
  <2>13. /\ displayed'[t] <= Len(thread'[t]) /\ Len(thread'[t]) >= 1
         /\ (reading'[t] # Su!NotReading => reading'[t] <= Len(thread'[t]))
    BY <2>1, <2>3, <2>4, <2>8, <2>n
  <2>14. DeskShape(t)' BY <2>3, <2>10, <2>11, <2>12, <2>13 DEF DeskShape
  <2> QED BY <2>1, <2>3, <2>4, <2>5, <2>14, OtherTickets
<1>6. ASSUME NEW t \in Tickets, NEW s \in Su!Statuses \ {"none"}, Su!SetStatus(t, s)
      PROVE  DeskInv'
  <2>1. /\ ticket' = [ticket EXCEPT ![t].status = s, ![t].updated = second] /\ Su!Filed(t)
        /\ UNCHANGED <<second, thread, reading, displayed, covered>>
    BY <1>6 DEF Su!SetStatus
  <2>2. ticket'[t] = [ticket[t] EXCEPT !.status = s, !.updated = second]
    BY <2>1 DEF DeskInv, DeskType
  <2>3. ticket[t] \in TicketType /\ second \in Nat BY DEF DeskInv, DeskType
  <2>4. /\ ticket'[t].seen = ticket[t].seen /\ ticket'[t].updated = second
        /\ ticket'[t].status # "none" /\ ticket'[t].actor = ticket[t].actor
        /\ (ticket'[t].linked <=> ticket[t].linked) /\ (ticket'[t].key <=> ticket[t].key)
        /\ ticket'[t] \in TicketType /\ ticket[t].seen \in Nat /\ ticket[t].updated \in Nat
    BY <2>2, <2>3 DEF TicketType
  <2>5. DeskType' BY <2>1, <2>4 DEF DeskInv, DeskType
  <2>6. ticket[t].updated <= second /\ (ticket[t].updated > ticket[t].seen => second > ticket[t].seen)
    BY <2>3, <2>4 DEF DeskInv, DeskShape
  <2>7. \A i \in 1..Len(thread'[t]) :
          i > displayed'[t] /\ thread'[t][i] = "admin" /\ i \notin covered'[t] =>
            ticket'[t].actor = "admin" /\ ticket'[t].updated > ticket'[t].seen
    BY <2>1, <2>4, <2>6 DEF DeskInv, DeskShape
  <2>8. DeskShape(t) BY DEF DeskInv
  <2>9. second' = second /\ ticket'[t].seen <= second' /\ ticket'[t].updated <= second'
    BY <2>1, <2>3, <2>4, <2>8 DEF DeskShape
  <2>10. DeskShape(t)' BY <2>1, <2>4, <2>7, <2>8, <2>9 DEF DeskShape, Su!Filed
  <2> QED BY <2>1, <2>5, <2>10, OtherTickets DEF DeskInv, DeskType
<1>7. ASSUME NEW t \in Tickets, Su!GetThread(t) PROVE DeskInv'
  <2>1. /\ reading' = [reading EXCEPT ![t] = Len(thread[t])] /\ Su!Filed(t)
        /\ UNCHANGED <<second, ticket, thread, displayed, covered>>
    BY <1>7 DEF Su!GetThread
  <2>2. Len(thread[t]) \in 0..MaxMessages BY DEF DeskInv, DeskType, DeskShape
  <2>3. DeskType' BY <2>1, <2>2 DEF DeskInv, DeskType, Su!NotReading
  <2>4. reading'[t] = Len(thread[t]) BY <2>1 DEF DeskInv, DeskType
  <2>5. DeskShape(t)' BY <2>1, <2>2, <2>4 DEF DeskInv, DeskShape, Su!Filed
  <2> QED BY <2>1, <2>3, <2>5, OtherTickets DEF DeskInv, DeskType
<1>8. ASSUME NEW t \in Tickets, Su!MarkSeen(t) PROVE DeskInv'
  <2> DEFINE d == IF displayed[t] > reading[t] THEN displayed[t] ELSE reading[t]
  <2>1. /\ reading[t] # Su!NotReading /\ reading' = [reading EXCEPT ![t] = Su!NotReading]
        /\ displayed' = [displayed EXCEPT ![t] = d]
        /\ UNCHANGED <<second, thread, covered>>
    BY <1>8 DEF Su!MarkSeen
  <2>2. DeskType /\ DeskShape(t) BY DEF DeskInv
  <2>3. ticket[t] \in TicketType /\ second \in Nat /\ reading[t] \in Nat /\ displayed[t] \in Nat
        /\ Len(thread[t]) \in Nat
    BY <2>2 DEF DeskType, Su!NotReading
  <2>4. /\ ticket'[t] \in TicketType /\ ticket'[t].seen <= second
        /\ ticket'[t].updated = ticket[t].updated
        /\ ticket'[t].status = ticket[t].status /\ ticket'[t].actor = ticket[t].actor
        /\ (ticket'[t].linked <=> ticket[t].linked) /\ (ticket'[t].key <=> ticket[t].key)
        /\ ticket' \in [Tickets -> TicketType] /\ \A u \in Tickets \ {t} : ticket'[u] = ticket[u]
    <3>1. CASE ticket' = [ticket EXCEPT ![t].seen = second]
      <4>1. ticket'[t] = [ticket[t] EXCEPT !.seen = second] BY <2>2, <3>1 DEF DeskType
      <4>2. /\ ticket'[t].seen = second /\ ticket'[t].updated = ticket[t].updated
            /\ ticket'[t].status = ticket[t].status /\ ticket'[t].actor = ticket[t].actor
            /\ ticket'[t].linked = ticket[t].linked /\ ticket'[t].key = ticket[t].key
            /\ ticket'[t] \in TicketType
        BY <2>3, <4>1 DEF TicketType
      <4>3. ticket' \in [Tickets -> TicketType] /\ \A u \in Tickets \ {t} : ticket'[u] = ticket[u]
        BY <2>2, <3>1, <4>1, <4>2 DEF DeskType
      <4> QED BY <2>3, <4>2, <4>3
    <3>2. CASE UNCHANGED ticket BY <2>2, <2>3, <3>2 DEF DeskType, DeskShape
    <3> QED BY <1>8, <3>1, <3>2 DEF Su!MarkSeen
  <2>5. d \in Nat /\ d >= reading[t] /\ d >= displayed[t] /\ d <= Len(thread[t])
    BY <2>1, <2>2, <2>3 DEF DeskShape
  <2> HIDE DEF d
  <2>6. displayed'[t] = d /\ reading'[t] = Su!NotReading
        /\ displayed' \in [Tickets -> Nat] /\ reading' \in [Tickets -> 0..Su!NotReading]
        /\ \A u \in Tickets \ {t} : displayed'[u] = displayed[u] /\ reading'[u] = reading[u]
    BY <2>1, <2>2, <2>5 DEF DeskType, Su!NotReading
  <2>7. DeskType' BY <2>1, <2>2, <2>4, <2>6 DEF DeskType
  <2>8. \A i \in 1..Len(thread[t]) : i > d /\ thread[t][i] = "admin" => i \in covered[t]
    BY <2>1, <2>2, <2>3, <2>5 DEF DeskShape
  <2>9. DeskShape(t)' BY <2>1, <2>2, <2>3, <2>4, <2>5, <2>6, <2>8 DEF DeskShape, Su!Filed
  <2> QED BY <2>1, <2>4, <2>6, <2>7, <2>9, OtherTickets
<1>9. CASE Su!Tick
  <2>1. second' = second + 1 /\ UNCHANGED <<ticket, thread, reading, displayed, covered>>
    BY <1>9 DEF Su!Tick
  <2>2. DeskType' BY <2>1 DEF DeskInv, DeskType
  <2>3. ASSUME NEW t \in Tickets PROVE DeskShape(t)'
    <3>1. ticket[t] \in TicketType /\ second \in Nat BY DEF DeskInv, DeskType
    <3>2. ticket[t].seen <= second' /\ ticket[t].updated <= second'
      BY <2>1, <3>1 DEF DeskInv, DeskShape, TicketType
    <3> QED BY <2>1, <3>2 DEF DeskInv, DeskShape, Su!Filed
  <2> QED BY <2>2, <2>3 DEF DeskInv
<1>10. CASE UNCHANGED desk BY <1>10 DEF desk, DeskInv, DeskType, DeskShape, Su!Filed
<1> QED BY <1>1, <1>2, <1>4, <1>5, <1>6, <1>7, <1>8, <1>9, <1>10 DEF Su!Next

LEMMA DeskHolds == ASSUME DeskInv PROVE Su!SupportHolds
<1> USE ServerAssumption DEF Su!SupportAssumption
<1> SUFFICES ASSUME NEW t \in Tickets
             PROVE  /\ ticket[t].status \in Su!Statuses
                    /\ ticket[t].seen <= second /\ ticket[t].updated <= second
                    /\ displayed[t] <= Len(thread[t]) /\ reading[t] \in 0..Su!NotReading
                    /\ ticket[t].linked /\ Su!Hidden(t) \ covered[t] # {} => Su!Unread(t)
                    /\ Su!Filed(t) => ticket[t].linked \/ ticket[t].key
                    /\ Su!Filed(t) => ticket[t].actor = thread[t][Len(thread[t])]
  BY DEF Su!SupportHolds, Su!TypeOK, Su!MissedOnlyBehindRead, Su!ReachableByOwner,
         Su!LastActorIsAuthor
<1>1. ticket[t].linked /\ Su!Hidden(t) \ covered[t] # {} => Su!Unread(t)
  BY DEF DeskInv, DeskShape, Su!Hidden, Su!Unread
<1> QED BY <1>1 DEF DeskInv, DeskShape, DeskType, TicketType

-----------------------------------------------------------------------------
(* The fan-out of conversations.                                            *)

FanSlots ==
  {Fa!NoSlot} \cup [via : {"fanout"}, id : Buckets]
    \cup [via : {"relay"}, id : {w.client : w \in Callers}]
    \cup [via : {"window"}, id : {w.window : w \in Callers}]

FanSessions ==
  {<< >>} \cup (FanCreds \X {w.token : w \in Callers} \X FanSlots \X (Fa!Anchors \cup {""}))

FanLast ==
  [turns : 0..MaxChats, slot : FanSlots, cred : FanCreds \cup {"none", "failed"},
   session : FanSessions]

FanType ==
  /\ who \in [Convs -> Callers] /\ opening \in [Convs -> Openings]
  /\ last \in [Convs -> FanLast]
  /\ IsFiniteSet(seen) /\ Cardinality(seen) <= MaxSeen /\ seen \subseteq {w.client : w \in Callers}

\* What conversation c has: a slot that is its caller's, a session named by what
\* tells it apart, and a credential its slot still has unless that failed.
Conversation(c) ==
  LET w == who[c]
      l == last[c] IN
  /\ l.turns = 0 => l.session = << >>
  /\ l.turns > 0 =>
       /\ l.slot.via = "relay" => l.slot.id = w.client /\ Fa!Declared(c)
       /\ Fa!Declared(c) => l.slot.via = "relay"
       /\ Fa!Named(c) => l.slot = Fa!SlotOf(c)
       /\ l.session # << >> /\ l.session[2] = w.token /\ l.session[3] = l.slot
       /\ w.key # "" => l.session[4] = w.key
       /\ w.key = "" => l.session[4] \in {w.meta, ""} \cup Openings
       /\ w.key = "" /\ w.meta = "" /\ ~w.chained => l.session[4] \in Openings
       /\ l.cred # "failed" =>
            <<w.token, l.slot>> \in DOMAIN sticky /\ sticky[<<w.token, l.slot>>] = l.cred

FanInv ==
  /\ FanType
  /\ \A c \in Convs : Conversation(c)
  /\ \A p \in DOMAIN sticky :
       /\ p[2] \in FanSlots /\ sticky[p] \in FanCreds
       /\ p[2].via = "relay" => p[1] \in Trusted
  /\ \A c \in moved \cup strayed : ~Fa!Named(c)

LEMMA FanBounds ==
  MaxChats \in Nat /\ MaxSeen \in Nat /\ "failed" \notin FanCreds /\ IsFiniteSet(Buckets)
BY ServerAssumption DEF Fa!FanoutAssumption, Fa!IsFiniteSet, IsFiniteSet

LEMMA FanBuckets == \A a \in Fa!Anchors \ {""} : Bucket[a] \in Buckets
BY ServerAssumption DEF Fa!FanoutAssumption

LEMMA FanKeys == \A v, w \in Callers : v.key # "" => v.key # w.meta /\ v.key \notin Openings
BY ServerAssumption DEF Fa!FanoutAssumption

LEMMA FanInit == ASSUME Fa!Init PROVE FanInv
<1> USE FanBounds
<1>1. Fa!Fresh \in FanLast
  <2>1. << >> \in FanSessions BY DEF FanSessions
  <2>2. Fa!NoSlot \in FanSlots BY DEF FanSlots
  <2>3. 0 \in 0..MaxChats OBVIOUS
  <2> QED BY <2>1, <2>2, <2>3 DEF Fa!Fresh, FanLast
<1>2. IsFiniteSet({}) /\ Cardinality({}) = 0 BY FS_EmptySet
<1>3. FanType BY <1>1, <1>2 DEF Fa!Init, FanType
<1>4. \A c \in Convs : last[c].turns = 0 BY DEF Fa!Init, Fa!Fresh
<1>5. DOMAIN sticky = {} /\ moved = {} /\ strayed = {} BY DEF Fa!Init
<1>6. ASSUME NEW c \in Convs PROVE Conversation(c)
  <2>1. ~(last[c].turns > 0) /\ last[c].session = << >> BY <1>4 DEF Fa!Init, Fa!Fresh
  <2> QED BY <2>1 DEF Conversation
<1> QED BY <1>3, <1>5, <1>6 DEF FanInv

\* Whatever a caller sends has an anchor and a slot.
LEMMA FanSlot ==
  ASSUME FanType, NEW c \in Convs
  PROVE  /\ \A b \in BOOLEAN : Fa!conversationAnchorOf(c, b) \in Fa!Anchors \cup {""}
         /\ Fa!SlotOf(c) \in FanSlots
         /\ Fa!SlotOf(c).via = "relay" => Fa!SlotOf(c).id = who[c].client /\ Fa!Declared(c)
         /\ Fa!Declared(c) => Fa!SlotOf(c).via = "relay"
<1> USE FanBounds
<1> DEFINE w == who[c]
<1>1. w \in Callers /\ opening[c] \in Openings BY DEF FanType
<1>2. {w.key, w.meta, w.user} \subseteq Fa!Anchors /\ Openings \subseteq Fa!Anchors
  BY <1>1 DEF Fa!Anchors
<1>3. \A b \in BOOLEAN : Fa!conversationAnchorOf(c, b) \in Fa!Anchors \cup {""}
  BY <1>1, <1>2 DEF Fa!conversationAnchorOf
<1>4. CASE Fa!Declared(c)
  <2>1. Fa!SlotOf(c) = [via |-> "relay", id |-> w.client] BY <1>4 DEF Fa!SlotOf
  <2>2. w.client \in {v.client : v \in Callers} BY <1>1
  <2>3. [via |-> "relay", id |-> w.client] \in FanSlots BY <2>2 DEF FanSlots
  <2>4. Fa!SlotOf(c).via = "relay" /\ Fa!SlotOf(c).id = w.client BY <2>1
  <2> QED BY <1>3, <1>4, <2>1, <2>3, <2>4
<1>5. CASE ~Fa!Declared(c) /\ w.window # ""
  <2>1. Fa!SlotOf(c) = [via |-> "window", id |-> w.window] BY <1>5 DEF Fa!SlotOf
  <2>2. w.window \in {v.window : v \in Callers} BY <1>1
  <2>3. [via |-> "window", id |-> w.window] \in FanSlots BY <2>2 DEF FanSlots
  <2>4. Fa!SlotOf(c).via = "window" BY <2>1
  <2> QED BY <1>3, <1>5, <2>1, <2>3, <2>4
<1>6. CASE ~Fa!Declared(c) /\ w.window = ""
  <2>1. Fa!SlotOf(c) = Fa!fanoutSlotID(c) BY <1>6 DEF Fa!SlotOf
  <2> DEFINE a == Fa!conversationAnchorOf(c, TRUE)
  <2>2. a \in Fa!Anchors \cup {""} BY <1>3
  <2>3. Fa!SlotOf(c) = Fa!NoSlot \/ (a # "" /\ Fa!SlotOf(c) = [via |-> "fanout", id |-> Bucket[a]])
    BY <2>1 DEF Fa!fanoutSlotID
  <2> HIDE DEF a
  <2>4. CASE Fa!SlotOf(c) = Fa!NoSlot
    <3>1. Fa!NoSlot \in FanSlots BY DEF FanSlots
    <3>2. Fa!NoSlot.via = "token" BY DEF Fa!NoSlot
    <3> QED BY <1>3, <1>6, <2>4, <3>1, <3>2
  <2>5. CASE a # "" /\ Fa!SlotOf(c) = [via |-> "fanout", id |-> Bucket[a]]
    <3>1. Bucket[a] \in Buckets BY <2>2, <2>5, FanBuckets
    <3>2. [via |-> "fanout", id |-> Bucket[a]] \in FanSlots BY <3>1 DEF FanSlots
    <3>3. [via |-> "fanout", id |-> Bucket[a]].via = "fanout" OBVIOUS
    <3>4. Fa!SlotOf(c) = [via |-> "fanout", id |-> Bucket[a]] BY <2>5
    <3> HIDE DEF a
    <3>5. Fa!SlotOf(c).via = "fanout" BY ONLY <3>3, <3>4
    <3> QED BY <1>3, <1>6, <3>2, <3>4, <3>5
  <2> QED BY <2>3, <2>4, <2>5
<1> QED BY <1>4, <1>5, <1>6

\* The slot of a conversation that has a name depends on its caller only.
LEMMA NamedSlot ==
  ASSUME FanType, NEW c \in Convs, Fa!Named(c), who' = who
  PROVE  Fa!SlotOf(c)' = Fa!SlotOf(c)
BY DEF Fa!Named, Fa!SlotOf, Fa!Declared, Fa!fanoutSlotID, Fa!conversationAnchorOf

LEMMA FanStep == ASSUME FanInv, Fa!Next \/ UNCHANGED slots PROVE FanInv'
<1> USE FanBounds
<1>0. FanType BY DEF FanInv
<1>1. ASSUME NEW c \in Convs, Fa!Turn(c) PROVE FanInv'
  <2> DEFINE w == who[c]
             slot == Fa!SlotOf(c)
             pos == <<w.token, slot>>
             old == last[c]
  <2>1. /\ UNCHANGED <<who, opening, failures>> /\ old.turns < MaxChats
        /\ moved' = IF old.turns > 0 /\ slot # old.slot THEN moved \cup {c} ELSE moved
        /\ seen' = Fa!Noted(c)
    BY <1>1 DEF Fa!Turn
  <2>2. PICK cd \in Fa!Offered(pos) :
          /\ sticky' = [p \in DOMAIN sticky \cup {pos} |-> IF p = pos THEN cd ELSE sticky[p]]
          /\ last' = [last EXCEPT ![c] =
                        [turns |-> old.turns + 1, slot |-> slot, cred |-> cd,
                         session |-> Fa!codexUpstreamSessionID(c, cd, slot)]]
          /\ strayed' = IF Fa!Continues(c) /\ cd # old.cred /\ old.cred # "failed"
                        THEN strayed \cup {c} ELSE strayed
    BY <1>1 DEF Fa!Turn
  <2>3. /\ slot \in FanSlots /\ (slot.via = "relay" => slot.id = w.client /\ Fa!Declared(c))
        /\ (Fa!Declared(c) => slot.via = "relay")
    BY <1>0, FanSlot
  <2>4. cd \in FanCreds /\ (pos \in DOMAIN sticky => cd = sticky[pos])
    BY <2>2 DEF Fa!Offered, FanInv
  <2>5. w \in Callers /\ opening[c] \in Openings /\ old \in FanLast BY <1>0 DEF FanType
  <2> DEFINE a == Fa!conversationAnchorOf(c, FALSE)
             new == [turns |-> old.turns + 1, slot |-> slot, cred |-> cd,
                     session |-> <<cd, w.token, slot, a>>]
  <2>6. a \in Fa!Anchors \cup {""} BY <1>0, FanSlot
  <2>7. last' = [last EXCEPT ![c] = new] BY <2>2 DEF Fa!codexUpstreamSessionID
  <2>8. /\ w.key # "" => a = w.key
        /\ w.key = "" => a \in {w.meta, ""} \cup Openings
        /\ w.key = "" /\ w.meta = "" /\ ~w.chained => a \in Openings
    BY <2>5 DEF Fa!conversationAnchorOf, Fa!Continues
  <2>9. Fa!Continues(c) => old.turns > 0 BY DEF Fa!Continues
  <2>10. old.turns + 1 \in 0..MaxChats /\ old.turns + 1 > 0
    <3>1. old.turns \in 0..MaxChats BY <2>5 DEF FanLast
    <3> QED BY <2>1, <3>1
  <2>11. Conversation(c) BY DEF FanInv
  <2> HIDE DEF slot, a
  <2>12. new \in FanLast
    <3>1. w.token \in {v.token : v \in Callers} BY <2>5
    <3>2. <<cd, w.token, slot, a>>
            \in FanCreds \X {v.token : v \in Callers} \X FanSlots \X (Fa!Anchors \cup {""})
      BY <2>3, <2>4, <2>6, <3>1
    <3>3. <<cd, w.token, slot, a>> \in FanSessions BY <3>2 DEF FanSessions
    <3> QED BY <2>3, <2>4, <2>10, <3>3 DEF FanLast
  <2>13. /\ new.turns > 0 /\ new.turns # 0 /\ new.slot = slot /\ new.cred = cd
         /\ new.session = <<cd, w.token, slot, a>>
    BY <2>10
  <2> HIDE DEF new, old, w
  <2>14. /\ last' \in [Convs -> FanLast] /\ last'[c] = new
         /\ \A d \in Convs \ {c} : last'[d] = last[d]
    BY <1>0, <2>7, <2>12 DEF FanType
  <2>15. FanType'
    <3>1. IsFiniteSet(seen') /\ Cardinality(seen') <= MaxSeen
      <4>1. CASE seen' = seen BY <1>0, <4>1 DEF FanType
      <4>2. CASE Cardinality(seen) < MaxSeen /\ seen' = seen \cup {w.client}
        <5>1. /\ IsFiniteSet(seen') /\ Cardinality(seen) \in Nat
              /\ (Cardinality(seen') = Cardinality(seen) \/ Cardinality(seen') = Cardinality(seen) + 1)
          BY <1>0, <4>2, FS_AddElement, FS_CardinalityType DEF FanType
        <5> QED BY <4>2, <5>1
      <4> QED BY <2>1, <4>1, <4>2 DEF Fa!Noted, w, Fa!Cardinality, Cardinality
    <3>2. seen' \subseteq {v.client : v \in Callers}
      BY <1>0, <2>1, <2>5 DEF Fa!Noted, w, FanType
    <3> QED BY <1>0, <2>1, <2>14, <3>1, <3>2 DEF FanType
  <2>16. \A d \in Convs : who'[d] = who[d] /\ (Fa!Declared(d)' <=> Fa!Declared(d)) /\ (Fa!Named(d)' <=> Fa!Named(d))
    BY <2>1 DEF Fa!Declared, Fa!Named
  <2>17. pos \in DOMAIN sticky' /\ sticky'[pos] = cd
         /\ DOMAIN sticky' = DOMAIN sticky \cup {pos}
         /\ \A p \in DOMAIN sticky : sticky'[p] = sticky[p]
    BY <2>2, <2>4
  <2>18. Conversation(c)'
    <3>1. Fa!Named(c) => Fa!SlotOf(c)' = slot BY <1>0, <2>1, NamedSlot DEF slot
    <3>2. <<cd, w.token, slot, a>> # << >> /\ <<cd, w.token, slot, a>>[2] = w.token
          /\ <<cd, w.token, slot, a>>[3] = slot /\ <<cd, w.token, slot, a>>[4] = a
      OBVIOUS
    <3>3. who'[c] = w BY <2>1 DEF w
    <3> QED BY <2>3, <2>8, <2>13, <2>14, <2>16, <2>17, <3>1, <3>2, <3>3 DEF Conversation
  <2>19. ASSUME NEW d \in Convs \ {c} PROVE Conversation(d)'
    <3>1. Conversation(d) /\ last'[d] = last[d] /\ who'[d] = who[d] BY <2>1, <2>14 DEF FanInv
    <3>2. Fa!Named(d) => Fa!SlotOf(d)' = Fa!SlotOf(d) BY <1>0, <2>1, NamedSlot
    <3> QED BY <2>16, <2>17, <3>1, <3>2 DEF Conversation
  <2>20. \A p \in DOMAIN sticky' :
           /\ p[2] \in FanSlots /\ sticky'[p] \in FanCreds
           /\ p[2].via = "relay" => p[1] \in Trusted
    <3>1. pos[1] = w.token /\ pos[2] = slot OBVIOUS
    <3>2. slot.via = "relay" => w.token \in Trusted BY <2>3 DEF Fa!Declared, w
    <3> QED BY <2>3, <2>4, <2>17, <3>1, <3>2 DEF FanInv
  <2>21. Fa!Named(c) => c \notin moved' \cup strayed'
    <3> SUFFICES ASSUME Fa!Named(c) PROVE c \notin moved' \cup strayed' OBVIOUS
    <3>1. c \notin moved \cup strayed BY DEF FanInv
    <3>2. old.turns > 0 => old.slot = slot
          /\ (old.cred # "failed" => pos \in DOMAIN sticky /\ sticky[pos] = old.cred)
      BY <2>11 DEF Conversation, old, slot, w
    <3>3. c \notin moved' BY <2>1, <3>1, <3>2
    <3>4. c \notin strayed' BY <2>2, <2>4, <2>9, <3>1, <3>2
    <3> QED BY <3>3, <3>4
  <2>22. \A d \in moved' \cup strayed' : ~Fa!Named(d)'
    <3>1. moved' \cup strayed' \subseteq moved \cup strayed \cup {c} BY <2>1, <2>2
    <3>2. \A d \in moved \cup strayed : ~Fa!Named(d) BY DEF FanInv
    <3>3. \A d : Fa!Named(d)' <=> Fa!Named(d) BY <2>1 DEF Fa!Named, Fa!Declared
    <3> QED BY <2>21, <3>1, <3>2, <3>3
  <2> QED BY <2>15, <2>18, <2>19, <2>20, <2>22 DEF FanInv
<1>2. ASSUME NEW c \in Convs, Fa!Compact(c) PROVE FanInv'
  <2>1. /\ opening' \in [Convs -> Openings]
        /\ UNCHANGED <<who, last, sticky, seen, failures, moved, strayed>>
    BY <1>0, <1>2 DEF Fa!Compact, FanType
  <2>2. FanType' BY <1>0, <2>1 DEF FanType
  <2>3. ASSUME NEW d \in Convs PROVE Conversation(d)'
    <3>1. Fa!Named(d) => Fa!SlotOf(d)' = Fa!SlotOf(d) BY <1>0, <2>1, NamedSlot
    <3> QED BY <2>1, <3>1 DEF FanInv, Conversation, Fa!Named, Fa!Declared
  <2> QED BY <2>1, <2>2, <2>3 DEF FanInv, Fa!Named, Fa!Declared
<1>3. ASSUME NEW cd \in FanCreds, Fa!Fail(cd) PROVE FanInv'
  <2>1. /\ sticky' = [p \in {q \in DOMAIN sticky : sticky[q] # cd} |-> sticky[p]]
        /\ last' = [d \in Convs |-> IF last[d].cred = cd THEN [last[d] EXCEPT !.cred = "failed"]
                                   ELSE last[d]]
        /\ UNCHANGED <<who, opening, seen, moved, strayed>>
    BY <1>3 DEF Fa!Fail
  <2>2. ASSUME NEW d \in Convs
        PROVE  /\ last'[d] \in FanLast /\ last'[d].turns = last[d].turns
               /\ last'[d].slot = last[d].slot /\ last'[d].session = last[d].session
               /\ last'[d].cred = (IF last[d].cred = cd THEN "failed" ELSE last[d].cred)
    <3>1. last[d] \in FanLast BY <1>0 DEF FanType
    <3>2. CASE last[d].cred = cd
      <4>1. last'[d] = [last[d] EXCEPT !.cred = "failed"] BY <2>1, <3>2
      <4> QED BY <3>1, <3>2, <4>1 DEF FanLast
    <3>3. CASE last[d].cred # cd BY <2>1, <3>1, <3>3
    <3> QED BY <3>2, <3>3
  <2>3. last' \in [Convs -> FanLast] BY <2>1, <2>2
  <2>4. FanType' BY <1>0, <2>1, <2>3 DEF FanType
  <2>5. ASSUME NEW d \in Convs PROVE Conversation(d)'
    <3>1. Fa!Named(d) => Fa!SlotOf(d)' = Fa!SlotOf(d) BY <1>0, <2>1, NamedSlot
    <3>2. Conversation(d) BY DEF FanInv
    <3>3. last[d].turns > 0 /\ last'[d].cred # "failed" =>
            <<who[d].token, last[d].slot>> \in DOMAIN sticky'
            /\ sticky'[<<who[d].token, last[d].slot>>] = last'[d].cred
      BY <2>1, <2>2, <3>2 DEF Conversation
    <3> QED BY <2>1, <2>2, <3>1, <3>2, <3>3 DEF Conversation, Fa!Named, Fa!Declared
  <2>6. \A p \in DOMAIN sticky' : p \in DOMAIN sticky /\ sticky'[p] = sticky[p] BY <2>1
  <2> QED BY <2>1, <2>4, <2>5, <2>6 DEF FanInv, Fa!Named, Fa!Declared
<1>4. CASE UNCHANGED slots
  <2>1. UNCHANGED <<who, opening, last, sticky, seen, failures, moved, strayed>> BY <1>4 DEF slots
  <2>2. FanType' BY <1>0, <2>1 DEF FanType
  <2>3. ASSUME NEW d \in Convs PROVE Conversation(d)'
    <3>1. Fa!Named(d) => Fa!SlotOf(d)' = Fa!SlotOf(d) BY <1>0, <2>1, NamedSlot
    <3> QED BY <2>1, <3>1 DEF FanInv, Conversation, Fa!Named, Fa!Declared
  <2> QED BY <2>1, <2>2, <2>3 DEF FanInv, Fa!Named, Fa!Declared
<1> QED BY <1>1, <1>2, <1>3, <1>4 DEF Fa!Next

LEMMA FanHolds == ASSUME FanInv PROVE Fa!FanoutHolds
<1> USE FanBounds
<1>0. FanType BY DEF FanInv
<1>1. Fa!TypeOK
  <2>1. \A c \in Convs : last[c].turns \in 0..MaxChats BY <1>0 DEF FanType, FanLast
  <2> QED BY <1>0, <2>1 DEF Fa!TypeOK, FanType, Fa!Cardinality, Cardinality
<1>2. Fa!NamedStayPut BY DEF FanInv, Fa!NamedStayPut
<1>3. ASSUME NEW t \in {who[c].token : c \in Convs} \ Trusted
      PROVE  LET set == {p[2] : p \in {q \in DOMAIN sticky : q[1] = t /\ q[2].via # "window"}}
             IN  /\ Cardinality(set) <= Cardinality(Buckets) + 1
                 /\ \A s \in set : s.via # "relay"
  <2> DEFINE set == {p[2] : p \in {q \in DOMAIN sticky : q[1] = t /\ q[2].via # "window"}}
             fan == {[via |-> "fanout", id |-> b] : b \in Buckets}
  <2>1. IsFiniteSet(fan) /\ Cardinality(fan) <= Cardinality(Buckets)
    <3> DEFINE f == [b \in Buckets |-> [via |-> "fanout", id |-> b]]
    <3>1. f \in [Buckets -> fan] /\ \A s \in fan : \E b \in Buckets : f[b] = s OBVIOUS
    <3>2. f \in Surjection(Buckets, fan) BY <3>1 DEF Surjection
    <3> HIDE DEF f, fan
    <3> QED BY <3>2, FS_Surjection
  <2>2. /\ IsFiniteSet(fan \cup {Fa!NoSlot})
        /\ Cardinality(fan \cup {Fa!NoSlot}) <= Cardinality(Buckets) + 1
    <3> HIDE DEF fan
    <3>1. Cardinality(fan) \in Nat /\ Cardinality(Buckets) \in Nat BY <2>1, FS_CardinalityType
    <3>2. /\ IsFiniteSet(fan \cup {Fa!NoSlot})
          /\ \/ Cardinality(fan \cup {Fa!NoSlot}) = Cardinality(fan)
             \/ Cardinality(fan \cup {Fa!NoSlot}) = Cardinality(fan) + 1
      BY <2>1, FS_AddElement
    <3> QED BY <2>1, <3>1, <3>2
  <2>3. ASSUME NEW s \in set PROVE s.via # "relay" /\ s \in fan \cup {Fa!NoSlot}
    <3>1. PICK p \in DOMAIN sticky : p[1] = t /\ p[2].via # "window" /\ s = p[2] OBVIOUS
    <3>2. s \in FanSlots /\ s.via # "relay" BY <3>1 DEF FanInv
    <3>3. s \in {Fa!NoSlot} \cup [via : {"fanout"}, id : Buckets] BY <3>1, <3>2 DEF FanSlots
    <3> QED BY <3>2, <3>3
  <2>4. Cardinality(set) <= Cardinality(fan \cup {Fa!NoSlot})
    BY <2>2, <2>3, FS_Subset
  <2>5. IsFiniteSet(set) BY <2>2, <2>3, FS_Subset
  <2>6. Cardinality(set) \in Nat /\ Cardinality(fan \cup {Fa!NoSlot}) \in Nat
        /\ Cardinality(Buckets) \in Nat
    BY <2>2, <2>5, FS_CardinalityType
  <2> HIDE DEF set, fan
  <2> QED BY <2>2, <2>3, <2>4, <2>6 DEF set
<1>4. Fa!SlotsBounded BY <1>3 DEF Fa!SlotsBounded, Fa!Cardinality, Cardinality
<1>5. ASSUME NEW c \in Convs, NEW d \in Convs, c # d, last[c].session = last[d].session,
             last[c].turns > 0
      PROVE  /\ who[c].token = who[d].token /\ last[c].slot = last[d].slot
             /\ who[c].key = who[d].key
             /\ Fa!Declared(c) => who[c].client = who[d].client
             /\ who[c].key = "" /\ who[c].meta = "" /\ ~who[c].chained /\ ~who[d].chained =>
                  last[c].session[4] \in Openings
  <2>1. who[c] \in Callers /\ who[d] \in Callers BY <1>0 DEF FanType
  <2>2. Conversation(c) /\ Conversation(d) BY DEF FanInv
  <2>3. last[d].turns > 0
    <3>1. last[d].session # << >> BY <1>5, <2>2 DEF Conversation
    <3>2. last[d].turns \in Nat BY <1>0 DEF FanType, FanLast
    <3>3. last[d].turns # 0 BY <2>2, <3>1 DEF Conversation
    <3> QED BY <3>2, <3>3
  <2>4. /\ who[c].key # "" => who[c].key # who[d].meta /\ who[c].key \notin Openings
        /\ who[d].key # "" => who[d].key # who[c].meta /\ who[d].key \notin Openings
    BY <2>1, FanKeys
  <2>5. /\ last[c].session[2] = who[c].token /\ last[c].session[3] = last[c].slot
        /\ who[c].key # "" => last[c].session[4] = who[c].key
        /\ who[c].key = "" => last[c].session[4] \in {who[c].meta, ""} \cup Openings
        /\ who[c].key = "" /\ who[c].meta = "" /\ ~who[c].chained =>
             last[c].session[4] \in Openings
        /\ Fa!Declared(c) => last[c].slot.via = "relay" /\ last[c].slot.id = who[c].client
    BY <1>5, <2>2 DEF Conversation
  <2>6. /\ last[d].session[2] = who[d].token /\ last[d].session[3] = last[d].slot
        /\ who[d].key # "" => last[d].session[4] = who[d].key
        /\ who[d].key = "" => last[d].session[4] \in {who[d].meta, ""} \cup Openings
        /\ last[d].slot.via = "relay" => last[d].slot.id = who[d].client
    BY <2>2, <2>3 DEF Conversation
  <2>7. who[c].token = who[d].token /\ last[c].slot = last[d].slot BY <1>5, <2>5, <2>6
  <2>8. who[c].key = who[d].key BY <1>5, <2>4, <2>5, <2>6
  <2>9. Fa!Declared(c) => who[c].client = who[d].client BY <2>5, <2>6, <2>7
  <2> QED BY <2>5, <2>7, <2>8, <2>9
<1>6. Fa!SessionsApart BY <1>5 DEF Fa!SessionsApart
<1> QED BY <1>1, <1>2, <1>4, <1>6 DEF Fa!FanoutHolds

-----------------------------------------------------------------------------
(* The credential files and the pool.                                       *)

Content == [kind : {"none", "oauth", "key"}, acct : Holders \cup {"none"}, edit : Nat]

\* What may stand under a name.
Fits(n, c) ==
  c \in Content /\ (n \in OAuthNames => c.kind = "oauth") /\ (n \in KeyNames => c.kind = "key")

Jobs ==
  [op : {"none", "patch", "refresh", "delete", "upload", "login", "key"},
   stage : {"idle", "edited", "persisted", "removed", "installed"},
   name : Cr!Names \cup {"none"}, obj : Nat, old : Content]

CredType ==
  /\ file \in [Cr!Names -> Content] /\ heap \in Seq(Content) /\ pool \in [Cr!Names -> Nat]
  /\ job \in [Editors -> Jobs] /\ locked \in BOOLEAN /\ overlapped \subseteq Cr!Names
  /\ \A n \in Cr!Names :
       /\ file[n] = Cr!None \/ Fits(n, file[n])
       /\ pool[n] # 0 => pool[n] \in 1..Len(heap) /\ Fits(n, heap[pool[n]])

On(h, n) == job[h].stage # "idle" /\ job[h].name = n

JobOK(h) ==
  LET j == job[h] IN
  j.stage # "idle" =>
    /\ j.name \in Cr!Names /\ (j.old = Cr!None \/ Fits(j.name, j.old))
    /\ j.stage # "removed" => j.obj \in 1..Len(heap) /\ Fits(j.name, heap[j.obj])
    /\ j.stage = "persisted" => j.op = "patch" /\ heap[j.obj].kind = "key"
    /\ j.op \in {"upload", "login"} => j.name \in OAuthNames
    /\ j.op = "key" => j.name \in KeyNames

\* An object is one credential's, or is still to be put in the pool by one job.
Owned ==
  /\ \A m, n \in Cr!Names : pool[m] = pool[n] /\ pool[m] # 0 => m = n
  /\ \A h \in Editors : job[h].stage = "installed" =>
       /\ \A n \in Cr!Names : pool[n] # job[h].obj
       /\ \A g \in Editors :
            g # h /\ job[g].stage = "installed" => job[g].obj # job[h].obj

\* No account is in the pool twice.
Distinct ==
  \A m, n \in OAuthNames : m # n /\ pool[m] # 0 /\ pool[n] # 0 =>
    heap[pool[m]].acct # heap[pool[n]].acct

\* How far the only handler at work on n has come.
Progress(h, n) ==
  LET j == job[h] IN
  /\ j.stage \in {"edited", "persisted"} => j.obj = pool[n] /\ pool[n] # 0
  /\ j.stage = "persisted" => file[n] = heap[pool[n]]
  /\ j.stage = "removed" => pool[n] = 0
  /\ j.stage = "installed" => file[n] = heap[j.obj]
  /\ j.stage = "installed" /\ j.op = "upload" => j.old = Cr!Contents(n)
  /\ j.stage = "installed" /\ j.op = "login" /\ pool[n] # 0 =>
       heap[pool[n]].acct = heap[j.obj].acct

InStep(n) ==
  n \notin overlapped =>
    /\ \A g, h \in Editors : On(g, n) /\ On(h, n) => g = h
    /\ \A h \in Editors : On(h, n) => Progress(h, n)
    /\ (\A h \in Editors : ~On(h, n)) => file[n] = Cr!Contents(n)

CredInv ==
  /\ CredType /\ Owned /\ Distinct
  /\ \A h \in Editors : JobOK(h)
  /\ \A n \in Cr!Names : InStep(n)

LEMMA CredNames == OAuthNames \cap KeyNames = {} /\ Cr!Names = OAuthNames \cup KeyNames
BY ServerAssumption DEF Cr!CredentialsAssumption, Cr!Names

LEMMA CredInit == ASSUME Cr!Init PROVE CredInv
<1>1. /\ file = [n \in Cr!Names |-> Cr!None] /\ heap = << >> /\ pool = [n \in Cr!Names |-> 0]
      /\ job = [h \in Editors |-> Cr!Idle] /\ locked = FALSE /\ overlapped = {}
  BY DEF Cr!Init
<1>2. Cr!None \in Content BY DEF Cr!None, Content
<1>3. Cr!Idle \in Jobs /\ Cr!Idle.stage = "idle" BY <1>2 DEF Cr!Idle, Jobs
<1>4. << >> \in Seq(Content) OBVIOUS
<1>5. CredType BY <1>1, <1>2, <1>3, <1>4 DEF CredType
<1>6. Owned /\ Distinct BY <1>1, <1>3, CredNames DEF Owned, Distinct
<1>7. \A h \in Editors : JobOK(h) /\ \A n \in Cr!Names : ~On(h, n) BY <1>1, <1>3 DEF JobOK, On
<1>8. \A n \in Cr!Names : InStep(n)
  <2> SUFFICES ASSUME NEW n \in Cr!Names PROVE InStep(n) OBVIOUS
  <2>1. file[n] = Cr!Contents(n) BY <1>1 DEF Cr!Contents
  <2> QED BY <1>7, <2>1 DEF InStep
<1> QED BY <1>5, <1>6, <1>7, <1>8 DEF CredInv

\* An edit of an object, and a new object.
LEMMA HeapEdit ==
  ASSUME heap \in Seq(Content), NEW o \in 1..Len(heap), heap' = [heap EXCEPT ![o].edit = @ + 1]
  PROVE  /\ heap' \in Seq(Content) /\ Len(heap') = Len(heap)
         /\ \A i \in 1..Len(heap) :
              /\ heap'[i] \in Content /\ heap'[i].kind = heap[i].kind /\ heap'[i].acct = heap[i].acct
              /\ i # o => heap'[i] = heap[i]
<1> DEFINE e == [heap[o] EXCEPT !.edit = @ + 1]
<1>1. heap[o] \in Content BY ElementOfSeq
<1>2. e \in Content /\ e.kind = heap[o].kind /\ e.acct = heap[o].acct
  <2> DEFINE c == heap[o]
             k == c.edit + 1
  <2>1. k \in Nat /\ e = [c EXCEPT !.edit = k] BY <1>1 DEF Content
  <2>2. c \in Content BY <1>1
  <2> HIDE DEF c, k
  <2>3. [c EXCEPT !.edit = k] \in Content /\ [c EXCEPT !.edit = k].kind = c.kind
        /\ [c EXCEPT !.edit = k].acct = c.acct
    BY <2>1, <2>2 DEF Content
  <2> QED BY <2>1, <2>3 DEF c
<1>3. heap' = [heap EXCEPT ![o] = e] OBVIOUS
<1> HIDE DEF e
<1>4. /\ heap' \in Seq(Content) /\ Len(heap') = Len(heap)
      /\ \A i \in 1..Len(heap) : heap'[i] = IF i = o THEN e ELSE heap[i]
  BY <1>2, <1>3, ExceptSeq
<1>5. \A i \in 1..Len(heap) : heap[i] \in Content BY ElementOfSeq
<1> QED BY <1>2, <1>4, <1>5

LEMMA HeapNew ==
  ASSUME heap \in Seq(Content), NEW c \in Content, heap' = Append(heap, c)
  PROVE  /\ heap' \in Seq(Content) /\ Len(heap') = Len(heap) + 1 /\ Len(heap) \in Nat
         /\ heap'[Len(heap) + 1] = c
         /\ \A i \in 1..Len(heap) : heap'[i] = heap[i] /\ i \in 1..Len(heap') /\ i # Len(heap) + 1
<1>1. Len(heap) \in Nat BY LenProperties
<1>2. /\ heap' \in Seq(Content) /\ Len(heap') = Len(heap) + 1 /\ heap'[Len(heap) + 1] = c
      /\ \A i \in 1..Len(heap) : heap'[i] = heap[i]
  BY AppendProperties
<1> QED BY <1>1, <1>2

LEMMA CredBegin ==
  ASSUME CredInv, NEW h \in Editors, NEW n \in Cr!Names, NEW obj \in Nat,
         NEW op \in {"patch", "refresh", "delete", "upload", "login", "key"},
         NEW st \in {"edited", "removed", "installed"},
         Cr!Begin(h, op, n, st, obj)
  PROVE  /\ job' \in [Editors -> Jobs] /\ locked' \in BOOLEAN /\ overlapped' \subseteq Cr!Names
         /\ job[h].stage = "idle"
         /\ job'[h].op = op /\ job'[h].stage = st /\ job'[h].name = n
         /\ job'[h].obj = obj /\ job'[h].old = file[n]
         /\ \A g \in Editors \ {h} : job'[g] = job[g]
         /\ overlapped' \ {n} = overlapped \ {n}
         /\ n \notin overlapped' => n \notin overlapped /\ file[n] = Cr!Contents(n)
              /\ \A g \in Editors : ~On(g, n)
<1> DEFINE new == [op |-> op, stage |-> st, name |-> n, obj |-> obj, old |-> file[n]]
<1>1. /\ job[h].stage = "idle" /\ job' = [job EXCEPT ![h] = new]
      /\ locked' = (locked \/ op \in Cr!Locked)
      /\ overlapped' = IF Cr!Busy(n) THEN overlapped \cup {n} ELSE overlapped
  BY DEF Cr!Begin
<1>2. CredType BY DEF CredInv
<1>3. new \in Jobs BY <1>2 DEF Jobs, CredType
<1>4. new.op = op /\ new.stage = st /\ new.name = n /\ new.obj = obj /\ new.old = file[n]
  OBVIOUS
<1> HIDE DEF new
<1>5. job' \in [Editors -> Jobs] /\ job'[h] = new /\ \A g \in Editors \ {h} : job'[g] = job[g]
  BY <1>1, <1>2, <1>3 DEF CredType
<1>6. locked' \in BOOLEAN
  <2>1. CASE op \in Cr!Locked BY <1>1, <2>1
  <2>2. CASE op \notin Cr!Locked
    <3>1. locked' = locked BY <1>1, <1>2, <2>2 DEF CredType
    <3> QED BY <1>2, <3>1 DEF CredType
  <2> QED BY <2>1, <2>2
<1>7. overlapped' \subseteq Cr!Names /\ overlapped' \ {n} = overlapped \ {n}
      /\ (n \notin overlapped' => n \notin overlapped /\ ~Cr!Busy(n))
  BY <1>1, <1>2 DEF CredType
<1>8. ~Cr!Busy(n) => \A g \in Editors : ~On(g, n) BY DEF Cr!Busy, On
<1>9. n \notin overlapped /\ (\A g \in Editors : ~On(g, n)) => file[n] = Cr!Contents(n)
  BY DEF CredInv, InStep
<1> QED BY <1>1, <1>4, <1>5, <1>6, <1>7, <1>8, <1>9

LEMMA CredEnd ==
  ASSUME CredInv, NEW h \in Editors, Cr!End(h), job[h].stage # "idle", NEW n, n = job[h].name
  PROVE  /\ job' \in [Editors -> Jobs] /\ locked' \in BOOLEAN /\ overlapped' = overlapped
         /\ job'[h].stage = "idle" /\ n \in Cr!Names
         /\ \A g \in Editors \ {h} : job'[g] = job[g]
         /\ n \notin overlapped => \A g \in Editors : ~On(g, n)'
<1>1. /\ job' = [job EXCEPT ![h] = Cr!Idle] /\ overlapped' = overlapped
      /\ locked' = (locked /\ job[h].op \notin Cr!Locked)
  BY DEF Cr!End
<1>2. CredType BY DEF CredInv
<1>3. Cr!Idle \in Jobs /\ Cr!Idle.stage = "idle" BY DEF Cr!Idle, Jobs, Cr!None, Content
<1>4. job' \in [Editors -> Jobs] /\ job'[h] = Cr!Idle /\ \A g \in Editors \ {h} : job'[g] = job[g]
  BY <1>1, <1>2, <1>3 DEF CredType
<1>5. locked' \in BOOLEAN BY <1>1, <1>2 DEF CredType
<1>6. job[h].name \in Cr!Names BY DEF CredInv, JobOK
<1>7. ASSUME n \notin overlapped, NEW g \in Editors PROVE ~On(g, n)'
  <2>1. CASE g = h BY <1>1, <1>3, <1>4, <2>1 DEF On
  <2>2. CASE g # h
    <3>1. job'[g] = job[g] BY <1>4, <2>2
    <3>2. On(h, n) BY DEF On
    <3>3. ~On(g, n) BY <1>6, <1>7, <2>2, <3>2 DEF CredInv, InStep
    <3> QED BY <3>1, <3>3 DEF On
  <2> QED BY <2>1, <2>2
<1> QED BY <1>1, <1>3, <1>4, <1>5, <1>6, <1>7

\* A step on n leaves the other names as they are.
Elsewhere(g, n) == job[g].stage # "idle" /\ job[g].name # n

LEMMA CredFrame ==
  ASSUME CredInv, NEW n \in Cr!Names, CredType', Owned', Distinct',
         \A h \in Editors : JobOK(h)', InStep(n)', overlapped' \ {n} = overlapped \ {n},
         \A m \in Cr!Names \ {n} :
           /\ file'[m] = file[m] /\ pool'[m] = pool[m]
           /\ pool[m] # 0 => heap'[pool[m]] = heap[pool[m]],
         \A g \in Editors :
           Elsewhere(g, n) \/ Elsewhere(g, n)' =>
             job'[g] = job[g] /\ (job[g].stage = "installed" => heap'[job[g].obj] = heap[job[g].obj])
  PROVE  CredInv'
<1>1. ASSUME NEW m \in Cr!Names \ {n} PROVE InStep(m)'
  <2>1. Cr!Contents(m)' = Cr!Contents(m) BY DEF Cr!Contents
  <2>2. \A g \in Editors : On(g, m)' <=> On(g, m) BY DEF On, Elsewhere
  <2>3. \A g \in Editors : On(g, m) =>
          job'[g] = job[g] /\ (job[g].stage = "installed" => heap'[job[g].obj] = heap[job[g].obj])
    BY DEF On, Elsewhere
  <2>4. ASSUME NEW g \in Editors, On(g, m), Progress(g, m) PROVE Progress(g, m)'
    BY <2>1, <2>3, <2>4 DEF Progress
  <2>5. m \in overlapped' <=> m \in overlapped OBVIOUS
  <2> QED BY <2>1, <2>2, <2>4, <2>5 DEF CredInv, InStep
<1> QED BY <1>1 DEF CredInv

\* A credential in the pool is edited: by handlePatchAuth, or by a refresh.
LEMMA CredEdit ==
  ASSUME CredInv, NEW h \in Editors, NEW n \in Cr!Names, NEW op \in {"patch", "refresh"},
         pool[n] # 0, Cr!Begin(h, op, n, "edited", pool[n]),
         heap' = [heap EXCEPT ![pool[n]].edit = @ + 1], UNCHANGED <<file, pool>>
  PROVE  CredInv'
<1>1. CredType /\ Owned /\ Distinct /\ \A g \in Editors : JobOK(g) BY DEF CredInv
<1> DEFINE o == pool[n]
<1>2. o \in 1..Len(heap) /\ Fits(n, heap[o]) /\ o \in Nat BY <1>1 DEF CredType
<1>3. /\ heap' \in Seq(Content) /\ Len(heap') = Len(heap)
      /\ \A i \in 1..Len(heap) :
           /\ heap'[i] \in Content /\ heap'[i].kind = heap[i].kind /\ heap'[i].acct = heap[i].acct
           /\ i # o => heap'[i] = heap[i]
  BY <1>1, <1>2, HeapEdit DEF CredType
<1>4. /\ job' \in [Editors -> Jobs] /\ locked' \in BOOLEAN /\ overlapped' \subseteq Cr!Names
      /\ job[h].stage = "idle"
      /\ job'[h].op = op /\ job'[h].stage = "edited" /\ job'[h].name = n
      /\ job'[h].obj = o /\ job'[h].old = file[n]
      /\ \A g \in Editors \ {h} : job'[g] = job[g]
      /\ overlapped' \ {n} = overlapped \ {n}
      /\ n \notin overlapped' => n \notin overlapped /\ file[n] = Cr!Contents(n)
           /\ \A g \in Editors : ~On(g, n)
  BY <1>2, CredBegin
<1> HIDE DEF o
<1>5. \A m \in Cr!Names, i \in 1..Len(heap) : Fits(m, heap[i]) => Fits(m, heap'[i])
  BY <1>3 DEF Fits
<1>6. CredType' BY <1>1, <1>3, <1>4, <1>5 DEF CredType
<1>7. Owned' BY <1>1, <1>4 DEF Owned
<1>8. Distinct' BY <1>1, <1>3, CredNames DEF Distinct, CredType
<1>9. ASSUME NEW g \in Editors PROVE JobOK(g)'
  <2>1. CASE g = h
    <3>1. file[n] = Cr!None \/ Fits(n, file[n]) BY <1>1 DEF CredType
    <3> QED BY <1>2, <1>3, <1>4, <1>5, <2>1, <3>1 DEF JobOK
  <2>2. CASE g # h BY <1>1, <1>3, <1>4, <1>5, <2>2 DEF JobOK
  <2> QED BY <2>1, <2>2
<1>10. InStep(n)'
  <2>1. n \notin overlapped' => \A g \in Editors : On(g, n)' => g = h BY <1>4 DEF On
  <2>2. Progress(h, n)' /\ On(h, n)' BY <1>4 DEF Progress, On, o
  <2> QED BY <2>1, <2>2 DEF InStep
<1>11. \A m \in Cr!Names \ {n} : pool[m] # 0 => heap'[pool[m]] = heap[pool[m]]
  BY <1>1, <1>3 DEF CredType, Owned, o
<1>12. \A g \in Editors : job[g].stage = "installed" => heap'[job[g].obj] = heap[job[g].obj]
  BY <1>1, <1>3 DEF Owned, JobOK, o
<1>13. \A g \in Editors :
         Elsewhere(g, n) \/ Elsewhere(g, n)' => job'[g] = job[g]
  BY <1>4 DEF Elsewhere
<1> QED BY <1>4, <1>6, <1>7, <1>8, <1>9, <1>10, <1>11, <1>12, <1>13, CredFrame

\* The file of a new credential is written: handleUpload, a login, createAPIKey.
LEMMA CredInstall ==
  ASSUME CredInv, NEW h \in Editors, NEW n \in Cr!Names, NEW op \in {"upload", "login", "key"},
         NEW c, Fits(n, c), op = "key" => n \in KeyNames,
         op # "key" => n \in OAuthNames /\ (file[n] = Cr!None \/ file[n].acct = c.acct),
         Cr!Begin(h, op, n, "installed", Cr!Made + 1), Cr!New(c), Cr!SetFile(n, c), UNCHANGED pool
  PROVE  CredInv'
<1>1. CredType /\ Owned /\ Distinct /\ \A g \in Editors : JobOK(g) BY DEF CredInv
<1> DEFINE o == Len(heap) + 1
<1>2. c \in Content BY DEF Fits
<1>3. /\ heap' \in Seq(Content) /\ Len(heap') = o /\ Len(heap) \in Nat
      /\ heap'[o] = c
      /\ \A i \in 1..Len(heap) : heap'[i] = heap[i] /\ i \in 1..Len(heap') /\ i # o
  BY <1>1, <1>2, HeapNew DEF CredType, Cr!New
<1>4. /\ job' \in [Editors -> Jobs] /\ locked' \in BOOLEAN /\ overlapped' \subseteq Cr!Names
      /\ job[h].stage = "idle"
      /\ job'[h].op = op /\ job'[h].stage = "installed" /\ job'[h].name = n
      /\ job'[h].obj = o /\ job'[h].old = file[n]
      /\ \A g \in Editors \ {h} : job'[g] = job[g]
      /\ overlapped' \ {n} = overlapped \ {n}
      /\ n \notin overlapped' => n \notin overlapped /\ file[n] = Cr!Contents(n)
           /\ \A g \in Editors : ~On(g, n)
  <2>1. Cr!Made + 1 = o /\ o \in Nat BY <1>3 DEF Cr!Made
  <2> HIDE DEF o
  <2>2. Cr!Begin(h, op, n, "installed", o) BY <2>1
  <2> QED BY <2>1, <2>2, CredBegin
<1>5. o \in 1..Len(heap') BY <1>3
<1> HIDE DEF o
<1>6. file' \in [Cr!Names -> Content] /\ file'[n] = c /\ \A m \in Cr!Names \ {n} : file'[m] = file[m]
  BY <1>1, <1>2 DEF Cr!SetFile, CredType
<1>7. CredType'
  <2>1. \A m \in Cr!Names : file'[m] = Cr!None \/ Fits(m, file'[m])
    BY <1>1, <1>6 DEF CredType, Fits
  <2>2. \A m \in Cr!Names : pool[m] # 0 => pool[m] \in 1..Len(heap') /\ Fits(m, heap'[pool[m]])
    BY <1>1, <1>3 DEF CredType
  <2> QED BY <1>1, <1>3, <1>4, <1>6, <2>1, <2>2 DEF CredType
<1>8. Owned'
  <2>1. \A m \in Cr!Names : pool[m] # o BY <1>1, <1>3, <1>5 DEF CredType
  <2>2. \A g \in Editors : job[g].stage = "installed" => job[g].obj # o
    BY <1>1, <1>3 DEF JobOK
  <2> QED BY <1>1, <1>4, <2>1, <2>2 DEF Owned
<1>9. Distinct' BY <1>1, <1>3, CredNames DEF Distinct, CredType
<1>10. ASSUME NEW g \in Editors PROVE JobOK(g)'
  <2>1. CASE g = h
    <3>1. file[n] = Cr!None \/ Fits(n, file[n]) BY <1>1 DEF CredType
    <3> QED BY <1>3, <1>4, <1>5, <2>1, <3>1 DEF JobOK
  <2>2. CASE g # h BY <1>1, <1>3, <1>4, <2>2 DEF JobOK
  <2> QED BY <2>1, <2>2
<1>11. InStep(n)'
  <2>1. n \notin overlapped' => \A g \in Editors : On(g, n)' => g = h BY <1>4 DEF On
  <2>2. On(h, n)' BY <1>4 DEF On
  <2>3. n \notin overlapped' => Progress(h, n)'
    <3> SUFFICES ASSUME n \notin overlapped' PROVE Progress(h, n)' OBVIOUS
    <3>1. file[n] = Cr!Contents(n) BY <1>4
    <3>2. Cr!Contents(n)' = Cr!Contents(n) BY <1>1, <1>3 DEF Cr!Contents, CredType
    <3>3. op = "login" /\ pool[n] # 0 => heap'[pool[n]].acct = c.acct
      <4> SUFFICES ASSUME op = "login", pool[n] # 0 PROVE heap'[pool[n]].acct = c.acct OBVIOUS
      <4>1. Cr!Contents(n) = heap[pool[n]] /\ heap'[pool[n]] = heap[pool[n]]
            /\ heap[pool[n]].kind = "oauth"
        BY <1>1, <1>3 DEF Cr!Contents, CredType, Fits
      <4>2. file[n] # Cr!None BY <3>1, <4>1 DEF Cr!None
      <4> QED BY <3>1, <4>1, <4>2
    <3> QED BY <1>3, <1>4, <1>6, <3>1, <3>2, <3>3 DEF Progress
  <2> QED BY <2>1, <2>2, <2>3 DEF InStep
<1>12. \A m \in Cr!Names \ {n} : pool[m] # 0 => heap'[pool[m]] = heap[pool[m]]
  BY <1>1, <1>3 DEF CredType
<1>13. \A g \in Editors : job[g].stage = "installed" => heap'[job[g].obj] = heap[job[g].obj]
  BY <1>1, <1>3 DEF JobOK
<1>14. \A g \in Editors :
         Elsewhere(g, n) \/ Elsewhere(g, n)' => job'[g] = job[g]
  BY <1>4 DEF Elsewhere
<1> QED BY <1>4, <1>6, <1>7, <1>8, <1>9, <1>10, <1>11, <1>12, <1>13, <1>14, CredFrame

\* A handler ends: what it leaves at n is in order, and nothing else changes.
LEMMA CredClose ==
  ASSUME CredInv, NEW h \in Editors, NEW n, n = job[h].name, job[h].stage # "idle", Cr!End(h),
         file' \in [Cr!Names -> Content], pool' \in [Cr!Names -> Nat], heap' \in Seq(Content),
         Len(heap) <= Len(heap'), \A i \in 1..Len(heap) : heap'[i] = heap[i],
         \A m \in Cr!Names \ {n} : file'[m] = file[m] /\ pool'[m] = pool[m],
         file'[n] = Cr!None \/ Fits(n, file'[n]),
         pool'[n] # 0 =>
           /\ pool'[n] \in 1..Len(heap') /\ Fits(n, heap'[pool'[n]])
           /\ \A m \in Cr!Names \ {n} : pool[m] # pool'[n]
           /\ \A g \in Editors \ {h} : job[g].stage = "installed" => job[g].obj # pool'[n]
           /\ n \in OAuthNames => \A m \in OAuthNames \ {n} :
                pool[m] # 0 => heap[pool[m]].acct # heap'[pool'[n]].acct,
         n \notin overlapped => file'[n] = Cr!Contents(n)'
  PROVE  CredInv'
<1>1. CredType /\ Owned /\ Distinct /\ \A g \in Editors : JobOK(g) BY DEF CredInv
<1>2. /\ job' \in [Editors -> Jobs] /\ locked' \in BOOLEAN /\ overlapped' = overlapped
      /\ job'[h].stage = "idle" /\ n \in Cr!Names
      /\ \A g \in Editors \ {h} : job'[g] = job[g]
      /\ n \notin overlapped => \A g \in Editors : ~On(g, n)'
  BY CredEnd
<1>3. Len(heap) \in Nat /\ Len(heap') \in Nat BY <1>1, LenProperties DEF CredType
<1>4. \A i \in 1..Len(heap) : i \in 1..Len(heap') BY <1>3
<1>5. CredType'
  <2>1. ASSUME NEW m \in Cr!Names PROVE file'[m] = Cr!None \/ Fits(m, file'[m])
    <3>1. CASE m = n BY <3>1
    <3>2. CASE m # n
      <4>1. file'[m] = file[m] BY <3>2
      <4>2. file[m] = Cr!None \/ Fits(m, file[m]) BY <1>1 DEF CredType
      <4> QED BY <4>1, <4>2
    <3> QED BY <3>1, <3>2
  <2>2. ASSUME NEW m \in Cr!Names, pool'[m] # 0
        PROVE  pool'[m] \in 1..Len(heap') /\ Fits(m, heap'[pool'[m]])
    <3>1. CASE m = n BY <2>2, <3>1
    <3>2. CASE m # n BY <1>1, <1>4, <2>2, <3>2 DEF CredType
    <3> QED BY <3>1, <3>2
  <2>3. overlapped' \subseteq Cr!Names BY <1>1, <1>2 DEF CredType
  <2> QED BY <1>2, <2>1, <2>2, <2>3 DEF CredType, Fits
<1>6. Owned'
  <2>1. \A k, m \in Cr!Names : pool'[k] = pool'[m] /\ pool'[k] # 0 => k = m
    BY <1>1 DEF Owned
  <2>2. ASSUME NEW g \in Editors, job'[g].stage = "installed"
        PROVE  /\ g # h /\ job'[g] = job[g] /\ job[g].stage = "installed"
               /\ \A m \in Cr!Names : pool'[m] # job'[g].obj
    <3>1. g # h /\ job'[g] = job[g] BY <1>2, <2>2
    <3>2. job[g].obj \in 1..Len(heap) BY <1>1, <2>2, <3>1 DEF JobOK
    <3>3. job[g].obj # 0 BY <3>2
    <3>4. \A m \in Cr!Names \ {n} : pool'[m] # job[g].obj BY <1>1, <2>2, <3>1 DEF Owned
    <3>5. pool'[n] # job[g].obj BY <2>2, <3>1, <3>3
    <3> QED BY <2>2, <3>1, <3>4, <3>5
  <2>3. ASSUME NEW g \in Editors, job'[g].stage = "installed",
               NEW k \in Editors, k # g, job'[k].stage = "installed"
        PROVE  job'[k].obj # job'[g].obj
    <3>1. job'[g] = job[g] /\ job'[k] = job[k] BY <2>2, <2>3
    <3> QED BY <1>1, <2>3, <3>1 DEF Owned
  <2> QED BY <2>1, <2>2, <2>3 DEF Owned
<1>7. Distinct'
  <2>1. ASSUME NEW m \in OAuthNames, pool'[m] # 0, m # n
        PROVE  pool[m] # 0 /\ pool'[m] = pool[m] /\ heap'[pool'[m]] = heap[pool[m]]
    BY <1>1, <2>1, CredNames DEF CredType
  <2> SUFFICES ASSUME NEW k \in OAuthNames, NEW m \in OAuthNames, k # m, pool'[k] # 0, pool'[m] # 0
               PROVE  heap'[pool'[k]].acct # heap'[pool'[m]].acct
    BY DEF Distinct
  <2>2. CASE k # n /\ m # n BY <1>1, <2>1, <2>2 DEF Distinct
  <2>3. CASE k = n BY <2>1, <2>3
  <2>4. CASE m = n BY <2>1, <2>4
  <2> QED BY <2>2, <2>3, <2>4
<1>8. ASSUME NEW g \in Editors PROVE JobOK(g)'
  <2>1. CASE g = h BY <1>2, <2>1 DEF JobOK
  <2>2. CASE g # h BY <1>1, <1>2, <1>4, <2>2, SMTT(60) DEF JobOK
  <2> QED BY <2>1, <2>2
<1>9. InStep(n)' BY <1>2 DEF InStep
<1>10. \A m \in Cr!Names \ {n} : pool[m] # 0 => heap'[pool[m]] = heap[pool[m]] BY <1>1 DEF CredType
<1>11. \A g \in Editors :
         Elsewhere(g, n) \/ Elsewhere(g, n)' =>
           job'[g] = job[g] /\ (job[g].stage = "installed" => heap'[job[g].obj] = heap[job[g].obj])
  BY <1>1, <1>2 DEF Elsewhere, JobOK
<1> QED BY <1>2, <1>5, <1>6, <1>7, <1>8, <1>9, <1>10, <1>11, CredFrame

\* A handler ends with the pool as it is.
LEMMA CredWrite ==
  ASSUME CredInv, NEW h \in Editors, NEW n, n = job[h].name, job[h].stage # "idle", Cr!End(h),
         UNCHANGED <<heap, pool>>, NEW c, c = Cr!None \/ Fits(n, c), file' = [file EXCEPT ![n] = c],
         n \notin overlapped => c = Cr!Contents(n)
  PROVE  CredInv'
<1>1. CredType /\ Owned /\ Distinct /\ n \in Cr!Names BY DEF CredInv, JobOK
<1>2. c \in Content BY DEF Fits, Cr!None, Content
<1>3. /\ file' \in [Cr!Names -> Content] /\ file'[n] = c
      /\ \A m \in Cr!Names \ {n} : file'[m] = file[m]
  BY <1>1, <1>2 DEF CredType
<1>4. /\ pool' \in [Cr!Names -> Nat] /\ heap' \in Seq(Content) /\ Len(heap) <= Len(heap')
      /\ \A i \in 1..Len(heap) : heap'[i] = heap[i]
  <2>1. Len(heap) \in Nat BY <1>1, LenProperties DEF CredType
  <2> QED BY <1>1, <2>1 DEF CredType
<1>5. pool'[n] # 0 => pool'[n] \in 1..Len(heap') /\ Fits(n, heap'[pool'[n]])
  BY <1>1 DEF CredType
<1>6. pool'[n] # 0 => \A m \in Cr!Names \ {n} : pool[m] # pool'[n] BY <1>1 DEF Owned
<1>7. \A g \in Editors \ {h} : job[g].stage = "installed" => job[g].obj # pool'[n]
  BY <1>1 DEF Owned
<1>8. pool'[n] # 0 /\ n \in OAuthNames => \A m \in OAuthNames \ {n} :
        pool[m] # 0 => heap[pool[m]].acct # heap'[pool'[n]].acct
  BY <1>1 DEF Distinct
<1>9. n \notin overlapped => file'[n] = Cr!Contents(n)' BY <1>3 DEF Cr!Contents
<1> QED BY <1>3, <1>4, <1>5, <1>6, <1>7, <1>8, <1>9, CredClose

\* A handler ends with its new object in the pool.
LEMMA CredAdd ==
  ASSUME CredInv, NEW h \in Editors, NEW n, n = job[h].name, job[h].stage = "installed", Cr!End(h),
         UNCHANGED <<file, heap>>, Cr!SetPool(n, job[h].obj),
         n \in OAuthNames => \A m \in OAuthNames \ {n} :
           pool[m] # 0 => heap[pool[m]].acct # heap[job[h].obj].acct
  PROVE  CredInv'
<1>1. CredType /\ Owned /\ JobOK(h) BY DEF CredInv
<1>2. /\ n \in Cr!Names /\ job[h].obj \in 1..Len(heap) /\ Fits(n, heap[job[h].obj])
      /\ job[h].obj \in Nat
  BY <1>1 DEF JobOK
<1>3. /\ pool' \in [Cr!Names -> Nat] /\ pool'[n] = job[h].obj /\ pool'[n] # 0
      /\ \A m \in Cr!Names \ {n} : pool'[m] = pool[m]
  BY <1>1, <1>2 DEF Cr!SetPool, CredType
<1>4. /\ file' \in [Cr!Names -> Content] /\ heap' \in Seq(Content) /\ Len(heap) <= Len(heap')
      /\ \A i \in 1..Len(heap) : heap'[i] = heap[i]
  <2>1. Len(heap) \in Nat BY <1>1, LenProperties DEF CredType
  <2> QED BY <1>1, <2>1 DEF CredType
<1>5. file'[n] = Cr!None \/ Fits(n, file'[n]) BY <1>1, <1>2 DEF CredType
<1>6. \A m \in Cr!Names \ {n} : pool[m] # pool'[n] BY <1>1, <1>3 DEF Owned
<1>7. \A g \in Editors \ {h} : job[g].stage = "installed" => job[g].obj # pool'[n]
  BY <1>1, <1>3 DEF Owned
<1>8. n \notin overlapped => file'[n] = Cr!Contents(n)'
  <2>1. n \notin overlapped => Progress(h, n) BY <1>2 DEF CredInv, InStep, On
  <2> QED BY <1>3, <2>1 DEF Progress, Cr!Contents
<1> QED BY <1>2, <1>3, <1>4, <1>5, <1>6, <1>7, <1>8, CredClose

LEMMA CredStep == ASSUME CredInv, Cr!Next \/ UNCHANGED pooled PROVE CredInv'
<1>0. CredType /\ Owned /\ Distinct /\ \A g \in Editors : JobOK(g) BY DEF CredInv
<1>1. ASSUME NEW h \in Editors, NEW n \in Cr!Names, Cr!Patch(h, n) PROVE CredInv'
  BY <1>1, CredEdit DEF Cr!Patch
<1>2. ASSUME NEW h \in Editors, NEW n \in Cr!Names, Cr!Refresh(h, n) PROVE CredInv'
  BY <1>2, CredEdit DEF Cr!Refresh
<1>3. ASSUME NEW h \in Editors, NEW n \in Cr!Names, Cr!Delete(h, n) PROVE CredInv'
  <2>1. pool[n] # 0 /\ Cr!Begin(h, "delete", n, "removed", pool[n]) /\ Cr!SetPool(n, 0)
        /\ UNCHANGED <<file, heap>>
    BY <1>3 DEF Cr!Delete
  <2>2. pool[n] \in Nat BY <1>0 DEF CredType
  <2>3. /\ job' \in [Editors -> Jobs] /\ locked' \in BOOLEAN /\ overlapped' \subseteq Cr!Names
        /\ job[h].stage = "idle"
        /\ job'[h].op = "delete" /\ job'[h].stage = "removed" /\ job'[h].name = n
        /\ job'[h].obj = pool[n] /\ job'[h].old = file[n]
        /\ \A g \in Editors \ {h} : job'[g] = job[g]
        /\ overlapped' \ {n} = overlapped \ {n}
        /\ n \notin overlapped' => n \notin overlapped /\ file[n] = Cr!Contents(n)
             /\ \A g \in Editors : ~On(g, n)
    BY <2>1, <2>2, CredBegin
  <2>4. pool' \in [Cr!Names -> Nat] /\ pool'[n] = 0 /\ \A m \in Cr!Names \ {n} : pool'[m] = pool[m]
    BY <1>0, <2>1 DEF Cr!SetPool, CredType
  <2>5. CredType' BY <1>0, <2>1, <2>3, <2>4 DEF CredType
  <2>6. \A m \in Cr!Names : pool'[m] # 0 => pool'[m] = pool[m] BY <2>4
  <2>7. Owned'
    <3>1. ASSUME NEW g \in Editors, job'[g].stage = "installed"
          PROVE  job'[g] = job[g] /\ job[g].obj # 0
      <4>1. g # h /\ job'[g] = job[g] BY <2>3, <3>1
      <4>2. job[g].obj \in 1..Len(heap) BY <1>0, <3>1, <4>1 DEF JobOK
      <4> QED BY <4>1, <4>2
    <3> QED BY <1>0, <2>3, <2>6, <3>1 DEF Owned
  <2>8. Distinct' BY <1>0, <2>1, <2>6, CredNames DEF Distinct
  <2>9. ASSUME NEW g \in Editors PROVE JobOK(g)'
    <3>1. CASE g = h
      <4>1. file[n] = Cr!None \/ Fits(n, file[n]) BY <1>0 DEF CredType
      <4> QED BY <2>1, <2>3, <3>1, <4>1 DEF JobOK
    <3>2. CASE g # h BY <1>0, <2>1, <2>3, <3>2 DEF JobOK
    <3> QED BY <3>1, <3>2
  <2>10. InStep(n)'
    <3>1. n \notin overlapped' => \A g \in Editors : On(g, n)' => g = h BY <2>3 DEF On
    <3>2. Progress(h, n)' /\ On(h, n)' BY <2>3, <2>4 DEF Progress, On
    <3> QED BY <3>1, <3>2 DEF InStep
  <2>11. \A g \in Editors : Elsewhere(g, n) \/ Elsewhere(g, n)' => job'[g] = job[g]
    BY <2>3 DEF Elsewhere
  <2> QED BY <2>1, <2>3, <2>4, <2>5, <2>7, <2>8, <2>9, <2>10, <2>11, CredFrame
<1>4. ASSUME NEW h \in Editors, NEW n \in OAuthNames, NEW a \in Holders, Cr!Upload(h, n, a)
      PROVE  CredInv'
  <2>1. Fits(n, Cr!OAuth(a)) /\ Cr!OAuth(a).acct = a /\ n \in Cr!Names
    BY CredNames DEF Fits, Cr!OAuth, Content
  <2> QED BY <1>4, <2>1, CredInstall DEF Cr!Upload, Cr!MayInstall
<1>5. ASSUME NEW h \in Editors, NEW n \in OAuthNames, NEW a \in Holders, Cr!FinishLogin(h, n, a)
      PROVE  CredInv'
  <2>1. Fits(n, Cr!OAuth(a)) /\ Cr!OAuth(a).acct = a /\ n \in Cr!Names
    BY CredNames DEF Fits, Cr!OAuth, Content
  <2> QED BY <1>5, <2>1, CredInstall DEF Cr!FinishLogin, Cr!MayInstall
<1>6. ASSUME NEW h \in Editors, NEW n \in KeyNames, Cr!CreateKey(h, n) PROVE CredInv'
  <2>1. Fits(n, Cr!Key) /\ n \in Cr!Names BY CredNames DEF Fits, Cr!Key, Content
  <2> QED BY <1>6, <2>1, CredInstall DEF Cr!CreateKey
<1>7. ASSUME NEW h \in Editors, Cr!Persist(h) PROVE CredInv'
  <2> SUFFICES ASSUME NEW n, n = job[h].name, NEW c, c = heap[job[h].obj] PROVE CredInv' OBVIOUS
  <2>1. /\ job[h].stage = "edited" /\ file' = [file EXCEPT ![n] = c] /\ UNCHANGED <<heap, pool>>
        /\ Cr!End(h) \/ (job[h].op = "patch" /\ c.kind = "key" /\ Cr!Step(h, "persisted"))
    BY <1>7 DEF Cr!Persist, Cr!SetFile
  <2>2. JobOK(h) BY <1>0
  <2>3. n \in Cr!Names /\ job[h].obj \in 1..Len(heap) /\ Fits(n, c) BY <2>1, <2>2 DEF JobOK
  <2>4. n \notin overlapped => Progress(h, n) BY <2>1, <2>3 DEF CredInv, InStep, On
  <2>5. n \notin overlapped => job[h].obj = pool[n] /\ pool[n] # 0 BY <2>1, <2>4 DEF Progress
  <2>6. CASE Cr!End(h)
    <3>1. n \notin overlapped => c = Cr!Contents(n) BY <2>5 DEF Cr!Contents
    <3> QED BY <2>1, <2>3, <2>6, <3>1, CredWrite
  <2>7. CASE job[h].op = "patch" /\ c.kind = "key" /\ Cr!Step(h, "persisted")
    <3>1. job' = [job EXCEPT ![h].stage = "persisted"] /\ UNCHANGED <<locked, overlapped>>
      BY <2>7 DEF Cr!Step
    <3>2. /\ job' \in [Editors -> Jobs] /\ job'[h].stage = "persisted"
          /\ job'[h].op = job[h].op /\ job'[h].name = n
          /\ job'[h].obj = job[h].obj /\ job'[h].old = job[h].old
          /\ \A g \in Editors \ {h} : job'[g] = job[g]
      BY <1>0, <3>1 DEF CredType, Jobs
    <3>3. file' \in [Cr!Names -> Content] /\ file'[n] = c
          /\ \A m \in Cr!Names \ {n} : file'[m] = file[m]
      BY <1>0, <2>1, <2>3 DEF CredType, Fits
    <3>4. CredType' BY <1>0, <2>1, <2>3, <3>1, <3>2, <3>3 DEF CredType, Fits
    <3>5. Owned' BY <1>0, <2>1, <3>2 DEF Owned
    <3>6. Distinct' BY <1>0, <2>1 DEF Distinct
    <3>7. ASSUME NEW g \in Editors PROVE JobOK(g)'
      <4>1. CASE g = h BY <2>1, <2>2, <2>7, <3>2, <4>1 DEF JobOK
      <4>2. CASE g # h BY <1>0, <2>1, <3>2, <4>2 DEF JobOK
      <4> QED BY <4>1, <4>2
    <3>8. InStep(n)'
      <4>1. \A g \in Editors : On(g, n)' <=> On(g, n) BY <2>1, <3>2 DEF On
      <4>2. n \notin overlapped => Progress(h, n)' BY <2>1, <2>5, <3>2, <3>3 DEF Progress
      <4>3. On(h, n) BY <2>1 DEF On
      <4>4. n \notin overlapped => \A g \in Editors : On(g, n) => g = h
        BY <2>3, <4>3 DEF CredInv, InStep
      <4> QED BY <3>1, <4>1, <4>2, <4>3, <4>4 DEF InStep
    <3>9. \A g \in Editors : Elsewhere(g, n) \/ Elsewhere(g, n)' => job'[g] = job[g]
      BY <3>2 DEF Elsewhere
    <3> QED BY <2>1, <2>3, <3>1, <3>3, <3>4, <3>5, <3>6, <3>7, <3>8, <3>9, CredFrame
  <2> QED BY <2>1, <2>6, <2>7
<1>8. ASSUME NEW h \in Editors, Cr!ReplaceKey(h) PROVE CredInv'
  <2> SUFFICES ASSUME NEW n, n = job[h].name, NEW o, o = Len(heap) + 1 PROVE CredInv' OBVIOUS
  <2>1. job[h].stage = "persisted" /\ job[h].op = "patch" BY <1>8 DEF Cr!ReplaceKey, Cr!At
  <2>2. \/ file[n] = Cr!None /\ Cr!End(h) /\ UNCHANGED <<file, heap, pool>>
        \/ file[n] # Cr!None /\ Cr!New(file[n]) /\ Cr!SetPool(n, o) /\ Cr!End(h) /\ UNCHANGED file
    BY <1>8 DEF Cr!ReplaceKey, Cr!Made
  <2>3. JobOK(h) BY <1>0
  <2>4. n \in Cr!Names /\ n \notin OAuthNames
    BY <2>1, <2>3 DEF JobOK, Fits
  <2>5. n \notin overlapped => Progress(h, n) BY <2>1, <2>4 DEF CredInv, InStep, On
  <2>6. n \notin overlapped => pool[n] # 0 /\ file[n] = heap[pool[n]] BY <2>1, <2>5 DEF Progress
  <2>7. CASE file[n] = Cr!None /\ Cr!End(h) /\ UNCHANGED <<file, heap, pool>>
    <3>1. n \notin overlapped => file[n] = Cr!Contents(n) BY <2>6 DEF Cr!Contents
    <3>2. file' = [file EXCEPT ![n] = file[n]] BY <1>0, <2>7 DEF CredType
    <3> QED BY <2>1, <2>7, <3>1, <3>2, CredWrite
  <2>8. CASE file[n] # Cr!None /\ Cr!New(file[n]) /\ Cr!SetPool(n, o) /\ Cr!End(h) /\ UNCHANGED file
    <3>1. Fits(n, file[n]) /\ file[n] \in Content BY <1>0, <2>4, <2>8 DEF CredType, Fits
    <3>2. /\ heap' \in Seq(Content) /\ Len(heap') = o /\ Len(heap) \in Nat /\ heap'[o] = file[n]
          /\ \A i \in 1..Len(heap) : heap'[i] = heap[i] /\ i \in 1..Len(heap') /\ i # o
      BY <1>0, <2>8, <3>1, HeapNew DEF CredType, Cr!New
    <3>3. o \in Nat /\ o # 0 /\ o \in 1..Len(heap') /\ Len(heap) <= Len(heap') BY <3>2
    <3>4. /\ pool' \in [Cr!Names -> Nat] /\ pool'[n] = o
          /\ \A m \in Cr!Names \ {n} : pool'[m] = pool[m]
      BY <1>0, <2>4, <2>8, <3>3 DEF Cr!SetPool, CredType
    <3>5. \A m \in Cr!Names : pool[m] # o BY <1>0, <3>2, <3>3 DEF CredType
    <3>6. \A g \in Editors : job[g].stage = "installed" => job[g].obj # o
      BY <1>0, <3>2 DEF JobOK
    <3>7. file[n] = Cr!Contents(n)' BY <3>2, <3>3, <3>4 DEF Cr!Contents
    <3>8. file' \in [Cr!Names -> Content] /\ file' = file BY <1>0, <2>8 DEF CredType
    <3> QED BY <2>1, <2>4, <2>8, <3>1, <3>2, <3>3, <3>4, <3>5, <3>6, <3>7, <3>8, CredClose
  <2> QED BY <2>2, <2>7, <2>8
<1>9. ASSUME NEW h \in Editors, Cr!Unlink(h) PROVE CredInv'
  <2> SUFFICES ASSUME NEW n, n = job[h].name PROVE CredInv' OBVIOUS
  <2>1. /\ job[h].stage = "removed" /\ Cr!End(h) /\ UNCHANGED <<heap, pool>>
        /\ file' = [file EXCEPT ![n] = Cr!None]
    BY <1>9 DEF Cr!Unlink, Cr!At, Cr!SetFile
  <2>2. n \in Cr!Names BY <1>0, <2>1 DEF JobOK
  <2>3. n \notin overlapped => Progress(h, n) BY <2>1, <2>2 DEF CredInv, InStep, On
  <2>4. n \notin overlapped => Cr!None = Cr!Contents(n) BY <2>1, <2>3 DEF Progress, Cr!Contents
  <2> QED BY <2>1, <2>4, CredWrite
<1>10. ASSUME NEW h \in Editors, Cr!AddUpload(h) PROVE CredInv'
  <2> SUFFICES ASSUME NEW n, n = job[h].name PROVE CredInv' OBVIOUS
  <2> DEFINE dup == Cr!Duplicate(n, heap[job[h].obj].acct)
  <2>1. /\ job[h].stage = "installed" /\ job[h].op = "upload" /\ Cr!End(h) /\ UNCHANGED heap
        /\ dup => Cr!SetFile(n, job[h].old) /\ UNCHANGED pool
        /\ ~dup => Cr!SetPool(n, job[h].obj) /\ UNCHANGED file
    BY <1>10 DEF Cr!AddUpload, Cr!At
  <2>2. n \in OAuthNames /\ n \in Cr!Names /\ (job[h].old = Cr!None \/ Fits(n, job[h].old))
    BY <1>0, <2>1 DEF JobOK
  <2>3. n \notin overlapped => Progress(h, n) BY <2>1, <2>2 DEF CredInv, InStep, On
  <2>4. CASE dup
    <3>1. n \notin overlapped => job[h].old = Cr!Contents(n) BY <2>1, <2>3 DEF Progress
    <3> HIDE DEF dup
    <3> QED BY <2>1, <2>2, <2>4, <3>1, CredWrite DEF Cr!SetFile
  <2>5. CASE ~dup
    <3>1. \A m \in OAuthNames \ {n} : pool[m] # 0 => heap[pool[m]].acct # heap[job[h].obj].acct
      BY <1>0, <2>5, CredNames DEF Cr!Duplicate, CredType, Fits
    <3> HIDE DEF dup
    <3> QED BY <2>1, <2>5, <3>1, CredAdd
  <2> QED BY <2>4, <2>5
<1>11. ASSUME NEW h \in Editors, Cr!AddLogin(h) PROVE CredInv'
  <2> SUFFICES ASSUME NEW n, n = job[h].name PROVE CredInv' OBVIOUS
  <2> DEFINE dup == Cr!Duplicate(n, heap[job[h].obj].acct)
  <2>1. /\ job[h].stage = "installed" /\ job[h].op = "login" /\ Cr!End(h) /\ UNCHANGED heap
        /\ dup => Cr!SetFile(n, Cr!None) /\ UNCHANGED pool
        /\ ~dup => Cr!SetPool(n, job[h].obj) /\ UNCHANGED file
    BY <1>11 DEF Cr!AddLogin, Cr!At
  <2>2. n \in OAuthNames /\ n \in Cr!Names BY <1>0, <2>1 DEF JobOK
  <2>3. n \notin overlapped => Progress(h, n) BY <2>1, <2>2 DEF CredInv, InStep, On
  <2>4. CASE dup
    \* Another name has the account, so this one has no object.
    <3>1. PICK m \in Cr!Names \ {n} :
            /\ pool[m] # 0 /\ heap[pool[m]].kind = "oauth"
            /\ heap[pool[m]].acct = heap[job[h].obj].acct
      BY <2>4 DEF Cr!Duplicate
    <3>2. m \in OAuthNames BY <1>0, <3>1, CredNames DEF CredType, Fits
    <3>3. n \notin overlapped /\ pool[n] # 0 => heap[pool[n]].acct = heap[job[h].obj].acct
      BY <2>1, <2>3 DEF Progress
    <3>4. pool[n] # 0 => heap[pool[m]].acct # heap[pool[n]].acct
      BY <1>0, <2>2, <3>1, <3>2 DEF Distinct
    <3>5. n \notin overlapped => Cr!None = Cr!Contents(n) BY <3>1, <3>3, <3>4 DEF Cr!Contents
    <3> HIDE DEF dup
    <3> QED BY <2>1, <2>2, <2>4, <3>5, CredWrite DEF Cr!SetFile
  <2>5. CASE ~dup
    <3>1. \A m \in OAuthNames \ {n} : pool[m] # 0 => heap[pool[m]].acct # heap[job[h].obj].acct
      BY <1>0, <2>5, CredNames DEF Cr!Duplicate, CredType, Fits
    <3> HIDE DEF dup
    <3> QED BY <2>1, <2>5, <3>1, CredAdd
  <2> QED BY <2>4, <2>5
<1>12. ASSUME NEW h \in Editors, Cr!AddKey(h) PROVE CredInv'
  <2>1. /\ job[h].stage = "installed" /\ job[h].op = "key" /\ Cr!End(h) /\ UNCHANGED <<file, heap>>
        /\ Cr!SetPool(job[h].name, job[h].obj)
    BY <1>12 DEF Cr!AddKey, Cr!At
  <2>2. job[h].name \notin OAuthNames BY <1>0, <2>1, CredNames DEF JobOK
  <2> QED BY <2>1, <2>2, CredAdd
<1>13. CASE UNCHANGED pooled
  <2>1. UNCHANGED <<file, heap, pool, job, locked, overlapped>> BY <1>13 DEF pooled
  <2>2. CredType' /\ Owned' /\ Distinct' BY <1>0, <2>1 DEF CredType, Owned, Distinct
  <2>3. \A g \in Editors : JobOK(g)' BY <1>0, <2>1 DEF JobOK
  <2>4. \A n \in Cr!Names : InStep(n)'
    BY <2>1 DEF CredInv, InStep, On, Progress, Cr!Contents
  <2> QED BY <2>2, <2>3, <2>4 DEF CredInv
<1> QED
  BY <1>1, <1>2, <1>3, <1>4, <1>5, <1>6, <1>7, <1>8, <1>9, <1>10, <1>11, <1>12, <1>13, CredNames
     DEF Cr!Next

LEMMA CredHolds == ASSUME CredInv PROVE Cr!CredentialsHold
<1>1. CredType /\ Distinct BY DEF CredInv
<1>2. Cr!TypeOK
  <2>1. ASSUME NEW n \in Cr!Names
        PROVE  pool[n] \in 0..Cr!Made /\ file[n].kind \in {"none", "oauth", "key"}
    <3>1. pool[n] \in Nat /\ (pool[n] # 0 => pool[n] \in 1..Len(heap)) /\ Len(heap) \in Nat
      BY <1>1, LenProperties DEF CredType
    <3>2. file[n] \in Content BY <1>1 DEF CredType
    <3> QED BY <3>1, <3>2 DEF Cr!Made, Content
  <2> QED BY <1>1, <2>1 DEF Cr!TypeOK, CredType
<1>3. Cr!DiskIsPool BY DEF CredInv, InStep, Cr!DiskIsPool, Cr!Busy, On
<1>4. Cr!OneCredentialPerAccount
  <2> SUFFICES ASSUME NEW m \in OAuthNames, NEW n \in OAuthNames, m # n
               PROVE  /\ Cr!Contents(m) # Cr!None /\ Cr!Contents(n) # Cr!None =>
                           Cr!Contents(m).acct # Cr!Contents(n).acct
                      /\ file[m] # Cr!None /\ file[n] # Cr!None
                           /\ {m, n} \cap overlapped = {} /\ ~Cr!Busy(m) /\ ~Cr!Busy(n) =>
                           file[m].acct # file[n].acct
    BY DEF Cr!OneCredentialPerAccount
  <2>1. Cr!Contents(m) # Cr!None /\ Cr!Contents(n) # Cr!None =>
          Cr!Contents(m).acct # Cr!Contents(n).acct
    BY <1>1 DEF Cr!Contents, Distinct
  <2>2. {m, n} \cap overlapped = {} /\ ~Cr!Busy(m) /\ ~Cr!Busy(n) =>
          file[m] = Cr!Contents(m) /\ file[n] = Cr!Contents(n)
    BY <1>3, CredNames DEF Cr!DiskIsPool
  <2> QED BY <2>1, <2>2
<1> QED BY <1>2, <1>3, <1>4 DEF Cr!CredentialsHold

-----------------------------------------------------------------------------
(* The upstream health checker.                                             *)

\* What the cycle has left of a credential: one that serves is judged on each
\* of its models or will be, and nothing else has a verdict once it was looked at.
LookedAt(a) ==
  \A m \in Checked :
    \/ a \in queue
    \/ IF a \in live \ disabled /\ m \in wanted[a]
       THEN row[<<a, m>>] # "none" \/ (work.of = a /\ m \in work.models)
       ELSE row[<<a, m>>] = "none"

InHand ==
  \/ work = He!Idle
  \/ /\ work \in [of : live \cup touched, models : (SUBSET Checked) \ {{}}]
     /\ running /\ work.of \notin queue
     /\ work.of \notin touched => work.of \in live \ disabled /\ work.models \subseteq wanted[work.of]

HealthTypes ==
  /\ live \subseteq Auths /\ touched \subseteq Auths
  /\ wanted \in [Auths -> (SUBSET Checked) \ {{}}]
  /\ running \in BOOLEAN /\ cycles \in BOOLEAN
  /\ queue \subseteq live \cup touched
  /\ ~running => queue = {}
  /\ judged \in {"none", "ok", "fail", "unknown"}
  /\ judged # "none" => work # He!Idle

HealthRows ==
  /\ row \in [He!Pairs -> {"none", "ok", "fail", "unknown"}]
  /\ history \in [He!Pairs -> Seq({"ok", "fail"})]
  /\ \A p \in He!Pairs : Len(history[p]) <= Cap

HealthInv ==
  /\ HealthTypes /\ HealthRows /\ InHand
  /\ running \/ cycles => \A a \in Auths \ touched : LookedAt(a)

LEMMA HealthIsHeld == ASSUME HealthInv PROVE He!HealthHolds
<1> USE DEF HealthInv
<1>1. He!TypeOK
  <2>1. work.of \in live \cup touched \cup {"nobody"} BY DEF InHand, He!Idle
  <2>2. \A p \in He!Pairs : \A i \in 1..Len(history[p]) : history[p][i] \in {"ok", "fail"}
    BY DEF HealthRows
  <2> QED BY <2>1, <2>2 DEF He!TypeOK, HealthRows
<1>2. SUFFICES ASSUME cycles, ~running PROVE He!GhostsAreRecent /\ He!NobodyOverlooked
  BY <1>1 DEF He!HealthHolds, He!GhostsAreRecent, He!NobodyOverlooked
<1>3. queue = {} /\ work = He!Idle /\ work.models = {}
  BY <1>2 DEF HealthTypes, InHand, He!Idle
<1>4. \A a \in Auths \ touched : \A m \in Checked :
        IF a \in live \ disabled /\ m \in wanted[a] THEN row[<<a, m>>] # "none" ELSE row[<<a, m>>] = "none"
  BY <1>2, <1>3 DEF LookedAt
<1>5. He!GhostsAreRecent
  <2> SUFFICES ASSUME NEW a \in Auths, NEW m \in Checked, row[<<a, m>>] # "none",
                      a \notin live \ disabled \/ m \notin wanted[a]
               PROVE  a \in touched
    BY DEF He!GhostsAreRecent, He!Pairs
  <2> QED BY <1>4
<1>6. He!NobodyOverlooked
  <2> SUFFICES ASSUME NEW a \in live \ (disabled \cup touched), NEW m \in wanted[a]
               PROVE  row[<<a, m>>] # "none"
    BY DEF He!NobodyOverlooked
  <2>1. a \in Auths \ touched /\ m \in Checked BY DEF HealthTypes
  <2> QED BY <1>4, <2>1
<1> QED BY <1>5, <1>6

LEMMA HealthInit == ASSUME He!Init PROVE HealthInv
<1> USE ServerAssumption DEF He!HealthAssumption, He!Init
<1>1. history \in [He!Pairs -> Seq({"ok", "fail"})] /\ \A p \in He!Pairs : Len(history[p]) = 0
  <2>1. << >> \in Seq({"ok", "fail"}) /\ Len(<< >>) = 0 OBVIOUS
  <2> QED BY <2>1
<1>2. HealthRows BY <1>1 DEF HealthRows
<1>3. HealthTypes /\ InHand BY DEF HealthTypes, InHand
<1> QED BY <1>2, <1>3 DEF HealthInv

\* A credential that changes is touched, and nothing is said of it.
LEMMA HealthTouch ==
  ASSUME HealthInv, NEW a \in Auths, He!Touch(a), live' \subseteq live, live \ {a} \subseteq live',
         \A b \in Auths \ {a} : (b \in disabled' <=> b \in disabled) /\ wanted'[b] = wanted[b],
         wanted' \in [Auths -> (SUBSET Checked) \ {{}}]
  PROVE  HealthInv'
<1>1. touched' = touched \cup {a} /\ UNCHANGED <<row, history, running, queue, work, judged, cycles>>
  BY DEF He!Touch
<1> USE DEF HealthInv
<1>2. HealthTypes' BY <1>1 DEF HealthTypes
<1>3. HealthRows' BY <1>1 DEF HealthRows
<1>4. InHand'
  <2>1. CASE work = He!Idle BY <1>1, <2>1 DEF InHand, He!Idle
  <2>2. CASE work # He!Idle
    <3>1. live \cup touched \subseteq live' \cup touched' BY <1>1
    <3>2. /\ work \in [of : live' \cup touched', models : (SUBSET Checked) \ {{}}]
          /\ running /\ work.of \notin queue
      BY <2>2, <3>1 DEF InHand
    <3>3. work.of \notin touched' => work.of \in live' \ disabled' /\ work.models \subseteq wanted'[work.of]
      BY <1>1, <2>2, <3>2 DEF InHand, HealthTypes
    <3> QED BY <1>1, <3>2, <3>3 DEF InHand
  <2> QED BY <2>1, <2>2
<1>5. running \/ cycles => \A b \in Auths \ touched' : LookedAt(b)'
  <2> SUFFICES ASSUME running \/ cycles, NEW b \in Auths \ touched' PROVE LookedAt(b)' OBVIOUS
  <2>1. b # a /\ LookedAt(b) /\ (b \in live' \ disabled' <=> b \in live \ disabled) /\ wanted'[b] = wanted[b]
    BY <1>1
  <2> QED BY <1>1, <2>1 DEF LookedAt
<1> QED BY <1>1, <1>2, <1>3, <1>4, <1>5

LEMMA HealthChange ==
  ASSUME HealthInv, NEW a \in Auths,
         He!Remove(a) \/ He!SetDisabled(a)
           \/ \E ms \in (SUBSET Checked) \ {{}} : He!SetModels(a, ms)
  PROVE  HealthInv'
<1>1. wanted \in [Auths -> (SUBSET Checked) \ {{}}] BY DEF HealthInv, HealthTypes
<1>2. CASE He!Remove(a) BY <1>1, <1>2, HealthTouch DEF He!Remove
<1>3. CASE He!SetDisabled(a) BY <1>1, <1>3, HealthTouch DEF He!SetDisabled
<1>4. ASSUME NEW ms \in (SUBSET Checked) \ {{}}, He!SetModels(a, ms) PROVE HealthInv'
  BY <1>1, <1>4, HealthTouch DEF He!SetModels
<1> QED BY <1>2, <1>3, <1>4

\* Rows that are dropped are rows still.
LEMMA HealthDrop ==
  ASSUME HealthRows, NEW gone, He!DropRows(gone), He!DropHistory(gone) \/ UNCHANGED history
  PROVE  HealthRows'
<1> USE ServerAssumption DEF He!HealthAssumption, HealthRows
<1>1. row' \in [He!Pairs -> {"none", "ok", "fail", "unknown"}] BY DEF He!DropRows
<1>2. << >> \in Seq({"ok", "fail"}) /\ Len(<< >>) = 0 OBVIOUS
<1>3. CASE He!DropHistory(gone)
  <2>1. history' \in [He!Pairs -> Seq({"ok", "fail"})] BY <1>2, <1>3 DEF He!DropHistory
  <2>2. \A p \in He!Pairs : history'[p] = << >> \/ history'[p] = history[p] BY <1>3 DEF He!DropHistory
  <2> QED BY <1>1, <1>2, <2>1, <2>2
<1>4. CASE UNCHANGED history BY <1>1, <1>4
<1> QED BY <1>3, <1>4

LEMMA HealthRunOnce == ASSUME HealthInv, He!RunOnce PROVE HealthInv'
<1> USE DEF HealthInv
<1>1. /\ ~running /\ running' = TRUE /\ queue' = live /\ touched' = {}
      /\ He!PruneModelHealthExcept(live)
      /\ UNCHANGED <<live, disabled, wanted, work, judged, cycles>>
  BY DEF He!RunOnce
<1> DEFINE gone == (Auths \ live) \X Checked
<1>2. He!DropRows(gone) /\ He!DropHistory(gone) BY <1>1 DEF He!PruneModelHealthExcept
<1>3. work = He!Idle BY <1>1 DEF InHand
<1>4. InHand' BY <1>1, <1>3 DEF InHand, He!Idle
<1>5. HealthTypes' BY <1>1, <1>3 DEF HealthTypes, He!Idle
<1>6. HealthRows' BY <1>2, HealthDrop
<1>7. \A a \in Auths : LookedAt(a)'
  <2> SUFFICES ASSUME NEW a \in Auths, NEW m \in Checked, a \notin live
               PROVE  row'[<<a, m>>] = "none"
    BY <1>1 DEF LookedAt
  <2>1. <<a, m>> \in gone /\ <<a, m>> \in He!Pairs BY DEF He!Pairs
  <2> QED BY <1>2, <2>1 DEF He!DropRows
<1> QED BY <1>4, <1>5, <1>6, <1>7

LEMMA HealthNextAuth == ASSUME HealthInv, NEW a \in Auths, He!NextAuth(a) PROVE HealthInv'
<1> USE DEF HealthInv
<1>1. /\ running /\ work = He!Idle /\ a \in queue /\ queue' = queue \ {a} /\ running' = running
      /\ work' = (IF a \in live \ disabled THEN [of |-> a, models |-> wanted[a]] ELSE He!Idle)
      /\ live' = live /\ disabled' = disabled /\ wanted' = wanted /\ touched' = touched
      /\ judged' = judged /\ cycles' = cycles
  BY DEF He!NextAuth, He!pool
<1>2. /\ a \notin live => UNCHANGED <<row, history>>
      /\ a \in live \cap disabled => He!DropRows({a} \X Checked) /\ UNCHANGED history
      /\ a \in live \ disabled => He!PruneModelHealthOtherModels(a, wanted[a])
  BY DEF He!NextAuth
<1>3. wanted[a] \in (SUBSET Checked) \ {{}} BY DEF HealthTypes
<1>4. judged = "none" BY <1>1 DEF HealthTypes
<1>5. HealthTypes' BY <1>1, <1>4 DEF HealthTypes
<1>6. InHand'
  <2>1. CASE a \in live \ disabled
    <3>1. work' = [of |-> a, models |-> wanted[a]] BY <1>1, <2>1
    <3>2. work' \in [of : live \cup touched, models : (SUBSET Checked) \ {{}}] /\ work'.of = a
          /\ work'.models = wanted[a]
      BY <1>3, <2>1, <3>1
    <3> QED BY <1>1, <2>1, <3>2 DEF InHand
  <2>2. CASE a \notin live \ disabled BY <1>1, <2>2 DEF InHand, He!Idle
  <2> QED BY <2>1, <2>2
<1>7. HealthRows'
  <2>1. CASE a \notin live BY <1>2, <2>1 DEF HealthRows
  <2>2. CASE a \in live \cap disabled BY <1>2, <2>2, HealthDrop
  <2>3. CASE a \in live \ disabled
    BY <1>2, <2>3, HealthDrop DEF He!PruneModelHealthOtherModels
  <2> QED BY <2>1, <2>2, <2>3
<1>8. ASSUME NEW b \in Auths \ touched PROVE LookedAt(b)'
  <2>1. LookedAt(b) BY <1>1
  <2>2. work.models = {} BY <1>1 DEF He!Idle
  <2>3. ASSUME b # a, NEW m \in Checked PROVE row'[<<b, m>>] = row[<<b, m>>]
    <3>1. <<b, m>> \in He!Pairs /\ <<b, m>> \notin {a} \X Checked
          /\ <<b, m>> \notin {a} \X (Checked \ wanted[a])
      BY <2>3 DEF He!Pairs
    <3> QED BY <1>2, <3>1 DEF He!DropRows, He!PruneModelHealthOtherModels
  <2>4. CASE b # a BY <1>1, <2>1, <2>2, <2>3, <2>4 DEF LookedAt
  <2>5. CASE b = a /\ a \in live \ disabled
    <3>1. work'.of = a /\ work'.models = wanted[a] BY <1>1, <2>5
    <3>2. ASSUME NEW m \in Checked \ wanted[a] PROVE row'[<<a, m>>] = "none"
      <4>1. <<a, m>> \in He!Pairs /\ <<a, m>> \in {a} \X (Checked \ wanted[a]) BY DEF He!Pairs
      <4> QED BY <1>2, <2>5, <4>1 DEF He!DropRows, He!PruneModelHealthOtherModels
    <3> QED BY <1>1, <2>5, <3>1, <3>2 DEF LookedAt
  <2>6. CASE b = a /\ a \in live \cap disabled
    <3>1. ASSUME NEW m \in Checked PROVE row'[<<a, m>>] = "none"
      <4>1. <<a, m>> \in He!Pairs /\ <<a, m>> \in {a} \X Checked BY DEF He!Pairs
      <4> QED BY <1>2, <2>6, <4>1 DEF He!DropRows
    <3> QED BY <1>1, <2>6, <3>1 DEF LookedAt
  <2>7. b = a => a \in live BY <1>1 DEF HealthTypes
  <2> QED BY <2>4, <2>5, <2>6, <2>7
<1> QED BY <1>1, <1>5, <1>6, <1>7, <1>8

LEMMA HealthJudge == ASSUME HealthInv, He!Judge PROVE HealthInv'
<1> USE DEF HealthInv
<1>1. /\ work # He!Idle /\ judged' \in He!Verdicts(work.of)
      /\ UNCHANGED <<live, disabled, wanted, touched, row, history, running, queue, work, cycles>>
  BY DEF He!Judge, He!pool
<1>2. judged' \in {"ok", "fail", "unknown"} BY <1>1 DEF He!Verdicts, He!recordPassiveTraffic
<1>3. HealthTypes' BY <1>1, <1>2 DEF HealthTypes, He!Idle
<1>4. HealthRows' BY <1>1 DEF HealthRows
<1>5. InHand' BY <1>1 DEF InHand, He!Idle
<1>6. \A a \in Auths : LookedAt(a)' <=> LookedAt(a) BY <1>1 DEF LookedAt
<1> QED BY <1>1, <1>3, <1>4, <1>5, <1>6

LEMMA HealthRecord == ASSUME HealthInv, NEW m \in Checked, He!Record(m) PROVE HealthInv'
<1> USE ServerAssumption DEF He!HealthAssumption, HealthInv
<1> DEFINE p == <<work.of, m>>
<1>1. /\ judged # "none" /\ m \in work.models /\ row' = [row EXCEPT ![p] = judged]
      /\ work' = (IF work.models = {m} THEN He!Idle ELSE [work EXCEPT !.models = @ \ {m}])
      /\ judged' = "none"
      /\ UNCHANGED <<live, disabled, wanted, touched, running, queue, cycles>>
  BY DEF He!Record, He!pool, He!UpsertModelHealth
<1>2. IF judged = "unknown" THEN UNCHANGED history ELSE He!AppendModelHealthHistory(p, judged)
  BY DEF He!Record
<1>3. /\ work \in [of : live \cup touched, models : (SUBSET Checked) \ {{}}]
      /\ running /\ work.of \notin queue
      /\ work.of \notin touched => work.of \in live \ disabled /\ work.models \subseteq wanted[work.of]
  BY <1>1 DEF InHand, HealthTypes
<1>4. work.of \in Auths /\ p \in He!Pairs BY <1>3 DEF HealthTypes, He!Pairs
<1>5. HealthTypes' BY <1>1 DEF HealthTypes
<1>6. row' \in [He!Pairs -> {"none", "ok", "fail", "unknown"}] BY <1>1, <1>4 DEF HealthRows, HealthTypes
<1>7. HealthRows'
  <2>1. CASE judged = "unknown" BY <1>2, <1>6, <2>1 DEF HealthRows
  <2>2. CASE judged # "unknown"
    <3>1. judged \in {"ok", "fail"} BY <1>1, <2>2 DEF HealthTypes
    <3> DEFINE past == history[p]
               longer == Append(past, judged)
               kept == IF Len(longer) > Cap THEN Tail(longer) ELSE longer
    <3>2. history' = [history EXCEPT ![p] = kept] BY <1>2, <2>2 DEF He!AppendModelHealthHistory
    <3>3. past \in Seq({"ok", "fail"}) /\ Len(past) <= Cap BY <1>4 DEF HealthRows
    <3> HIDE DEF past
    <3>4. longer \in Seq({"ok", "fail"}) /\ Len(longer) = Len(past) + 1 /\ longer # << >>
      BY <3>1, <3>3
    <3> HIDE DEF longer
    <3>5. Tail(longer) \in Seq({"ok", "fail"}) /\ Len(Tail(longer)) = Len(longer) - 1 BY <3>4
    <3>6. kept \in Seq({"ok", "fail"}) /\ Len(kept) <= Cap BY <3>3, <3>4, <3>5
    <3> HIDE DEF kept
    <3> QED BY <1>4, <1>6, <3>2, <3>6 DEF HealthRows
  <2> QED BY <2>1, <2>2
<1>8. work'.models = work.models \ {m} /\ (work'.of = work.of \/ work'.models = {})
  BY <1>1, <1>3 DEF He!Idle
<1>9. InHand'
  <2>1. CASE work.models = {m} BY <1>1, <2>1 DEF InHand, He!Idle
  <2>2. CASE work.models # {m}
    <3>1. work' = [work EXCEPT !.models = @ \ {m}] BY <1>1, <2>2
    <3>2. work.models \ {m} \in (SUBSET Checked) \ {{}} BY <1>1, <1>3, <2>2
    <3>3. work' \in [of : live \cup touched, models : (SUBSET Checked) \ {{}}] /\ work'.of = work.of
      BY <1>3, <3>1, <3>2
    <3> QED BY <1>1, <1>3, <1>8, <3>3 DEF InHand
  <2> QED BY <2>1, <2>2
<1>10. ASSUME NEW b \in Auths \ touched PROVE LookedAt(b)'
  <2> SUFFICES ASSUME NEW n \in Checked, b \notin queue
               PROVE  IF b \in live \ disabled /\ n \in wanted[b]
                      THEN row'[<<b, n>>] # "none" \/ (work'.of = b /\ n \in work'.models)
                      ELSE row'[<<b, n>>] = "none"
    BY <1>1 DEF LookedAt
  <2>1. IF b \in live \ disabled /\ n \in wanted[b]
        THEN row[<<b, n>>] # "none" \/ (work.of = b /\ n \in work.models)
        ELSE row[<<b, n>>] = "none"
    BY <1>3 DEF LookedAt
  <2>2. CASE b = work.of /\ n = m
    <3>1. row'[<<b, n>>] = judged BY <1>1, <1>4, <2>2 DEF HealthRows
    <3> QED BY <1>1, <1>3, <2>2, <3>1
  <2>3. CASE ~(b = work.of /\ n = m)
    <3>1. row'[<<b, n>>] = row[<<b, n>>]
      <4>1. <<b, n>> # p BY <2>3
      <4>2. <<b, n>> \in He!Pairs BY DEF He!Pairs
      <4> HIDE DEF p
      <4> QED BY <1>1, <2>3, <4>1, <4>2 DEF HealthRows
    <3>2. work.of = b /\ n \in work.models => work'.of = b /\ n \in work'.models BY <1>8, <2>3
    <3> QED BY <2>1, <3>1, <3>2
  <2> QED BY <2>2, <2>3
<1> QED BY <1>1, <1>5, <1>7, <1>9, <1>10

LEMMA HealthEnd == ASSUME HealthInv, He!EndCycle PROVE HealthInv'
<1> USE DEF HealthInv
<1>1. /\ running /\ queue = {} /\ work = He!Idle /\ running' = FALSE /\ cycles' = TRUE
      /\ UNCHANGED <<live, disabled, wanted, touched, row, history, queue, work, judged>>
  BY DEF He!EndCycle, He!pool
<1>2. HealthTypes' BY <1>1 DEF HealthTypes, He!Idle
<1>3. HealthRows' BY <1>1 DEF HealthRows
<1>4. InHand' BY <1>1 DEF InHand, He!Idle
<1>5. \A a \in Auths : LookedAt(a)' <=> LookedAt(a) BY <1>1 DEF LookedAt
<1> QED BY <1>1, <1>2, <1>3, <1>4, <1>5

LEMMA HealthStep == ASSUME HealthInv, He!Next \/ UNCHANGED health PROVE HealthInv'
<1>1. CASE He!Next
  BY <1>1, HealthChange, HealthRunOnce, HealthNextAuth, HealthJudge, HealthRecord, HealthEnd
  DEF He!Next
<1>2. CASE UNCHANGED health
  <2>1. UNCHANGED <<live, disabled, wanted, touched, row, history, running, queue, work, judged, cycles>>
    BY <1>2 DEF health
  <2>2. \A a \in Auths : LookedAt(a)' <=> LookedAt(a) BY <2>1 DEF LookedAt
  <2> QED BY <2>1, <2>2 DEF HealthInv, HealthTypes, HealthRows, InHand, He!Idle
<1> QED BY <1>1, <1>2

-----------------------------------------------------------------------------
(* The caches of the panels and reports.                                    *)

\* No answer was newer than what is held of the key, or on its way.
Ordered(e, f, l) ==
  /\ l \in -1..data /\ e.val \in -1..data
  /\ e # Ca!Missing => l <= e.val
  /\ f.stage = "fetched" => f.val \in -1..data /\ l <= f.val /\ e.val <= f.val

\* Who waits asked after the answers it is not to fall behind.
Patient(c, given) ==
  /\ c.stage \in {"missed", "waiting"} => c.key \in Cached /\ c.floor <= given[c.key]
  /\ c.stage = "told" /\ c.got # -2 => c.floor <= c.got

CachesTypes ==
  /\ policy \in {"swr", "auth", "query", "resp"}
  /\ moment \in Nat /\ data \in Nat
  /\ entry \in [Cached -> [val : Int, at : Nat]]
  /\ flight \in [Cached -> [stage : {"none", "fetching", "fetched"}, val : Int]]
  /\ caller \in [Panels -> [stage : {"idle", "missed", "waiting", "told"},
                            key : Cached \cup {"none"}, floor : Int, got : Int]]
  /\ latest \in [Cached -> Int] /\ warming \subseteq Cached
  /\ policy \notin {"swr", "auth"} => warming = {}
  /\ repeated \in BOOLEAN /\ (repeated => policy = "query")

Bounded == policy \in {"query", "resp"} => Cardinality(Ca!Held) <= MaxEntries

CachesInv ==
  /\ CachesTypes /\ Bounded
  /\ \A k \in Cached : Ordered(entry[k], flight[k], latest[k])
  /\ \A r \in Panels : Patient(caller[r], latest)

LEMMA CachesAreHeld == ASSUME CachesInv PROVE Ca!CachesHold
<1> USE DEF CachesInv, CachesTypes
<1>1. policy \in {"query", "resp"} => Ca!Cardinality(Ca!Held) <= MaxEntries
  BY DEF Bounded, Ca!Cardinality, Cardinality
<1>2. \A k \in Cached : latest[k] \in -1..data /\ entry[k].val \in -1..data BY DEF Ordered
<1>3. Ca!NoStepBack
  <2> SUFFICES ASSUME NEW r \in Panels, caller[r].stage = "told", caller[r].got # -2
               PROVE  caller[r].got >= caller[r].floor
    BY DEF Ca!NoStepBack, Ca!Failed
  <2>1. caller[r].floor <= caller[r].got BY DEF Patient
  <2>2. caller[r].got \in Int /\ caller[r].floor \in Int OBVIOUS
  <2> QED BY <2>1, <2>2
<1> QED BY <1>1, <1>2, <1>3 DEF Ca!CachesHold, Ca!TypeOK, Ca!QueuedOnce

LEMMA CachesInit == ASSUME Ca!Init PROVE CachesInv
<1> USE ServerAssumption DEF Ca!CachesAssumption, Ca!Init
<1>1. Ca!Held = {} BY DEF Ca!Held
<1>2. Bounded BY <1>1, FS_EmptySet DEF Bounded
<1>3. CachesTypes
  <2>1. /\ Ca!Missing \in [val : Int, at : Nat]
        /\ Ca!Landed \in [stage : {"none", "fetching", "fetched"}, val : Int]
        /\ Ca!Idle \in [stage : {"idle", "missed", "waiting", "told"}, key : Cached \cup {"none"},
                        floor : Int, got : Int]
    BY DEF Ca!Missing, Ca!Landed, Ca!Idle
  <2>2. /\ entry \in [Cached -> [val : Int, at : Nat]]
        /\ flight \in [Cached -> [stage : {"none", "fetching", "fetched"}, val : Int]]
        /\ caller \in [Panels -> [stage : {"idle", "missed", "waiting", "told"},
                                  key : Cached \cup {"none"}, floor : Int, got : Int]]
    BY <2>1
  <2>3. latest \in [Cached -> Int] /\ warming = {} /\ moment = 0 /\ data = 0 /\ repeated = FALSE
    OBVIOUS
  <2> HIDE DEF Ca!Init
  <2>4. policy \in {"swr", "auth", "query", "resp"} BY DEF Ca!Init
  <2> QED BY <2>2, <2>3, <2>4 DEF CachesTypes
<1>4. \A k \in Cached : Ordered(entry[k], flight[k], latest[k])
  BY DEF Ordered, Ca!Missing, Ca!Landed
<1>5. \A r \in Panels : Patient(caller[r], latest) BY DEF Patient, Ca!Idle
<1> QED BY <1>2, <1>3, <1>4, <1>5 DEF CachesInv

\* The later of two answers.
LEMMA LaterIs ==
  ASSUME NEW v \in Int, NEW w \in Int
  PROVE  Ca!Later(v, w) \in Int /\ v <= Ca!Later(v, w) /\ w <= Ca!Later(v, w)
         /\ Ca!Later(v, w) \in {v, w}
BY DEF Ca!Later

\* A caller is patient still when the answers grow.
LEMMA StaysPatient ==
  ASSUME NEW c \in [stage : {"idle", "missed", "waiting", "told"}, key : Cached \cup {"none"},
                    floor : Int, got : Int],
         NEW given \in [Cached -> Int], NEW then \in [Cached -> Int],
         \A k \in Cached : given[k] <= then[k], Patient(c, given)
  PROVE  Patient(c, then)
<1>1. ASSUME c.key \in Cached, c.floor <= given[c.key] PROVE c.floor <= then[c.key]
  <2>1. given[c.key] \in Int /\ then[c.key] \in Int /\ given[c.key] <= then[c.key] BY <1>1
  <2>2. c.floor \in Int OBVIOUS
  <2> QED BY <1>1, <2>1, <2>2
<1> QED BY <1>1 DEF Patient

\* An answer from the entry of k to r, which asks or looks again.
LEMMA AnswerHeld ==
  ASSUME CachesInv, NEW k \in Cached, k \in Ca!Held,
         latest' = [latest EXCEPT ![k] = Ca!Later(@, entry[k].val)]
  PROVE  /\ latest' \in [Cached -> Int] /\ \A j \in Cached : latest[j] <= latest'[j]
         /\ \A j \in Cached : Ordered(entry[j], flight[j], latest'[j])
         /\ latest[k] <= entry[k].val
<1> USE DEF CachesInv, CachesTypes
<1>1. entry[k].val \in Int /\ latest[k] \in Int OBVIOUS
<1>2. Ordered(entry[k], flight[k], latest[k]) OBVIOUS
<1>3. latest[k] <= entry[k].val /\ entry[k] # Ca!Missing BY <1>2 DEF Ordered, Ca!Held
<1>4. Ca!Later(latest[k], entry[k].val) = entry[k].val BY <1>1, <1>3 DEF Ca!Later
<1>5. latest' = [latest EXCEPT ![k] = entry[k].val] BY <1>4
<1>6. Ordered(entry[k], flight[k], entry[k].val) BY <1>1, <1>2 DEF Ordered
<1>7. latest' \in [Cached -> Int] /\ latest'[k] = entry[k].val
      /\ \A j \in Cached : j # k => latest'[j] = latest[j]
  BY <1>1, <1>5
<1>8. \A j \in Cached : latest[j] <= latest'[j] BY <1>1, <1>3, <1>7
<1>9. \A j \in Cached : Ordered(entry[j], flight[j], latest'[j]) BY <1>6, <1>7
<1> QED BY <1>3, <1>7, <1>8, <1>9

LEMMA CachesAsk ==
  ASSUME CachesInv, NEW r \in Panels, NEW k \in Cached, Ca!Ask(r, k)
  PROVE  CachesInv'
<1> USE DEF CachesInv
<1>1. UNCHANGED <<policy, moment, data, entry, flight, repeated>> BY DEF Ca!Ask
<1>2. Ca!Held' = Ca!Held BY <1>1 DEF Ca!Held
<1>3. Bounded' BY <1>1, <1>2 DEF Bounded
<1>4. entry[k].val \in Int /\ latest[k] \in Int BY DEF CachesTypes
<1>5. CASE Ca!Fresh(k) \/ Ca!Usable(k)
  <2> DEFINE c == [stage |-> "told", key |-> k, floor |-> latest[k], got |-> entry[k].val]
  <2>1. /\ k \in Ca!Held /\ caller' = [caller EXCEPT ![r] = c]
        /\ latest' = [latest EXCEPT ![k] = Ca!Later(@, entry[k].val)]
        /\ warming' = IF Ca!Fresh(k) THEN warming ELSE warming \cup {k}
    BY <1>5 DEF Ca!Ask, Ca!Fresh, Ca!Usable
  <2>2. /\ latest' \in [Cached -> Int] /\ \A j \in Cached : latest[j] <= latest'[j]
        /\ \A j \in Cached : Ordered(entry[j], flight[j], latest'[j])
        /\ latest[k] <= entry[k].val
    BY <2>1, AnswerHeld
  <2>3. c \in [stage : {"idle", "missed", "waiting", "told"}, key : Cached \cup {"none"},
               floor : Int, got : Int]
        /\ Patient(c, latest')
    BY <1>4, <2>2 DEF Patient
  <2> HIDE DEF c
  <2>4. warming' \subseteq Cached /\ (policy \notin {"swr", "auth"} => warming' = {})
    BY <1>5, <2>1 DEF CachesTypes, Ca!Usable
  <2>5. CachesTypes' BY <1>1, <2>1, <2>2, <2>3, <2>4 DEF CachesTypes
  <2>6. ASSUME NEW q \in Panels PROVE Patient(caller'[q], latest')
    <3>1. CASE q = r BY <2>1, <2>3, <3>1 DEF CachesTypes
    <3>2. CASE q # r BY <2>1, <2>2, <3>2, StaysPatient DEF CachesTypes
    <3> QED BY <3>1, <3>2
  <2>7. \A j \in Cached : Ordered(entry[j], flight[j], latest[j])' BY <1>1, <2>2 DEF Ordered
  <2> QED BY <1>3, <2>5, <2>6, <2>7 DEF Patient
<1>6. CASE ~(Ca!Fresh(k) \/ Ca!Usable(k))
  <2> DEFINE c == [stage |-> "missed", key |-> k, floor |-> latest[k], got |-> -1]
  <2>1. caller' = [caller EXCEPT ![r] = c] /\ UNCHANGED <<latest, warming>> BY <1>6 DEF Ca!Ask
  <2>2. c \in [stage : {"idle", "missed", "waiting", "told"}, key : Cached \cup {"none"},
               floor : Int, got : Int]
        /\ Patient(c, latest)
    BY <1>4 DEF Patient
  <2> HIDE DEF c
  <2>3. CachesTypes' BY <1>1, <2>1, <2>2 DEF CachesTypes
  <2>4. \A q \in Panels : Patient(caller'[q], latest) BY <2>1, <2>2 DEF CachesTypes
  <2>5. \A j \in Cached : Ordered(entry[j], flight[j], latest[j])' BY <1>1, <2>1 DEF Ordered
  <2> QED BY <1>3, <2>1, <2>3, <2>4, <2>5 DEF Patient
<1> QED BY <1>5, <1>6

\* A flight begins for a key or is joined.
LEMMA TakesOff ==
  ASSUME CachesInv, NEW k \in Cached,
         flight' = IF flight[k] = Ca!Landed THEN [flight EXCEPT ![k].stage = "fetching"] ELSE flight
  PROVE  /\ flight' \in [Cached -> [stage : {"none", "fetching", "fetched"}, val : Int]]
         /\ \A j \in Cached : Ordered(entry[j], flight'[j], latest[j])
<1> USE DEF CachesInv, CachesTypes
<1>1. CASE flight[k] = Ca!Landed
  <2>1. flight' \in [Cached -> [stage : {"none", "fetching", "fetched"}, val : Int]]
        /\ flight'[k].stage = "fetching" /\ \A j \in Cached : j # k => flight'[j] = flight[j]
    BY <1>1
  <2> QED BY <2>1 DEF Ordered
<1>2. CASE flight[k] # Ca!Landed BY <1>2
<1> QED BY <1>1, <1>2

LEMMA CachesFly ==
  ASSUME CachesInv, NEW r \in Panels, Ca!Fly(r)
  PROVE  CachesInv'
<1> USE DEF CachesInv
<1> DEFINE k == caller[r].key
           again == policy # "query" /\ Ca!Fresh(k)
<1>1. UNCHANGED <<policy, moment, data, entry, warming>> /\ caller[r].stage = "missed"
  BY DEF Ca!Fly
<1>2. Ca!Held' = Ca!Held BY <1>1 DEF Ca!Held
<1>3. Bounded' BY <1>1, <1>2 DEF Bounded
<1>4. k \in Cached /\ caller[r].floor <= latest[k] BY <1>1 DEF Patient
<1>5. entry[k].val \in Int /\ latest[k] \in Int /\ caller[r].floor \in Int BY <1>4 DEF CachesTypes
<1>6. CASE flight[k] = Ca!Landed /\ again
  <2> DEFINE c == [caller[r] EXCEPT !.stage = "told", !.got = entry[k].val]
  <2>1. /\ k \in Ca!Held /\ caller' = [caller EXCEPT ![r] = c]
        /\ latest' = [latest EXCEPT ![k] = Ca!Later(@, entry[k].val)]
        /\ UNCHANGED <<flight, repeated>>
    BY <1>6 DEF Ca!Fly, Ca!Fresh
  <2>2. /\ latest' \in [Cached -> Int] /\ \A j \in Cached : latest[j] <= latest'[j]
        /\ \A j \in Cached : Ordered(entry[j], flight[j], latest'[j])
        /\ latest[k] <= entry[k].val
    BY <1>4, <2>1, AnswerHeld
  <2>3. c \in [stage : {"idle", "missed", "waiting", "told"}, key : Cached \cup {"none"},
               floor : Int, got : Int]
        /\ c.stage = "told" /\ c.got = entry[k].val /\ c.floor = caller[r].floor
    BY <1>5 DEF CachesTypes
  <2> HIDE DEF c
  <2>4. caller[r].floor <= entry[k].val BY <1>4, <1>5, <2>2
  <2>5. Patient(c, latest') BY <2>3, <2>4 DEF Patient
  <2>6. CachesTypes' BY <1>1, <2>1, <2>2, <2>3 DEF CachesTypes
  <2>7. ASSUME NEW q \in Panels PROVE Patient(caller'[q], latest')
    <3>1. CASE q = r BY <2>1, <2>5, <3>1 DEF CachesTypes
    <3>2. CASE q # r BY <2>1, <2>2, <3>2, StaysPatient DEF CachesTypes
    <3> QED BY <3>1, <3>2
  <2>8. \A j \in Cached : Ordered(entry[j], flight[j], latest[j])' BY <1>1, <2>1, <2>2 DEF Ordered
  <2> QED BY <1>3, <2>6, <2>7, <2>8 DEF Patient
<1>7. CASE ~(flight[k] = Ca!Landed /\ again)
  <2> DEFINE c == [caller[r] EXCEPT !.stage = "waiting"]
             more == repeated \/ (flight[k] = Ca!Landed /\ Ca!Fresh(k))
  <2>1. /\ caller' = [caller EXCEPT ![r] = c]
        /\ flight' = (IF flight[k] = Ca!Landed THEN [flight EXCEPT ![k].stage = "fetching"] ELSE flight)
        /\ latest' = latest
    BY <1>7 DEF Ca!Fly
  <2>2. repeated' = more BY <1>7 DEF Ca!Fly
  <2>3. more \in BOOLEAN /\ (more => policy = "query") BY <1>7 DEF CachesTypes
  <2> HIDE DEF more
  <2>4. repeated' \in BOOLEAN /\ (repeated' => policy = "query") BY <2>2, <2>3
  <2>5. flight' \in [Cached -> [stage : {"none", "fetching", "fetched"}, val : Int]]
        /\ \A j \in Cached : Ordered(entry[j], flight'[j], latest[j])
    BY <1>4, <2>1, TakesOff
  <2>6. c \in [stage : {"idle", "missed", "waiting", "told"}, key : Cached \cup {"none"},
               floor : Int, got : Int]
        /\ c.stage = "waiting" /\ c.key = k /\ c.floor = caller[r].floor
    BY DEF CachesTypes
  <2> HIDE DEF c
  <2>7. Patient(c, latest) BY <1>4, <2>6 DEF Patient
  <2>8. CachesTypes' BY <1>1, <2>1, <2>4, <2>5, <2>6 DEF CachesTypes
  <2>9. \A q \in Panels : Patient(caller'[q], latest) BY <2>1, <2>7 DEF CachesTypes
  <2>10. \A j \in Cached : Ordered(entry[j], flight[j], latest[j])' BY <1>1, <2>1, <2>5 DEF Ordered
  <2> QED BY <1>3, <2>1, <2>8, <2>9, <2>10 DEF Patient
<1> QED BY <1>6, <1>7

LEMMA CachesWarm == ASSUME CachesInv, NEW k \in Cached, Ca!Warm(k) PROVE CachesInv'
<1> USE DEF CachesInv
<1>1. /\ warming' = warming \ {k}
      /\ UNCHANGED <<policy, moment, data, entry, caller, latest, repeated>>
      /\ flight' = IF flight[k] = Ca!Landed THEN [flight EXCEPT ![k].stage = "fetching"] ELSE flight
  BY DEF Ca!Warm
<1>2. flight' \in [Cached -> [stage : {"none", "fetching", "fetched"}, val : Int]]
      /\ \A j \in Cached : Ordered(entry[j], flight'[j], latest[j])
  BY <1>1, TakesOff
<1>3. Bounded' BY <1>1 DEF Bounded, Ca!Held
<1>4. CachesTypes' BY <1>1, <1>2 DEF CachesTypes
<1> QED BY <1>1, <1>2, <1>3, <1>4 DEF Ordered, Patient

LEMMA CachesFetch == ASSUME CachesInv, NEW k \in Cached, Ca!Fetch(k) PROVE CachesInv'
<1> USE DEF CachesInv
<1> DEFINE f == [stage |-> "fetched", val |-> data]
<1>1. /\ flight' = [flight EXCEPT ![k] = f]
      /\ UNCHANGED <<policy, moment, data, entry, warming, caller, latest, repeated>>
  BY DEF Ca!Fetch
<1>2. f \in [stage : {"none", "fetching", "fetched"}, val : Int] /\ f.val = data BY DEF CachesTypes
<1> HIDE DEF f
<1>3. Bounded' BY <1>1 DEF Bounded, Ca!Held
<1>4. CachesTypes' BY <1>1, <1>2 DEF CachesTypes
<1>5. Ordered(entry[k], f, latest[k])
  <2>1. Ordered(entry[k], flight[k], latest[k]) /\ data \in Nat BY DEF CachesTypes
  <2> QED BY <1>2, <2>1 DEF Ordered
<1>6. ASSUME NEW j \in Cached PROVE Ordered(entry[j], flight'[j], latest[j])
  BY <1>1, <1>5 DEF CachesTypes
<1> QED BY <1>1, <1>3, <1>4, <1>6 DEF Ordered, Patient

\* The bound leaves room for the entry that is stored.
LEMMA RoomForOne ==
  ASSUME CachesInv, policy \in {"query", "resp"}
  PROVE  IsFiniteSet(Ca!Kept) /\ Cardinality(Ca!Kept) < MaxEntries
<1>1. IsFiniteSet(Cached) /\ MaxEntries \in Nat \ {0}
  BY ServerAssumption DEF Ca!CachesAssumption, Ca!IsFiniteSet, IsFiniteSet
<1>2. IsFiniteSet(Ca!Held) BY <1>1, FS_Subset DEF Ca!Held
<1> DEFINE fine == {k \in Ca!Held : policy = "resp" /\ Ca!Fresh(k)}
<1>3. IsFiniteSet(fine) BY <1>2, FS_Subset
<1>4. Cardinality(Ca!Held) \in Nat /\ Cardinality(fine) \in Nat BY <1>2, <1>3, FS_CardinalityType
<1>5. Ca!Kept = IF Cardinality(Ca!Held) < MaxEntries THEN Ca!Held
                ELSE IF Cardinality(fine) >= MaxEntries THEN {} ELSE fine
  BY DEF Ca!Kept, Ca!Cardinality, Cardinality
<1> HIDE DEF fine
<1>6. CASE Cardinality(Ca!Held) < MaxEntries BY <1>2, <1>5, <1>6
<1>7. CASE ~(Cardinality(Ca!Held) < MaxEntries) /\ Cardinality(fine) >= MaxEntries
  <2>1. Ca!Kept = {} BY <1>5, <1>7
  <2> QED BY <1>1, <2>1, FS_EmptySet
<1>8. CASE ~(Cardinality(Ca!Held) < MaxEntries) /\ ~(Cardinality(fine) >= MaxEntries)
  <2>1. Ca!Kept = fine BY <1>5, <1>8
  <2> QED BY <1>1, <1>3, <1>4, <1>8, <2>1
<1> QED BY <1>6, <1>7, <1>8

\* An answer to everyone who waits for k: no older than it was asked for.
LEMMA AnswerWaiting ==
  ASSUME CachesInv, NEW k \in Cached, NEW v \in Int, Ca!Answer(k, v),
         v = -2 \/ latest[k] <= v
  PROVE  /\ caller' \in [Panels -> [stage : {"idle", "missed", "waiting", "told"},
                                    key : Cached \cup {"none"}, floor : Int, got : Int]]
         /\ \A r \in Panels : Patient(caller'[r], latest)
<1> USE DEF CachesInv, CachesTypes
<1> DEFINE replied(r) == [caller[r] EXCEPT !.stage = "told", !.got = v]
<1>1. \A r \in Panels : replied(r) \in [stage : {"idle", "missed", "waiting", "told"},
                                     key : Cached \cup {"none"}, floor : Int, got : Int]
        /\ replied(r).stage = "told" /\ replied(r).got = v /\ replied(r).floor = caller[r].floor
  OBVIOUS
<1>2. caller' = [r \in Panels |-> IF r \in Ca!Waiting(k) THEN replied(r) ELSE caller[r]]
  BY DEF Ca!Answer
<1> HIDE DEF replied
<1>3. caller' \in [Panels -> [stage : {"idle", "missed", "waiting", "told"},
                              key : Cached \cup {"none"}, floor : Int, got : Int]]
  BY <1>1, <1>2
<1>4. ASSUME NEW r \in Panels PROVE Patient(caller'[r], latest)
  <2>1. CASE r \in Ca!Waiting(k)
    <3>1. caller'[r] = replied(r) BY <1>2, <2>1
    <3>2. caller[r].floor <= latest[k] BY <2>1 DEF Ca!Waiting, Patient
    <3>3. caller[r].floor \in Int /\ latest[k] \in Int OBVIOUS
    <3>4. v = -2 \/ caller[r].floor <= v BY <3>2, <3>3
    <3> QED BY <1>1, <3>1, <3>4 DEF Patient
  <2>2. CASE r \notin Ca!Waiting(k) BY <1>2, <2>2
  <2> QED BY <2>1, <2>2
<1> QED BY <1>3, <1>4

LEMMA CachesLand == ASSUME CachesInv, NEW k \in Cached, Ca!Land(k) PROVE CachesInv'
<1> USE DEF CachesInv
<1> DEFINE v == flight[k].val
           e == [val |-> v, at |-> moment]
<1>1. /\ flight[k].stage = "fetched"
      /\ entry' = [j \in Cached |-> IF j = k THEN e ELSE IF j \in Ca!Kept THEN entry[j] ELSE Ca!Missing]
      /\ Ca!Answer(k, v)
      /\ latest' = (IF Ca!Waiting(k) = {} THEN latest ELSE [latest EXCEPT ![k] = Ca!Later(@, v)])
      /\ flight' = [flight EXCEPT ![k] = Ca!Landed]
      /\ UNCHANGED <<policy, moment, data, warming, repeated>>
  BY DEF Ca!Land
<1>2. v \in Int /\ latest[k] \in Int /\ data \in Nat BY DEF CachesTypes
<1>3. v \in -1..data /\ latest[k] \in -1..data /\ latest[k] <= v
  <2>1. Ordered(entry[k], flight[k], latest[k]) OBVIOUS
  <2> QED BY <1>1, <2>1 DEF Ordered
<1>4. e \in [val : Int, at : Nat] /\ e.val = v BY <1>2 DEF CachesTypes
<1> HIDE DEF v, e
<1>5. Ca!Later(latest[k], v) = v BY <1>2, <1>3 DEF Ca!Later
<1>6. /\ latest' \in [Cached -> Int] /\ latest'[k] \in {latest[k], v}
      /\ \A j \in Cached : latest[j] <= latest'[j] /\ (j # k => latest'[j] = latest[j])
  BY <1>1, <1>2, <1>3, <1>5 DEF CachesTypes
<1>7. /\ caller' \in [Panels -> [stage : {"idle", "missed", "waiting", "told"},
                                 key : Cached \cup {"none"}, floor : Int, got : Int]]
      /\ \A r \in Panels : Patient(caller'[r], latest)
  BY <1>1, <1>2, <1>3, AnswerWaiting
<1>8. \A r \in Panels : Patient(caller'[r], latest')
  BY <1>6, <1>7, StaysPatient DEF CachesTypes
<1>9. Ca!Missing \in [val : Int, at : Nat] /\ Ca!Missing.val = -1 BY DEF Ca!Missing
<1>10. entry' \in [Cached -> [val : Int, at : Nat]] BY <1>1, <1>4, <1>9 DEF CachesTypes
<1>11. Ca!Landed \in [stage : {"none", "fetching", "fetched"}, val : Int] /\ Ca!Landed.stage = "none"
  BY DEF Ca!Landed
<1>12. CachesTypes' BY <1>1, <1>6, <1>7, <1>10, <1>11 DEF CachesTypes
<1>13. ASSUME NEW j \in Cached PROVE Ordered(entry'[j], flight'[j], latest'[j])
  <2>1. Ordered(entry[j], flight[j], latest[j]) /\ entry[j].val \in Int /\ latest[j] \in Int
    BY DEF CachesTypes
  <2>2. CASE j = k
    <3>1. entry'[j] = e /\ flight'[j].stage = "none" BY <1>1, <1>11, <2>2 DEF CachesTypes
    <3>2. latest'[j] \in -1..data /\ latest'[j] <= v BY <1>2, <1>3, <1>6, <2>2
    <3> QED BY <1>3, <1>4, <3>1, <3>2 DEF Ordered
  <2>3. CASE j # k
    <3>1. latest'[j] = latest[j] /\ flight'[j] = flight[j] BY <1>1, <1>6, <2>3 DEF CachesTypes
    <3>2. entry'[j] = entry[j] \/ entry'[j] = Ca!Missing BY <1>1, <2>3
    <3>3. flight[j].stage = "fetched" => flight[j].val \in -1..data BY <2>1 DEF Ordered
    <3>4. flight[j].stage = "fetched" => -1 <= flight[j].val BY <1>2, <3>3
    <3>5. -1 \in -1..data BY <1>2
    <3> QED BY <1>9, <2>1, <3>1, <3>2, <3>3, <3>4, <3>5 DEF Ordered
  <2> QED BY <2>2, <2>3
<1>14. \A j \in Cached : Ordered(entry[j], flight[j], latest[j])' BY <1>1, <1>13 DEF Ordered
<1>15. Bounded'
  <2> SUFFICES ASSUME policy \in {"query", "resp"} PROVE Cardinality(Ca!Held') <= MaxEntries
    BY <1>1 DEF Bounded
  <2>1. IsFiniteSet(Ca!Kept) /\ Cardinality(Ca!Kept) < MaxEntries BY RoomForOne
  <2>2. Ca!Held' \subseteq Ca!Kept \cup {k} BY <1>1 DEF Ca!Held
  <2>3. /\ IsFiniteSet(Ca!Kept \cup {k}) /\ Cardinality(Ca!Kept) \in Nat
        /\ \/ Cardinality(Ca!Kept \cup {k}) = Cardinality(Ca!Kept)
           \/ Cardinality(Ca!Kept \cup {k}) = Cardinality(Ca!Kept) + 1
    BY <2>1, FS_AddElement, FS_CardinalityType
  <2>4. Cardinality(Ca!Held') <= Cardinality(Ca!Kept \cup {k}) /\ IsFiniteSet(Ca!Held')
    BY <2>2, <2>3, FS_Subset
  <2>5. Cardinality(Ca!Held') \in Nat BY <2>4, FS_CardinalityType
  <2>6. MaxEntries \in Nat BY ServerAssumption DEF Ca!CachesAssumption
  <2> QED BY <2>1, <2>3, <2>4, <2>5, <2>6
<1> QED BY <1>8, <1>12, <1>14, <1>15 DEF Patient

LEMMA CachesFail == ASSUME CachesInv, NEW k \in Cached, Ca!Fail(k) PROVE CachesInv'
<1> USE DEF CachesInv
<1> DEFINE v == IF policy = "auth" /\ k \in Ca!Held THEN entry[k].val ELSE Ca!Failed
<1>1. /\ flight' = [flight EXCEPT ![k] = Ca!Landed] /\ Ca!Answer(k, v)
      /\ UNCHANGED <<policy, moment, data, entry, warming, latest, repeated>>
  BY DEF Ca!Fail
<1>2. v \in Int /\ (v = -2 \/ latest[k] <= v)
  <2>1. Ordered(entry[k], flight[k], latest[k]) /\ entry[k].val \in Int BY DEF CachesTypes
  <2> QED BY <2>1 DEF Ordered, Ca!Held, Ca!Failed
<1> HIDE DEF v
<1>3. /\ caller' \in [Panels -> [stage : {"idle", "missed", "waiting", "told"},
                                 key : Cached \cup {"none"}, floor : Int, got : Int]]
      /\ \A r \in Panels : Patient(caller'[r], latest)
  BY <1>1, <1>2, AnswerWaiting
<1>4. Ca!Landed \in [stage : {"none", "fetching", "fetched"}, val : Int] /\ Ca!Landed.stage = "none"
  BY DEF Ca!Landed
<1>5. Bounded' BY <1>1 DEF Bounded, Ca!Held
<1>6. CachesTypes' BY <1>1, <1>3, <1>4 DEF CachesTypes
<1>7. ASSUME NEW j \in Cached PROVE Ordered(entry[j], flight'[j], latest[j])
  <2>1. flight'[j] = flight[j] \/ flight'[j].stage = "none" BY <1>1, <1>4 DEF CachesTypes
  <2> QED BY <2>1 DEF Ordered
<1> QED BY <1>1, <1>3, <1>5, <1>6, <1>7 DEF Ordered, Patient

LEMMA CachesRest ==
  ASSUME CachesInv, (\E r \in Panels : Ca!Leave(r)) \/ Ca!Write \/ Ca!Tick \/ UNCHANGED caches
  PROVE  CachesInv'
<1> USE DEF CachesInv
<1>1. ASSUME NEW r \in Panels, Ca!Leave(r) PROVE CachesInv'
  <2>1. /\ caller' = [caller EXCEPT ![r] = Ca!Idle]
        /\ UNCHANGED <<policy, moment, data, entry, flight, warming, latest, repeated>>
    BY <1>1 DEF Ca!Leave
  <2>2. /\ Ca!Idle \in [stage : {"idle", "missed", "waiting", "told"}, key : Cached \cup {"none"},
                        floor : Int, got : Int]
        /\ Patient(Ca!Idle, latest)
    BY DEF Ca!Idle, Patient
  <2>3. CachesTypes' BY <2>1, <2>2 DEF CachesTypes
  <2>4. \A q \in Panels : Patient(caller'[q], latest) BY <2>1, <2>2 DEF CachesTypes
  <2>5. Bounded' BY <2>1 DEF Bounded, Ca!Held
  <2> QED BY <2>1, <2>3, <2>4, <2>5 DEF Ordered, Patient
<1>2. CASE Ca!Write
  <2>1. data' = data + 1 /\ UNCHANGED <<policy, moment, entry, flight, warming, caller, latest, repeated>>
    BY <1>2 DEF Ca!Write
  <2>2. CachesTypes' BY <2>1 DEF CachesTypes
  <2>3. Bounded' BY <2>1 DEF Bounded, Ca!Held
  <2>4. -1..data \subseteq -1..data' BY <2>1 DEF CachesTypes
  <2>5. \A j \in Cached : Ordered(entry[j], flight[j], latest[j])' BY <2>1, <2>4 DEF Ordered
  <2> QED BY <2>1, <2>2, <2>3, <2>5 DEF Patient
<1>3. CASE Ca!Tick
  <2>1. moment' = moment + 1 /\ UNCHANGED <<policy, data, entry, flight, warming, caller, latest, repeated>>
    BY <1>3 DEF Ca!Tick
  <2>2. CachesTypes' BY <2>1 DEF CachesTypes
  <2> QED BY <2>1, <2>2 DEF Bounded, Ca!Held, Ordered, Patient
<1>4. CASE UNCHANGED caches
  <2>1. UNCHANGED <<policy, moment, data, entry, flight, warming, caller, latest, repeated>>
    BY <1>4 DEF caches
  <2> QED BY <2>1 DEF CachesTypes, Bounded, Ca!Held, Ordered, Patient
<1> QED BY <1>1, <1>2, <1>3, <1>4

LEMMA CachesStep == ASSUME CachesInv, Ca!Next \/ UNCHANGED caches PROVE CachesInv'
BY CachesAsk, CachesFly, CachesWarm, CachesFetch, CachesLand, CachesFail, CachesRest DEF Ca!Next

-----------------------------------------------------------------------------
(* The activity office.                                                     *)

PlayerType == [exists : BOOLEAN, requests : Nat, invites : Nat, optIn : BOOLEAN]
HitType ==
  [stage : {"new", "absent", "bumped", "named", "sending", "done"},
   kind : {"none", "charge", "invite"}, user : Players \cup {"none"}, public : BOOLEAN,
   targets : SUBSET Viewers]
StreamType ==
  [stage : {"new", "subscribed", "live", "gone"}, chan : Seq(Hits), seen : SUBSET Hits]

\* The hits of kind k that user u's counter should hold.
HitsOn(h, l, u, k) == {g \in Hits \ l : h[g].user = u /\ h[g].kind = k /\ h[g].stage # "absent"}

Counts(p, h, l) ==
  \A u \in Players :
    /\ p[u].requests = Cardinality(HitsOn(h, l, u, "charge"))
    /\ p[u].invites = Cardinality(HitsOn(h, l, u, "invite"))

\* A goroutine that has not bumped yet has counted nothing, and only one that
\* sends has viewers to send to.
HitSound(q) ==
  /\ q.stage = "new" => q.kind = "none"
  /\ q.stage # "new" => q.kind \in {"charge", "invite"} /\ q.user \in Players
  /\ q.stage \in {"new", "absent", "bumped", "named"} => q.targets = {}

\* What is owed to viewer q is shown, waiting, refused or still being sent.
StreamSound(q, due, full, h, v) ==
  /\ Len(q.chan) <= Buffer
  /\ q.stage \in {"new", "subscribed"} => due = {}
  /\ q.stage = "live" =>
       due \subseteq q.seen \cup Aa!Range(q.chan) \cup full \cup {g \in Hits : v \in h[g].targets}

ArenaTypes ==
  /\ profile \in [Players -> PlayerType] /\ opted \subseteq Players
  /\ hit \in [Hits -> HitType] /\ lost \subseteq Hits
  /\ ring \in Seq(Hits) /\ Len(ring) <= RingSize
  /\ viewer \in [Viewers -> StreamType]
  /\ owed \in [Viewers -> SUBSET Hits] /\ refused \in [Viewers -> SUBSET Hits]

PlayersSound ==
  \A u \in Players :
    /\ ~profile[u].exists => profile[u].requests = 0 /\ profile[u].invites = 0
    /\ profile[u].optIn => u \in opted

HitsSound ==
  \A g \in Hits :
    /\ HitSound(hit[g])
    /\ hit[g].stage \in {"new", "absent"} => g \notin lost
    /\ hit[g].public => hit[g].user \in opted

StreamsSound == \A v \in Viewers : StreamSound(viewer[v], owed[v], refused[v], hit, v)

ArenaInv ==
  /\ ArenaTypes /\ PlayersSound /\ HitsSound /\ StreamsSound /\ Counts(profile, hit, lost)

LEMMA ArenaIsHeld == ASSUME ArenaInv PROVE Aa!ArenaHolds
<1> USE DEF ArenaInv
<1>1. \A q : Aa!Cardinality(q) = Cardinality(q) BY DEF Aa!Cardinality, Cardinality
<1>2. IsFiniteSet(Hits) BY ServerAssumption DEF Aa!ArenaAssumption, Aa!IsFiniteSet, IsFiniteSet
<1>3. \A u \in Players : profile[u].requests \in 0..Cardinality(Hits)
  <2> SUFFICES ASSUME NEW u \in Players PROVE profile[u].requests \in 0..Cardinality(Hits) OBVIOUS
  <2>1. HitsOn(hit, lost, u, "charge") \in SUBSET Hits BY DEF HitsOn
  <2>2. /\ Cardinality(HitsOn(hit, lost, u, "charge")) <= Cardinality(Hits)
        /\ IsFiniteSet(HitsOn(hit, lost, u, "charge"))
    BY <1>2, <2>1, FS_Subset
  <2>3. Cardinality(Hits) \in Nat /\ Cardinality(HitsOn(hit, lost, u, "charge")) \in Nat
    BY <1>2, <2>2, FS_CardinalityType
  <2>4. profile[u].requests = Cardinality(HitsOn(hit, lost, u, "charge")) BY DEF Counts
  <2> QED BY <2>2, <2>3, <2>4
<1>4. Aa!TypeOK
  <2>1. \A g \in Hits : hit[g].stage \in {"new", "absent", "bumped", "named", "sending", "done"}
    BY DEF ArenaTypes, HitType
  <2>2. \A v \in Viewers : /\ viewer[v].stage \in {"new", "subscribed", "live", "gone"}
                           /\ Len(viewer[v].chan) <= Buffer
    BY DEF ArenaTypes, StreamType, StreamsSound, StreamSound
  <2>3. opted \subseteq Players /\ lost \subseteq Hits /\ Len(ring) <= RingSize BY DEF ArenaTypes
  <2>4. \A u \in Players : profile[u].requests \in 0..Aa!Cardinality(Hits) BY <1>1, <1>3
  <2> QED BY <2>1, <2>2, <2>3, <2>4 DEF Aa!TypeOK
<1>5. Aa!HitsCounted
  <2> SUFFICES ASSUME NEW u \in Players, NEW k \in {"charge", "invite"}
               PROVE  profile[u][Aa!Counter(k)] =
                        Aa!Cardinality({g \in Hits \ lost : hit[g].user = u /\ hit[g].kind = k
                                                            /\ hit[g].stage # "absent"})
    BY DEF Aa!HitsCounted
  <2>1. {g \in Hits \ lost : hit[g].user = u /\ hit[g].kind = k /\ hit[g].stage # "absent"} =
          HitsOn(hit, lost, u, k)
    BY DEF HitsOn
  <2>2. CASE k = "charge"
    <3>1. Aa!Counter(k) = "requests" BY <2>2 DEF Aa!Counter
    <3>2. profile[u].requests = Cardinality(HitsOn(hit, lost, u, "charge")) BY DEF Counts
    <3> QED BY <1>1, <2>1, <2>2, <3>1, <3>2
  <2>3. CASE k = "invite"
    <3>1. Aa!Counter(k) = "invites" BY <2>3 DEF Aa!Counter
    <3>2. profile[u].invites = Cardinality(HitsOn(hit, lost, u, "invite")) BY DEF Counts
    <3> QED BY <1>1, <2>1, <2>3, <3>1, <3>2
  <2> QED BY <2>2, <2>3
<1>6. Aa!NoGapAfterReplay BY DEF Aa!NoGapAfterReplay, StreamsSound, StreamSound
<1>7. Aa!PseudonymUnlessOpted BY DEF Aa!PseudonymUnlessOpted, HitsSound
<1> QED BY <1>4, <1>5, <1>6, <1>7 DEF Aa!ArenaHolds

\* Counters and hits that change together, or not at all.
LEMMA CountsStay ==
  ASSUME NEW p, NEW h, NEW l, NEW p2, NEW h2, NEW l2, Counts(p, h, l),
         \A u \in Players : p2[u].requests = p[u].requests /\ p2[u].invites = p[u].invites,
         \A u \in Players, k \in {"charge", "invite"} : HitsOn(h2, l2, u, k) = HitsOn(h, l, u, k)
  PROVE  Counts(p2, h2, l2)
BY DEF Counts

\* One more hit, on the counter of its user.
LEMMA CountsGrow ==
  ASSUME NEW p, NEW h, NEW l, NEW p2, NEW h2, NEW l2, Counts(p, h, l), IsFiniteSet(Hits),
         NEW g \in Hits, NEW w \in Players, NEW j \in {"charge", "invite"},
         \A u \in Players, k \in {"charge", "invite"} : <<u, k>> # <<w, j>> =>
           HitsOn(h2, l2, u, k) = HitsOn(h, l, u, k),
         g \notin HitsOn(h, l, w, j), HitsOn(h2, l2, w, j) = HitsOn(h, l, w, j) \cup {g},
         \A u \in Players : u # w => p2[u].requests = p[u].requests /\ p2[u].invites = p[u].invites,
         j = "charge" => p2[w].requests = p[w].requests + 1 /\ p2[w].invites = p[w].invites,
         j = "invite" => p2[w].invites = p[w].invites + 1 /\ p2[w].requests = p[w].requests
  PROVE  Counts(p2, h2, l2)
<1> DEFINE q == HitsOn(h, l, w, j)
<1>1. q \in SUBSET Hits BY DEF HitsOn
<1>2. IsFiniteSet(q) BY <1>1, FS_Subset
<1>3. Cardinality(q \cup {g}) = Cardinality(q) + 1 BY <1>2, FS_AddElement
<1>4. Cardinality(HitsOn(h2, l2, w, j)) = Cardinality(HitsOn(h, l, w, j)) + 1 BY <1>3
<1> SUFFICES ASSUME NEW u \in Players
             PROVE  /\ p2[u].requests = Cardinality(HitsOn(h2, l2, u, "charge"))
                    /\ p2[u].invites = Cardinality(HitsOn(h2, l2, u, "invite"))
  BY DEF Counts
<1>5. p[u].requests = Cardinality(HitsOn(h, l, u, "charge"))
      /\ p[u].invites = Cardinality(HitsOn(h, l, u, "invite"))
  BY DEF Counts
<1>6. CASE u # w
  <2>1. HitsOn(h2, l2, u, "charge") = HitsOn(h, l, u, "charge")
        /\ HitsOn(h2, l2, u, "invite") = HitsOn(h, l, u, "invite")
    BY <1>6
  <2> QED BY <1>5, <1>6, <2>1
<1>7. CASE u = w /\ j = "charge"
  <2>1. HitsOn(h2, l2, u, "invite") = HitsOn(h, l, u, "invite") BY <1>7
  <2> QED BY <1>4, <1>5, <1>7, <2>1
<1>8. CASE u = w /\ j = "invite"
  <2>1. HitsOn(h2, l2, u, "charge") = HitsOn(h, l, u, "charge") BY <1>8
  <2> QED BY <1>4, <1>5, <1>8, <2>1
<1> QED BY <1>6, <1>7, <1>8

\* A hit g becomes q, whose targets are those it had.
LEMMA HitMoves ==
  ASSUME ArenaInv, NEW g \in Hits, NEW q \in HitType, hit' = [hit EXCEPT ![g] = q],
         q.targets = hit[g].targets, HitSound(q),
         profile' \in [Players -> PlayerType], PlayersSound',
         lost' \subseteq Hits, lost \subseteq lost', lost' \subseteq lost \cup {g},
         g \in lost' => q.stage \notin {"new", "absent"}, q.public => q.user \in opted,
         Counts(profile', hit', lost'),
         UNCHANGED <<ring, viewer, owed, refused, opted>>
  PROVE  ArenaInv'
<1>1. ArenaTypes' BY DEF ArenaInv, ArenaTypes
<1>2. HitsSound'
  <2> SUFFICES ASSUME NEW x \in Hits
               PROVE  /\ HitSound(hit'[x])
                      /\ hit'[x].stage \in {"new", "absent"} => x \notin lost'
                      /\ hit'[x].public => hit'[x].user \in opted'
    BY DEF HitsSound
  <2>1. CASE x = g
    <3>1. hit'[x] = q BY <2>1 DEF ArenaInv, ArenaTypes
    <3> QED BY <2>1, <3>1
  <2>2. CASE x # g
    <3>1. hit'[x] = hit[x] /\ (x \in lost' => x \in lost) BY <2>2 DEF ArenaInv, ArenaTypes
    <3> QED BY <3>1 DEF ArenaInv, HitsSound
  <2> QED BY <2>1, <2>2
<1>3. StreamsSound'
  <2>1. \A x \in Hits : hit'[x].targets = hit[x].targets BY DEF ArenaInv, ArenaTypes
  <2>2. \A v \in Viewers : {x \in Hits : v \in hit'[x].targets} = {x \in Hits : v \in hit[x].targets}
    BY <2>1
  <2> QED BY <2>2 DEF ArenaInv, StreamsSound, StreamSound
<1> QED BY <1>1, <1>2, <1>3 DEF ArenaInv

\* A player's row becomes p, its counters what they were.
LEMMA PlayerMoves ==
  ASSUME ArenaInv, NEW u \in Players, NEW p \in PlayerType, profile' = [profile EXCEPT ![u] = p],
         p.requests = profile[u].requests, p.invites = profile[u].invites, p.exists,
         opted' \subseteq Players, opted \subseteq opted', p.optIn => u \in opted',
         UNCHANGED <<hit, ring, viewer, lost, owed, refused>>
  PROVE  ArenaInv'
<1>1. ArenaTypes' BY DEF ArenaInv, ArenaTypes
<1>2. \A w \in Players : profile'[w] = IF w = u THEN p ELSE profile[w] BY DEF ArenaInv, ArenaTypes
<1>3. PlayersSound' BY <1>2 DEF ArenaInv, PlayersSound
<1>4. Counts(profile', hit', lost') BY <1>2 DEF ArenaInv, Counts
<1>5. HitsSound' BY DEF ArenaInv, HitsSound
<1> QED BY <1>1, <1>3, <1>4, <1>5 DEF ArenaInv, StreamsSound

LEMMA HitBumps ==
  ASSUME ArenaInv, NEW g \in Hits, NEW k \in {"charge", "invite"}, NEW u \in Players,
         Aa!Bump(g, k, u)
  PROVE  ArenaInv'
<1>0. IsFiniteSet(Hits) BY ServerAssumption DEF Aa!ArenaAssumption, Aa!IsFiniteSet, IsFiniteSet
<1> DEFINE next == IF k = "charge" THEN "bumped" ELSE "done"
           q(s) == [Aa!Unused EXCEPT !.stage = s, !.kind = k, !.user = u]
<1>1. /\ hit[g].stage = "new" /\ UNCHANGED <<ring, viewer, owed, refused, opted>>
      /\ \/ /\ profile[u].exists /\ hit' = [hit EXCEPT ![g] = q(next)] /\ lost' = lost
            /\ profile' = [profile EXCEPT ![u][Aa!Counter(k)] = @ + 1]
         \/ hit' = [hit EXCEPT ![g] = q("absent")] /\ UNCHANGED <<profile, lost>>
         \/ hit' = [hit EXCEPT ![g] = q(next)] /\ lost' = lost \cup {g} /\ profile' = profile
  BY DEF Aa!Bump, Aa!hub
<1>2. next \in {"bumped", "done"} OBVIOUS
<1>3. \A s \in {"absent", "bumped", "done"} :
        /\ q(s) \in HitType /\ q(s).stage = s /\ q(s).kind = k /\ q(s).user = u
        /\ q(s).targets = {} /\ ~q(s).public
  BY DEF HitType, Aa!Unused
<1>4. \A s \in {"absent", "bumped", "done"} : HitSound(q(s)) BY <1>3 DEF HitSound
<1> HIDE DEF next, q
<1>5. hit[g].targets = {} /\ hit[g].kind = "none" /\ g \notin lost
  BY <1>1 DEF ArenaInv, HitsSound, HitSound
<1>6. hit \in [Hits -> HitType] /\ lost \subseteq Hits /\ profile \in [Players -> PlayerType]
      /\ PlayersSound /\ Counts(profile, hit, lost)
  BY DEF ArenaInv, ArenaTypes
<1>7. \A w, j : g \notin HitsOn(hit, lost, w, j) \/ j = "none" BY <1>5 DEF HitsOn
<1>8. CASE profile[u].exists /\ hit' = [hit EXCEPT ![g] = q(next)] /\ lost' = lost
           /\ profile' = [profile EXCEPT ![u][Aa!Counter(k)] = @ + 1]
  <2>1. hit'[g] = q(next) /\ \A x \in Hits : x # g => hit'[x] = hit[x] BY <1>6, <1>8
  <2>2. q(next).user = u /\ q(next).kind = k /\ q(next).stage # "absent" BY <1>2, <1>3
  <2>3. HitsOn(hit', lost', u, k) = HitsOn(hit, lost, u, k) \cup {g}
    BY <1>5, <1>8, <2>1, <2>2 DEF HitsOn
  <2>4. \A w \in Players, j \in {"charge", "invite"} : <<w, j>> # <<u, k>> =>
          HitsOn(hit', lost', w, j) = HitsOn(hit, lost, w, j)
    <3> SUFFICES ASSUME NEW w \in Players, NEW j \in {"charge", "invite"}, w # u \/ j # k
                 PROVE  HitsOn(hit', lost', w, j) = HitsOn(hit, lost, w, j)
      OBVIOUS
    <3> QED BY <1>5, <1>8, <2>1, <2>2 DEF HitsOn
  <2> DEFINE p == [profile[u] EXCEPT ![Aa!Counter(k)] = @ + 1]
  <2>5. /\ p \in PlayerType /\ p.exists = profile[u].exists /\ p.optIn = profile[u].optIn
        /\ k = "charge" => p.requests = profile[u].requests + 1 /\ p.invites = profile[u].invites
        /\ k = "invite" => p.invites = profile[u].invites + 1 /\ p.requests = profile[u].requests
    <3>1. profile[u] \in PlayerType BY <1>6
    <3>2. CASE k = "charge"
      <4>1. p = [profile[u] EXCEPT !.requests = @ + 1] BY <3>2 DEF Aa!Counter
      <4> HIDE DEF p
      <4> QED BY <3>1, <3>2, <4>1 DEF PlayerType
    <3>3. CASE k = "invite"
      <4>1. p = [profile[u] EXCEPT !.invites = @ + 1] BY <3>3 DEF Aa!Counter
      <4> HIDE DEF p
      <4> QED BY <3>1, <3>3, <4>1 DEF PlayerType
    <3> QED BY <3>2, <3>3
  <2>6. profile' = [profile EXCEPT ![u] = p] BY <1>8
  <2> HIDE DEF p
  <2>7. profile' \in [Players -> PlayerType] /\ profile'[u] = p
        /\ \A w \in Players : w # u => profile'[w] = profile[w]
    BY <1>6, <2>5, <2>6
  <2>8. PlayersSound'
    <3> SUFFICES ASSUME NEW w \in Players
                 PROVE  /\ ~profile'[w].exists => profile'[w].requests = 0 /\ profile'[w].invites = 0
                        /\ profile'[w].optIn => w \in opted'
      BY DEF PlayersSound
    <3>1. CASE w = u BY <1>1, <1>6, <1>8, <2>5, <2>7, <3>1 DEF PlayersSound
    <3>2. CASE w # u BY <1>1, <1>6, <2>7, <3>2 DEF PlayersSound
    <3> QED BY <3>1, <3>2
  <2>9. g \notin HitsOn(hit, lost, u, k) BY <1>7
  <2>10. Counts(profile', hit', lost')
    BY <1>0, <1>6, <2>3, <2>4, <2>5, <2>7, <2>9, CountsGrow
  <2> QED BY <1>1, <1>2, <1>3, <1>4, <1>5, <1>6, <1>8, <2>7, <2>8, <2>10, HitMoves
<1>9. CASE hit' = [hit EXCEPT ![g] = q("absent")] /\ UNCHANGED <<profile, lost>>
  <2>1. hit'[g] = q("absent") /\ \A x \in Hits : x # g => hit'[x] = hit[x] BY <1>6, <1>9
  <2>2. q("absent").stage = "absent" BY <1>3
  <2>3. \A w \in Players, j \in {"charge", "invite"} : HitsOn(hit', lost', w, j) = HitsOn(hit, lost, w, j)
    BY <1>5, <1>9, <2>1, <2>2 DEF HitsOn
  <2>4. Counts(profile', hit', lost') BY <1>6, <1>9, <2>3, CountsStay
  <2>5. PlayersSound' BY <1>1, <1>6, <1>9 DEF PlayersSound
  <2> QED BY <1>1, <1>3, <1>4, <1>5, <1>6, <1>9, <2>4, <2>5, HitMoves
<1>10. CASE hit' = [hit EXCEPT ![g] = q(next)] /\ lost' = lost \cup {g} /\ profile' = profile
  <2>1. \A x \in Hits : x # g => hit'[x] = hit[x] BY <1>6, <1>10
  <2>3. \A w \in Players, j \in {"charge", "invite"} : HitsOn(hit', lost', w, j) = HitsOn(hit, lost, w, j)
    BY <1>5, <1>10, <2>1 DEF HitsOn
  <2>6. \A w \in Players : profile'[w].requests = profile[w].requests /\ profile'[w].invites = profile[w].invites
    BY <1>10
  <2>4. Counts(profile', hit', lost')
    <3>1. Counts(profile, hit, lost) BY <1>6
    <3> HIDE <1>10
    <3> QED BY ONLY <2>3, <2>6, <3>1, CountsStay
  <2>5. PlayersSound' BY <1>1, <1>6, <1>10 DEF PlayersSound
  <2> QED BY <1>1, <1>2, <1>3, <1>4, <1>5, <1>6, <1>10, <2>4, <2>5, HitMoves
<1> QED BY <1>1, <1>8, <1>9, <1>10

LEMMA HitInserts == ASSUME ArenaInv, NEW g \in Hits, Aa!InsertHit(g) PROVE ArenaInv'
<1>0. IsFiniteSet(Hits) BY ServerAssumption DEF Aa!ArenaAssumption, Aa!IsFiniteSet, IsFiniteSet
<1> DEFINE u == hit[g].user
           k == hit[g].kind
           s == IF k = "charge" THEN "bumped" ELSE "done"
           q == [hit[g] EXCEPT !.stage = s]
           p == [Aa!Absent EXCEPT !.exists = TRUE, ![Aa!Counter(k)] = 1]
<1>1. /\ hit[g].stage = "absent" /\ hit' = [hit EXCEPT ![g] = q]
      /\ UNCHANGED <<ring, viewer, owed, refused, opted>>
      /\ profile[u].exists => profile' = profile /\ lost' = lost \cup {g}
      /\ ~profile[u].exists => profile' = [profile EXCEPT ![u] = p] /\ lost' = lost
  BY DEF Aa!InsertHit, Aa!hub
<1>2. hit \in [Hits -> HitType] /\ lost \subseteq Hits /\ profile \in [Players -> PlayerType]
      /\ PlayersSound /\ Counts(profile, hit, lost) /\ opted \subseteq Players
  BY DEF ArenaInv, ArenaTypes
<1>3. u \in Players /\ k \in {"charge", "invite"} /\ hit[g].targets = {} /\ g \notin lost
      /\ (hit[g].public => u \in opted)
  BY <1>1 DEF ArenaInv, HitsSound, HitSound
<1>4. /\ q \in HitType /\ q.stage = s /\ q.kind = k /\ q.user = u /\ q.targets = hit[g].targets
      /\ q.public = hit[g].public
  <2>1. s \in {"bumped", "done"} OBVIOUS
  <2> HIDE DEF s
  <2> QED BY <1>2, <2>1 DEF HitType
<1>5. s \in {"bumped", "done"} OBVIOUS
<1>6. p \in PlayerType /\ p.exists /\ ~p.optIn
      /\ (k = "charge" => p.requests = 1 /\ p.invites = 0)
      /\ (k = "invite" => p.invites = 1 /\ p.requests = 0)
  <2>1. CASE k = "charge"
    <3>1. p = [Aa!Absent EXCEPT !.exists = TRUE, !.requests = 1] BY <2>1 DEF Aa!Counter
    <3> HIDE DEF p, k
    <3> QED BY <2>1, <3>1 DEF PlayerType, Aa!Absent
  <2>2. CASE k = "invite"
    <3>1. p = [Aa!Absent EXCEPT !.exists = TRUE, !.invites = 1] BY <2>2 DEF Aa!Counter
    <3> HIDE DEF p, k
    <3> QED BY <2>2, <3>1 DEF PlayerType, Aa!Absent
  <2> HIDE DEF k, p
  <2> QED BY <1>3, <2>1, <2>2
<1> HIDE DEF p, q, s
<1>7. HitSound(q) BY <1>3, <1>4, <1>5 DEF HitSound
<1>8. hit'[g] = q /\ \A x \in Hits : x # g => hit'[x] = hit[x] BY <1>1, <1>2
<1>9. \A w, j : g \notin HitsOn(hit, lost, w, j) BY <1>1 DEF HitsOn
<1>10. CASE profile[u].exists
  <2>1. profile' = profile /\ lost' = lost \cup {g} BY <1>1, <1>10
  <2>2. \A w \in Players, j \in {"charge", "invite"} : HitsOn(hit', lost', w, j) = HitsOn(hit, lost, w, j)
    BY <1>1, <1>8, <2>1 DEF HitsOn
  <2>3. \A w \in Players : profile'[w].requests = profile[w].requests /\ profile'[w].invites = profile[w].invites
    BY <2>1
  <2>4. Counts(profile', hit', lost')
    <3>1. Counts(profile, hit, lost) BY <1>2
    <3> QED BY ONLY <2>2, <2>3, <3>1, CountsStay
  <2>5. PlayersSound' BY <1>1, <1>2, <2>1 DEF PlayersSound
  <2>6. q.public => q.user \in opted BY <1>3, <1>4
  <2>7. profile' \in [Players -> PlayerType] /\ lost' \subseteq Hits /\ lost \subseteq lost'
        /\ lost' \subseteq lost \cup {g}
    BY <1>2, <2>1
  <2> QED BY <1>1, <1>4, <1>5, <1>7, <2>4, <2>5, <2>6, <2>7, HitMoves
<1>11. CASE ~profile[u].exists
  <2>1. profile' = [profile EXCEPT ![u] = p] /\ lost' = lost BY <1>1, <1>11
  <2>2. HitsOn(hit', lost', u, k) = HitsOn(hit, lost, u, k) \cup {g}
    <3>1. q.user = u /\ q.kind = k /\ q.stage # "absent" BY <1>4, <1>5
    <3> HIDE DEF u, k
    <3> QED BY <1>3, <1>8, <2>1, <3>1 DEF HitsOn
  <2>3. \A w \in Players, j \in {"charge", "invite"} : <<w, j>> # <<u, k>> =>
          HitsOn(hit', lost', w, j) = HitsOn(hit, lost, w, j)
    <3> SUFFICES ASSUME NEW w \in Players, NEW j \in {"charge", "invite"}, w # u \/ j # k
                 PROVE  HitsOn(hit', lost', w, j) = HitsOn(hit, lost, w, j)
      OBVIOUS
    <3>1. q.user = u /\ q.kind = k BY <1>4
    <3>2. hit[g].user = u /\ hit[g].kind = k OBVIOUS
    <3> HIDE DEF u, k
    <3> QED BY <1>8, <2>1, <3>1, <3>2 DEF HitsOn
  <2>4. profile[u].requests = 0 /\ profile[u].invites = 0 BY <1>2, <1>3, <1>11 DEF PlayersSound
  <2> HIDE DEF u, k
  <2>5. profile' \in [Players -> PlayerType] /\ profile'[u] = p
        /\ \A w \in Players : w # u => profile'[w] = profile[w]
    BY <1>2, <1>3, <1>6, <2>1
  <2>6. Counts(profile', hit', lost')
    <3>1. /\ k = "charge" => profile'[u].requests = profile[u].requests + 1 /\ profile'[u].invites = profile[u].invites
          /\ k = "invite" => profile'[u].invites = profile[u].invites + 1 /\ profile'[u].requests = profile[u].requests
      BY <1>6, <2>4, <2>5
    <3>2. Counts(profile, hit, lost) /\ g \notin HitsOn(hit, lost, u, k) BY <1>2, <1>9
    <3>3. \A w \in Players : w # u => profile'[w].requests = profile[w].requests /\ profile'[w].invites = profile[w].invites
      BY <2>5
    <3> QED BY ONLY <1>0, <1>3, <2>2, <2>3, <3>1, <3>2, <3>3, CountsGrow
  <2>7. PlayersSound'
    <3> SUFFICES ASSUME NEW w \in Players
                 PROVE  /\ ~profile'[w].exists => profile'[w].requests = 0 /\ profile'[w].invites = 0
                        /\ profile'[w].optIn => w \in opted'
      BY DEF PlayersSound
    <3>1. CASE w = u BY <1>6, <2>5, <3>1
    <3>2. CASE w # u BY <1>1, <1>2, <2>5, <3>2 DEF PlayersSound
    <3> QED BY <3>1, <3>2
  <2>8. q.public => q.user \in opted BY <1>3, <1>4
  <2>9. g \notin lost' BY <1>3, <2>1
  <2> QED BY <1>1, <1>2, <1>4, <1>7, <2>1, <2>5, <2>6, <2>7, <2>8, <2>9, HitMoves
<1> QED BY <1>10, <1>11

LEMMA HitResolves == ASSUME ArenaInv, NEW g \in Hits, Aa!Resolve(g) PROVE ArenaInv'
<1> DEFINE u == hit[g].user
<1>1. /\ hit[g].stage = "bumped" /\ UNCHANGED <<ring, viewer, owed, refused, lost, opted>>
      /\ \/ /\ profile' = [profile EXCEPT ![u].exists = TRUE]
            /\ hit' = [hit EXCEPT ![g].stage = "named", ![g].public = profile[u].optIn]
         \/ hit' = [hit EXCEPT ![g].stage = "named"] /\ profile' = profile
  BY DEF Aa!Resolve, Aa!hub
<1>2. hit \in [Hits -> HitType] /\ lost \subseteq Hits /\ profile \in [Players -> PlayerType]
      /\ PlayersSound /\ Counts(profile, hit, lost)
  BY DEF ArenaInv, ArenaTypes
<1>3. u \in Players /\ hit[g].kind \in {"charge", "invite"} /\ hit[g].targets = {}
      /\ (hit[g].public => u \in opted) /\ (profile[u].optIn => u \in opted)
  BY <1>1 DEF ArenaInv, HitsSound, HitSound, PlayersSound
<1>4. ASSUME NEW p \in PlayerType, profile' = [profile EXCEPT ![u] = p],
             p.requests = profile[u].requests, p.invites = profile[u].invites,
             p.optIn = profile[u].optIn, profile[u].exists => p.exists,
             NEW f \in BOOLEAN, f => u \in opted,
             hit' = [hit EXCEPT ![g] = [hit[g] EXCEPT !.stage = "named", !.public = f]]
      PROVE  ArenaInv'
  <2> DEFINE q == [hit[g] EXCEPT !.stage = "named", !.public = f]
  <2>1. /\ q \in HitType /\ q.stage = "named" /\ q.kind = hit[g].kind /\ q.user = u
        /\ q.targets = hit[g].targets /\ q.public = f
    BY <1>2 DEF HitType
  <2>2. hit' = [hit EXCEPT ![g] = q] BY <1>4
  <2> HIDE DEF q
  <2>3. HitSound(q) BY <1>3, <2>1 DEF HitSound
  <2>4. hit'[g] = q /\ \A x \in Hits : x # g => hit'[x] = hit[x] BY <1>2, <2>2
  <2>5. \A w \in Players, j \in {"charge", "invite"} : HitsOn(hit', lost', w, j) = HitsOn(hit, lost, w, j)
    <3>1. q.user = hit[g].user /\ q.stage # "absent" /\ hit[g].stage # "absent" BY <1>1, <2>1
    <3>2. lost' = lost BY <1>1
    <3> HIDE DEF u
    <3> QED BY <2>1, <2>4, <3>1, <3>2 DEF HitsOn
  <2>6. \A w \in Players : profile'[w] = IF w = u THEN p ELSE profile[w] BY <1>2, <1>4
  <2>7. \A w \in Players : profile'[w].requests = profile[w].requests /\ profile'[w].invites = profile[w].invites
    BY <1>4, <2>6
  <2>8. Counts(profile', hit', lost')
    <3>1. Counts(profile, hit, lost) BY <1>2
    <3> QED BY ONLY <2>5, <2>7, <3>1, CountsStay
  <2>9. PlayersSound'
    <3> SUFFICES ASSUME NEW w \in Players
                 PROVE  /\ ~profile'[w].exists => profile'[w].requests = 0 /\ profile'[w].invites = 0
                        /\ profile'[w].optIn => w \in opted'
      BY DEF PlayersSound
    <3>1. /\ ~profile[w].exists => profile[w].requests = 0 /\ profile[w].invites = 0
          /\ profile[w].optIn => w \in opted
      BY <1>2 DEF PlayersSound
    <3>2. CASE w = u BY <1>1, <1>4, <2>6, <3>1, <3>2
    <3>3. CASE w # u BY <1>1, <2>6, <3>1, <3>3
    <3> QED BY <3>2, <3>3
  <2>10. profile' \in [Players -> PlayerType] BY <1>2, <1>4
  <2>11. q.public => q.user \in opted BY <1>4, <2>1
  <2>12. lost' \subseteq Hits /\ lost \subseteq lost' /\ lost' \subseteq lost \cup {g} BY <1>1, <1>2
  <2> QED BY <1>1, <2>1, <2>2, <2>3, <2>8, <2>9, <2>10, <2>11, <2>12, HitMoves
<1>5. profile[u] \in PlayerType /\ profile[u].optIn \in BOOLEAN BY <1>2, <1>3 DEF PlayerType
<1>6. CASE /\ profile' = [profile EXCEPT ![u].exists = TRUE]
           /\ hit' = [hit EXCEPT ![g].stage = "named", ![g].public = profile[u].optIn]
  <2> DEFINE p == [profile[u] EXCEPT !.exists = TRUE]
             f == profile[u].optIn
  <2>1. p \in PlayerType /\ p.requests = profile[u].requests /\ p.invites = profile[u].invites
        /\ p.optIn = profile[u].optIn /\ p.exists
    BY <1>5 DEF PlayerType
  <2>2. profile' = [profile EXCEPT ![u] = p] BY <1>6
  <2>3. hit' = [hit EXCEPT ![g] = [hit[g] EXCEPT !.stage = "named", !.public = f]] BY <1>2, <1>6
  <2>4. f \in BOOLEAN /\ (f => u \in opted) BY <1>3, <1>5
  <2> HIDE DEF p, f, u
  <2> QED BY <1>4, <2>1, <2>2, <2>3, <2>4
<1>7. CASE hit' = [hit EXCEPT ![g].stage = "named"] /\ profile' = profile
  <2> DEFINE p == profile[u]
             f == hit[g].public
  <2>1. profile' = [profile EXCEPT ![u] = p] BY <1>2, <1>7
  <2>2. hit[g] \in HitType BY <1>2
  <2>3. [hit[g] EXCEPT !.stage = "named"] = [hit[g] EXCEPT !.stage = "named", !.public = f]
    BY <2>2 DEF HitType
  <2>4. hit' = [hit EXCEPT ![g] = [hit[g] EXCEPT !.stage = "named", !.public = f]] BY <1>7, <2>3
  <2>5. f \in BOOLEAN /\ (f => u \in opted) BY <1>3, <2>2 DEF HitType
  <2>6. p \in PlayerType /\ p = profile[u] BY <1>5
  <2> HIDE DEF p, f, u
  <2> QED BY <1>4, <2>1, <2>4, <2>5, <2>6
<1> QED BY <1>1, <1>6, <1>7

\* What a channel holds after a send and after a read.
LEMMA SentOn ==
  ASSUME NEW q \in Seq(Hits), NEW g \in Hits
  PROVE  /\ Append(q, g) \in Seq(Hits) /\ Len(Append(q, g)) = Len(q) + 1
         /\ Aa!Range(Append(q, g)) = Aa!Range(q) \cup {g}
<1> DEFINE r == Append(q, g)
<1>1. Len(q) \in Nat /\ r \in Seq(Hits) /\ Len(r) = Len(q) + 1 /\ r[Len(q) + 1] = g
      /\ \A i \in 1..Len(q) : r[i] = q[i]
  OBVIOUS
<1>2. DOMAIN r = 1..Len(q) + 1 /\ DOMAIN q = 1..Len(q) BY <1>1
<1> HIDE DEF r
<1>3. Aa!Range(r) = Aa!Range(q) \cup {g} BY <1>1, <1>2 DEF Aa!Range
<1> QED BY <1>1, <1>3 DEF r

LEMMA ReadFrom ==
  ASSUME NEW q \in Seq(Hits), q # << >>
  PROVE  /\ Tail(q) \in Seq(Hits) /\ Len(Tail(q)) = Len(q) - 1 /\ Head(q) \in Hits
         /\ Len(q) \in Nat /\ Aa!Range(q) \subseteq Aa!Range(Tail(q)) \cup {Head(q)}
<1> DEFINE r == Tail(q)
<1>1. Len(q) \in Nat /\ Len(q) > 0 /\ r \in Seq(Hits) /\ Len(r) = Len(q) - 1 /\ Head(q) = q[1]
      /\ \A i \in 1..Len(q) - 1 : r[i] = q[i + 1]
  OBVIOUS
<1>2. DOMAIN r = 1..Len(q) - 1 /\ DOMAIN q = 1..Len(q) BY <1>1
<1>3. Head(q) \in Hits BY <1>1
<1> HIDE DEF r
<1>4. ASSUME NEW i \in 1..Len(q), i # 1 PROVE q[i] \in Aa!Range(r)
  <2>1. i - 1 \in 1..Len(q) - 1 /\ (i - 1) + 1 = i BY <1>1, <1>4
  <2>2. r[i - 1] = q[i] BY <1>1, <2>1
  <2> QED BY <1>2, <2>1, <2>2 DEF Aa!Range
<1>5. Aa!Range(q) \subseteq Aa!Range(r) \cup {Head(q)}
  <2>1. \A x \in Aa!Range(q) : \E i \in 1..Len(q) : x = q[i] BY <1>2 DEF Aa!Range
  <2> QED BY <1>1, <1>4, <2>1
<1> QED BY <1>1, <1>3, <1>5 DEF r

LEMMA RingHolds ==
  ASSUME NEW q \in Seq(Hits), NEW g \in Hits, RingSize \in Nat
  PROVE  Aa!Ringed(q, g) \in Seq(Hits) /\ Len(Aa!Ringed(q, g)) <= RingSize
<1> DEFINE r == Append(q, g)
           n == Len(r)
<1>1. r \in Seq(Hits) /\ n \in Nat OBVIOUS
<1>2. Aa!Ringed(q, g) = IF n > RingSize THEN SubSeq(r, n - RingSize + 1, n) ELSE r
  BY DEF Aa!Ringed
<1> HIDE DEF r
<1>3. CASE n > RingSize
  <2> DEFINE a == n - RingSize + 1
  <2>1. a \in Int /\ n \in Int /\ a >= 1 /\ n - a + 1 = RingSize /\ a..n \subseteq 1..n BY <1>1, <1>3
  <2> HIDE DEF a
  <2>2. \A i \in a..n : r[i] \in Hits BY <1>1, <2>1
  <2>3. SubSeq(r, a, n) \in Seq(Hits)
        /\ Len(SubSeq(r, a, n)) = IF a <= n THEN n - a + 1 ELSE 0
    BY <1>1, <2>1, <2>2, SubSeqProperties
  <2>4. Len(SubSeq(r, a, n)) <= RingSize BY <2>1, <2>3
  <2> QED BY <1>2, <1>3, <2>3, <2>4 DEF a
<1>4. CASE ~(n > RingSize) BY <1>1, <1>2, <1>4
<1> QED BY <1>3, <1>4

LEMMA HitPublishes == ASSUME ArenaInv, NEW g \in Hits, Aa!Publish(g) PROVE ArenaInv'
<1> DEFINE subs == Aa!Subscribed
           s == IF subs = {} THEN "done" ELSE "sending"
           q == [hit[g] EXCEPT !.stage = s, !.targets = subs]
<1>1. /\ hit[g].stage = "named" /\ ring' = Aa!Ringed(ring, g) /\ hit' = [hit EXCEPT ![g] = q]
      /\ owed' = [v \in Viewers |-> IF viewer[v].stage = "live" THEN owed[v] \cup {g} ELSE owed[v]]
      /\ UNCHANGED <<profile, viewer, hub, lost, refused, opted>>
  BY DEF Aa!Publish, ArenaInv, ArenaTypes
<1>2. hit \in [Hits -> HitType] /\ viewer \in [Viewers -> StreamType] BY DEF ArenaInv, ArenaTypes
<1>3. subs \subseteq Viewers /\ \A v \in Viewers : viewer[v].stage = "live" => v \in subs
  BY DEF Aa!Subscribed
<1>4. s \in {"done", "sending"} OBVIOUS
<1> HIDE DEF s, subs
<1>5. /\ q \in HitType /\ q.stage = s /\ q.kind = hit[g].kind /\ q.user = hit[g].user
      /\ q.public = hit[g].public /\ q.targets = subs
  BY <1>2, <1>3, <1>4 DEF HitType
<1> HIDE DEF q
<1>6. hit'[g] = q /\ \A x \in Hits : x # g => hit'[x] = hit[x] BY <1>1, <1>2
<1>7. ring' \in Seq(Hits) /\ Len(ring') <= RingSize
  BY <1>1, RingHolds, ServerAssumption DEF Aa!ArenaAssumption, ArenaInv, ArenaTypes
<1>8. owed' \in [Viewers -> SUBSET Hits] BY <1>1 DEF ArenaInv, ArenaTypes
<1>9. ArenaTypes' BY <1>1, <1>5, <1>7, <1>8 DEF ArenaInv, ArenaTypes
<1>10. PlayersSound' BY <1>1 DEF ArenaInv, PlayersSound
<1>11. HitsSound'
  <2> SUFFICES ASSUME NEW x \in Hits
               PROVE  /\ HitSound(hit'[x])
                      /\ hit'[x].stage \in {"new", "absent"} => x \notin lost'
                      /\ hit'[x].public => hit'[x].user \in opted'
    BY DEF HitsSound
  <2>1. CASE x = g
    <3>1. hit[g].kind \in {"charge", "invite"} /\ hit[g].user \in Players
          /\ (hit[g].public => hit[g].user \in opted)
      BY <1>1 DEF ArenaInv, HitsSound, HitSound
    <3>2. HitSound(q) BY <1>4, <1>5, <3>1 DEF HitSound
    <3> QED BY <1>1, <1>4, <1>5, <1>6, <2>1, <3>1, <3>2
  <2>2. CASE x # g BY <1>1, <1>6, <2>2 DEF ArenaInv, HitsSound
  <2> QED BY <2>1, <2>2
<1>12. StreamsSound'
  <2> SUFFICES ASSUME NEW v \in Viewers PROVE StreamSound(viewer'[v], owed'[v], refused'[v], hit', v)
    BY DEF StreamsSound
  <2>1. StreamSound(viewer[v], owed[v], refused[v], hit, v) BY DEF ArenaInv, StreamsSound
  <2>2. viewer'[v] = viewer[v] /\ refused'[v] = refused[v] BY <1>1
  <2>3. CASE viewer[v].stage = "live"
    <3>1. owed'[v] = owed[v] \cup {g} /\ v \in subs BY <1>1, <1>3, <2>3
    <3>2. {x \in Hits : v \in hit[x].targets} \cup {g} \subseteq {x \in Hits : v \in hit'[x].targets}
      BY <1>5, <1>6, <3>1
    <3> QED BY <2>1, <2>2, <2>3, <3>1, <3>2 DEF StreamSound
  <2>4. CASE viewer[v].stage # "live"
    <3>1. owed'[v] = owed[v] BY <1>1, <2>4
    <3> QED BY <2>1, <2>2, <2>4, <3>1 DEF StreamSound
  <2> QED BY <2>3, <2>4
<1>13. Counts(profile', hit', lost')
  <2>1. q.user = hit[g].user /\ q.kind = hit[g].kind /\ q.stage # "absent" /\ hit[g].stage # "absent"
    BY <1>1, <1>4, <1>5
  <2>2. \A w \in Players, j \in {"charge", "invite"} : HitsOn(hit', lost', w, j) = HitsOn(hit, lost, w, j)
    BY <1>1, <1>6, <2>1 DEF HitsOn
  <2>3. \A w \in Players : profile'[w].requests = profile[w].requests /\ profile'[w].invites = profile[w].invites
    BY <1>1
  <2>4. Counts(profile, hit, lost) BY DEF ArenaInv
  <2> QED BY ONLY <2>2, <2>3, <2>4, CountsStay
<1> QED BY <1>9, <1>10, <1>11, <1>12, <1>13 DEF ArenaInv

\* A stream v becomes q, which is as sound.
LEMMA StreamMoves ==
  ASSUME ArenaInv, NEW v \in Viewers, NEW q \in StreamType, viewer' = [viewer EXCEPT ![v] = q],
         StreamSound(q, owed[v], refused[v], hit, v),
         UNCHANGED <<profile, hit, ring, lost, owed, refused, opted>>
  PROVE  ArenaInv'
<1>1. ArenaTypes' BY DEF ArenaInv, ArenaTypes
<1>2. StreamsSound'
  <2> SUFFICES ASSUME NEW w \in Viewers PROVE StreamSound(viewer'[w], owed'[w], refused'[w], hit', w)
    BY DEF StreamsSound
  <2>1. viewer'[w] = IF w = v THEN q ELSE viewer[w] BY DEF ArenaInv, ArenaTypes
  <2>2. StreamSound(viewer[w], owed[w], refused[w], hit, w) BY DEF ArenaInv, StreamsSound
  <2>3. owed' = owed /\ refused' = refused /\ hit' = hit OBVIOUS
  <2> QED BY <2>1, <2>2, <2>3
<1>3. PlayersSound' BY DEF ArenaInv, PlayersSound
<1>4. HitsSound' BY DEF ArenaInv, HitsSound
<1>5. Counts(profile', hit', lost') BY DEF ArenaInv, Counts
<1> QED BY <1>1, <1>2, <1>3, <1>4, <1>5 DEF ArenaInv

LEMMA ViewerActs ==
  ASSUME ArenaInv, NEW v \in Viewers,
         Aa!Subscribe(v) \/ Aa!Replay(v) \/ Aa!Forward(v) \/ Aa!Disconnect(v)
  PROVE  ArenaInv'
<1>1. viewer[v] \in StreamType /\ ring \in Seq(Hits) /\ owed[v] \subseteq Hits
      /\ StreamSound(viewer[v], owed[v], refused[v], hit, v)
  BY DEF ArenaInv, ArenaTypes, StreamsSound
<1>2. UNCHANGED <<profile, hit, ring, lost, owed, refused, opted>>
  BY DEF Aa!Subscribe, Aa!Replay, Aa!Forward, Aa!Disconnect
<1>3. CASE Aa!Subscribe(v)
  <2> DEFINE q == [viewer[v] EXCEPT !.stage = "subscribed"]
  <2>1. viewer[v].stage = "new" /\ viewer' = [viewer EXCEPT ![v] = q] BY <1>3 DEF Aa!Subscribe
  <2>2. q \in StreamType /\ q.stage = "subscribed" /\ q.chan = viewer[v].chan BY <1>1 DEF StreamType
  <2> HIDE DEF q
  <2>3. StreamSound(q, owed[v], refused[v], hit, v) BY <1>1, <2>1, <2>2 DEF StreamSound
  <2> QED BY <1>2, <2>1, <2>2, <2>3, StreamMoves
<1>4. CASE Aa!Replay(v)
  <2> DEFINE q == [viewer[v] EXCEPT !.stage = "live", !.seen = Aa!Range(ring)]
  <2>1. viewer[v].stage = "subscribed" /\ viewer' = [viewer EXCEPT ![v] = q] BY <1>4 DEF Aa!Replay
  <2>2. Aa!Range(ring) \subseteq Hits BY <1>1 DEF Aa!Range
  <2>3. q \in StreamType /\ q.stage = "live" /\ q.chan = viewer[v].chan BY <1>1, <2>2 DEF StreamType
  <2> HIDE DEF q
  <2>4. StreamSound(q, owed[v], refused[v], hit, v) BY <1>1, <2>1, <2>3 DEF StreamSound
  <2> QED BY <1>2, <2>1, <2>3, <2>4, StreamMoves
<1>5. CASE Aa!Forward(v)
  <2> DEFINE c == viewer[v].chan
             q == [viewer[v] EXCEPT !.chan = Tail(c), !.seen = @ \cup {Head(c)}]
  <2>1. viewer[v].stage = "live" /\ c # << >> /\ viewer' = [viewer EXCEPT ![v] = q]
    BY <1>5 DEF Aa!Forward
  <2>2. c \in Seq(Hits) BY <1>1 DEF StreamType
  <2>3. /\ Tail(c) \in Seq(Hits) /\ Len(Tail(c)) = Len(c) - 1 /\ Head(c) \in Hits
        /\ Len(c) \in Nat /\ Aa!Range(c) \subseteq Aa!Range(Tail(c)) \cup {Head(c)}
    BY <2>1, <2>2, ReadFrom
  <2> DEFINE t == Tail(c)
             e == Head(c)
  <2>4. t \in Seq(Hits) /\ e \in Hits /\ Aa!Range(c) \subseteq Aa!Range(t) \cup {e} BY <2>3
  <2>5. Len(t) <= Buffer
    <3>1. Len(c) <= Buffer /\ Buffer \in Nat
      BY <1>1, ServerAssumption DEF StreamSound, Aa!ArenaAssumption
    <3> QED BY <2>3, <3>1
  <2> HIDE DEF t, e
  <2>6. q = [viewer[v] EXCEPT !.chan = t, !.seen = @ \cup {e}] BY DEF t, e
  <2> HIDE DEF q
  <2>7. q \in StreamType /\ q.stage = "live" /\ q.chan = t /\ q.seen = viewer[v].seen \cup {e}
    BY <1>1, <2>1, <2>4, <2>6 DEF StreamType
  <2>8. StreamSound(q, owed[v], refused[v], hit, v)
    <3>1. owed[v] \subseteq viewer[v].seen \cup Aa!Range(c) \cup refused[v] \cup {x \in Hits : v \in hit[x].targets}
      BY <1>1, <2>1 DEF StreamSound
    <3> QED BY <2>4, <2>5, <2>7, <3>1 DEF StreamSound
  <2> QED BY <1>2, <2>1, <2>7, <2>8, StreamMoves
<1>6. CASE Aa!Disconnect(v)
  <2> DEFINE none == << >>
             q == [viewer[v] EXCEPT !.stage = "gone", !.chan = none]
  <2>1. viewer' = [viewer EXCEPT ![v] = q] BY <1>6 DEF Aa!Disconnect
  <2>5. none \in Seq(Hits) /\ Len(none) = 0 OBVIOUS
  <2> HIDE DEF none
  <2>2. q \in StreamType /\ q.stage = "gone" /\ q.chan = none BY <1>1, <2>5 DEF StreamType
  <2> HIDE DEF q
  <2>3. Buffer \in Nat BY ServerAssumption DEF Aa!ArenaAssumption
  <2>4. StreamSound(q, owed[v], refused[v], hit, v) BY <2>2, <2>3, <2>5 DEF StreamSound
  <2> QED BY <1>2, <2>1, <2>2, <2>4, StreamMoves
<1> QED BY <1>3, <1>4, <1>5, <1>6

LEMMA HitSends ==
  ASSUME ArenaInv, NEW g \in Hits, NEW v \in Viewers, Aa!Send(g, v) PROVE ArenaInv'
<1> DEFINE s == IF hit[g].targets = {v} THEN "done" ELSE hit[g].stage
           rest == hit[g].targets \ {v}
           q == [hit[g] EXCEPT !.targets = rest, !.stage = s]
           c == viewer[v].chan
           full == ~(Len(c) < Buffer)
           gone == viewer[v].stage = "gone"
<1>0. hit \in [Hits -> HitType] /\ viewer \in [Viewers -> StreamType]
      /\ refused \in [Viewers -> SUBSET Hits] /\ hit[g] \in HitType
  BY DEF ArenaInv, ArenaTypes
<1>1. /\ hit[g].stage = "sending" /\ v \in hit[g].targets /\ hit' = [hit EXCEPT ![g] = q]
      /\ gone => UNCHANGED <<viewer, refused>>
      /\ ~gone /\ ~full => viewer' = [viewer EXCEPT ![v].chan = Append(c, g)] /\ refused' = refused
      /\ ~gone /\ full => refused' = [refused EXCEPT ![v] = @ \cup {g}] /\ viewer' = viewer
      /\ UNCHANGED <<profile, ring, lost, owed, opted>>
  BY <1>0 DEF Aa!Send
<1>2. s \in {"done", "sending"} BY <1>1
<1>3. rest \subseteq Viewers BY <1>0 DEF HitType
<1> HIDE DEF s
<1>4. /\ q \in HitType /\ q.stage = s /\ q.kind = hit[g].kind /\ q.user = hit[g].user
      /\ q.public = hit[g].public /\ q.targets = rest
  BY <1>0, <1>2, <1>3 DEF HitType
<1> HIDE DEF q
<1>5. hit'[g] = q /\ \A x \in Hits : x # g => hit'[x] = hit[x] BY <1>0, <1>1
<1>6. c \in Seq(Hits) BY <1>0 DEF StreamType
<1>7. /\ Append(c, g) \in Seq(Hits) /\ Len(Append(c, g)) = Len(c) + 1
      /\ Aa!Range(Append(c, g)) = Aa!Range(c) \cup {g}
  BY <1>6, SentOn
<1> DEFINE a == Append(c, g)
<1>8. ~full => Len(a) <= Buffer
  <2>1. Buffer \in Nat /\ Len(c) \in Nat BY <1>6, ServerAssumption DEF Aa!ArenaAssumption
  <2> QED BY <1>7, <2>1
<1>9. a \in Seq(Hits) /\ Aa!Range(a) = Aa!Range(c) \cup {g} BY <1>7
<1>10. ~gone /\ ~full => viewer' = [viewer EXCEPT ![v].chan = a] BY <1>1
<1> HIDE DEF a, full
<1> DEFINE w == [viewer[v] EXCEPT !.chan = a]
<1>11. /\ w \in StreamType /\ w.chan = a /\ w.stage = viewer[v].stage /\ w.seen = viewer[v].seen
  BY <1>0, <1>9 DEF StreamType
<1>12. ~gone /\ ~full => viewer' = [viewer EXCEPT ![v] = w] BY <1>10
<1> HIDE DEF w, gone
<1>13. viewer' \in [Viewers -> StreamType] /\ refused' \in [Viewers -> SUBSET Hits]
  BY <1>0, <1>1, <1>11, <1>12
<1>14. ArenaTypes' BY <1>1, <1>4, <1>13 DEF ArenaInv, ArenaTypes
<1>15. PlayersSound' BY <1>1 DEF ArenaInv, PlayersSound
<1>16. HitsSound'
  <2> SUFFICES ASSUME NEW x \in Hits
               PROVE  /\ HitSound(hit'[x])
                      /\ hit'[x].stage \in {"new", "absent"} => x \notin lost'
                      /\ hit'[x].public => hit'[x].user \in opted'
    BY DEF HitsSound
  <2>1. CASE x = g
    <3>1. hit[g].kind \in {"charge", "invite"} /\ hit[g].user \in Players
          /\ (hit[g].public => hit[g].user \in opted)
      BY <1>1 DEF ArenaInv, HitsSound, HitSound
    <3>2. HitSound(q) BY <1>2, <1>4, <3>1 DEF HitSound
    <3> QED BY <1>1, <1>2, <1>4, <1>5, <2>1, <3>1, <3>2
  <2>2. CASE x # g BY <1>1, <1>5, <2>2 DEF ArenaInv, HitsSound
  <2> QED BY <2>1, <2>2
<1>17. Counts(profile', hit', lost')
  <2>1. q.user = hit[g].user /\ q.kind = hit[g].kind /\ q.stage # "absent" /\ hit[g].stage # "absent"
    BY <1>1, <1>2, <1>4
  <2>2. \A u \in Players, j \in {"charge", "invite"} : HitsOn(hit', lost', u, j) = HitsOn(hit, lost, u, j)
    BY <1>1, <1>5, <2>1 DEF HitsOn
  <2>3. \A u \in Players : profile'[u].requests = profile[u].requests /\ profile'[u].invites = profile[u].invites
    BY <1>1
  <2>4. Counts(profile, hit, lost) BY DEF ArenaInv
  <2> QED BY ONLY <2>2, <2>3, <2>4, CountsStay
<1>18. StreamsSound'
  <2> SUFFICES ASSUME NEW y \in Viewers PROVE StreamSound(viewer'[y], owed'[y], refused'[y], hit', y)
    BY DEF StreamsSound
  <2>1. StreamSound(viewer[y], owed[y], refused[y], hit, y) BY DEF ArenaInv, StreamsSound
  <2>2. owed'[y] = owed[y] BY <1>1
  <2>3. CASE y # v
    <3>1. viewer'[y] = viewer[y] /\ refused'[y] = refused[y] BY <1>0, <1>1, <1>12, <2>3
    <3>2. {x \in Hits : y \in hit'[x].targets} = {x \in Hits : y \in hit[x].targets}
      BY <1>4, <1>5, <2>3
    <3> QED BY <2>1, <2>2, <3>1, <3>2 DEF StreamSound
  <2>4. CASE y = v
    <3>1. {x \in Hits : v \in hit[x].targets} \subseteq {x \in Hits : v \in hit'[x].targets} \cup {g}
      BY <1>5
    <3>2. CASE gone
      <4>1. viewer'[v] = viewer[v] /\ viewer[v].stage = "gone" BY <1>1, <3>2 DEF gone
      <4> QED BY <2>1, <2>2, <2>4, <4>1 DEF StreamSound
    <3>3. CASE ~gone /\ ~full
      <4>1. viewer'[v] = w /\ refused'[v] = refused[v] BY <1>0, <1>1, <1>12, <3>3
      <4> HIDE DEF c
      <4>2. c = viewer[v].chan BY DEF c
      <4> QED BY <1>8, <1>9, <1>11, <2>1, <2>2, <2>4, <3>1, <3>3, <4>1, <4>2 DEF StreamSound
    <3>4. CASE ~gone /\ full
      <4>1. viewer'[v] = viewer[v] /\ refused'[v] = refused[v] \cup {g} BY <1>0, <1>1, <3>4
      <4> QED BY <2>1, <2>2, <2>4, <3>1, <4>1 DEF StreamSound
    <3> QED BY <3>2, <3>3, <3>4
  <2> QED BY <2>3, <2>4
<1> QED BY <1>14, <1>15, <1>16, <1>17, <1>18 DEF ArenaInv

LEMMA ArenaInit == ASSUME Aa!Init PROVE ArenaInv
<1>1. Aa!Absent \in PlayerType /\ ~Aa!Absent.exists /\ Aa!Absent.requests = 0 /\ Aa!Absent.invites = 0
      /\ ~Aa!Absent.optIn
  BY DEF Aa!Absent, PlayerType
<1>2. Aa!Unused \in HitType /\ HitSound(Aa!Unused) /\ ~Aa!Unused.public /\ Aa!Unused.kind = "none"
  BY DEF Aa!Unused, HitType, HitSound
<1> DEFINE q == [stage |-> "new", chan |-> << >>, seen |-> {}]
<1>3. q \in StreamType /\ q.stage = "new" /\ Len(q.chan) = 0 BY DEF StreamType
<1> HIDE DEF q
<1>4. viewer = [v \in Viewers |-> q] BY DEF Aa!Init, q
<1>5. RingSize \in Nat /\ Buffer \in Nat BY ServerAssumption DEF Aa!ArenaAssumption
<1>6. Len(ring) = 0 /\ ring \in Seq(Hits) BY DEF Aa!Init
<1>13. profile \in [Players -> PlayerType] /\ hit \in [Hits -> HitType] /\ viewer \in [Viewers -> StreamType]
  BY <1>1, <1>2, <1>3, <1>4 DEF Aa!Init
<1>14. owed \in [Viewers -> SUBSET Hits] /\ refused \in [Viewers -> SUBSET Hits]
       /\ opted \subseteq Players /\ lost \subseteq Hits
  BY DEF Aa!Init
<1>7. ArenaTypes BY <1>5, <1>6, <1>13, <1>14 DEF ArenaTypes
<1>8. PlayersSound BY <1>1 DEF Aa!Init, PlayersSound
<1>9. HitsSound BY <1>2 DEF Aa!Init, HitsSound
<1>10. StreamsSound BY <1>3, <1>4, <1>5 DEF Aa!Init, StreamsSound, StreamSound
<1>11. \A u \in Players, k \in {"charge", "invite"} : HitsOn(hit, lost, u, k) = {}
  BY <1>2 DEF Aa!Init, HitsOn
<1>12. Counts(profile, hit, lost) BY <1>1, <1>11, FS_EmptySet DEF Aa!Init, Counts
<1> QED BY <1>7, <1>8, <1>9, <1>10, <1>12 DEF ArenaInv

LEMMA ArenaStep == ASSUME ArenaInv, Aa!Next \/ UNCHANGED arena PROVE ArenaInv'
<1>1. ASSUME NEW u \in Players, Aa!Visit(u) \/ Aa!Patch(u) PROVE ArenaInv'
  <2>1. profile \in [Players -> PlayerType] /\ opted \subseteq Players
        /\ (profile[u].optIn => u \in opted)
    BY DEF ArenaInv, ArenaTypes, PlayersSound
  <2>2. profile[u] \in PlayerType BY <2>1
  <2>3. CASE Aa!Visit(u)
    <3> DEFINE p == [profile[u] EXCEPT !.exists = TRUE]
    <3>1. p \in PlayerType /\ p.requests = profile[u].requests /\ p.invites = profile[u].invites
          /\ p.exists /\ p.optIn = profile[u].optIn
      BY <2>2 DEF PlayerType
    <3>2. profile' = [profile EXCEPT ![u] = p]
          /\ UNCHANGED <<hit, ring, viewer, lost, owed, refused, opted>>
      BY <2>3 DEF Aa!Visit, Aa!hub
    <3> HIDE DEF p
    <3> QED BY <2>1, <3>1, <3>2, PlayerMoves
  <2>4. CASE Aa!Patch(u)
    <3>1. PICK choice \in BOOLEAN :
            /\ profile' = [profile EXCEPT ![u].exists = TRUE, ![u].optIn = choice]
            /\ opted' = IF choice THEN opted \cup {u} ELSE opted
      BY <2>4 DEF Aa!Patch
    <3> DEFINE p == [profile[u] EXCEPT !.exists = TRUE, !.optIn = choice]
    <3>2. p \in PlayerType /\ p.requests = profile[u].requests /\ p.invites = profile[u].invites
          /\ p.exists /\ p.optIn = choice
      BY <2>2 DEF PlayerType
    <3>3. profile' = [profile EXCEPT ![u] = p] BY <2>1, <3>1
    <3>4. UNCHANGED <<hit, ring, viewer, lost, owed, refused>> BY <2>4 DEF Aa!Patch, Aa!hub
    <3> HIDE DEF p
    <3>5. opted' \subseteq Players /\ opted \subseteq opted' /\ (p.optIn => u \in opted')
      BY <2>1, <3>1, <3>2
    <3> QED BY <3>2, <3>3, <3>4, <3>5, PlayerMoves
  <2> QED BY <1>1, <2>3, <2>4
<1>2. CASE UNCHANGED arena
  BY <1>2 DEF arena, ArenaInv, ArenaTypes, PlayersSound, HitsSound, StreamsSound
<1> QED BY <1>1, <1>2, HitBumps, HitInserts, HitResolves, HitPublishes, HitSends, ViewerActs
        DEF Aa!Next

-----------------------------------------------------------------------------
(* Signup bonuses.                                                          *)

Channelled == {<< >>} \cup {<<c>> : c \in Channels}
SignupType ==
  [stage : {"new", "looking", "judged", "recorded", "organic", "matched", "converted", "done"},
   ref : BOOLEAN, fraud : BOOLEAN, ch : Channelled]
DeviceType == {<< >>} \cup {<<d>> : d \in [fraud : BOOLEAN, at : Nat]}

\* What is on record of the registration s: its device, its conversion and its
\* credit; bad if one of its statements failed.
OnRecord(s, dev, ref, cre, bad) ==
  /\ s.stage \in {"new", "looking", "judged"} => dev = << >>
  /\ s.stage \notin {"new", "looking", "judged"} => dev # << >> \/ bad
  /\ dev # << >> => dev[1].fraud = s.fraud
  /\ s.stage \notin {"converted", "done"} => ref = << >>
  /\ s.stage = "converted" => ~s.fraud /\ ref = <<s.ch[1].bonus>>
  /\ s.stage # "done" => cre = << >>
  /\ cre # << >> => /\ Len(cre) = 1 /\ ~s.fraud
                    /\ ref = IF cre[1].kind = "trial" THEN << >> ELSE <<cre[1].usd>>
  /\ s.stage = "done" /\ cre = << >> /\ ref # << >> /\ ref[1] > 0 => bad

\* The registrations of e within the window of a burst at time t.
Near(e, bad, dev, t) == {v \in e \ bad : dev[v][1].at + Window >= t}

\* The bursts have been looked for.
Examined(s, cre) ==
  s.stage \in {"judged", "recorded", "organic", "matched", "converted"} \/ cre # << >>

\* A registration of u that passes differs in device from those e that ended
\* before it, and is in no burst of theirs.
Cleared(fr, u, s, cre, e, bad, dev, t) ==
  /\ s.stage # "new" /\ ~s.fraud /\ fr[u].fp # NoFp => \A v \in e \ bad : fr[v].fp # fr[u].fp
  /\ Examined(s, cre) /\ ~s.fraud =>
       /\ Cardinality({v \in Near(e, bad, dev, t) : fr[v].net = fr[u].net}) < SubnetThreshold
       /\ fr[u].domain \notin FreeMail =>
            Cardinality({v \in Near(e, bad, dev, t) : fr[v].domain = fr[u].domain})
              < EmailDomainThreshold

GrowthTypes ==
  /\ hour \in Nat /\ channel \in Channelled
  /\ visit.by \in Newcomers \cup {"nobody"}
  /\ visit \in [stage : {"none", "checked", "seen"}, dwell : Nat, by : Newcomers \cup {"nobody"}]
  /\ signup \in [Newcomers -> SignupType] /\ device \in [Newcomers -> DeviceType]
  /\ referral = [u \in Newcomers |-> referral[u]] /\ credit = [u \in Newcomers |-> credit[u]]
  /\ earlier \in [Newcomers -> SUBSET Newcomers] /\ failed \subseteq Newcomers

\* The visit's conversion is on record.
VisitSound == visit.by # "nobody" => referral[visit.by] # << >> /\ visit.stage = "seen"

GrowthInv ==
  /\ GrowthTypes /\ VisitSound
  /\ \A u \in Newcomers : OnRecord(signup[u], device[u], referral[u], credit[u], u \in failed)
  /\ \A u \in Newcomers : \A v \in earlier[u] : v # u /\ signup[v].stage = "done"
  /\ \A u \in Newcomers : Cleared(from, u, signup[u], credit[u], earlier[u], failed, device, hour)

LEMMA GrowthIsHeld == ASSUME GrowthInv PROVE Gr!GrowthHolds
<1> USE DEF GrowthInv
<1>1. Gr!TypeOK BY DEF Gr!TypeOK, GrowthTypes, SignupType, Gr!Nobody, Gr!At
<1>2. Gr!PaidAsRecorded
  <2> SUFFICES ASSUME NEW u \in Newcomers
               PROVE  /\ Len(credit[u]) <= 1
                      /\ credit[u] # << >> =>
                           /\ device[u] # << >> => ~device[u][1].fraud
                           /\ referral[u] = IF credit[u][1].kind = "trial" THEN << >>
                                            ELSE <<credit[u][1].usd>>
                      /\ signup[u].stage = "done" /\ credit[u] = << >> /\ referral[u] # << >>
                           /\ referral[u][1] > 0 => u \in failed
    BY DEF Gr!PaidAsRecorded, Gr!Paid, Gr!At
  <2>1. OnRecord(signup[u], device[u], referral[u], credit[u], u \in failed) OBVIOUS
  <2>2. credit[u] = << >> => Len(credit[u]) = 0 OBVIOUS
  <2>3. CASE credit[u] = << >> BY <2>1, <2>2, <2>3 DEF OnRecord
  <2>4. CASE credit[u] # << >>
    <3>1. /\ Len(credit[u]) = 1 /\ ~signup[u].fraud
          /\ device[u] # << >> => device[u][1].fraud = signup[u].fraud
          /\ referral[u] = IF credit[u][1].kind = "trial" THEN << >> ELSE <<credit[u][1].usd>>
      BY <2>1, <2>4 DEF OnRecord
    <3> QED BY <2>4, <3>1
  <2> QED BY <2>3, <2>4
<1>3. Gr!VisitConvertedOnce BY DEF Gr!VisitConvertedOnce, VisitSound, Gr!Nobody
<1>4. Gr!SerialAbuseUnpaid
  <2> SUFFICES ASSUME NEW u \in Newcomers, credit[u] # << >>
               PROVE  /\ from[u].fp # NoFp => \A v \in earlier[u] \ failed : from[v].fp # from[u].fp
                      /\ LET near == {v \in earlier[u] \ failed : device[v][1].at + Window >= hour} IN
                         /\ Gr!Cardinality({v \in near : from[v].net = from[u].net}) < SubnetThreshold
                         /\ from[u].domain \notin FreeMail =>
                              Gr!Cardinality({v \in near : from[v].domain = from[u].domain})
                                < EmailDomainThreshold
    BY DEF Gr!SerialAbuseUnpaid, Gr!Paid, Gr!Traced
  <2>1. \A q : Gr!Cardinality(q) = Cardinality(q) BY DEF Gr!Cardinality, Cardinality
  <2>2. OnRecord(signup[u], device[u], referral[u], credit[u], u \in failed)
        /\ Cleared(from, u, signup[u], credit[u], earlier[u], failed, device, hour)
    OBVIOUS
  <2>3. signup[u].stage = "done" /\ ~signup[u].fraud BY <2>2 DEF OnRecord
  <2> QED BY <2>1, <2>2, <2>3 DEF Cleared, Examined, Near
<1> QED BY <1>1, <1>2, <1>3, <1>4 DEF Gr!GrowthHolds

LEMMA GrowthInit == ASSUME Gr!Init PROVE GrowthInv
<1>1. Gr!Idle \in SignupType /\ Gr!Idle.stage = "new" BY DEF Gr!Idle, SignupType, Channelled
<1>2. GrowthTypes BY <1>1 DEF Gr!Init, GrowthTypes, Channelled, DeviceType, Gr!Nobody
<1>3. VisitSound BY DEF Gr!Init, VisitSound, Gr!Nobody
<1>4. \A u \in Newcomers : OnRecord(signup[u], device[u], referral[u], credit[u], u \in failed)
  BY <1>1 DEF Gr!Init, OnRecord
<1>5. \A u \in Newcomers : Cleared(from, u, signup[u], credit[u], earlier[u], failed, device, hour)
  BY <1>1 DEF Gr!Init, Cleared, Examined
<1> QED BY <1>2, <1>3, <1>4, <1>5 DEF Gr!Init, GrowthInv

\* Time and failures clear no less.
LEMMA ClearedStays ==
  ASSUME GrowthInv, NEW u \in Newcomers, NEW s, NEW cre, NEW bad, NEW dev, NEW t \in Nat,
         s.fraud = signup[u].fraud, s.stage # "new" => signup[u].stage # "new",
         Examined(s, cre) => Examined(signup[u], credit[u]),
         failed \subseteq bad, t >= hour, \A v \in earlier[u] : dev[v] = device[v]
  PROVE  Cleared(from, u, s, cre, earlier[u], bad, dev, t)
<1> DEFINE e == earlier[u]
           old == Near(e, failed, device, hour)
           new == Near(e, bad, dev, t)
<1>1. IsFiniteSet(Newcomers) /\ Window \in Nat /\ SubnetThreshold \in Nat /\ EmailDomainThreshold \in Nat
  BY ServerAssumption DEF Gr!GrowthAssumption, Gr!IsFiniteSet, IsFiniteSet
<1>2. e \subseteq Newcomers /\ hour \in Nat BY DEF GrowthInv, GrowthTypes
<1>3. ASSUME NEW v \in new PROVE v \in old
  <2>1. v \in e \ bad /\ dev[v][1].at + Window >= t BY DEF Near
  <2>2. v \in e \ failed /\ dev[v] = device[v] /\ v \in Newcomers BY <1>2, <2>1
  <2>3. signup[v].stage = "done" /\ OnRecord(signup[v], device[v], referral[v], credit[v], v \in failed)
    BY <2>2 DEF GrowthInv
  <2>4. device[v] # << >> BY <2>2, <2>3 DEF OnRecord
  <2>5. device[v] \in DeviceType BY <2>2 DEF GrowthInv, GrowthTypes
  <2>6. PICK d \in [fraud : BOOLEAN, at : Nat] : device[v] = <<d>> BY <2>4, <2>5 DEF DeviceType
  <2>7. device[v][1].at \in Nat BY <2>6
  <2>8. device[v][1].at + Window >= hour BY <1>1, <1>2, <2>1, <2>2, <2>7
  <2> QED BY <2>2, <2>8 DEF Near
<1>4. old \in SUBSET Newcomers BY <1>2 DEF Near
<1> HIDE DEF old, new
<1>5. ASSUME NEW q, NEW r, r \in SUBSET Newcomers, q \in SUBSET r, NEW n \in Nat, Cardinality(r) < n
      PROVE  Cardinality(q) < n
  <2>1. IsFiniteSet(r) BY <1>1, <1>5, FS_Subset
  <2>2. IsFiniteSet(q) /\ Cardinality(q) <= Cardinality(r) BY <1>5, <2>1, FS_Subset
  <2>3. Cardinality(q) \in Nat /\ Cardinality(r) \in Nat BY <2>1, <2>2, FS_CardinalityType
  <2> QED BY <1>5, <2>2, <2>3
<1>6. Cleared(from, u, signup[u], credit[u], e, failed, device, hour) BY DEF GrowthInv
<1>7. ASSUME s.stage # "new", ~s.fraud, from[u].fp # NoFp
      PROVE  \A v \in e \ bad : from[v].fp # from[u].fp
  BY <1>6, <1>7 DEF Cleared
<1>8. ASSUME Examined(s, cre), ~s.fraud
      PROVE  /\ Cardinality({v \in new : from[v].net = from[u].net}) < SubnetThreshold
             /\ from[u].domain \notin FreeMail =>
                  Cardinality({v \in new : from[v].domain = from[u].domain}) < EmailDomainThreshold
  <2>1. /\ Cardinality({v \in old : from[v].net = from[u].net}) < SubnetThreshold
        /\ from[u].domain \notin FreeMail =>
             Cardinality({v \in old : from[v].domain = from[u].domain}) < EmailDomainThreshold
    BY <1>6, <1>8 DEF Cleared, old
  <2>2. {v \in new : from[v].net = from[u].net} \in SUBSET {v \in old : from[v].net = from[u].net}
        /\ {v \in new : from[v].domain = from[u].domain}
             \in SUBSET {v \in old : from[v].domain = from[u].domain}
    BY <1>3
  <2>3. {v \in old : from[v].net = from[u].net} \in SUBSET Newcomers
        /\ {v \in old : from[v].domain = from[u].domain} \in SUBSET Newcomers
    BY <1>4
  <2> QED BY <1>1, <1>5, <2>1, <2>2, <2>3
<1> QED BY <1>7, <1>8 DEF Cleared, new

\* The registration of w moves to s, with its rows d, r and c.
LEMMA SignupMoves ==
  ASSUME GrowthInv, NEW w \in Newcomers, NEW s \in SignupType, NEW d \in DeviceType, NEW r, NEW c,
         NEW e \in SUBSET Newcomers,
         signup[w].stage # "done", signup' = [signup EXCEPT ![w] = s],
         device' = [device EXCEPT ![w] = d], referral' = [referral EXCEPT ![w] = r],
         credit' = [credit EXCEPT ![w] = c], earlier' = [earlier EXCEPT ![w] = e],
         failed \subseteq failed', failed' \subseteq failed \cup {w},
         \A v \in e : v # w /\ signup[v].stage = "done",
         OnRecord(s, d, r, c, w \in failed'), Cleared(from, w, s, c, e, failed', device', hour),
         visit' \in [stage : {"none", "checked", "seen"}, dwell : Nat, by : Newcomers \cup {"nobody"}],
         VisitSound', UNCHANGED <<hour, channel, from>>
  PROVE  GrowthInv'
<1>1. /\ hour \in Nat /\ channel \in Channelled
      /\ signup \in [Newcomers -> SignupType] /\ device \in [Newcomers -> DeviceType]
      /\ referral = [u \in Newcomers |-> referral[u]] /\ credit = [u \in Newcomers |-> credit[u]]
      /\ earlier \in [Newcomers -> SUBSET Newcomers] /\ failed \subseteq Newcomers
  BY DEF GrowthInv, GrowthTypes
<1>2. referral' = [u \in Newcomers |-> referral'[u]] /\ credit' = [u \in Newcomers |-> credit'[u]]
  <2> HIDE DEF GrowthInv
  <2>1. DOMAIN referral = Newcomers /\ DOMAIN credit = Newcomers BY <1>1
  <2>2. DOMAIN referral' = Newcomers /\ DOMAIN credit' = Newcomers BY <2>1
  <2>3. referral' = [u \in Newcomers |-> IF u = w THEN r ELSE referral[u]] BY <2>1
  <2>4. credit' = [u \in Newcomers |-> IF u = w THEN c ELSE credit[u]] BY <2>1
  <2> QED BY <2>3, <2>4
<1>3. GrowthTypes'
  <2>1. visit'.by \in Newcomers \cup {"nobody"} OBVIOUS
  <2>2. signup' \in [Newcomers -> SignupType] /\ device' \in [Newcomers -> DeviceType]
        /\ earlier' \in [Newcomers -> SUBSET Newcomers] /\ failed' \subseteq Newcomers
    BY <1>1
  <2> QED BY <1>1, <1>2, <2>1, <2>2 DEF GrowthTypes
<1>4. /\ signup'[w] = s /\ device'[w] = d /\ referral'[w] = r /\ credit'[w] = c /\ earlier'[w] = e
      /\ \A u \in Newcomers : u # w =>
           /\ signup'[u] = signup[u] /\ device'[u] = device[u] /\ referral'[u] = referral[u]
           /\ credit'[u] = credit[u] /\ earlier'[u] = earlier[u] /\ (u \in failed' <=> u \in failed)
  <2>1. DOMAIN referral = Newcomers /\ DOMAIN credit = Newcomers BY <1>1
  <2> QED BY <1>1, <2>1
<1>5. ASSUME NEW u \in Newcomers
      PROVE  OnRecord(signup'[u], device'[u], referral'[u], credit'[u], u \in failed')
  <2>1. CASE u = w BY <1>4, <2>1
  <2>2. CASE u # w
    <3>1. OnRecord(signup[u], device[u], referral[u], credit[u], u \in failed) BY DEF GrowthInv
    <3> QED BY <1>4, <2>2, <3>1 DEF OnRecord
  <2> QED BY <2>1, <2>2
<1>6. ASSUME NEW u \in Newcomers, NEW v \in earlier'[u] PROVE v # u /\ signup'[v].stage = "done"
  <2>1. CASE u = w
    <3>1. v \in e /\ v # w /\ signup[v].stage = "done" BY <1>4, <2>1
    <3> QED BY <1>4, <2>1, <3>1
  <2>2. CASE u # w
    <3>1. v \in earlier[u] /\ v # u /\ signup[v].stage = "done" /\ v \in Newcomers
      BY <1>1, <1>4, <1>6, <2>2 DEF GrowthInv
    <3> QED BY <1>4, <3>1
  <2> QED BY <2>1, <2>2
<1>7. ASSUME NEW u \in Newcomers
      PROVE  Cleared(from, u, signup'[u], credit'[u], earlier'[u], failed', device', hour')
  <2>1. CASE u = w BY <1>4, <2>1
  <2>2. CASE u # w
    <3>1. \A v \in earlier[u] : v \in Newcomers /\ v # w BY <1>1 DEF GrowthInv
    <3>2. \A v \in earlier[u] : device'[v] = device[v] BY <1>4, <3>1
    <3>3. Cleared(from, u, signup[u], credit[u], earlier[u], failed', device', hour)
      <4> DEFINE bad == failed'
                 dev == device'
                 x == signup[u]
                 cre == credit[u]
      <4>1. hour \in Nat /\ hour >= hour BY <1>1
      <4>2. failed \subseteq bad /\ \A v \in earlier[u] : dev[v] = device[v] BY <3>2
      <4>3. x.fraud = signup[u].fraud /\ (x.stage # "new" => signup[u].stage # "new")
            /\ (Examined(x, cre) => Examined(signup[u], credit[u]))
        OBVIOUS
      <4> HIDE DEF bad, dev, x, cre
      <4>4. Cleared(from, u, x, cre, earlier[u], bad, dev, hour)
        BY <4>1, <4>2, <4>3, ClearedStays, Zenon
      <4> QED BY <4>4 DEF bad, dev, x, cre
    <3> QED BY <1>4, <2>2, <3>3
  <2> QED BY <2>1, <2>2
<1>8. from' = from OBVIOUS
<1> QED BY <1>3, <1>5, <1>6, <1>7, <1>8 DEF GrowthInv

\* The visit stays, or belongs to a conversion on record.
LEMMA VisitStays ==
  ASSUME GrowthInv, NEW w \in Newcomers, NEW r, referral[w] = << >> \/ r = referral[w],
         referral' = [referral EXCEPT ![w] = r], UNCHANGED visit
  PROVE  /\ visit' \in [stage : {"none", "checked", "seen"}, dwell : Nat, by : Newcomers \cup {"nobody"}]
         /\ VisitSound'
<1>1. visit \in [stage : {"none", "checked", "seen"}, dwell : Nat, by : Newcomers \cup {"nobody"}]
      /\ visit.by \in Newcomers \cup {"nobody"} /\ VisitSound
      /\ referral = [u \in Newcomers |-> referral[u]]
  BY DEF GrowthInv, GrowthTypes
<1>2. \A u \in Newcomers : u # w => referral'[u] = referral[u]
  <2>1. DOMAIN referral = Newcomers BY <1>1
  <2> QED BY <2>1
<1>3. referral'[w] = r
  <2>1. DOMAIN referral = Newcomers BY <1>1
  <2> QED BY <2>1
<1>4. VisitSound'
  <2> SUFFICES ASSUME visit.by # "nobody" PROVE referral'[visit.by] # << >> /\ visit.stage = "seen"
    BY DEF VisitSound
  <2>1. visit.by \in Newcomers /\ referral[visit.by] # << >> /\ visit.stage = "seen"
    BY <1>1 DEF VisitSound
  <2> QED BY <1>2, <1>3, <2>1
<1> QED BY <1>1, <1>4

\* A registration w that is under way.
LEMMA UnderWay ==
  ASSUME GrowthInv, NEW w \in Newcomers, signup[w].stage # "done"
  PROVE  /\ signup[w] \in SignupType /\ device[w] \in DeviceType /\ earlier[w] \in SUBSET Newcomers
         /\ device = [device EXCEPT ![w] = device[w]]
         /\ referral = [referral EXCEPT ![w] = referral[w]]
         /\ credit = [credit EXCEPT ![w] = credit[w]] /\ earlier = [earlier EXCEPT ![w] = earlier[w]]
         /\ \A v \in earlier[w] : v # w /\ signup[v].stage = "done"
         /\ credit[w] = << >> /\ (signup[w].stage # "converted" => referral[w] = << >>)
         /\ OnRecord(signup[w], device[w], referral[w], credit[w], w \in failed)
         /\ hour \in Nat /\ channel \in Channelled
<1>1. /\ signup \in [Newcomers -> SignupType] /\ device \in [Newcomers -> DeviceType]
      /\ earlier \in [Newcomers -> SUBSET Newcomers]
  BY DEF GrowthInv, GrowthTypes
<1>2. referral = [u \in Newcomers |-> referral[u]] /\ credit = [u \in Newcomers |-> credit[u]]
  BY DEF GrowthInv, GrowthTypes
<1>3. device = [device EXCEPT ![w] = device[w]] /\ earlier = [earlier EXCEPT ![w] = earlier[w]]
  BY <1>1
<1>4. referral = [referral EXCEPT ![w] = referral[w]] /\ credit = [credit EXCEPT ![w] = credit[w]]
  BY <1>2
<1>5. OnRecord(signup[w], device[w], referral[w], credit[w], w \in failed) BY DEF GrowthInv
<1>6. credit[w] = << >> /\ (signup[w].stage # "converted" => referral[w] = << >>)
  BY <1>5 DEF OnRecord
<1> QED BY <1>1, <1>3, <1>4, <1>5, <1>6 DEF GrowthInv, GrowthTypes

\* A step of w past its look, which keeps its verdict.
LEMMA SignupSteps ==
  ASSUME GrowthInv, NEW w \in Newcomers, NEW s \in SignupType, NEW r, NEW c,
         signup[w].stage # "done", signup' = [signup EXCEPT ![w] = s],
         UNCHANGED <<hour, channel, from, device, earlier>>,
         referral' = [referral EXCEPT ![w] = r], credit' = [credit EXCEPT ![w] = c],
         failed \subseteq failed', failed' \subseteq failed \cup {w},
         s.fraud = signup[w].fraud, signup[w].stage # "new",
         Examined(s, c) => Examined(signup[w], credit[w]),
         OnRecord(s, device[w], r, c, w \in failed'),
         visit' \in [stage : {"none", "checked", "seen"}, dwell : Nat, by : Newcomers \cup {"nobody"}],
         VisitSound'
  PROVE  GrowthInv'
<1> DEFINE bad == failed'
           dev == device[w]
           e == earlier[w]
<1>1. device' = [device EXCEPT ![w] = dev] /\ earlier' = [earlier EXCEPT ![w] = e]
      /\ dev \in DeviceType /\ e \in SUBSET Newcomers
      /\ (\A v \in e : v # w /\ signup[v].stage = "done") /\ hour \in Nat
  BY UnderWay
<1>2. Cleared(from, w, s, c, earlier[w], bad, device, hour)
  <2>1. hour >= hour BY <1>1
  <2>2. \A v \in earlier[w] : device[v] = device[v] OBVIOUS
  <2>3. failed \subseteq bad OBVIOUS
  <2> HIDE DEF bad
  <2> QED BY <1>1, <2>1, <2>2, <2>3, ClearedStays, Zenon
<1>3. Cleared(from, w, s, c, e, failed', device', hour) BY <1>2
<1> HIDE DEF bad, e, dev
<1>4. OnRecord(s, dev, r, c, w \in failed') BY DEF dev
<1> QED BY <1>1, <1>3, <1>4, SignupMoves

LEMMA SignupLooks ==
  ASSUME GrowthInv, NEW u \in Newcomers, NEW ref \in BOOLEAN, Gr!Look(u, ref) PROVE GrowthInv'
<1> DEFINE bad == \/ from[u].domain \in Disposable
                  \/ from[u].fp # NoFp /\ Gr!fingerprintSeen(u)
                  \/ from[u].fp = NoFp /\ RequireFingerprint
           s == [Gr!Idle EXCEPT !.stage = "looking", !.ref = ref, !.fraud = bad]
           e == Gr!Ended
           d == device[u]
           r == referral[u]
           c == credit[u]
<1>1. /\ signup[u].stage = "new" /\ signup' = [signup EXCEPT ![u] = s]
      /\ earlier' = [earlier EXCEPT ![u] = e]
      /\ UNCHANGED <<hour, channel, visit, from, device, referral, credit, failed>>
  BY DEF Gr!Look, Gr!At, Gr!Set, Gr!World
<1>2. /\ d \in DeviceType /\ device = [device EXCEPT ![u] = d]
      /\ referral = [referral EXCEPT ![u] = r] /\ credit = [credit EXCEPT ![u] = c]
      /\ OnRecord(signup[u], d, r, c, u \in failed)
  BY <1>1, UnderWay
<1>3. d = << >> /\ r = << >> /\ c = << >> BY <1>1, <1>2 DEF OnRecord
<1>4. e \in SUBSET Newcomers /\ \A v \in e : v # u /\ signup[v].stage = "done"
  BY <1>1 DEF Gr!Ended, Gr!At
<1>5. bad \in BOOLEAN OBVIOUS
<1>6. ~bad /\ from[u].fp # NoFp => \A v \in e \ failed : from[v].fp # from[u].fp
  <2> SUFFICES ASSUME ~bad, from[u].fp # NoFp, NEW v \in e \ failed, from[v].fp = from[u].fp
               PROVE  FALSE
    OBVIOUS
  <2>1. v \in Newcomers /\ v # u /\ signup[v].stage = "done" BY <1>4
  <2>2. OnRecord(signup[v], device[v], referral[v], credit[v], v \in failed) BY <2>1 DEF GrowthInv
  <2>3. device[v] # << >> BY <2>1, <2>2 DEF OnRecord
  <2>4. Gr!fingerprintSeen(u) BY <2>1, <2>3 DEF Gr!fingerprintSeen, Gr!Others
  <2> QED BY <2>4
<1> HIDE DEF bad
<1>7. s \in SignupType /\ s.stage = "looking" /\ s.fraud = bad
  BY <1>5 DEF SignupType, Gr!Idle, Channelled
<1> HIDE DEF s
<1>8. OnRecord(s, d, r, c, u \in failed') BY <1>3, <1>7 DEF OnRecord
<1>9. Cleared(from, u, s, c, e, failed', device', hour)
  BY <1>1, <1>3, <1>6, <1>7 DEF Cleared, Examined
<1>10. referral' = [referral EXCEPT ![u] = r] BY <1>1, <1>2
<1>11. /\ visit' \in [stage : {"none", "checked", "seen"}, dwell : Nat, by : Newcomers \cup {"nobody"}]
       /\ VisitSound'
  BY <1>1, <1>10, VisitStays
<1>12. device' = [device EXCEPT ![u] = d] /\ credit' = [credit EXCEPT ![u] = c] BY <1>1, <1>2
<1>13. failed \subseteq failed' /\ failed' \subseteq failed \cup {u} BY <1>1
<1> HIDE DEF d, r, c, e
<1>14. signup[u].stage # "done" /\ UNCHANGED <<hour, channel, from>> BY <1>1
<1>15. signup' = [signup EXCEPT ![u] = s] /\ earlier' = [earlier EXCEPT ![u] = e] BY <1>1
<1>16. d \in DeviceType /\ s \in SignupType BY <1>2, <1>7
<1> QED
  BY <1>4, <1>8, <1>9, <1>10, <1>11, <1>12, <1>13, <1>14, <1>15, <1>16, SignupMoves, Zenon

LEMMA SignupIsJudged == ASSUME GrowthInv, NEW u \in Newcomers, Gr!LookForBursts(u) PROVE GrowthInv'
<1> DEFINE net == Gr!subnetBurst(u)
           dom == from[u].domain \notin FreeMail /\ Gr!domainBurst(u)
           bad == signup[u].fraud \/ net \/ dom
           s == [signup[u] EXCEPT !.stage = "judged", !.fraud = bad]
           e == earlier[u]
           d == device[u]
           r == referral[u]
           c == credit[u]
           near == Near(e, failed, device, hour)
<1>1. /\ signup[u].stage = "looking" /\ signup' = [signup EXCEPT ![u] = s]
      /\ UNCHANGED <<hour, channel, visit, from, device, referral, credit, earlier, failed>>
  BY DEF Gr!LookForBursts, Gr!At, Gr!Set, Gr!World
<1>2. /\ signup[u] \in SignupType /\ d \in DeviceType /\ e \in SUBSET Newcomers
      /\ device = [device EXCEPT ![u] = d] /\ earlier = [earlier EXCEPT ![u] = e]
      /\ referral = [referral EXCEPT ![u] = r] /\ credit = [credit EXCEPT ![u] = c]
      /\ (\A v \in e : v # u /\ signup[v].stage = "done")
      /\ OnRecord(signup[u], d, r, c, u \in failed)
  BY <1>1, UnderWay
<1>3. d = << >> /\ r = << >> /\ c = << >> BY <1>1, <1>2 DEF OnRecord
<1>4. net \in BOOLEAN /\ dom \in BOOLEAN BY DEF Gr!subnetBurst, Gr!domainBurst
<1>5. near \in SUBSET Gr!Recent(u)
  <2> SUFFICES ASSUME NEW v \in near PROVE v \in Gr!Recent(u) OBVIOUS
  <2>1. v \in e /\ v \notin failed /\ device[v][1].at + Window >= hour BY DEF Near
  <2>2. v \in Newcomers /\ v # u /\ signup[v].stage = "done" BY <1>2, <2>1
  <2>3. OnRecord(signup[v], device[v], referral[v], credit[v], v \in failed) BY <2>2 DEF GrowthInv
  <2>4. device[v] # << >> BY <2>1, <2>2, <2>3 DEF OnRecord
  <2> QED BY <2>1, <2>2, <2>4 DEF Gr!Recent, Gr!Others
<1>6. IsFiniteSet(Newcomers) /\ SubnetThreshold \in Nat /\ EmailDomainThreshold \in Nat
  BY ServerAssumption DEF Gr!GrowthAssumption, Gr!IsFiniteSet, IsFiniteSet
<1>7. Gr!Recent(u) \in SUBSET Newcomers BY DEF Gr!Recent, Gr!Others
<1>8. \A q : Gr!Cardinality(q) = Cardinality(q) BY DEF Gr!Cardinality, Cardinality
<1> HIDE DEF near
<1>9. ASSUME NEW q, NEW x, x \in SUBSET Newcomers, q \in SUBSET x, NEW n \in Nat,
             ~(Cardinality(x) >= n)
      PROVE  Cardinality(q) < n
  <2>1. IsFiniteSet(x) BY <1>6, <1>9, FS_Subset
  <2>2. IsFiniteSet(q) /\ Cardinality(q) <= Cardinality(x) BY <1>9, <2>1, FS_Subset
  <2>3. Cardinality(q) \in Nat /\ Cardinality(x) \in Nat BY <2>1, <2>2, FS_CardinalityType
  <2> QED BY <1>9, <2>2, <2>3
<1>10. ~net => Cardinality({v \in near : from[v].net = from[u].net}) < SubnetThreshold
  <2>1. {v \in near : from[v].net = from[u].net} \in SUBSET {v \in Gr!Recent(u) : from[v].net = from[u].net}
        /\ {v \in Gr!Recent(u) : from[v].net = from[u].net} \in SUBSET Newcomers
    BY <1>5, <1>7
  <2>2. ~net => ~(Cardinality({v \in Gr!Recent(u) : from[v].net = from[u].net}) >= SubnetThreshold)
    BY <1>8 DEF Gr!subnetBurst
  <2> HIDE DEF net
  <2> QED BY <1>6, <1>9, <2>1, <2>2
<1>11. ~dom /\ from[u].domain \notin FreeMail =>
         Cardinality({v \in near : from[v].domain = from[u].domain}) < EmailDomainThreshold
  <2>1. {v \in near : from[v].domain = from[u].domain}
          \in SUBSET {v \in Gr!Recent(u) : from[v].domain = from[u].domain}
        /\ {v \in Gr!Recent(u) : from[v].domain = from[u].domain} \in SUBSET Newcomers
    BY <1>5, <1>7
  <2>2. ~dom /\ from[u].domain \notin FreeMail =>
          ~(Cardinality({v \in Gr!Recent(u) : from[v].domain = from[u].domain}) >= EmailDomainThreshold)
    BY <1>8 DEF Gr!domainBurst
  <2> HIDE DEF dom
  <2> QED BY <1>6, <1>9, <2>1, <2>2
<1>12. signup[u].fraud \in BOOLEAN BY <1>2 DEF SignupType
<1> HIDE DEF net, dom
<1>13. bad \in BOOLEAN /\ (~bad => ~signup[u].fraud /\ ~net /\ ~dom) BY <1>4, <1>12
<1> HIDE DEF bad
<1>14. s \in SignupType /\ s.stage = "judged" /\ s.fraud = bad BY <1>2, <1>13 DEF SignupType
<1> HIDE DEF s
<1>15. OnRecord(s, d, r, c, u \in failed') BY <1>3, <1>14 DEF OnRecord
<1>16. Cleared(from, u, signup[u], c, e, failed, device, hour) BY DEF GrowthInv
<1>17. ASSUME ~s.fraud, from[u].fp # NoFp PROVE \A v \in e \ failed : from[v].fp # from[u].fp
  BY <1>1, <1>13, <1>14, <1>16, <1>17 DEF Cleared
<1>18. Cleared(from, u, s, c, e, failed, device, hour)
  BY <1>10, <1>11, <1>13, <1>14, <1>17 DEF Cleared, near
<1>19. Cleared(from, u, s, c, e, failed', device', hour) BY <1>1, <1>18
<1>20. referral' = [referral EXCEPT ![u] = r] BY <1>1, <1>2
<1>21. /\ visit' \in [stage : {"none", "checked", "seen"}, dwell : Nat, by : Newcomers \cup {"nobody"}]
       /\ VisitSound'
  BY <1>1, <1>20, VisitStays
<1>22. /\ device' = [device EXCEPT ![u] = d] /\ credit' = [credit EXCEPT ![u] = c]
       /\ earlier' = [earlier EXCEPT ![u] = e] /\ failed \subseteq failed' /\ failed' \subseteq failed \cup {u}
  BY <1>1, <1>2
<1> HIDE DEF d, r, c, e
<1>23. signup[u].stage # "done" /\ UNCHANGED <<hour, channel, from>> BY <1>1
<1>24. signup' = [signup EXCEPT ![u] = s] BY <1>1
<1>25. d \in DeviceType /\ s \in SignupType /\ e \in SUBSET Newcomers
       /\ \A v \in e : v # u /\ signup[v].stage = "done"
  BY <1>2, <1>14
<1> QED BY <1>15, <1>19, <1>20, <1>21, <1>22, <1>23, <1>24, <1>25, SignupMoves, Zenon

LEMMA DeviceIsRecorded == ASSUME GrowthInv, NEW u \in Newcomers, Gr!RecordDevice(u) PROVE GrowthInv'
<1> DEFINE s == [signup[u] EXCEPT !.stage = "recorded"]
           e == earlier[u]
           r == referral[u]
           c == credit[u]
           dr == [fraud |-> signup[u].fraud, at |-> hour]
<1>1. /\ signup[u].stage = "judged" /\ signup' = [signup EXCEPT ![u] = s]
      /\ UNCHANGED <<hour, channel, visit, from, referral, credit, earlier>>
      /\ \/ device' = [device EXCEPT ![u] = <<dr>>] /\ UNCHANGED failed
         \/ failed' = failed \cup {u} /\ UNCHANGED device
  BY DEF Gr!RecordDevice, Gr!At, Gr!Go, Gr!Set, Gr!World
<1>2. /\ signup[u] \in SignupType /\ device[u] \in DeviceType /\ e \in SUBSET Newcomers
      /\ device = [device EXCEPT ![u] = device[u]] /\ earlier = [earlier EXCEPT ![u] = e]
      /\ referral = [referral EXCEPT ![u] = r] /\ credit = [credit EXCEPT ![u] = c]
      /\ (\A v \in e : v # u /\ signup[v].stage = "done") /\ hour \in Nat
      /\ OnRecord(signup[u], device[u], r, c, u \in failed)
  BY <1>1, UnderWay
<1>3. device[u] = << >> /\ r = << >> /\ c = << >> BY <1>1, <1>2 DEF OnRecord
<1>4. s \in SignupType /\ s.stage = "recorded" /\ s.fraud = signup[u].fraud BY <1>2 DEF SignupType
<1>5. dr \in [fraud : BOOLEAN, at : Nat] /\ dr.fraud = signup[u].fraud BY <1>2 DEF SignupType
<1> HIDE DEF s, dr
<1>6. referral' = [referral EXCEPT ![u] = r] BY <1>1, <1>2
<1>7. /\ visit' \in [stage : {"none", "checked", "seen"}, dwell : Nat, by : Newcomers \cup {"nobody"}]
      /\ VisitSound'
  BY <1>1, <1>6, VisitStays
<1>8. CASE failed' = failed \cup {u} /\ UNCHANGED device
  <2>1. OnRecord(s, device[u], r, c, u \in failed') BY <1>3, <1>4, <1>8 DEF OnRecord
  <2>2. Examined(s, c) => Examined(signup[u], credit[u]) BY <1>1 DEF Examined
  <2>3. credit' = [credit EXCEPT ![u] = c] /\ failed \subseteq failed' /\ failed' \subseteq failed \cup {u}
    BY <1>1, <1>2, <1>8
  <2>4. UNCHANGED <<hour, channel, from, device, earlier>> /\ signup' = [signup EXCEPT ![u] = s]
        /\ signup[u].stage # "done" /\ signup[u].stage # "new"
    BY <1>1, <1>8
  <2> HIDE DEF r, c
  <2> QED BY <1>4, <1>6, <1>7, <2>1, <2>2, <2>3, <2>4, SignupSteps, Zenon
<1>9. CASE device' = [device EXCEPT ![u] = <<dr>>] /\ UNCHANGED failed
  <2> DEFINE d == <<dr>>
  <2>1. d # << >> /\ d[1] = dr /\ d \in DeviceType BY <1>5 DEF DeviceType
  <2>2. device' = [device EXCEPT ![u] = d] BY <1>9
  <2> HIDE DEF d
  <2>3. OnRecord(s, d, r, c, u \in failed') BY <1>3, <1>4, <1>5, <2>1 DEF OnRecord
  <2>4. \A v \in e : device'[v] = device[v] BY <1>2, <2>2
  <2> DEFINE dev == device'
             bad == failed'
  <2>5. Cleared(from, u, s, c, earlier[u], bad, dev, hour)
    <3>1. Examined(s, c) => Examined(signup[u], credit[u]) BY <1>1 DEF Examined
    <3>2. failed \subseteq bad /\ hour >= hour /\ \A v \in earlier[u] : dev[v] = device[v]
      BY <1>2, <1>9, <2>4
    <3>3. s.stage # "new" => signup[u].stage # "new" BY <1>1
    <3> HIDE DEF dev, bad, c
    <3> QED BY <1>2, <1>4, <3>1, <3>2, <3>3, ClearedStays, Zenon
  <2>6. Cleared(from, u, s, c, e, failed', device', hour) BY <2>5
  <2> HIDE DEF dev, bad
  <2>7. credit' = [credit EXCEPT ![u] = c] /\ failed \subseteq failed' /\ failed' \subseteq failed \cup {u}
        /\ earlier' = [earlier EXCEPT ![u] = e]
    BY <1>1, <1>2, <1>9
  <2>8. UNCHANGED <<hour, channel, from>> /\ signup' = [signup EXCEPT ![u] = s]
        /\ signup[u].stage # "done" /\ e \in SUBSET Newcomers
        /\ \A v \in e : v # u /\ signup[v].stage = "done"
    BY <1>1, <1>2
  <2> HIDE DEF r, c, e
  <2> QED BY <1>4, <1>6, <1>7, <2>1, <2>2, <2>3, <2>6, <2>7, <2>8, SignupMoves, Zenon
<1> QED BY <1>1, <1>8, <1>9

LEMMA ChannelIsRead ==
  ASSUME GrowthInv, NEW u \in Newcomers, Gr!ReadChannel(u) \/ Gr!NoTrial(u) PROVE GrowthInv'
<1> DEFINE r == referral[u]
           c == credit[u]
<1>1. /\ signup[u].stage \in {"recorded", "organic"}
      /\ UNCHANGED <<hour, channel, visit, from, device, referral, credit, earlier, failed>>
  BY DEF Gr!ReadChannel, Gr!NoTrial, Gr!At, Gr!World
<1>2. /\ signup[u] \in SignupType /\ referral = [referral EXCEPT ![u] = r]
      /\ credit = [credit EXCEPT ![u] = c] /\ channel \in Channelled
      /\ OnRecord(signup[u], device[u], r, c, u \in failed)
  BY <1>1, UnderWay
<1>3. r = << >> /\ c = << >> BY <1>1, <1>2 DEF OnRecord
<1>4. ASSUME NEW s \in SignupType, signup' = [signup EXCEPT ![u] = s], s.fraud = signup[u].fraud,
             s.stage \in {"organic", "matched", "done"}
      PROVE  GrowthInv'
  <2>1. OnRecord(s, device[u], r, c, u \in failed') BY <1>1, <1>2, <1>3, <1>4 DEF OnRecord
  <2>2. Examined(s, c) => Examined(signup[u], credit[u]) BY <1>1, <1>3 DEF Examined
  <2>3. referral' = [referral EXCEPT ![u] = r] /\ credit' = [credit EXCEPT ![u] = c]
        /\ failed \subseteq failed' /\ failed' \subseteq failed \cup {u}
    BY <1>1, <1>2
  <2>4. UNCHANGED <<hour, channel, from, device, earlier>>
        /\ signup[u].stage # "done" /\ signup[u].stage # "new"
    BY <1>1
  <2>5. /\ visit' \in [stage : {"none", "checked", "seen"}, dwell : Nat, by : Newcomers \cup {"nobody"}]
        /\ VisitSound'
    BY <1>1, <2>3, VisitStays
  <2> HIDE DEF r, c
  <2> QED BY <1>4, <2>1, <2>2, <2>3, <2>4, <2>5, SignupSteps, Zenon
<1>5. \A x \in {"organic", "done"} :
        LET s == [signup[u] EXCEPT !.stage = x]
        IN  s \in SignupType /\ s.fraud = signup[u].fraud /\ s.stage = x
  BY <1>2 DEF SignupType
<1>6. CASE signup' = [signup EXCEPT ![u] = [signup[u] EXCEPT !.stage = "organic"]]
  BY <1>4, <1>5, <1>6
<1>7. CASE signup' = [signup EXCEPT ![u] = [signup[u] EXCEPT !.stage = "done"]]
  BY <1>4, <1>5, <1>7
<1>8. CASE signup' = [signup EXCEPT ![u] = [signup[u] EXCEPT !.stage = "matched", !.ch = channel]]
  <2> DEFINE s == [signup[u] EXCEPT !.stage = "matched", !.ch = channel]
  <2>1. s \in SignupType /\ s.fraud = signup[u].fraud /\ s.stage = "matched" BY <1>2 DEF SignupType
  <2>2. signup' = [signup EXCEPT ![u] = s] BY <1>8
  <2> HIDE DEF s
  <2> QED BY <1>4, <2>1, <2>2
<1>9. CASE Gr!NoTrial(u) BY <1>7, <1>9 DEF Gr!NoTrial, Gr!Go, Gr!Set
<1>10. CASE Gr!ReadChannel(u) BY <1>6, <1>7, <1>8, <1>10 DEF Gr!ReadChannel, Gr!Go, Gr!Set
<1> QED BY <1>9, <1>10

LEMMA VisitConverts == ASSUME GrowthInv, NEW u \in Newcomers, Gr!RecordConversion(u) PROVE GrowthInv'
<1> DEFINE bonus == IF signup[u].fraud THEN 0 ELSE signup[u].ch[1].bonus
           c == credit[u]
<1>1. /\ signup[u].stage = "matched"
      /\ UNCHANGED <<hour, channel, from, device, credit, earlier>>
  BY DEF Gr!RecordConversion, Gr!At
<1>2. /\ signup[u] \in SignupType /\ credit = [credit EXCEPT ![u] = c]
      /\ referral = [referral EXCEPT ![u] = referral[u]]
      /\ OnRecord(signup[u], device[u], referral[u], c, u \in failed)
  BY <1>1, UnderWay
<1>3. referral[u] = << >> /\ c = << >> BY <1>1, <1>2 DEF OnRecord
<1>4. \A x \in {"converted", "done"} :
        LET s == [signup[u] EXCEPT !.stage = x]
        IN  s \in SignupType /\ s.fraud = signup[u].fraud /\ s.stage = x /\ s.ch = signup[u].ch
  BY <1>2 DEF SignupType
<1>5. signup[u].stage # "done" /\ signup[u].stage # "new" BY <1>1
<1>6. credit' = [credit EXCEPT ![u] = c] BY <1>1, <1>2
<1>7. CASE failed' = failed \cup {u} /\ UNCHANGED <<referral, visit>>
           /\ signup' = [signup EXCEPT ![u] = [signup[u] EXCEPT !.stage = "done"]]
  <2> DEFINE s == [signup[u] EXCEPT !.stage = "done"]
             r == referral[u]
  <2>1. s \in SignupType /\ s.fraud = signup[u].fraud /\ s.stage = "done" BY <1>4
  <2>2. signup' = [signup EXCEPT ![u] = s] BY <1>7
  <2> HIDE DEF s
  <2>3. OnRecord(s, device[u], r, c, u \in failed') BY <1>1, <1>2, <1>3, <1>7, <2>1 DEF OnRecord
  <2>4. Examined(s, c) => Examined(signup[u], credit[u]) BY <1>3, <2>1 DEF Examined
  <2>5. referral' = [referral EXCEPT ![u] = r] BY <1>2, <1>7
  <2>6. /\ visit' \in [stage : {"none", "checked", "seen"}, dwell : Nat, by : Newcomers \cup {"nobody"}]
        /\ VisitSound'
    BY <1>7, <2>5, VisitStays
  <2>7. failed \subseteq failed' /\ failed' \subseteq failed \cup {u} BY <1>7
  <2>8. UNCHANGED <<hour, channel, from, device, earlier>> BY <1>1
  <2> HIDE DEF r, c
  <2> QED BY <1>5, <1>6, <2>1, <2>2, <2>3, <2>4, <2>5, <2>6, <2>7, <2>8, SignupSteps, Zenon
<1>8. CASE /\ referral' = [referral EXCEPT ![u] = <<bonus>>]
           /\ visit' = IF visit.stage = "seen" /\ visit.by = "nobody" THEN [visit EXCEPT !.by = u] ELSE visit
           /\ signup' = [signup EXCEPT ![u] = [signup[u] EXCEPT !.stage = IF bonus > 0 THEN "converted" ELSE "done"]]
           /\ UNCHANGED failed
  <2> DEFINE x == IF bonus > 0 THEN "converted" ELSE "done"
             s == [signup[u] EXCEPT !.stage = x]
             r == <<bonus>>
  <2>1. x \in {"converted", "done"} OBVIOUS
  <2>2. x = "converted" => bonus > 0 OBVIOUS
  <2>3. x = "done" => ~(bonus > 0) OBVIOUS
  <2> HIDE DEF x
  <2>4. s \in SignupType /\ s.fraud = signup[u].fraud /\ s.stage = x /\ s.ch = signup[u].ch
    BY <1>4, <2>1
  <2>5. signup' = [signup EXCEPT ![u] = s] BY <1>8 DEF x
  <2> HIDE DEF s
  <2>6. x = "converted" => ~signup[u].fraud /\ bonus = signup[u].ch[1].bonus BY <2>2
  <2> HIDE DEF bonus
  <2>7. r # << >> /\ r[1] = bonus /\ r = <<bonus>> OBVIOUS
  <2> HIDE DEF r
  <2>8. OnRecord(s, device[u], r, c, u \in failed')
    <3>1. CASE x = "converted" BY <1>1, <1>2, <1>3, <1>8, <2>4, <2>6, <2>7, <3>1 DEF OnRecord
    <3>2. CASE x = "done" BY <1>1, <1>2, <1>3, <1>8, <2>3, <2>4, <2>7, <3>2 DEF OnRecord
    <3> QED BY <2>1, <3>1, <3>2
  <2>9. Examined(s, c) => Examined(signup[u], credit[u]) BY <1>1 DEF Examined
  <2>10. referral' = [referral EXCEPT ![u] = r] BY <1>8, <2>7
  <2>11. visit \in [stage : {"none", "checked", "seen"}, dwell : Nat, by : Newcomers \cup {"nobody"}]
         /\ visit.by \in Newcomers \cup {"nobody"} /\ VisitSound /\ DOMAIN referral = Newcomers
    BY DEF GrowthInv, GrowthTypes
  <2>12. visit' \in [stage : {"none", "checked", "seen"}, dwell : Nat, by : Newcomers \cup {"nobody"}]
    BY <1>8, <2>11
  <2>13. referral'[u] = r /\ \A v \in Newcomers : v # u => referral'[v] = referral[v]
    BY <2>10, <2>11
  <2>14. VisitSound'
    <3>1. CASE visit' = visit BY <2>7, <2>11, <2>13, <3>1 DEF VisitSound
    <3>2. CASE visit.stage = "seen" /\ visit' = [visit EXCEPT !.by = u]
      <4>1. visit'.by = u /\ visit'.stage = "seen" BY <2>11, <3>2
      <4> QED BY <2>7, <2>13, <4>1 DEF VisitSound
    <3> QED BY <1>8, <3>1, <3>2
  <2>15. failed \subseteq failed' /\ failed' \subseteq failed \cup {u} BY <1>8
  <2>16. UNCHANGED <<hour, channel, from, device, earlier>> BY <1>1
  <2> HIDE DEF c
  <2> QED BY <1>5, <1>6, <2>4, <2>5, <2>8, <2>9, <2>10, <2>12, <2>14, <2>15, <2>16, SignupSteps, Zenon
<1> QED BY <1>3, <1>7, <1>8 DEF Gr!RecordConversion, Gr!Go, Gr!Set, Gr!Nobody

LEMMA SignupIsCredited ==
  ASSUME GrowthInv, NEW u \in Newcomers, NEW kind, NEW usd, NEW st0 \in {"converted", "organic"},
         Gr!Credit(u, st0, kind, usd), ~signup[u].fraud,
         st0 = "converted" => kind # "trial" /\ usd = signup[u].ch[1].bonus,
         st0 = "organic" => kind = "trial"
  PROVE  GrowthInv'
<1> DEFINE r == referral[u]
           s == [signup[u] EXCEPT !.stage = "done"]
           x == [kind |-> kind, usd |-> usd]
<1>1. /\ signup[u].stage = st0 /\ signup' = [signup EXCEPT ![u] = s]
      /\ UNCHANGED <<hour, channel, visit, from, device, referral, earlier>>
      /\ \/ credit' = [credit EXCEPT ![u] = Append(credit[u], x)] /\ UNCHANGED failed
         \/ failed' = failed \cup {u} /\ UNCHANGED credit
  <2>1. credit = [v \in Newcomers |-> credit[v]] BY DEF GrowthInv, GrowthTypes
  <2>2. [credit EXCEPT ![u] = Append(@, x)] = [credit EXCEPT ![u] = Append(credit[u], x)]
    BY <2>1
  <2> QED BY <2>2 DEF Gr!Credit, Gr!At, Gr!Go, Gr!Set, Gr!World
<1>2. /\ signup[u] \in SignupType /\ referral = [referral EXCEPT ![u] = r]
      /\ credit = [credit EXCEPT ![u] = credit[u]]
      /\ OnRecord(signup[u], device[u], r, credit[u], u \in failed)
  BY <1>1, UnderWay
<1>3. credit[u] = << >> /\ (st0 = "organic" => r = << >>)
      /\ (st0 = "converted" => r = <<signup[u].ch[1].bonus>>)
  BY <1>1, <1>2 DEF OnRecord
<1>4. s \in SignupType /\ s.fraud = signup[u].fraud /\ s.stage = "done" BY <1>2 DEF SignupType
<1>5. referral' = [referral EXCEPT ![u] = r] BY <1>1, <1>2
<1>6. /\ visit' \in [stage : {"none", "checked", "seen"}, dwell : Nat, by : Newcomers \cup {"nobody"}]
      /\ VisitSound'
  BY <1>1, <1>5, VisitStays
<1>7. signup[u].stage # "done" /\ signup[u].stage # "new"
      /\ UNCHANGED <<hour, channel, from, device, earlier>>
  BY <1>1
<1>8. Examined(signup[u], credit[u]) BY <1>1 DEF Examined
<1>9. x.kind = kind /\ x.usd = usd OBVIOUS
<1> HIDE DEF s, x
<1>10. CASE credit' = [credit EXCEPT ![u] = Append(credit[u], x)] /\ UNCHANGED failed
  <2> DEFINE c == <<x>>
  <2>1. Append(credit[u], x) = c BY <1>3
  <2>2. c # << >> /\ Len(c) = 1 /\ c[1] = x OBVIOUS
  <2>3. credit' = [credit EXCEPT ![u] = c] BY <1>10, <2>1
  <2> HIDE DEF c
  <2>4. c[1].kind = kind /\ c[1].usd = usd BY <1>9, <2>2
  <2>5. OnRecord(s, device[u], r, c, u \in failed')
    <3>1. r = IF c[1].kind = "trial" THEN << >> ELSE <<c[1].usd>> BY <1>3, <2>4
    <3> HIDE DEF r
    <3> QED BY <1>1, <1>2, <1>4, <1>10, <2>2, <3>1 DEF OnRecord
  <2>6. failed \subseteq failed' /\ failed' \subseteq failed \cup {u} BY <1>10
  <2> HIDE DEF r
  <2> QED BY <1>1, <1>4, <1>5, <1>6, <1>7, <1>8, <2>3, <2>5, <2>6, SignupSteps, Zenon
<1>11. CASE failed' = failed \cup {u} /\ UNCHANGED credit
  <2> DEFINE c == credit[u]
  <2>1. OnRecord(s, device[u], r, c, u \in failed') BY <1>1, <1>2, <1>3, <1>4, <1>11 DEF OnRecord
  <2>2. credit' = [credit EXCEPT ![u] = c] BY <1>2, <1>11
  <2>3. failed \subseteq failed' /\ failed' \subseteq failed \cup {u} BY <1>11
  <2> HIDE DEF r, c
  <2> QED BY <1>1, <1>4, <1>5, <1>6, <1>7, <1>8, <2>1, <2>2, <2>3, SignupSteps, Zenon
<1> QED BY <1>1, <1>10, <1>11

\* The visit, the channel and the clock move.
LEMMA WorldMoves ==
  ASSUME GrowthInv, UNCHANGED <<signup, from, device, referral, credit, earlier, failed>>,
         hour' \in Nat, hour' >= hour, channel' \in Channelled,
         visit' \in [stage : {"none", "checked", "seen"}, dwell : Nat, by : Newcomers \cup {"nobody"}],
         visit'.by = visit.by, visit.stage = "seen" => visit'.stage = "seen"
  PROVE  GrowthInv'
<1>1. GrowthTypes' BY DEF GrowthInv, GrowthTypes
<1>2. VisitSound' BY DEF GrowthInv, VisitSound
<1>3. ASSUME NEW u \in Newcomers
      PROVE  Cleared(from, u, signup[u], credit[u], earlier[u], failed, device, hour')
  <2> DEFINE t == hour'
             s == signup[u]
             c == credit[u]
             dev == device
             bad == failed
  <2>1. t \in Nat /\ t >= hour /\ failed \subseteq bad /\ (\A v \in earlier[u] : dev[v] = device[v])
        /\ s.fraud = signup[u].fraud /\ (s.stage # "new" => signup[u].stage # "new")
        /\ (Examined(s, c) => Examined(signup[u], credit[u]))
    OBVIOUS
  <2> HIDE DEF t, s, c, dev, bad
  <2>2. Cleared(from, u, s, c, earlier[u], bad, dev, t) BY <2>1, ClearedStays, Zenon
  <2> QED BY <2>2 DEF t, s, c, dev, bad
<1>4. \A u \in Newcomers : Cleared(from', u, signup'[u], credit'[u], earlier'[u], failed', device', hour')
  BY <1>3
<1>5. \A u \in Newcomers : OnRecord(signup'[u], device'[u], referral'[u], credit'[u], u \in failed')
  BY DEF GrowthInv
<1>6. \A u \in Newcomers : \A v \in earlier'[u] : v # u /\ signup'[v].stage = "done" BY DEF GrowthInv
<1> QED BY <1>1, <1>2, <1>4, <1>5, <1>6 DEF GrowthInv

LEMMA SignupsAreCut == ASSUME GrowthInv, Gr!Crash PROVE GrowthInv'
<1> DEFINE cut == {u \in Newcomers : signup[u].stage \notin {"new", "done"}}
           to(u) == [signup[u] EXCEPT !.stage = "done"]
<1>1. /\ signup' = [u \in Newcomers |-> IF u \in cut THEN to(u) ELSE signup[u]]
      /\ failed' = failed \cup cut
      /\ UNCHANGED <<hour, channel, visit, from, device, referral, credit, earlier>>
  BY DEF Gr!Crash
<1>2. signup \in [Newcomers -> SignupType] /\ failed \subseteq Newcomers /\ hour \in Nat
  BY DEF GrowthInv, GrowthTypes
<1>3. ASSUME NEW u \in Newcomers
      PROVE  to(u) \in SignupType /\ to(u).stage = "done" /\ to(u).fraud = signup[u].fraud
  <2>1. signup[u] \in SignupType BY <1>2
  <2> QED BY <2>1 DEF SignupType
<1>4. \A u \in Newcomers : u \in cut <=> signup[u].stage \notin {"new", "done"} OBVIOUS
<1>5. cut \subseteq Newcomers OBVIOUS
<1> HIDE DEF cut, to
<1>6. \A u \in Newcomers : /\ u \in cut => signup'[u] = to(u)
                           /\ u \notin cut => signup'[u] = signup[u] /\ (u \in failed' <=> u \in failed)
  BY <1>1
<1>7. signup' \in [Newcomers -> SignupType] BY <1>1, <1>2, <1>3
<1>8. GrowthTypes' BY <1>1, <1>2, <1>5, <1>7 DEF GrowthInv, GrowthTypes
<1>9. VisitSound' BY <1>1 DEF GrowthInv, VisitSound
<1>10. ASSUME NEW u \in Newcomers
       PROVE  OnRecord(signup'[u], device'[u], referral'[u], credit'[u], u \in failed')
  <2>1. OnRecord(signup[u], device[u], referral[u], credit[u], u \in failed) BY DEF GrowthInv
  <2>2. CASE u \in cut
    <3>1. signup'[u].stage = "done" /\ signup'[u].fraud = signup[u].fraud /\ u \in failed'
      BY <1>1, <1>3, <1>6, <2>2
    <3>2. credit[u] = << >> BY <1>4, <2>1, <2>2 DEF OnRecord
    <3> QED BY <1>1, <2>1, <3>1, <3>2 DEF OnRecord
  <2>3. CASE u \notin cut BY <1>1, <1>6, <2>1, <2>3 DEF OnRecord
  <2> QED BY <2>2, <2>3
<1>11. ASSUME NEW u \in Newcomers, NEW v \in earlier'[u] PROVE v # u /\ signup'[v].stage = "done"
  <2>1. v \in earlier[u] /\ v # u /\ signup[v].stage = "done" BY <1>1, <1>11 DEF GrowthInv
  <2>2. v \in Newcomers BY <2>1 DEF GrowthInv, GrowthTypes
  <2>3. v \notin cut BY <1>4, <2>1, <2>2
  <2> QED BY <1>6, <2>1, <2>2, <2>3
<1>12. ASSUME NEW u \in Newcomers
       PROVE  Cleared(from, u, signup'[u], credit[u], earlier[u], failed', device, hour)
  <2> DEFINE t == hour
             s == signup'[u]
             c == credit[u]
             dev == device
             bad == failed'
  <2>1. signup[u].stage = "new" \/ signup[u].stage # "new" OBVIOUS
  <2>2. s.fraud = signup[u].fraud /\ (s.stage # "new" => signup[u].stage # "new")
    BY <1>3, <1>4, <1>6
  <2>3. Examined(s, c) => Examined(signup[u], credit[u])
    <3>1. CASE u \in cut
      <4>1. s.stage = "done" BY <1>3, <1>6, <3>1
      <4> QED BY <4>1 DEF Examined
    <3>2. CASE u \notin cut BY <1>6, <3>2
    <3> QED BY <3>1, <3>2
  <2>4. t \in Nat /\ t >= hour /\ failed \subseteq bad /\ \A v \in earlier[u] : dev[v] = device[v]
    BY <1>1, <1>2
  <2> HIDE DEF t, s, c, dev, bad
  <2>5. Cleared(from, u, s, c, earlier[u], bad, dev, t) BY <2>2, <2>3, <2>4, ClearedStays, Zenon
  <2> QED BY <2>5 DEF t, s, c, dev, bad
<1>13. \A u \in Newcomers : Cleared(from', u, signup'[u], credit'[u], earlier'[u], failed', device', hour')
  BY <1>1, <1>12
<1> QED BY <1>8, <1>9, <1>10, <1>11, <1>13 DEF GrowthInv

LEMMA GrowthStep == ASSUME GrowthInv, Gr!Next \/ UNCHANGED growth PROVE GrowthInv'
<1>0. /\ visit \in [stage : {"none", "checked", "seen"}, dwell : Nat, by : Newcomers \cup {"nobody"}]
      /\ hour \in Nat /\ channel \in Channelled
  BY DEF GrowthInv, GrowthTypes
<1>1. ASSUME NEW u \in Newcomers, Gr!PayBonus(u) PROVE GrowthInv'
  <2>1. signup[u].stage = "converted" /\ Gr!Credit(u, "converted", "channel", signup[u].ch[1].bonus)
    BY <1>1 DEF Gr!PayBonus, Gr!Credit, Gr!At
  <2>2. ~signup[u].fraud BY <2>1 DEF GrowthInv, OnRecord
  <2> DEFINE usd == signup[u].ch[1].bonus
  <2>3. usd = signup[u].ch[1].bonus /\ Gr!Credit(u, "converted", "channel", usd) BY <2>1
  <2> HIDE DEF usd
  <2> QED BY <2>2, <2>3, SignupIsCredited
<1>2. ASSUME NEW u \in Newcomers, Gr!PayTrial(u) PROVE GrowthInv'
  BY <1>2, SignupIsCredited DEF Gr!PayTrial
<1>3. CASE Gr!CheckVisit \/ Gr!RecordVisit \/ Gr!AccumulateDwell
  <2>1. UNCHANGED <<hour, channel, signup, from, device, referral, credit, earlier, failed>>
    BY <1>3 DEF Gr!CheckVisit, Gr!RecordVisit, Gr!AccumulateDwell, Gr!Rest
  <2>2. \/ visit.stage = "none" /\ visit' = [visit EXCEPT !.stage = "checked"]
        \/ visit.stage = "checked" /\ visit' = [visit EXCEPT !.stage = "seen"]
        \/ visit' = [visit EXCEPT !.dwell = 1]
    BY <1>3 DEF Gr!CheckVisit, Gr!RecordVisit, Gr!AccumulateDwell
  <2>3. visit' \in [stage : {"none", "checked", "seen"}, dwell : Nat, by : Newcomers \cup {"nobody"}]
        /\ visit'.by = visit.by /\ (visit.stage = "seen" => visit'.stage = "seen")
    BY <1>0, <2>2
  <2> QED BY <1>0, <2>1, <2>3, WorldMoves
<1>4. ASSUME NEW c \in Channels, Gr!SetChannel(c) PROVE GrowthInv'
  <2>1. channel' \in Channelled BY <1>4 DEF Gr!SetChannel, Channelled
  <2>2. UNCHANGED <<hour, visit, signup, from, device, referral, credit, earlier, failed>>
    BY <1>4 DEF Gr!SetChannel, Gr!Rest
  <2> QED BY <1>0, <2>1, <2>2, WorldMoves
<1>5. CASE Gr!DeleteChannel
  <2>1. channel' \in Channelled BY <1>5 DEF Gr!DeleteChannel, Channelled
  <2>2. UNCHANGED <<hour, visit, signup, from, device, referral, credit, earlier, failed>>
    BY <1>5 DEF Gr!DeleteChannel, Gr!Rest
  <2> QED BY <1>0, <2>1, <2>2, WorldMoves
<1>6. CASE Gr!Tick
  <2>1. hour' \in Nat /\ hour' >= hour BY <1>0, <1>6 DEF Gr!Tick
  <2>2. UNCHANGED <<channel, visit, signup, from, device, referral, credit, earlier, failed>>
    BY <1>6 DEF Gr!Tick, Gr!Rest
  <2> QED BY <1>0, <2>1, <2>2, WorldMoves
<1>7. CASE UNCHANGED growth BY <1>0, <1>7, WorldMoves DEF growth
<1> QED BY <1>1, <1>2, <1>3, <1>4, <1>5, <1>6, <1>7, SignupLooks, SignupIsJudged, DeviceIsRecorded,
           ChannelIsRead, VisitConverts, SignupsAreCut DEF Gr!Next

-----------------------------------------------------------------------------
(* Visitor tracking.                                                        *)

RowType == [pv : Nat, act : Nat, first : An!Events \cup {An!Silent}, dwell : Nat]

\* A session that counts as bounced is one without a first action, and its log
\* holds no more than was counted.
RowFits(r, l) ==
  IF r = An!None THEN l = << >>
  ELSE /\ r.first = An!Silent <=> (r.act = 0 /\ r.pv <= 1)
       /\ Len(l) <= r.pv + r.act

\* The event that a session's row names as its first action is the earliest
\* one of its log.
FirstOf(first, l) ==
  \/ first = An!Silent /\ An!Moves(l) = {}
  \/ \E n \in An!Moves(l) : first = l[n] /\ \A m \in An!Moves(l) : n <= m

RowMatches(r, l) ==
  IF r = An!None THEN l = << >>
  ELSE /\ r.pv = Cardinality(An!Of(l, "pageview")) /\ r.act = Cardinality(An!Of(l, "action"))
       /\ FirstOf(r.first, l)

VisitTypes ==
  /\ rows \in [An!Stores -> [Sids -> RowType \cup {An!None}]]
  /\ events \in [An!Stores -> [Sids -> Seq(An!Events)]]
  /\ store \in An!Stores \cup {"down", "copied"} /\ boots \in 0..MaxBoots
  /\ told \in [Sids -> Seq(An!Events)] /\ longest \in [Sids -> Nat] /\ severed \in BOOLEAN

\* Database s holds the whole history.
Whole(r, l) == \A i \in Sids : l[i] = told[i] /\ r[i].dwell = longest[i]

NoRows(r) == \A i \in Sids : r[i] = An!None

\* The history is in the shared database until the log has followed the rows.
HistoryKept ==
  ~severed =>
    /\ NoRows(rows["own"]) \/ store = "copied" => Whole(rows["shared"], events["shared"])
    /\ ~NoRows(rows["own"]) /\ store # "copied" => Whole(rows["own"], events["own"])

VisitsInv ==
  /\ VisitTypes
  /\ \A s \in An!Stores, i \in Sids : RowFits(rows[s][i], events[s][i])
  /\ \A i \in Sids : RowMatches(rows["shared"][i], events["shared"][i])
  /\ ~severed /\ store # "copied" => \A i \in Sids : RowMatches(rows["own"][i], events["own"][i])
  /\ store = "copied" => rows["own"] = rows["shared"]
  /\ HistoryKept

\* What the flow of a log of one event or none is.
LEMMA ShortFlow ==
  ASSUME NEW l \in Seq(An!Events), Len(l) <= 1, MaxHops \in Nat PROVE Len(An!paths(l)) <= 1
<1>2. Len(l) \in {0, 1}
  <2>1. Len(l) \in Nat BY LenProperties
  <2>2. \A k \in Nat : k <= 1 => k \in {0, 1} OBVIOUS
  <2> QED BY <2>1, <2>2
<1> DEFINE hop(h, e) == IF e.kind = "action" \/ (h # << >> /\ h[Len(h)] = e.name) THEN h
                        ELSE Append(h, e.name)
           walk(w) == w = [n \in 0..Len(l) |-> IF n = 0 THEN << >> ELSE hop(w[n - 1], l[n])]
           f == [n \in 0..Len(l) |-> IF n = 0 THEN << >> ELSE hop(<< >>, l[n])]
           h == (CHOOSE w : walk(w))[Len(l)]
<1>1. An!Hops(l) = h BY DEF An!Hops
<1>3. walk(f)
  <2> HIDE DEF hop
  <2>1. \A n \in 0..Len(l) : n # 0 => n - 1 = 0 /\ f[n - 1] = << >> BY <1>2
  <2> QED BY <2>1
<1>4. walk(CHOOSE w : walk(w))
  <2> HIDE DEF walk, f
  <2> QED BY <1>3
<1>5. h = << >> \/ h = hop(<< >>, l[1])
  <2> DEFINE w == CHOOSE w : walk(w)
  <2>1. walk(w) BY <1>4
  <2> HIDE DEF w, hop
  <2>2. w[0] = << >> BY <1>2, <2>1
  <2>3. Len(l) = 1 => w[1] = hop(w[0], l[1]) BY <2>1
  <2> QED BY <1>2, <2>2, <2>3 DEF w
<1>6. h = << >> \/ h = <<l[1].name>>
  <2> HIDE DEF h
  <2> QED BY <1>5
<1>7. Len(h) <= 1 /\ Len(h) \in Nat
  <2>1. Len(<< >>) = 0 /\ \A x : Len(<<x>>) = 1 OBVIOUS
  <2> HIDE DEF h
  <2>2. Len(h) = 0 \/ Len(h) = 1 BY <1>6, <2>1
  <2> DEFINE n == Len(h)
  <2>3. n = 0 \/ n = 1 BY <2>2
  <2> HIDE DEF n
  <2>4. n <= 1 /\ n \in Nat BY <2>3
  <2> QED BY <2>4 DEF n
<1>8. CASE Len(h) <= MaxHops BY <1>1, <1>7, <1>8 DEF An!paths
<1>9. CASE ~(Len(h) <= MaxHops)
  <2>1. MaxHops = 0 BY <1>7, <1>9
  <2>2. An!paths(l) = Append(SubSeq(h, 1, 0), "...") BY <1>1, <1>9, <2>1 DEF An!paths
  <2>3. SubSeq(h, 1, 0) = << >>
    <3> HIDE DEF h
    <3> QED BY <1>6
  <2> QED BY <2>2, <2>3
<1> QED BY <1>8, <1>9

LEMMA VisitsAreHeld == ASSUME VisitsInv PROVE An!AnalyticsHold
<1> USE DEF VisitsInv
<1>1. \A q : An!Cardinality(q) = Cardinality(q) BY DEF An!Cardinality, Cardinality
<1>2. VisitTypes OBVIOUS
<1>3. ASSUME NEW s \in An!Stores, NEW i \in Sids
      PROVE  /\ rows[s][i] \in RowType \cup {An!None} /\ events[s][i] \in Seq(An!Events)
             /\ RowFits(rows[s][i], events[s][i])
  BY DEF VisitTypes
<1>4. An!TypeOK BY <1>3 DEF VisitTypes, An!TypeOK, RowType
<1>5. \A l, first : FirstOf(first, l) => first = An!FirstMove(l)
  <2> SUFFICES ASSUME NEW l, NEW first, FirstOf(first, l) PROVE first = An!FirstMove(l) OBVIOUS
  <2>1. CASE first = An!Silent /\ An!Moves(l) = {} BY <2>1 DEF An!FirstMove
  <2>2. CASE \E n \in An!Moves(l) : first = l[n] /\ \A m \in An!Moves(l) : n <= m
    <3> PICK n \in An!Moves(l) : first = l[n] /\ \A m \in An!Moves(l) : n <= m BY <2>2
    <3> DEFINE c == CHOOSE k \in An!Moves(l) : \A m \in An!Moves(l) : k <= m
    <3>1. c \in An!Moves(l) /\ \A m \in An!Moves(l) : c <= m OBVIOUS
    <3>2. c \in Int /\ n \in Int
      <4>1. \A m \in An!Moves(l) : m \in Int BY DEF An!Moves
      <4> HIDE DEF c
      <4> QED BY <3>1, <4>1
    <3>3. c = n
      <4> HIDE DEF c
      <4> QED BY <3>1, <3>2
    <3>4. An!FirstMove(l) = l[c] BY DEF An!FirstMove
    <3> HIDE DEF c
    <3> QED BY <3>3, <3>4
  <2> QED BY <2>1, <2>2 DEF FirstOf
<1>6. \A r, l : RowMatches(r, l) =>
        IF r = An!None THEN l = << >>
        ELSE /\ r.pv = An!Cardinality(An!Of(l, "pageview")) /\ r.act = An!Cardinality(An!Of(l, "action"))
             /\ r.first = An!FirstMove(l)
  BY <1>1, <1>5 DEF RowMatches
<1>7. An!RowMatchesLog BY <1>6 DEF An!RowMatchesLog, An!Serving, An!Stores
<1>8. An!HistoryMoves
  <2> SUFFICES ASSUME An!Settled, NEW i \in Sids
               PROVE  events[store][i] = told[i] /\ rows[store][i].dwell = longest[i]
    BY DEF An!HistoryMoves
  <2>1. CASE store = "shared" BY <2>1 DEF An!Settled, An!Empty, HistoryKept, NoRows, Whole
  <2>2. CASE store = "own" /\ ~NoRows(rows["own"])
    BY <2>2 DEF An!Settled, HistoryKept, Whole
  <2>3. CASE store = "own" /\ NoRows(rows["own"])
    <3>1. rows["own"][i] = An!None /\ rows["shared"][i] = An!None /\ ~severed
      BY <2>3 DEF An!Settled, An!Empty, NoRows
    <3>2. events["own"][i] = << >> /\ events["shared"][i] = << >>
      BY <1>3, <3>1 DEF RowFits, An!Stores
    <3> QED BY <2>3, <3>1, <3>2 DEF HistoryKept, Whole
  <2> QED BY <2>1, <2>2, <2>3 DEF An!Settled
<1>9. An!BouncesAgree
  <2> SUFFICES ASSUME NEW s \in An!Stores
               PROVE  /\ An!Bounced(s) = An!Unmoved(s)
                      /\ \A i \in An!Bounced(s) : Len(An!paths(events[s][i])) <= 1
    BY DEF An!BouncesAgree
  <2>1. An!Bounced(s) = An!Unmoved(s) BY <1>3 DEF RowFits, An!Bounced, An!Unmoved
  <2>2. ASSUME NEW i \in An!Bounced(s) PROVE Len(An!paths(events[s][i])) <= 1
    <3>1. i \in Sids /\ rows[s][i] # An!None /\ rows[s][i].act = 0 /\ rows[s][i].pv <= 1
      BY DEF An!Bounced
    <3>2. rows[s][i].pv \in Nat BY <1>3, <3>1 DEF RowType
    <3>3. Len(events[s][i]) <= rows[s][i].pv + rows[s][i].act BY <1>3, <3>1 DEF RowFits
    <3>4. Len(events[s][i]) \in Nat BY <1>3, <3>1, LenProperties
    <3>5. Len(events[s][i]) <= 1 BY <3>1, <3>2, <3>3, <3>4
    <3>6. MaxHops \in Nat BY ServerAssumption DEF An!AnalyticsAssumption
    <3> QED BY <1>3, <3>1, <3>5, <3>6, ShortFlow
  <2> QED BY <2>1, <2>2
<1> QED BY <1>4, <1>7, <1>8, <1>9 DEF An!AnalyticsHold

LEMMA VisitsInit == ASSUME An!Init PROVE VisitsInv
<1>1. 0 \in 0..MaxBoots BY ServerAssumption DEF An!AnalyticsAssumption
<1>2. \A s \in An!Stores : rows[s] = [i \in Sids |-> An!None] /\ events[s] = [i \in Sids |-> << >>]
  BY DEF An!Init
<1>3. VisitTypes
  <2>1. << >> \in Seq(An!Events) OBVIOUS
  <2> QED BY <1>1, <2>1 DEF An!Init, VisitTypes
<1>4. \A s \in An!Stores, i \in Sids : RowFits(rows[s][i], events[s][i]) BY <1>2 DEF RowFits
<1>5. \A s \in An!Stores, i \in Sids : RowMatches(rows[s][i], events[s][i]) BY <1>2 DEF RowMatches
<1>6. HistoryKept
  <2>1. \A i \in Sids : rows["shared"][i] = An!None /\ events["shared"][i] = << >> /\ rows["own"][i] = An!None
    BY <1>2 DEF An!Stores
  <2>2. An!None.dwell = 0 BY DEF An!None
  <2>3. NoRows(rows["own"]) BY <2>1 DEF NoRows
  <2>4. \A i \in Sids : told[i] = << >> /\ longest[i] = 0 BY DEF An!Init
  <2>5. Whole(rows["shared"], events["shared"]) BY <2>1, <2>2, <2>4 DEF Whole
  <2>6. store = "down" BY DEF An!Init
  <2> QED BY <2>3, <2>5, <2>6 DEF HistoryKept
<1> QED BY <1>3, <1>4, <1>5, <1>6 DEF VisitsInv, An!Init, An!Stores

\* One more event in a log.
LEMMA LogGrows ==
  ASSUME NEW l \in Seq(An!Events), NEW e \in An!Events
  PROVE  /\ Append(l, e) \in Seq(An!Events) /\ Len(Append(l, e)) = Len(l) + 1 /\ Len(l) \in Nat
         /\ \A n \in 1..Len(l) : Append(l, e)[n] = l[n] /\ l[n] \in An!Events
         /\ Append(l, e)[Len(l) + 1] = e
  BY AppendProperties, LenProperties, ElementOfSeq

LEMMA OfGrows ==
  ASSUME NEW l \in Seq(An!Events), NEW e \in An!Events, NEW kind
  PROVE  /\ An!Of(Append(l, e), kind) = IF e.kind = kind THEN An!Of(l, kind) \cup {Len(l) + 1} ELSE An!Of(l, kind)
         /\ IsFiniteSet(An!Of(l, kind)) /\ Cardinality(An!Of(l, kind)) \in Nat
         /\ Cardinality(An!Of(Append(l, e), kind))
              = IF e.kind = kind THEN Cardinality(An!Of(l, kind)) + 1 ELSE Cardinality(An!Of(l, kind))
<1> DEFINE k == Len(l)
           m == Append(l, e)
<1>1. /\ k \in Nat /\ Len(m) = k + 1 /\ m[k + 1] = e
      /\ \A n \in 1..k : m[n] = l[n]
  BY LogGrows
<1>2. An!Of(l, kind) = {n \in 1..k : l[n].kind = kind} /\ An!Of(m, kind) = {n \in 1..Len(m) : m[n].kind = kind}
  BY DEF An!Of
<1> HIDE DEF k, m
<1>3. 1..Len(m) = 1..k \cup {k + 1} BY <1>1
<1>4. An!Of(m, kind) = IF e.kind = kind THEN An!Of(l, kind) \cup {k + 1} ELSE An!Of(l, kind)
  BY <1>1, <1>2, <1>3
<1>5. IsFiniteSet(An!Of(l, kind)) /\ k + 1 \notin An!Of(l, kind)
  <2> DEFINE a == 1
  <2>0. a \in Int /\ k \in Int BY <1>1
  <2> HIDE DEF a
  <2>1. IsFiniteSet(a..k) BY <2>0, FS_Interval, Zenon
  <2> USE DEF a
  <2>2. An!Of(l, kind) \subseteq 1..k BY <1>2
  <2> QED BY <1>1, <2>1, <2>2, FS_Subset
<1>6. Cardinality(An!Of(l, kind)) \in Nat BY <1>5, FS_CardinalityType
<1>7. Cardinality(An!Of(l, kind) \cup {k + 1}) = Cardinality(An!Of(l, kind)) + 1
  BY <1>5, FS_AddElement
<1> QED BY <1>4, <1>5, <1>6, <1>7 DEF k, m

LEMMA MovesGrow ==
  ASSUME NEW l \in Seq(An!Events), NEW e \in An!Events
  PROVE  /\ An!Moves(l) \subseteq 1..Len(l)
         /\ An!Moves(Append(l, e)) = IF e.kind = "action" \/ An!Of(l, "pageview") # {}
                                     THEN An!Moves(l) \cup {Len(l) + 1} ELSE An!Moves(l)
<1> DEFINE k == Len(l)
           m == Append(l, e)
           goes(q, n) == q[n].kind = "action" \/ \E j \in 1..(n - 1) : q[j].kind = "pageview"
<1>1. /\ k \in Nat /\ Len(m) = k + 1 /\ m[k + 1] = e
      /\ \A n \in 1..k : m[n] = l[n]
  BY LogGrows
<1>2. /\ An!Moves(l) = {n \in 1..k : goes(l, n)} /\ An!Moves(m) = {n \in 1..Len(m) : goes(m, n)}
      /\ An!Of(l, "pageview") = {n \in 1..k : l[n].kind = "pageview"}
  BY DEF An!Moves, An!Of
<1> HIDE DEF k, m
<1>3. 1..Len(m) = 1..k \cup {k + 1} /\ (k + 1) - 1 = k BY <1>1
<1>4. \A n \in 1..k : goes(m, n) <=> goes(l, n)
  <2> TAKE n \in 1..k
  <2>1. \A j \in 1..(n - 1) : j \in 1..k BY <1>1
  <2> QED BY <1>1, <2>1
<1>5. goes(m, k + 1) <=> (e.kind = "action" \/ An!Of(l, "pageview") # {})
  <2>1. goes(m, k + 1) <=> (e.kind = "action" \/ \E j \in 1..k : l[j].kind = "pageview")
    BY <1>1, <1>3
  <2> QED BY <1>2, <2>1
<1> HIDE DEF goes
<1>6. An!Moves(m) = IF e.kind = "action" \/ An!Of(l, "pageview") # {}
                    THEN An!Moves(l) \cup {k + 1} ELSE An!Moves(l)
  BY <1>2, <1>3, <1>4, <1>5
<1>7. An!Moves(l) \subseteq 1..k BY <1>2
<1> QED BY <1>6, <1>7 DEF k, m

\* What an event makes of the first action of a row.
LEMMA FirstStays ==
  ASSUME NEW l \in Seq(An!Events), NEW e \in An!Events, NEW first, NEW pv \in Nat,
         FirstOf(first, l), pv = Cardinality(An!Of(l, "pageview"))
  PROVE  FirstOf(IF (e.kind = "action" \/ pv >= 1) /\ first = An!Silent THEN e ELSE first, Append(l, e))
<1> DEFINE k == Len(l)
           m == Append(l, e)
           of == An!Of(l, "pageview")
           counts0 == e.kind = "action" \/ of # {}
<1>1. /\ k \in Nat /\ m[k + 1] = e
      /\ \A n \in 1..k : m[n] = l[n] /\ l[n] \in An!Events
  BY LogGrows
<1>2. /\ An!Moves(l) \subseteq 1..k
      /\ An!Moves(m) = IF counts0 THEN An!Moves(l) \cup {k + 1} ELSE An!Moves(l)
  BY MovesGrow
<1>3. (e.kind = "action" \/ pv >= 1) <=> counts0
  <2>1. IsFiniteSet(of) BY OfGrows
  <2>2. pv = 0 <=> of = {} BY <2>1, FS_EmptySet
  <2> QED BY <2>2
<1>4. \A x \in An!Events : x # An!Silent BY DEF An!Events, An!Silent, An!Kinds
<1> HIDE DEF k, m, counts0
<1>5. CASE first = An!Silent /\ An!Moves(l) = {}
  <2>1. CASE counts0
    <3>1. An!Moves(m) = {k + 1} BY <1>2, <1>5, <2>1
    <3>2. FirstOf(e, m) BY <1>1, <3>1 DEF FirstOf
    <3> QED BY <1>3, <1>5, <2>1, <3>2 DEF m
  <2>2. CASE ~counts0
    <3>1. FirstOf(first, m) BY <1>2, <1>5, <2>2 DEF FirstOf
    <3> QED BY <1>3, <2>2, <3>1 DEF m
  <2> QED BY <2>1, <2>2
<1>6. CASE \E n \in An!Moves(l) : first = l[n] /\ \A j \in An!Moves(l) : n <= j
  <2> PICK n \in An!Moves(l) : first = l[n] /\ \A j \in An!Moves(l) : n <= j BY <1>6
  <2>1. n \in 1..k /\ first # An!Silent /\ first = m[n] BY <1>1, <1>2, <1>4
  <2>2. n <= k + 1 BY <1>1, <2>1
  <2>3. FirstOf(first, m) BY <1>2, <2>1, <2>2 DEF FirstOf
  <2> QED BY <2>1, <2>3 DEF m
<1> QED BY <1>5, <1>6 DEF FirstOf

\* An event is counted in the row as it is in the log.
LEMMA EventCounts ==
  ASSUME NEW r \in RowType, NEW l \in Seq(An!Events), NEW e \in An!Events
  PROVE  /\ An!Counted(r, e) \in RowType /\ An!Counted(r, e).dwell = r.dwell
         /\ (r.first = An!Silent <=> (r.act = 0 /\ r.pv <= 1)) /\ Len(l) <= r.pv + r.act
            => RowFits(An!Counted(r, e), Append(l, e))
         /\ /\ r.pv = Cardinality(An!Of(l, "pageview")) /\ r.act = Cardinality(An!Of(l, "action"))
            /\ FirstOf(r.first, l)
            => RowMatches(An!Counted(r, e), Append(l, e))
<1> DEFINE c == An!Counted(r, e)
           m == Append(l, e)
           f == IF (e.kind = "action" \/ r.pv >= 1) /\ r.first = An!Silent THEN e ELSE r.first
<1>1. /\ r.pv \in Nat /\ r.act \in Nat /\ r.dwell \in Nat /\ r.first \in An!Events \cup {An!Silent}
      /\ r = [pv |-> r.pv, act |-> r.act, first |-> r.first, dwell |-> r.dwell]
  BY DEF RowType
<1>2. e.kind \in {"action", "pageview"} BY DEF An!Events, An!Kinds
<1>3. c.first = f /\ c.dwell = r.dwell /\ c.pv = (IF e.kind = "action" THEN r.pv ELSE r.pv + 1)
      /\ c.act = (IF e.kind = "action" THEN r.act + 1 ELSE r.act) /\ DOMAIN c = {"pv", "act", "first", "dwell"}
      /\ c = [pv |-> c.pv, act |-> c.act, first |-> c.first, dwell |-> c.dwell]
  BY <1>1, <1>2 DEF An!Counted
<1>4. f \in An!Events \cup {An!Silent} BY <1>1
<1>5. \A x \in An!Events : x # An!Silent BY DEF An!Events, An!Silent, An!Kinds
<1>6. f = An!Silent <=> ~(e.kind = "action" \/ r.pv >= 1) /\ r.first = An!Silent BY <1>5
<1>7. Len(m) = Len(l) + 1 /\ Len(l) \in Nat BY LogGrows
<1>8. FirstOf(r.first, l) /\ r.pv = Cardinality(An!Of(l, "pageview")) => FirstOf(f, m)
  <2> DEFINE first == r.first
             pv == r.pv
  <2>1. pv \in Nat BY <1>1
  <2> HIDE DEF first, pv
  <2>2. ASSUME FirstOf(first, l), pv = Cardinality(An!Of(l, "pageview"))
        PROVE  FirstOf(IF (e.kind = "action" \/ pv >= 1) /\ first = An!Silent THEN e ELSE first, m)
    BY <2>1, <2>2, FirstStays, Zenon
  <2> QED BY <2>2 DEF first, pv
<1> HIDE DEF c, f, m
<1>9. c \in RowType BY <1>1, <1>3, <1>4 DEF RowType
<1>10. c # An!None
  <2>1. An!None.first \notin An!Events \cup {An!Silent} BY DEF An!None, An!Silent, An!Events, An!Kinds
  <2> QED BY <1>3, <1>4, <2>1
<1>11. (r.first = An!Silent <=> (r.act = 0 /\ r.pv <= 1)) /\ Len(l) <= r.pv + r.act => RowFits(c, m)
  <2> SUFFICES ASSUME r.first = An!Silent <=> (r.act = 0 /\ r.pv <= 1), Len(l) <= r.pv + r.act
               PROVE  RowFits(c, m)
    OBVIOUS
  <2>1. c.first = An!Silent <=> (c.act = 0 /\ c.pv <= 1)
    <3>1. CASE e.kind = "action" BY <1>1, <1>3, <1>6, <3>1
    <3>2. CASE e.kind = "pageview"
      <4>1. c.act = r.act /\ c.pv = r.pv + 1 BY <1>3, <3>2
      <4>2. c.pv <= 1 <=> ~(r.pv >= 1) BY <1>1, <4>1
      <4>3. ~(r.pv >= 1) => r.pv <= 1 BY <1>1
      <4> QED BY <1>3, <1>6, <3>2, <4>1, <4>2, <4>3
    <3> QED BY <1>2, <3>1, <3>2
  <2>2. Len(m) <= c.pv + c.act
    <3>1. c.pv + c.act = r.pv + r.act + 1 BY <1>1, <1>2, <1>3
    <3> QED BY <1>1, <1>7, <3>1
  <2> QED BY <1>10, <2>1, <2>2 DEF RowFits
<1>12. /\ r.pv = Cardinality(An!Of(l, "pageview")) /\ r.act = Cardinality(An!Of(l, "action"))
       /\ FirstOf(r.first, l)
       => RowMatches(c, m)
  <2>1. \A kind : Cardinality(An!Of(m, kind))
              = IF e.kind = kind THEN Cardinality(An!Of(l, kind)) + 1 ELSE Cardinality(An!Of(l, kind))
    BY OfGrows DEF m
  <2>2. /\ r.pv = Cardinality(An!Of(l, "pageview")) /\ r.act = Cardinality(An!Of(l, "action"))
        => c.pv = Cardinality(An!Of(m, "pageview")) /\ c.act = Cardinality(An!Of(m, "action"))
    BY <1>2, <1>3, <2>1
  <2> QED BY <1>3, <1>8, <1>10, <2>2 DEF RowMatches
<1> QED BY <1>3, <1>9, <1>11, <1>12 DEF c, m

\* The database in use holds the whole history, while history is read.
LEMMA HistoryIsHere ==
  ASSUME VisitsInv, ~severed, NEW s \in An!Stores, store = s,
         s = "own" => ~NoRows(rows["own"]) \/ NoRows(rows["shared"]),
         s = "shared" => NoRows(rows["own"])
  PROVE  Whole(rows[s], events[s])
<1>1. store # "copied" BY DEF An!Stores
<1>2. CASE s = "shared" BY <1>2 DEF VisitsInv, HistoryKept
<1>3. CASE s = "own" /\ ~NoRows(rows["own"]) BY <1>1, <1>3 DEF VisitsInv, HistoryKept
<1>4. CASE s = "own" /\ NoRows(rows["own"])
  <2>1. Whole(rows["shared"], events["shared"]) BY <1>4 DEF VisitsInv, HistoryKept
  <2>2. ASSUME NEW i \in Sids
        PROVE  /\ rows["shared"][i] = An!None /\ events["shared"][i] = << >>
               /\ rows["own"][i] = An!None /\ events["own"][i] = << >>
    <3>1. rows["shared"][i] = An!None /\ rows["own"][i] = An!None BY <1>4 DEF NoRows
    <3>2. RowFits(rows["shared"][i], events["shared"][i]) /\ RowFits(rows["own"][i], events["own"][i])
      BY DEF VisitsInv, An!Stores
    <3> QED BY <3>1, <3>2 DEF RowFits
  <2> QED BY <1>4, <2>1, <2>2 DEF Whole
<1> QED BY <1>2, <1>3, <1>4 DEF An!Stores

\* A row and its log change together.
LEMMA RowAndLogMove ==
  ASSUME VisitsInv, NEW s \in An!Stores, store = s, NEW i \in Sids,
         NEW r \in RowType, NEW l \in Seq(An!Events),
         rows' = [rows EXCEPT ![s] = [rows[s] EXCEPT ![i] = r]],
         events' = [events EXCEPT ![s] = [events[s] EXCEPT ![i] = l]],
         UNCHANGED <<store, boots>>, told' \in [Sids -> Seq(An!Events)], longest' \in [Sids -> Nat],
         severed' \in BOOLEAN, severed => severed',
         RowFits(r, l), RowMatches(rows[s][i], events[s][i]) => RowMatches(r, l), r # An!None,
         \A j \in Sids : j # i => told'[j] = told[j] /\ longest'[j] = longest[j],
         ~severed' => ~severed /\ \/ s = "shared" /\ NoRows(rows["own"])
                                  \/ s = "own" /\ (NoRows(rows["own"]) => NoRows(rows["shared"])),
         events[s][i] = told[i] => l = told'[i],
         rows[s][i].dwell = longest[i] => r.dwell = longest'[i]
  PROVE  VisitsInv'
<1>1. VisitTypes /\ store # "copied" /\ s \in {"shared", "own"} BY DEF VisitsInv, An!Stores
<1>2. /\ rows' \in [An!Stores -> [Sids -> RowType \cup {An!None}]]
      /\ events' \in [An!Stores -> [Sids -> Seq(An!Events)]]
  BY <1>1 DEF VisitTypes
<1>3. VisitTypes' BY <1>1, <1>2 DEF VisitTypes
<1>4. /\ \A q \in An!Stores : q # s => rows'[q] = rows[q] /\ events'[q] = events[q]
      /\ rows'[s][i] = r /\ events'[s][i] = l
      /\ \A j \in Sids : j # i => rows'[s][j] = rows[s][j] /\ events'[s][j] = events[s][j]
  BY <1>1 DEF VisitTypes
<1>5. ASSUME NEW q \in An!Stores, NEW j \in Sids
      PROVE  /\ RowFits(rows'[q][j], events'[q][j])
             /\ RowMatches(rows[q][j], events[q][j]) => RowMatches(rows'[q][j], events'[q][j])
  <2>1. RowFits(rows[q][j], events[q][j]) BY DEF VisitsInv
  <2>2. CASE q = s /\ j = i BY <1>4, <2>2
  <2>3. CASE q # s \/ j # i
    <3>1. rows'[q][j] = rows[q][j] /\ events'[q][j] = events[q][j] BY <1>4, <2>3
    <3> QED BY <2>1, <3>1
  <2> QED BY <2>2, <2>3
<1>6. \A j \in Sids : RowMatches(rows'["shared"][j], events'["shared"][j])
  BY <1>5 DEF VisitsInv, An!Stores
<1>7. ~severed' => \A j \in Sids : RowMatches(rows'["own"][j], events'["own"][j])
  BY <1>1, <1>5 DEF VisitsInv, An!Stores
<1>8. HistoryKept'
  <2> SUFFICES ASSUME ~severed'
               PROVE  /\ NoRows(rows'["own"]) => \A j \in Sids :
                           events'["shared"][j] = told'[j] /\ rows'["shared"][j].dwell = longest'[j]
                      /\ ~NoRows(rows'["own"]) => \A j \in Sids :
                           events'["own"][j] = told'[j] /\ rows'["own"][j].dwell = longest'[j]
    BY <1>1 DEF HistoryKept, Whole, NoRows
  <2>1. Whole(rows[s], events[s]) BY <1>1, HistoryIsHere
  <2>2. \A j \in Sids : events'[s][j] = told'[j] /\ rows'[s][j].dwell = longest'[j]
    <3> TAKE j \in Sids
    <3>1. events[s][j] = told[j] /\ rows[s][j].dwell = longest[j] BY <2>1 DEF Whole
    <3>2. CASE j = i BY <1>4, <3>1, <3>2
    <3>3. CASE j # i BY <1>4, <3>1, <3>3
    <3> QED BY <3>2, <3>3
  <2>3. s = "own" => ~NoRows(rows'["own"]) BY <1>4 DEF NoRows
  <2>4. s = "shared" => rows'["own"] = rows["own"] /\ NoRows(rows["own"]) BY <1>4 DEF An!Stores
  <2> QED BY <1>1, <2>2, <2>3, <2>4
<1> QED BY <1>1, <1>3, <1>5, <1>6, <1>7, <1>8 DEF VisitsInv

LEMMA EventIsRecorded ==
  ASSUME VisitsInv, NEW i \in Sids, NEW e \in An!Events, An!RecordEvent(i, e) PROVE VisitsInv'
<1> DEFINE s == store
           old == IF rows[s][i] = An!None THEN An!Fresh ELSE rows[s][i]
           r == An!Counted(old, e)
           l == Append(events[s][i], e)
           more == severed \/ (s = "own" /\ An!Empty("own") /\ ~An!Empty("shared"))
                           \/ (s = "shared" /\ ~An!Empty("own"))
<1>1. VisitTypes /\ s \in An!Stores BY DEF VisitsInv, An!RecordEvent, An!Serving
<1>2. /\ rows \in [An!Stores -> [Sids -> RowType \cup {An!None}]]
      /\ events \in [An!Stores -> [Sids -> Seq(An!Events)]]
      /\ told \in [Sids -> Seq(An!Events)] /\ longest \in [Sids -> Nat] /\ severed \in BOOLEAN
  BY <1>1 DEF VisitTypes
<1>3. /\ rows' = [rows EXCEPT ![s] = [rows[s] EXCEPT ![i] = r]]
      /\ events' = [events EXCEPT ![s] = [events[s] EXCEPT ![i] = l]]
      /\ told' = [told EXCEPT ![i] = Append(told[i], e)]
      /\ UNCHANGED <<store, boots, longest>>
  <2> DEFINE x == r
  <2>1. /\ rows' = [rows EXCEPT ![s][i] = x]
        /\ events' = [events EXCEPT ![s][i] = Append(@, e)]
        /\ told' = [told EXCEPT ![i] = Append(@, e)]
        /\ UNCHANGED <<store, boots, longest>>
    BY DEF An!RecordEvent
  <2> HIDE DEF x
  <2>2. rows' = [rows EXCEPT ![s] = [rows[s] EXCEPT ![i] = x]] BY <1>1, <1>2, <2>1
  <2> QED BY <1>1, <1>2, <2>1, <2>2 DEF x
<1>4. severed' = more BY DEF An!RecordEvent
<1>5. old \in RowType /\ old.dwell = rows[s][i].dwell
  <2>1. rows[s][i] \in RowType \cup {An!None} BY <1>1, <1>2
  <2>2. An!Fresh \in RowType /\ An!Fresh.dwell = An!None.dwell BY DEF An!Fresh, An!None, RowType
  <2> QED BY <2>1, <2>2
<1>6. events[s][i] \in Seq(An!Events) /\ told[i] \in Seq(An!Events) BY <1>1, <1>2
<1>7. l \in Seq(An!Events) /\ Append(told[i], e) \in Seq(An!Events) BY <1>6, LogGrows
<1>8. RowFits(rows[s][i], events[s][i]) BY <1>1 DEF VisitsInv
<1>9. rows[s][i] = An!None =>
        /\ old = An!Fresh /\ events[s][i] = << >>
        /\ old.pv = 0 /\ old.act = 0 /\ old.first = An!Silent
  BY <1>8 DEF RowFits, An!Fresh
<1>10. (old.first = An!Silent <=> (old.act = 0 /\ old.pv <= 1)) /\ Len(events[s][i]) <= old.pv + old.act
  <2>1. CASE rows[s][i] = An!None
    <3>1. Len(events[s][i]) = 0 BY <1>9, <2>1
    <3> QED BY <1>9, <2>1, <3>1
  <2>2. CASE rows[s][i] # An!None BY <1>8, <2>2 DEF RowFits
  <2> QED BY <2>1, <2>2
<1>11. RowMatches(rows[s][i], events[s][i]) =>
         /\ old.pv = Cardinality(An!Of(events[s][i], "pageview"))
         /\ old.act = Cardinality(An!Of(events[s][i], "action")) /\ FirstOf(old.first, events[s][i])
  <2>1. CASE rows[s][i] = An!None
    <3>1. An!Of(<< >>, "pageview") = {} /\ An!Of(<< >>, "action") = {} /\ An!Moves(<< >>) = {}
      BY DEF An!Of, An!Moves
    <3> QED BY <1>9, <2>1, <3>1, FS_EmptySet DEF FirstOf
  <2>2. CASE rows[s][i] # An!None BY <2>2 DEF RowMatches
  <2> QED BY <2>1, <2>2
<1> HIDE DEF old, s
<1>12. /\ r \in RowType /\ r.dwell = rows[s][i].dwell /\ RowFits(r, l)
       /\ RowMatches(rows[s][i], events[s][i]) => RowMatches(r, l)
  BY <1>5, <1>6, <1>10, <1>11, EventCounts
<1>13. r # An!None
  <2>1. An!None.first \notin An!Events \cup {An!Silent} BY DEF An!None, An!Silent, An!Events, An!Kinds
  <2> HIDE DEF r
  <2> QED BY <1>12, <2>1 DEF RowType
<1>14. /\ told' \in [Sids -> Seq(An!Events)] /\ longest' \in [Sids -> Nat]
       /\ told'[i] = Append(told[i], e) /\ longest'[i] = longest[i]
       /\ \A j \in Sids : j # i => told'[j] = told[j] /\ longest'[j] = longest[j]
  BY <1>2, <1>3, <1>7
<1>15. /\ severed' \in BOOLEAN /\ (severed => severed')
       /\ ~severed' => ~severed /\ \/ s = "shared" /\ NoRows(rows["own"])
                                   \/ s = "own" /\ (NoRows(rows["own"]) => NoRows(rows["shared"]))
  <2>1. \A q \in An!Stores : An!Empty(q) <=> NoRows(rows[q]) BY DEF An!Empty, NoRows
  <2>2. s = "shared" \/ s = "own" BY <1>1 DEF An!Stores
  <2>3. more \in BOOLEAN BY <1>2
  <2> QED BY <1>4, <2>1, <2>2, <2>3 DEF An!Stores
<1>16. events[s][i] = told[i] => l = told'[i] BY <1>14
<1>17. rows[s][i].dwell = longest[i] => r.dwell = longest'[i] BY <1>12, <1>14
<1>18. store = s /\ UNCHANGED <<store, boots>> BY <1>3 DEF s
<1> HIDE DEF r, l
<1> QED BY <1>1, <1>3, <1>7, <1>12, <1>13, <1>14, <1>15, <1>16, <1>17, <1>18, RowAndLogMove, ZenonT(60)

LEMMA DwellIsRecorded ==
  ASSUME VisitsInv, NEW i \in Sids, NEW ms \in Nat, An!AccumulateDwell(i, ms) PROVE VisitsInv'
<1> DEFINE s == store
           claim == IF ms > MaxDwell THEN MaxDwell ELSE ms
           far(x) == IF claim > x THEN claim ELSE x
           r == [rows[s][i] EXCEPT !.dwell = far(rows[s][i].dwell)]
           l == events[s][i]
           more == severed \/ (s = "shared" /\ ~An!Empty("own"))
<1>1. VisitTypes /\ s \in An!Stores /\ rows[s][i] # An!None
  BY DEF VisitsInv, An!AccumulateDwell, An!Serving
<1>2. /\ rows \in [An!Stores -> [Sids -> RowType \cup {An!None}]]
      /\ events \in [An!Stores -> [Sids -> Seq(An!Events)]]
      /\ told \in [Sids -> Seq(An!Events)] /\ longest \in [Sids -> Nat] /\ severed \in BOOLEAN
  BY <1>1 DEF VisitTypes
<1>3. rows[s][i] \in RowType /\ l \in Seq(An!Events) BY <1>1, <1>2
<1>4. claim \in Nat BY ServerAssumption DEF An!AnalyticsAssumption
<1> HIDE DEF claim
<1>5. /\ rows' = [rows EXCEPT ![s] = [rows[s] EXCEPT ![i] = r]]
      /\ longest' = [longest EXCEPT ![i] = far(longest[i])]
      /\ UNCHANGED <<events, store, boots, told>> /\ severed' = more
  <2>1. /\ rows' = [rows EXCEPT ![s][i].dwell = far(@)]
        /\ longest' = [longest EXCEPT ![i] = far(@)]
        /\ UNCHANGED <<events, store, boots, told>> /\ severed' = more
    BY DEF An!AccumulateDwell, claim
  <2>2. rows' = [rows EXCEPT ![s] = [rows[s] EXCEPT ![i] = r]] BY <1>1, <1>2, <2>1
  <2>3. longest' = [longest EXCEPT ![i] = far(longest[i])] BY <1>2, <2>1
  <2> QED BY <2>1, <2>2, <2>3
<1>6. events' = [events EXCEPT ![s] = [events[s] EXCEPT ![i] = l]] BY <1>1, <1>2, <1>5
<1>7. \A x \in Nat : far(x) \in Nat BY <1>4
<1>8. /\ r \in RowType /\ r.dwell = far(rows[s][i].dwell) /\ r.pv = rows[s][i].pv
      /\ r.act = rows[s][i].act /\ r.first = rows[s][i].first
  BY <1>3, <1>7 DEF RowType
<1>9. RowFits(rows[s][i], l) BY <1>1 DEF VisitsInv
<1> HIDE DEF r, far
<1>10. r # An!None
  <2>1. An!None.first \notin An!Events \cup {An!Silent} BY DEF An!None, An!Silent, An!Events, An!Kinds
  <2> QED BY <1>8, <2>1 DEF RowType
<1>11. RowFits(r, l) /\ (RowMatches(rows[s][i], l) => RowMatches(r, l))
  BY <1>1, <1>8, <1>9, <1>10 DEF RowFits, RowMatches
<1>12. /\ told' \in [Sids -> Seq(An!Events)] /\ longest' \in [Sids -> Nat]
       /\ told'[i] = told[i] /\ longest'[i] = far(longest[i])
       /\ \A j \in Sids : j # i => told'[j] = told[j] /\ longest'[j] = longest[j]
  BY <1>2, <1>5, <1>7
<1>13. /\ severed' \in BOOLEAN /\ (severed => severed')
       /\ ~severed' => ~severed /\ \/ s = "shared" /\ NoRows(rows["own"])
                                   \/ s = "own" /\ (NoRows(rows["own"]) => NoRows(rows["shared"]))
  <2>1. \A q \in An!Stores : An!Empty(q) <=> NoRows(rows[q]) BY DEF An!Empty, NoRows
  <2>2. s = "shared" \/ s = "own" BY <1>1 DEF An!Stores
  <2>3. s = "own" => ~NoRows(rows["own"]) BY <1>1 DEF NoRows
  <2>4. more \in BOOLEAN BY <1>2
  <2> QED BY <1>5, <2>1, <2>2, <2>3, <2>4 DEF An!Stores
<1>14. l = told[i] => l = told'[i] BY <1>12
<1>15. rows[s][i].dwell = longest[i] => r.dwell = longest'[i] BY <1>8, <1>12
<1>16. store = s /\ UNCHANGED <<store, boots>> BY <1>5
<1>17. l = events[s][i] OBVIOUS
<1> HIDE DEF s, l
<1> QED BY <1>1, <1>3, <1>5, <1>6, <1>8, <1>10, <1>11, <1>12, <1>13, <1>14, <1>15, <1>16, <1>17,
           RowAndLogMove, ZenonT(60)

LEMMA VisitsStep == ASSUME VisitsInv, An!Next \/ UNCHANGED visits PROVE VisitsInv'
<1>1. VisitTypes BY DEF VisitsInv
<1>2. ASSUME UNCHANGED <<rows, events, told, longest, severed>>, store # "copied",
             store' \in An!Stores \cup {"down"}, boots' \in 0..MaxBoots
      PROVE  VisitsInv'
  <2>1. VisitTypes' BY <1>1, <1>2 DEF VisitTypes
  <2>2. store' # "copied" BY <1>2 DEF An!Stores
  <2>3. HistoryKept' BY <1>2, <2>2 DEF VisitsInv, HistoryKept, NoRows, Whole
  <2> QED BY <1>2, <2>1, <2>2, <2>3 DEF VisitsInv
<1>3. An!Boot => boots' \in 0..MaxBoots /\ store # "copied"
  <2>1. MaxBoots \in Nat BY ServerAssumption DEF An!AnalyticsAssumption
  <2> QED BY <1>1, <2>1 DEF An!Boot, VisitTypes
<1>4. CASE An!FallBack \/ An!Open
  BY <1>2, <1>3, <1>4 DEF An!FallBack, An!Open, An!Stores
<1>5. CASE An!Stop BY <1>1, <1>2, <1>5 DEF An!Stop, An!Serving, An!Stores, VisitTypes
<1>6. CASE An!importSessions
  <2>1. /\ rows' = [rows EXCEPT !["own"] = rows["shared"]] /\ store' = "copied"
        /\ UNCHANGED <<events, told, longest, severed>> /\ NoRows(rows["own"]) /\ boots' \in 0..MaxBoots
    BY <1>3, <1>6 DEF An!importSessions, An!Empty, NoRows
  <2>2. rows' \in [An!Stores -> [Sids -> RowType \cup {An!None}]] BY <1>1, <2>1 DEF VisitTypes, An!Stores
  <2>3. rows'["own"] = rows["shared"] /\ rows'["shared"] = rows["shared"]
    BY <1>1, <2>1 DEF VisitTypes, An!Stores
  <2>4. VisitTypes' BY <1>1, <2>1, <2>2 DEF VisitTypes
  <2>5. ASSUME NEW i \in Sids
        PROVE  RowFits(rows["shared"][i], events["shared"][i]) /\ RowFits(rows["shared"][i], events["own"][i])
    <3>1. RowFits(rows["shared"][i], events["shared"][i]) /\ RowFits(rows["own"][i], events["own"][i])
      BY DEF VisitsInv, An!Stores
    <3>2. events["own"][i] = << >> BY <2>1, <3>1 DEF RowFits, NoRows
    <3>3. rows["shared"][i] \in RowType \cup {An!None} BY <1>1 DEF VisitTypes, An!Stores
    <3>4. Len(<< >>) = 0 /\ \A x, y \in Nat : 0 <= x + y OBVIOUS
    <3>5. rows["shared"][i] # An!None => 0 <= rows["shared"][i].pv + rows["shared"][i].act
      BY <3>3, <3>4 DEF RowType
    <3> QED BY <3>1, <3>2, <3>4, <3>5 DEF RowFits
  <2>6. \A s \in An!Stores, i \in Sids : RowFits(rows'[s][i], events'[s][i])
    BY <2>1, <2>3, <2>5 DEF An!Stores
  <2>7. HistoryKept' BY <2>1, <2>3 DEF VisitsInv, HistoryKept, NoRows, Whole
  <2> QED BY <2>1, <2>3, <2>4, <2>6, <2>7 DEF VisitsInv
<1>7. CASE An!importEvents
  <2>1. /\ events' = [events EXCEPT !["own"] = events["shared"]] /\ store = "copied" /\ store' = "own"
        /\ UNCHANGED <<rows, boots, told, longest, severed>> /\ rows["own"] = rows["shared"]
    BY <1>7 DEF An!importEvents, VisitsInv
  <2>2. events' \in [An!Stores -> [Sids -> Seq(An!Events)]] BY <1>1, <2>1 DEF VisitTypes, An!Stores
  <2>3. events'["own"] = events["shared"] /\ events'["shared"] = events["shared"]
    BY <1>1, <2>1 DEF VisitTypes, An!Stores
  <2>4. VisitTypes' BY <1>1, <2>1, <2>2 DEF VisitTypes, An!Stores
  <2>5. \A s \in An!Stores, i \in Sids : /\ RowFits(rows'[s][i], events'[s][i])
                                         /\ RowMatches(rows'[s][i], events'[s][i])
    BY <2>1, <2>3 DEF An!Stores, VisitsInv
  <2>6. HistoryKept' BY <2>1, <2>3 DEF VisitsInv, HistoryKept, NoRows, Whole
  <2> QED BY <2>1, <2>4, <2>5, <2>6 DEF VisitsInv, An!Stores
<1>8. CASE An!LoseEvents
  <2>1. /\ store' \in {"own", "down"} /\ severed' = TRUE
        /\ UNCHANGED <<rows, events, boots, told, longest>>
    BY <1>8 DEF An!LoseEvents
  <2>2. VisitTypes' BY <1>1, <2>1 DEF VisitTypes, An!Stores
  <2>3. HistoryKept' BY <2>1 DEF HistoryKept
  <2> QED BY <2>1, <2>2, <2>3 DEF VisitsInv
<1>9. ASSUME NEW i \in Sids, NEW ms \in 1..(MaxDwell + 1), An!AccumulateDwell(i, ms) PROVE VisitsInv'
  <2>1. ms \in Nat BY ServerAssumption DEF An!AnalyticsAssumption
  <2> QED BY <1>9, <2>1, DwellIsRecorded
<1>10. CASE UNCHANGED visits
  <2>1. UNCHANGED <<rows, events, store, boots, told, longest, severed>> BY <1>10 DEF visits
  <2>2. VisitTypes' BY <1>1, <2>1 DEF VisitTypes
  <2>3. HistoryKept' BY <2>1 DEF VisitsInv, HistoryKept, NoRows, Whole
  <2> QED BY <2>1, <2>2, <2>3 DEF VisitsInv
<1> QED BY <1>4, <1>5, <1>6, <1>7, <1>8, <1>9, <1>10, EventIsRecorded DEF An!Next

-----------------------------------------------------------------------------
(* The instances of MCServer.                                               *)

\* A behaviour runs one component: the others stay as they are.

LEMMA RefreshSafe == MCSpec => [](component = "bearer" => RefreshInv)
<1> DEFINE Safe == component = "bearer" => RefreshInv
<1>1. MCInit => Safe BY RefreshInit DEF MCInit
<1>2. Safe /\ [MCNext]_all => Safe'
  <2> SUFFICES ASSUME Safe, [MCNext]_all, component' = "bearer" PROVE RefreshInv' OBVIOUS
  <2>1. component = "bearer" /\ (Re!Next \/ UNCHANGED grants) BY DEF MCNext, all
  <2> QED BY <2>1, RefreshStep
<1> QED BY <1>1, <1>2, PTL DEF MCSpec

\* One request at a time exchanges a credential's grant, and only one whose
\* current token was rejected; rejections up to the threshold retire the
\* credential (auth.go as proxy.go calls it).
THEOREM RefreshesAreExclusive == MCSpec => []RefreshHolds
<1>1. (component = "bearer" => RefreshInv) => RefreshHolds
  BY DEF RefreshHolds, RefreshInv
<1> QED BY <1>1, RefreshSafe, PTL

LEMMA ModelsSafe == MCSpec => [](component = "models" => ModelsInv)
<1> DEFINE Safe == component = "models" => ModelsInv
<1>1. MCInit => Safe BY ModelsInit DEF MCInit
<1>2. Safe /\ [MCNext]_all => Safe'
  <2> SUFFICES ASSUME Safe, [MCNext]_all, component' = "models" PROVE ModelsInv' OBVIOUS
  <2>1. component = "models" /\ (Mo!Next \/ UNCHANGED served) BY DEF MCNext, all
  <2> QED BY <2>1, ModelsStep
<1> QED BY <1>1, <1>2, PTL DEF MCSpec

\* The guard refuses no model that a relay has served since the refresh behind
\* the catalogue began, nor one a plan serves (codex_models.go).
THEOREM ServedModelsAreNotRefused == MCSpec => []ModelsHold
<1>1. (component = "models" => ModelsInv) => ModelsHold
  BY DEF ModelsHold, ModelsInv
<1> QED BY <1>1, ModelsSafe, PTL

LEMMA DeskSafe == MCSpec => [](component = "support" => DeskInv)
<1> DEFINE Safe == component = "support" => DeskInv
<1>1. MCInit => Safe BY DeskInit DEF MCInit
<1>2. Safe /\ [MCNext]_all => Safe'
  <2> SUFFICES ASSUME Safe, [MCNext]_all, component' = "support" PROVE DeskInv' OBVIOUS
  <2>1. component = "support" /\ (Su!Next \/ UNCHANGED desk) BY DEF MCNext, all
  <2> QED BY <2>1, DeskStep
<1> QED BY <1>1, <1>2, PTL DEF MCSpec

\* An account with an unseen reply has its badge, but for replies that arrive
\* behind a read; nobody is without a way back to a thread, and who spoke last
\* is who wrote the last message (support.go).
THEOREM RepliesAreSeen == MCSpec => []SupportHolds
<1>1. (component = "support" => DeskInv) => SupportHolds
  BY DeskHolds DEF SupportHolds
<1> QED BY <1>1, DeskSafe, PTL

LEMMA FanSafe == MCSpec => [](component = "fanout" => FanInv)
<1> DEFINE Safe == component = "fanout" => FanInv
<1>1. MCInit => Safe BY FanInit DEF MCInit
<1>2. Safe /\ [MCNext]_all => Safe'
  <2> SUFFICES ASSUME Safe, [MCNext]_all, component' = "fanout" PROVE FanInv' OBVIOUS
  <2>1. component = "fanout" /\ (Fa!Next \/ UNCHANGED slots) BY DEF MCNext, all
  <2> QED BY <2>1, FanStep
<1> QED BY <1>1, <1>2, PTL DEF MCSpec

\* A conversation that names itself keeps its credential slot, the slots a
\* token may hold are bounded, and no upstream session is shared by two
\* callers (fanout.go, session.go).
THEOREM ConversationsKeepTheirSlot == MCSpec => []FanoutHolds
<1>1. (component = "fanout" => FanInv) => FanoutHolds
  BY FanHolds DEF FanoutHolds
<1> QED BY <1>1, FanSafe, PTL

LEMMA CredSafe == MCSpec => [](component = "credentials" => CredInv)
<1> DEFINE Safe == component = "credentials" => CredInv
<1>1. MCInit => Safe BY CredInit DEF MCInit
<1>2. Safe /\ [MCNext]_all => Safe'
  <2> SUFFICES ASSUME Safe, [MCNext]_all, component' = "credentials" PROVE CredInv' OBVIOUS
  <2>1. component = "credentials" /\ (Cr!Next \/ UNCHANGED pooled) BY DEF MCNext, all
  <2> QED BY <2>1, CredStep
<1> QED BY <1>1, <1>2, PTL DEF MCSpec

\* Once no handler is at work on a credential, a restart loads what the server
\* uses, unless two handlers were at it at once; no account is in the pool
\* under two names (credentials.go, auth.go).
THEOREM PoolIsOnDisk == MCSpec => []CredentialsHold
<1>1. (component = "credentials" => CredInv) => CredentialsHold
  BY CredHolds DEF CredentialsHold
<1> QED BY <1>1, CredSafe, PTL

LEMMA HealthSafe == MCSpec => [](component = "health" => HealthInv)
<1> DEFINE Safe == component = "health" => HealthInv
<1>1. MCInit => Safe BY HealthInit DEF MCInit
<1>2. Safe /\ [MCNext]_all => Safe'
  <2> SUFFICES ASSUME Safe, [MCNext]_all, component' = "health" PROVE HealthInv' OBVIOUS
  <2>1. component = "health" /\ (He!Next \/ UNCHANGED health) BY DEF MCNext, all
  <2> QED BY <2>1, HealthStep
<1> QED BY <1>1, <1>2, PTL DEF MCSpec

LEMMA CachesSafe == MCSpec => [](component = "caches" => CachesInv)
<1> DEFINE Safe == component = "caches" => CachesInv
<1>1. MCInit => Safe BY CachesInit DEF MCInit
<1>2. Safe /\ [MCNext]_all => Safe'
  <2> SUFFICES ASSUME Safe, [MCNext]_all, component' = "caches" PROVE CachesInv' OBVIOUS
  <2>1. component = "caches" /\ (Ca!Next \/ UNCHANGED caches) BY DEF MCNext, all
  <2> QED BY <2>1, CachesStep
<1> QED BY <1>1, <1>2, PTL DEF MCSpec

\* After a cycle every credential that serves has a verdict on each of its models
\* and no other row is left, but for what changed under the cycle; no cache
\* answers with data older than an answer given before it was asked, nor holds
\* more than its bound (the health checker and the panels' caches).
THEOREM PanelsShowThePool == MCSpec => []WatchHolds
<1>1. (component = "health" => HealthInv) /\ (component = "caches" => CachesInv) => WatchHolds
  BY HealthIsHeld, CachesAreHeld DEF WatchHolds
<1> QED BY <1>1, HealthSafe, CachesSafe, PTL

LEMMA ArenaSafe == MCSpec => [](component = "arena" => ArenaInv)
<1> DEFINE Safe == component = "arena" => ArenaInv
<1>1. MCInit => Safe BY ArenaInit DEF MCInit
<1>2. Safe /\ [MCNext]_all => Safe'
  <2> SUFFICES ASSUME Safe, [MCNext]_all, component' = "arena" PROVE ArenaInv' OBVIOUS
  <2>1. component = "arena" /\ (Aa!Next \/ UNCHANGED arena) BY DEF MCNext, all
  <2> QED BY <2>1, ArenaStep
<1> QED BY <1>1, <1>2, PTL DEF MCSpec

LEMMA GrowthSafe == MCSpec => [](component = "growth" => GrowthInv)
<1> DEFINE Safe == component = "growth" => GrowthInv
<1>1. MCInit => Safe BY GrowthInit DEF MCInit
<1>2. Safe /\ [MCNext]_all => Safe'
  <2> SUFFICES ASSUME Safe, [MCNext]_all, component' = "growth" PROVE GrowthInv' OBVIOUS
  <2>1. component = "growth" /\ (Gr!Next \/ UNCHANGED growth) BY DEF MCNext, all
  <2> QED BY <2>1, GrowthStep
<1> QED BY <1>1, <1>2, PTL DEF MCSpec

LEMMA VisitsSafe == MCSpec => [](component = "analytics" => VisitsInv)
<1> DEFINE Safe == component = "analytics" => VisitsInv
<1>1. MCInit => Safe BY VisitsInit DEF MCInit
<1>2. Safe /\ [MCNext]_all => Safe'
  <2> SUFFICES ASSUME Safe, [MCNext]_all, component' = "analytics" PROVE VisitsInv' OBVIOUS
  <2>1. component = "analytics" /\ (An!Next \/ UNCHANGED visits) BY DEF MCNext, all
  <2> QED BY <2>1, VisitsStep
<1> QED BY <1>1, <1>2, PTL DEF MCSpec

\* Every hit that was not lost is on its user's counter, under a pseudonym unless
\* the user opted in, and no viewer misses one it had room for; a signup is paid
\* once and as recorded, and none that abuses in series is paid; a session's
\* counters are those of its log and survive the move to a database of their own
\* (arena/service.go, hub.go, growth/fraud.go, bonus.go, analytics/db.go).
THEOREM VisitsAndBonusesAreCounted == MCSpec => []CommunityHolds
<1>1. (component = "arena" => ArenaInv) /\ (component = "growth" => GrowthInv) /\ (component = "analytics" => VisitsInv) => CommunityHolds
  BY ArenaIsHeld, GrowthIsHeld, VisitsAreHeld DEF CommunityHolds
<1> QED BY <1>1, ArenaSafe, GrowthSafe, VisitsSafe, PTL
=============================================================================
