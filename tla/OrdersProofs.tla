---------------------------- MODULE OrdersProofs ----------------------------
(***************************************************************************)
(* Theorems about Orders, for every number of orders, users and handlers,  *)
(* every length of the windows, and any failures.                          *)
(*                                                                         *)
(* The argument: a step either credits one order that was not paid, for a  *)
(* trade that is, or leaves the ledger and every "paid" alone; a handler   *)
(* that has read a settled trade is right for ever, since a trade is opened *)
(* once; and the clock cannot run past an unsettled Stripe payment, so its *)
(* order is never old enough to be deleted.                                *)
(***************************************************************************)
EXTENDS Orders, WalletProofs

CreditRow ==
  [ws : Workspaces, user : Users, kind : {"topup"}, amount : Int, ref : OrderIds, key : {NoKey}]
Trade == [state : {"none", "open", "paid"}, at : Nat, rail : {"none", "qr", "stripe"}]
Read ==
  [pc : {"read", "credit"}, id : OrderIds, seen : OrderRow, settled : BOOLEAN,
   src : {"notify", "reconcile", "webhook", "poll"}]

\* A trade is opened once, and the order is inserted after it and once.
OpenedOnce ==
  \A o \in OrderIds :
    /\ topup[o] \in {"idle", "allowed", "refused", "noted"} => trade[o].state = "none"
    /\ topup[o] # "created" => order[o].status = "none" /\ trade[o].state # "paid"

\* What a handler knows of its trade stays true.
Informed ==
  \A h \in Handlers : handler[h] # Idle =>
    /\ topup[handler[h].id] = "created"
    /\ handler[h].src \in Sources(handler[h].id)
    /\ handler[h].settled => trade[handler[h].id].state = "paid"
    /\ handler[h].pc = "credit" => handler[h].settled

PaidInv == TypeOK /\ OpenedOnce /\ Informed /\ PaidIffCredited

-----------------------------------------------------------------------------
(* A credit, and everything else.                                          *)

\* What a handler posts when it credits order o.
Credited(o) ==
  /\ order[o].status # "paid" /\ trade[o].state = "paid"
  /\ order' = [order EXCEPT ![o].status = "paid"]
  /\ Post(Row(Personal[Owner[o]], Owner[o], "topup", Credit[o], o, NoKey))
  /\ UNCHANGED trade

\* Neither the ledger nor any "paid" changes.
PaidKept ==
  /\ UNCHANGED ledger
  /\ \A o \in OrderIds :
       /\ order'[o].status = "paid" <=> order[o].status = "paid"
       /\ trade[o].state = "paid" => trade'[o].state = "paid"

LEMMA KeptPaid == PaidIffCredited /\ PaidKept => PaidIffCredited'
BY DEF PaidIffCredited, PaidKept, CreditRows

LEMMA CreditRowType ==
  ASSUME NEW o \in OrderIds
  PROVE  Row(Personal[Owner[o]], Owner[o], "topup", Credit[o], o, NoKey) \in CreditRow
BY OrdersAssumption, PersonalAssumption DEF Row, CreditRow

LEMMA CreditPays ==
  ASSUME TypeOK, PaidIffCredited, NEW o \in OrderIds, Credited(o)
  PROVE  PaidIffCredited'
<1> DEFINE n == Len(ledger)
           row == Row(Personal[Owner[o]], Owner[o], "topup", Credit[o], o, NoKey)
<1>1. row \in CreditRow /\ row.ref = o /\ row.amount = Credit[o] /\ row.ws = Personal[Owner[o]]
  BY CreditRowType DEF Row
<1>2. ledger \in Seq(CreditRow) BY DEF TypeOK, CreditRow
<1>3. Post(row) BY DEF Credited
<1>4. /\ n \in Nat /\ DOMAIN ledger = 1..n /\ DOMAIN ledger' = 1..(n + 1)
      /\ ledger'[n + 1] = row
      /\ \A i \in 1..n : ledger'[i] = ledger[i]
  <2> HIDE DEF row
  <2> QED BY <1>1, <1>2, <1>3, PostIndex
<1>5. CreditRows(o)' = {n + 1}
  <2>1. CreditRows(o) = {} BY DEF PaidIffCredited, Credited
  <2> HIDE DEF row
  <2> QED BY <1>1, <1>4, <2>1 DEF CreditRows
<1>6. ASSUME NEW q \in OrderIds, q # o
      PROVE  CreditRows(q)' = CreditRows(q) /\ \A i \in CreditRows(q) : ledger'[i] = ledger[i]
  <2> HIDE DEF row
  <2> QED BY <1>1, <1>4, <1>6 DEF CreditRows
<1>7. /\ order'[o].status = "paid" /\ trade' = trade /\ trade[o].state = "paid"
      /\ \A q \in OrderIds : q # o => order'[q] = order[q]
  BY DEF TypeOK, OrderRow, Credited
<1> SUFFICES ASSUME NEW q \in OrderIds
             PROVE  IF order'[q].status = "paid"
                    THEN /\ trade'[q].state = "paid"
                         /\ \E i \in DOMAIN ledger' :
                              /\ CreditRows(q)' = {i}
                              /\ ledger'[i].amount = Credit[q]
                              /\ ledger'[i].ws = Personal[Owner[q]]
                    ELSE CreditRows(q)' = {}
  BY DEF PaidIffCredited
<1>8. CASE q = o
  <2>1. n + 1 \in DOMAIN ledger' BY <1>4
  <2> HIDE DEF row
  <2> QED BY <1>1, <1>4, <1>5, <1>7, <1>8, <2>1
<1>9. CASE q # o
  <2>1. order'[q] = order[q] /\ trade'[q] = trade[q] BY <1>7, <1>9
  <2>2. CASE order[q].status = "paid"
    <3>1. PICK i \in DOMAIN ledger :
            CreditRows(q) = {i} /\ ledger[i].amount = Credit[q] /\ ledger[i].ws = Personal[Owner[q]]
      BY <2>2 DEF PaidIffCredited
    <3>2. i \in DOMAIN ledger' /\ ledger'[i] = ledger[i] BY <1>4
    <3>3. trade[q].state = "paid" BY <2>2 DEF PaidIffCredited
    <3> QED BY <1>6, <1>9, <2>1, <2>2, <3>1, <3>2, <3>3
  <2>3. CASE order[q].status # "paid"
    BY <1>6, <1>9, <2>1, <2>3 DEF PaidIffCredited
  <2> QED BY <2>2, <2>3
<1> QED BY <1>8, <1>9

\* One credit transaction credits, or finds nothing to do.
LEMMA CreditIfCases ==
  ASSUME NEW o \in OrderIds, NEW from \in SUBSET {"pending", "expired"}, CreditIf(o, from),
         trade[o].state = "paid", UNCHANGED trade
  PROVE  Credited(o) \/ UNCHANGED <<balance, ledger, order>>
<1>1. CASE order[o].status \in from
  <2>1. order[o].status # "paid" BY <1>1
  <2>2. order' = [order EXCEPT ![o].status = "paid"] BY <1>1 DEF CreditIf
  <2>3. Post(Row(Personal[Owner[o]], Owner[o], "topup", Credit[o], o, NoKey))
    BY <1>1 DEF CreditIf, AddBalanceTx, addWorkspaceBalanceTx
  <2> QED BY <2>1, <2>2, <2>3 DEF Credited
<1>2. CASE order[o].status \notin from
  BY <1>2 DEF CreditIf
<1> QED BY <1>1, <1>2

\* A handler that runs its credit transaction has read a settled trade, so it
\* credits its order or finds nothing to do.
LEMMA CreditCases ==
  ASSUME TypeOK, Informed, NEW h \in Handlers, CreditPaidOrder(h) \/ CreditStripeOrder(h),
         UNCHANGED trade
  PROVE  /\ handler[h] # Idle /\ handler[h].id \in OrderIds
         /\ Credited(handler[h].id) \/ UNCHANGED <<balance, ledger, order>>
<1>1. handler[h] # Idle BY DEF Idle, CreditPaidOrder, CreditStripeOrder, Reading
<1>2. handler[h] \in Read BY <1>1 DEF TypeOK, Read
<1>3. handler[h].id \in OrderIds BY <1>2 DEF Read
<1>4. handler[h].settled
  BY <1>1, <1>2 DEF Informed, CreditPaidOrder, CreditStripeOrder, StripeSkips, Read
<1>5. trade[handler[h].id].state = "paid" BY <1>1, <1>4 DEF Informed
<1>6. \E from \in SUBSET {"pending", "expired"} : CreditIf(handler[h].id, from)
  BY DEF CreditPaidOrder, CreditStripeOrder
<1>7. Credited(handler[h].id) \/ UNCHANGED <<balance, ledger, order>>
  BY <1>3, <1>5, <1>6, CreditIfCases
<1> QED BY <1>1, <1>3, <1>7

-----------------------------------------------------------------------------
(* The steps that do not credit.                                           *)

OrdersTyped == TypeOK /\ OpenedOnce /\ Informed

\* The customer's side of a top-up, up to the order's insertion.
LEMMA TopupKeeps ==
  ASSUME OrdersTyped, NEW o \in OrderIds, Create(o)
  PROVE  OrdersTyped' /\ PaidKept
<1> USE DEF OrdersTyped
<1>1. CASE TopupAllowed(o)
  BY <1>1 DEF TopupAllowed, TypeOK, OpenedOnce, Informed, Sources, PaidKept, Idle
<1>2. CASE TopupCounted(o)
  <2>1. /\ topup[o] = "allowed"
        /\ \E v \in {"refused", "noted"} : topup' = [topup EXCEPT ![o] = v]
        /\ UNCHANGED <<balance, ledger, now, order, trade, acked, handler, sweep, failures>>
    BY <1>2 DEF TopupCounted
  <2>2. stamps' \subseteq OrderIds \X Nat
    BY <1>2 DEF TopupCounted, TypeOK
  <2>3. TypeOK' BY <2>1, <2>2 DEF TypeOK
  <2> QED BY <2>1, <2>3 DEF TypeOK, OpenedOnce, Informed, Sources, PaidKept, Idle
<1>3. CASE \E rail \in {"qr", "stripe"} : OpenTrade(o, rail)
  BY <1>3 DEF OpenTrade, TypeOK, OpenedOnce, Informed, Sources, PaidKept, Idle
<1>4. CASE TopupFails(o)
  BY <1>4 DEF TopupFails, TypeOK, OpenedOnce, Informed, Sources, PaidKept, Idle
<1>5. CASE TopupInserted(o)
  <2>1. [status |-> "pending", created |-> now] \in OrderRow
    BY DEF TypeOK, OrderRow, OrderStatus
  <2>2. TypeOK' BY <1>5, <2>1 DEF TopupInserted, TypeOK
  <2>3. OpenedOnce' /\ Informed'
    BY <1>5, <2>1 DEF TopupInserted, TypeOK, OpenedOnce, Informed, Sources, Idle
  <2>4. PaidKept BY <1>5, <2>1 DEF TopupInserted, TypeOK, OpenedOnce, PaidKept
  <2> QED BY <2>2, <2>3, <2>4
<1> QED BY <1>1, <1>2, <1>3, <1>4, <1>5 DEF Create, TopupTrade, topupStripe

\* A customer pays.
LEMMA PayKeeps ==
  ASSUME OrdersTyped, NEW o \in OrderIds, PayTrade(o)
  PROVE  OrdersTyped' /\ PaidKept
<1> USE DEF OrdersTyped
<1>1. trade \in [OrderIds -> Trade] /\ now \in Nat BY DEF TypeOK, Trade
<1>2. /\ trade' \in [OrderIds -> Trade]
      /\ \A q \in OrderIds : q # o => trade'[q] = trade[q]
      /\ trade'[o].state = "paid" /\ trade'[o].rail = trade[o].rail
      /\ topup[o] = "created"
      /\ UNCHANGED <<balance, ledger, now, order, topup, stamps, acked, handler, sweep, failures>>
  BY <1>1 DEF PayTrade, Trade
<1>3. TypeOK' BY <1>2 DEF TypeOK, Trade
<1>4. OpenedOnce' /\ PaidKept BY <1>2 DEF OpenedOnce, PaidKept
<1>5. Informed'
  <2> SUFFICES ASSUME NEW h \in Handlers, handler[h] # Idle
               PROVE  /\ topup[handler[h].id] = "created"
                      /\ handler[h].src \in Sources(handler[h].id)'
                      /\ handler[h].settled => trade'[handler[h].id].state = "paid"
                      /\ handler[h].pc = "credit" => handler[h].settled
    BY <1>2 DEF Informed, Idle
  <2>1. handler[h] \in Read BY DEF TypeOK, Read
  <2>2. handler[h].id \in OrderIds BY <2>1 DEF Read
  <2>3. trade'[handler[h].id].rail = trade[handler[h].id].rail BY <1>2, <2>2
  <2> QED BY <1>2, <2>2, <2>3 DEF Informed, Sources
<1> QED BY <1>3, <1>4, <1>5

\* A handler reads the trade and the order.
LEMMA ReadKeeps ==
  ASSUME OrdersTyped, NEW h \in Handlers, NEW o \in OrderIds,
         NEW src \in {"notify", "reconcile", "webhook", "poll"}, SettleRead(h, o, src)
  PROVE  OrdersTyped' /\ PaidKept
<1> USE DEF OrdersTyped
<1> DEFINE r == [pc |-> "read", id |-> o, src |-> src, seen |-> order[o],
                 settled |-> trade[o].state = "paid"]
<1>1. /\ handler' = [handler EXCEPT ![h] = r]
      /\ UNCHANGED <<balance, ledger, now, order, topup, stamps, trade, acked, sweep, failures>>
      /\ src \in Sources(o) /\ topup[o] = "created"
  BY DEF SettleRead
<1>2. order[o] \in OrderRow /\ (trade[o].state = "paid") \in BOOLEAN BY DEF TypeOK
<1>3. r \in Read BY <1>2 DEF Read
<1>4. /\ r.id = o /\ r.src = src /\ r.settled = (trade[o].state = "paid") /\ r.pc = "read"
  OBVIOUS
<1> HIDE DEF r
<1>5. TypeOK' BY <1>1, <1>3 DEF TypeOK, Read
<1>6. OpenedOnce' /\ PaidKept BY <1>1 DEF OpenedOnce, PaidKept
<1>7. Informed'
  BY <1>1, <1>4 DEF TypeOK, Informed, Sources, Idle
<1> QED BY <1>5, <1>6, <1>7

-----------------------------------------------------------------------------
(* A handler's steps.                                                      *)

\* A handler that ends leaves the others and the orders it knows of.
LEMMA EndKeeps ==
  ASSUME OrdersTyped, NEW h \in Handlers, handler' = [handler EXCEPT ![h] = Idle],
         UNCHANGED <<topup, trade>>
  PROVE  Informed'
BY DEF OrdersTyped, TypeOK, Informed, Sources

\* What answering leaves behind.
LEMMA AnswerKeeps ==
  ASSUME TypeOK, NEW h \in Handlers, handler[h] # Idle,
         NEW ans \in {"no", "success", "terminal"}, Answer(h, ans)
  PROVE  /\ handler' = [handler EXCEPT ![h] = Idle]
         /\ handler' \in [Handlers -> {Idle} \cup Read]
         /\ acked' \in [OrderIds -> {"no", "success", "terminal"}]
BY DEF Answer, TypeOK, Idle, Read

\* A handler that returns early changes nothing but its answer.
LEMMA ReturnKeeps ==
  ASSUME OrdersTyped, NEW h \in Handlers, NotifyReturnsEarly(h) \/ StripeReturnsEarly(h)
  PROVE  OrdersTyped' /\ PaidKept
<1> USE DEF OrdersTyped
<1>1. handler[h] # Idle BY DEF NotifyReturnsEarly, StripeReturnsEarly, Reading, Idle
<1>2. \E ans \in {"no", "success", "terminal"} : Answer(h, ans)
  BY DEF NotifyReturnsEarly, StripeReturnsEarly, NotifyEarlyAnswer
<1>3. UNCHANGED <<balance, ledger, now, order, topup, stamps, trade, sweep, failures>>
  BY DEF NotifyReturnsEarly, StripeReturnsEarly
<1>4. /\ handler' = [handler EXCEPT ![h] = Idle]
      /\ handler' \in [Handlers -> {Idle} \cup Read]
      /\ acked' \in [OrderIds -> {"no", "success", "terminal"}]
  BY <1>1, <1>2, AnswerKeeps
<1>5. TypeOK' BY <1>3, <1>4 DEF TypeOK, Read
<1>6. OpenedOnce' /\ PaidKept BY <1>3 DEF OpenedOnce, PaidKept
<1>7. Informed' BY <1>3, <1>4, EndKeeps
<1> QED BY <1>5, <1>6, <1>7

\* A stale order is expired on the spot.
LEMMA ExpireKeeps ==
  ASSUME OrdersTyped, NEW h \in Handlers, NotifyExpires(h)
  PROVE  OrdersTyped' /\ PaidKept
<1> USE DEF OrdersTyped
<1>1. handler[h] # Idle BY DEF NotifyExpires, Reading, Idle
<1>2. handler[h] \in Read BY <1>1 DEF TypeOK, Read
<1>3. handler[h].id \in OrderIds BY <1>2 DEF Read
<1>4. /\ handler' = [handler EXCEPT ![h] = Idle]
      /\ handler' \in [Handlers -> {Idle} \cup Read]
      /\ acked' \in [OrderIds -> {"no", "success", "terminal"}]
  BY <1>1, AnswerKeeps DEF NotifyExpires
<1>5. UNCHANGED <<balance, ledger, now, topup, stamps, trade, sweep, failures>>
  BY DEF NotifyExpires
<1>6. /\ order' \in [OrderIds -> OrderRow]
      /\ \A q \in OrderIds : /\ order'[q].status = "paid" <=> order[q].status = "paid"
                             /\ order[q].status = "none" => order'[q].status = "none"
  <2>1. order \in [OrderIds -> OrderRow] BY DEF TypeOK
  <2>2. CASE order[handler[h].id].status = "pending"
    <3>1. order' = [order EXCEPT ![handler[h].id].status = "expired"] BY <2>2 DEF NotifyExpires
    <3> QED BY <1>3, <2>1, <2>2, <3>1 DEF OrderRow, OrderStatus
  <2>3. CASE order[handler[h].id].status # "pending"
    <3>1. order' = order BY <2>3 DEF NotifyExpires
    <3> QED BY <2>1, <3>1
  <2> QED BY <2>2, <2>3
<1>7. TypeOK' BY <1>4, <1>5, <1>6 DEF TypeOK, Read
<1>8. OpenedOnce' /\ PaidKept BY <1>5, <1>6 DEF OpenedOnce, PaidKept
<1>9. Informed' BY <1>4, <1>5, EndKeeps
<1> QED BY <1>7, <1>8, <1>9

\* The age check passed.
LEMMA CheckKeeps ==
  ASSUME OrdersTyped, NEW h \in Handlers, NotifyChecks(h)
  PROVE  OrdersTyped' /\ PaidKept
<1> USE DEF OrdersTyped
<1>1. handler[h] # Idle /\ handler[h].settled BY DEF NotifyChecks, Reading, Idle
<1>2. handler[h] \in Read BY <1>1 DEF TypeOK, Read
<1>3. /\ handler' = [handler EXCEPT ![h] = [handler[h] EXCEPT !.pc = "credit"]]
      /\ UNCHANGED <<balance, ledger, now, order, topup, stamps, trade, acked, sweep, failures>>
  BY DEF NotifyChecks
<1> DEFINE r == [handler[h] EXCEPT !.pc = "credit"]
<1>4. /\ r \in Read /\ r.id = handler[h].id /\ r.src = handler[h].src
      /\ r.settled = handler[h].settled
  BY <1>2 DEF Read
<1> HIDE DEF r
<1>5. handler' = [handler EXCEPT ![h] = r] BY <1>3 DEF r
<1>6. TypeOK'
  <2>1. handler \in [Handlers -> {Idle} \cup Read] BY DEF TypeOK, Read
  <2>2. handler' \in [Handlers -> {Idle} \cup Read] BY <1>4, <1>5, <2>1
  <2> QED BY <1>3, <2>2 DEF TypeOK, Read
<1>7. OpenedOnce' /\ PaidKept BY <1>3 DEF OpenedOnce, PaidKept
<1>8. Informed' BY <1>1, <1>3, <1>4, <1>5 DEF TypeOK, Informed, Sources
<1> QED BY <1>6, <1>7, <1>8

\* A handler that fails.
LEMMA FailKeeps ==
  ASSUME OrdersTyped, NEW h \in Handlers, SettleFails(h)
  PROVE  OrdersTyped' /\ PaidKept
<1> USE DEF OrdersTyped
<1>1. /\ handler' = [handler EXCEPT ![h] = Idle]
      /\ UNCHANGED <<balance, ledger, now, order, topup, stamps, trade, acked, sweep>>
      /\ failures' = failures + 1
  BY DEF SettleFails
<1>2. TypeOK' BY <1>1 DEF TypeOK
<1>3. OpenedOnce' /\ PaidKept BY <1>1 DEF OpenedOnce, PaidKept
<1>4. Informed' BY <1>1, EndKeeps
<1> QED BY <1>2, <1>3, <1>4

-----------------------------------------------------------------------------
(* The sweeper and the clock.                                              *)

\* The two statements of a sweep only move pending to expired and expired to
\* deleted.
LEMMA SweepKeeps ==
  ASSUME OrdersTyped, SweepExpire \/ SweepDelete
  PROVE  OrdersTyped' /\ PaidKept
<1> USE DEF OrdersTyped
<1>1. UNCHANGED <<balance, ledger, now, topup, stamps, trade, acked, handler, failures>>
  BY DEF SweepExpire, SweepDelete
<1>2. sweep' \in Nat \cup {NotSweeping} BY DEF SweepExpire, SweepDelete, TypeOK
<1>3. /\ order' \in [OrderIds -> OrderRow]
      /\ \A q \in OrderIds : /\ order'[q].status = "paid" <=> order[q].status = "paid"
                             /\ order[q].status = "none" => order'[q].status = "none"
  <2>1. order \in [OrderIds -> OrderRow] BY DEF TypeOK
  <2>2. \A q \in OrderIds :
          \/ order'[q] = order[q]
          \/ order[q].status = "pending" /\ order'[q] = [order[q] EXCEPT !.status = "expired"]
          \/ order[q].status = "expired" /\ order'[q] = [order[q] EXCEPT !.status = "deleted"]
    BY DEF SweepExpire, SweepDelete
  <2>3. \A q \in OrderIds :
          /\ order'[q] \in OrderRow
          /\ order'[q].status = "paid" <=> order[q].status = "paid"
          /\ order[q].status = "none" => order'[q].status = "none"
    BY <2>1, <2>2 DEF OrderRow, OrderStatus
  <2>4. order' = [q \in OrderIds |-> order'[q]] BY DEF SweepExpire, SweepDelete
  <2> QED BY <2>3, <2>4
<1>4. TypeOK' BY <1>1, <1>2, <1>3 DEF TypeOK
<1>5. OpenedOnce' /\ PaidKept BY <1>1, <1>3 DEF OpenedOnce, PaidKept
<1>6. Informed' BY <1>1 DEF Informed, Sources
<1> QED BY <1>4, <1>5, <1>6

\* Time passing.
LEMMA TickKeeps ==
  ASSUME OrdersTyped, Tick
  PROVE  OrdersTyped' /\ PaidKept
<1> USE DEF OrdersTyped
<1>1. UNCHANGED <<balance, ledger, order, topup, stamps, trade, acked, handler, sweep, failures>>
  BY DEF Tick
<1>2. now' \in Nat BY DEF Tick, TypeOK
<1>3. TypeOK' BY <1>1, <1>2 DEF TypeOK
<1>4. OpenedOnce' /\ PaidKept BY <1>1 DEF OpenedOnce, PaidKept
<1>5. Informed' BY <1>1 DEF Informed, Sources
<1> QED BY <1>3, <1>4, <1>5

-----------------------------------------------------------------------------
(* The steps that credit.                                                  *)

\* A handler commits, and its answer arrives or is lost.
LEMMA CommitKeeps ==
  ASSUME OrdersTyped, PaidIffCredited, NEW h \in Handlers, SettleCommits(h) \/ AnswerLost(h)
  PROVE  /\ OrdersTyped' /\ PaidIffCredited'
         /\ handler[h] # Idle /\ handler[h].id \in OrderIds /\ UNCHANGED <<now, topup, trade, sweep>>
         /\ Credited(handler[h].id) \/ UNCHANGED <<balance, ledger, order>>
<1> USE DEF OrdersTyped
<1>1. /\ CreditPaidOrder(h) \/ CreditStripeOrder(h)
      /\ UNCHANGED <<now, topup, stamps, trade, sweep>>
      /\ failures' \in Nat
  BY DEF SettleCommits, AnswerLost, TypeOK
<1>2. /\ handler[h] # Idle /\ handler[h].id \in OrderIds
      /\ Credited(handler[h].id) \/ UNCHANGED <<balance, ledger, order>>
  BY <1>1, CreditCases
<1>3. /\ handler' = [handler EXCEPT ![h] = Idle]
      /\ handler' \in [Handlers -> {Idle} \cup Read]
      /\ acked' \in [OrderIds -> {"no", "success", "terminal"}]
  <2>1. CASE SettleCommits(h) BY <1>2, <2>1, AnswerKeeps DEF SettleCommits
  <2>2. CASE AnswerLost(h) BY <2>2 DEF AnswerLost, TypeOK, Read
  <2> QED BY <2>1, <2>2
<1>4. Informed' BY <1>1, <1>3, EndKeeps
<1>5. CASE UNCHANGED <<balance, ledger, order>>
  <2>1. TypeOK' BY <1>1, <1>3, <1>5 DEF TypeOK, Read
  <2>2. OpenedOnce' BY <1>1, <1>5 DEF OpenedOnce
  <2>3. PaidIffCredited' BY <1>1, <1>5, KeptPaid DEF PaidKept
  <2> QED BY <1>1, <1>2, <1>4, <2>1, <2>2, <2>3
<1>6. CASE Credited(handler[h].id)
  <2> DEFINE o == handler[h].id
             row == Row(Personal[Owner[o]], Owner[o], "topup", Credit[o], o, NoKey)
  <2>1. row \in CreditRow /\ row.amount \in Int /\ row.ws \in Workspaces
    BY <1>2, CreditRowType DEF CreditRow
  <2>2. balance' \in [Workspaces -> Int] /\ ledger' \in Seq(CreditRow)
    <3>1. balance \in [Workspaces -> Int] /\ ledger \in Seq(CreditRow) BY DEF TypeOK, CreditRow
    <3>2. Post(row) BY <1>6 DEF Credited
    <3> HIDE DEF row
    <3> QED BY <2>1, <3>1, <3>2 DEF Post
  <2>3. /\ order' \in [OrderIds -> OrderRow]
        /\ \A q \in OrderIds : q # o => order'[q] = order[q]
    <3>1. order \in [OrderIds -> OrderRow] /\ order' = [order EXCEPT ![o].status = "paid"]
      BY <1>6 DEF Credited, TypeOK
    <3> QED BY <1>2, <3>1 DEF OrderRow, OrderStatus
  <2>4. TypeOK' BY <1>1, <1>3, <2>2, <2>3 DEF TypeOK, Read, CreditRow
  <2>5. topup[o] = "created" BY <1>2 DEF Informed
  <2>6. OpenedOnce' BY <1>1, <2>3, <2>5 DEF OpenedOnce
  <2>7. PaidIffCredited' BY <1>2, <1>6, CreditPays
  <2> QED BY <1>1, <1>2, <1>4, <2>4, <2>6, <2>7
<1> QED BY <1>2, <1>5, <1>6

-----------------------------------------------------------------------------
(* The invariant of the money.                                             *)

\* Initially nothing is paid and nothing credited.
LEMMA PaidInit == Init => PaidInv
<1> SUFFICES ASSUME Init PROVE PaidInv OBVIOUS
<1>1. balance = [w \in Workspaces |-> 0] /\ ledger = << >> BY DEF Init, WalletInit
<1>2. TypeOK
  BY <1>1 DEF Init, TypeOK, NoOrder, OrderRow, OrderStatus
<1>3. OpenedOnce /\ Informed BY DEF Init, NoOrder, OpenedOnce, Informed
<1>4. PaidIffCredited BY <1>1 DEF Init, NoOrder, PaidIffCredited, CreditRows
<1> QED BY <1>2, <1>3, <1>4 DEF PaidInv

\* A step credits an order, or leaves the ledger and every "paid" alone.
LEMMA StepCases ==
  ASSUME PaidInv, [Next]_vars
  PROVE  \/ OrdersTyped' /\ PaidKept
         \/ \E h \in Handlers : SettleCommits(h) \/ AnswerLost(h)
<1> USE DEF PaidInv, OrdersTyped
<1>1. CASE \E o \in OrderIds : Create(o) \/ PayTrade(o) BY <1>1, TopupKeeps, PayKeeps
<1>2. CASE \E h \in Handlers, o \in OrderIds :
             \E src \in {"notify", "reconcile", "webhook", "poll"} : SettleRead(h, o, src)
  BY <1>2, ReadKeeps
<1>3. CASE \E h \in Handlers : Settle(h) \/ SettleFails(h) \/ AnswerLost(h)
  <2> PICK h \in Handlers : Settle(h) \/ SettleFails(h) \/ AnswerLost(h) BY <1>3
  <2>1. CASE NotifyReturnsEarly(h) \/ StripeReturnsEarly(h) BY <2>1, ReturnKeeps
  <2>2. CASE NotifyExpires(h) BY <2>2, ExpireKeeps
  <2>3. CASE NotifyChecks(h) BY <2>3, CheckKeeps
  <2>4. CASE SettleFails(h) BY <2>4, FailKeeps
  <2>5. CASE SettleCommits(h) \/ AnswerLost(h) BY <2>5
  <2> QED BY <2>1, <2>2, <2>3, <2>4, <2>5 DEF Settle
<1>4. CASE SweepExpire \/ SweepDelete BY <1>4, SweepKeeps
<1>5. CASE Tick BY <1>5, TickKeeps
<1>6. CASE UNCHANGED vars
  <2>1. TypeOK' BY <1>6 DEF vars, TypeOK
  <2>2. OpenedOnce' /\ Informed' BY <1>6 DEF vars, OpenedOnce, Informed, Sources
  <2>3. PaidKept BY <1>6 DEF vars, PaidKept
  <2> QED BY <2>1, <2>2, <2>3
<1> QED BY <1>1, <1>2, <1>3, <1>4, <1>5, <1>6 DEF Next

\* Every step keeps it.
LEMMA PaidStep == PaidInv /\ [Next]_vars => PaidInv'
<1> SUFFICES ASSUME PaidInv, [Next]_vars PROVE PaidInv' OBVIOUS
<1>1. CASE OrdersTyped' /\ PaidKept BY <1>1, KeptPaid DEF PaidInv, OrdersTyped
<1>2. CASE \E h \in Handlers : SettleCommits(h) \/ AnswerLost(h)
  BY <1>2, CommitKeeps DEF PaidInv, OrdersTyped
<1> QED BY <1>1, <1>2, StepCases

\* Spec keeps it.
LEMMA PaidAlways == Spec => []PaidInv
BY PaidInit, PaidStep, PTL DEF Spec

-----------------------------------------------------------------------------
(* Expired QR orders.                                                      *)

\* The credit transactions a QR order meets look for "pending" only: the ones
\* that rescue an expired order belong to handlers of the other rail.
LEMMA NoQrRescue ==
  ASSUME PaidInv, NEW h \in Handlers, SettleCommits(h) \/ AnswerLost(h), NEW o \in OrderIds,
         trade[o].rail = "qr", order[o].status \in {"expired", "deleted"}
  PROVE  order'[o].status # "paid"
<1> USE DEF PaidInv
<1> DEFINE i == handler[h].id
<1>1. (CreditPaidOrder(h) \/ CreditStripeOrder(h)) /\ UNCHANGED trade
  BY DEF SettleCommits, AnswerLost
<1>2. handler[h] # Idle /\ i \in OrderIds /\ (Credited(i) \/ UNCHANGED <<balance, ledger, order>>)
  BY <1>1, CreditCases
<1>3. CASE UNCHANGED order BY <1>3
<1>4. CASE Credited(i) /\ i # o
  <2>1. order \in [OrderIds -> OrderRow] /\ order' = [order EXCEPT ![i].status = "paid"]
    BY <1>4 DEF Credited, TypeOK
  <2>2. order'[o] = order[o] BY <1>4, <2>1
  <2> QED BY <2>2
<1>5. CASE i = o
  <2>1. handler[h].src \in {"notify", "reconcile"} BY <1>2, <1>5 DEF Informed, Sources
  <2>2. ~CreditStripeOrder(h) BY <2>1 DEF CreditStripeOrder, Reading
  <2>3. CreditIf(o, {"pending"}) BY <1>1, <1>5, <2>2 DEF CreditPaidOrder
  <2>4. UNCHANGED order BY <2>3 DEF CreditIf
  <2> QED BY <2>4
<1> QED BY <1>2, <1>3, <1>4, <1>5

\* An expired QR order is never credited (internal/saas/billing: whatever read
\* the order while it was pending, the credit transaction decides).
THEOREM QrExpiryIsFinal == Spec => ExpiredQrStaysUncredited
<1>1. PaidInv /\ [Next]_vars
        => [\A o \in OrderIds : trade[o].rail = "qr" /\ order[o].status \in {"expired", "deleted"}
                                => order'[o].status # "paid"]_vars
  <2> SUFFICES ASSUME PaidInv, [Next]_vars, NEW o \in OrderIds,
                      trade[o].rail = "qr", order[o].status \in {"expired", "deleted"}
               PROVE  order'[o].status # "paid"
    OBVIOUS
  <2>1. CASE PaidKept BY <2>1 DEF PaidKept
  <2>2. CASE \E h \in Handlers : SettleCommits(h) \/ AnswerLost(h) BY <2>2, NoQrRescue
  <2> QED BY <2>1, <2>2, StepCases
<1> QED BY <1>1, PaidAlways, PTL DEF Spec, ExpiredQrStaysUncredited

-----------------------------------------------------------------------------
(* The clock.                                                              *)

\* A Stripe trade is paid while its order is young, settled soon after, and an
\* order is deleted only when it is old.
Clocked ==
  /\ sweep <= now
  /\ \A o \in OrderIds :
       /\ trade[o].state = "open" => /\ trade[o].at <= now
                                     /\ topup[o] = "created" => trade[o].at <= order[o].created
       /\ trade[o].state = "paid" => trade[o].at <= order[o].created + PayWindow
       /\ Unsettled(o) => now <= trade[o].at + SettleWindow
       /\ order[o].status = "deleted" => order[o].created + Retention < now

\* What every step but an opening, an insertion, a payment and a tick does.
ClockKept ==
  /\ UNCHANGED <<now, trade>>
  /\ sweep' <= now
  /\ \A o \in OrderIds :
       /\ order'[o].created = order[o].created
       /\ topup'[o] = "created" => topup[o] = "created"
       /\ order[o].status = "paid" => order'[o].status = "paid"
       /\ order'[o].status = "deleted"
            => order[o].status = "deleted" \/ order[o].created + Retention < now

LEMMA KeptClock == Clocked /\ ClockKept => Clocked'
BY DEF Clocked, ClockKept, Unsettled

\* The values the comparisons are between.
LEMMA Times ==
  ASSUME TypeOK, NEW o \in OrderIds
  PROVE  /\ now \in Nat /\ trade[o].at \in Nat /\ order[o].created \in Nat /\ sweep \in Int
         /\ PayWindow \in Nat /\ SettleWindow \in Nat /\ Retention \in Nat
         /\ trade[o] \in Trade /\ order[o] \in OrderRow
BY OrdersAssumption DEF TypeOK, Trade, OrderRow, NotSweeping

\* The clock invariant, with the retention long enough, keeps the row.
LEMMA ClockKeepsRow ==
  ASSUME PayWindow + SettleWindow <= Retention, PaidInv, Clocked
  PROVE  StripeRowKept
<1> SUFFICES ASSUME NEW o \in OrderIds, trade[o].rail = "stripe", trade[o].state = "paid",
                    order[o].status = "deleted"
             PROVE  FALSE
  BY DEF StripeRowKept
<1>1. /\ trade[o].at <= order[o].created + PayWindow
      /\ now <= trade[o].at + SettleWindow
      /\ order[o].created + Retention < now
  BY DEF Clocked, Unsettled
<1> QED BY <1>1, Times DEF PaidInv

\* Creating an order: the trade is opened before the order is inserted.
LEMMA CreateClock ==
  ASSUME PaidInv, Clocked, NEW o \in OrderIds, Create(o)
  PROVE  Clocked'
<1> USE DEF PaidInv
<1>1. CASE TopupAllowed(o) \/ TopupCounted(o) \/ TopupFails(o)
  <2>1. /\ UNCHANGED <<now, trade, order, sweep>>
        /\ \A q \in OrderIds : topup'[q] = "created" => topup[q] = "created"
    BY <1>1 DEF TopupAllowed, TopupCounted, TopupFails, TypeOK
  <2>2. ClockKept BY <2>1 DEF ClockKept, Clocked
  <2> QED BY <2>2, KeptClock
<1>2. CASE \E rail \in {"qr", "stripe"} : OpenTrade(o, rail)
  <2> PICK rail \in {"qr", "stripe"} : OpenTrade(o, rail) BY <1>2
  <2>1. /\ UNCHANGED <<now, order, sweep>>
        /\ trade'[o] = [state |-> "open", at |-> now, rail |-> rail] /\ topup'[o] = "traded"
        /\ \A q \in OrderIds : q # o => trade'[q] = trade[q] /\ topup'[q] = topup[q]
    BY DEF OpenTrade, TypeOK
  <2>2. now <= now BY Times
  <2>3. \A q \in OrderIds : order'[q].status = "deleted" => order'[q].created + Retention < now'
    BY <2>1 DEF Clocked
  <2>4. \A q \in OrderIds : q # o =>
          /\ trade'[q].state = "open" => /\ trade'[q].at <= now'
                                         /\ topup'[q] = "created" => trade'[q].at <= order'[q].created
          /\ trade'[q].state = "paid" => trade'[q].at <= order'[q].created + PayWindow
          /\ Unsettled(q)' => now' <= trade'[q].at + SettleWindow
    BY <2>1 DEF Clocked, Unsettled
  <2>5. /\ trade'[o].state = "open" /\ trade'[o].at <= now' /\ topup'[o] # "created"
        /\ ~Unsettled(o)'
    BY <2>1, <2>2 DEF Unsettled
  <2>6. sweep' <= now' BY <2>1 DEF Clocked
  <2> QED BY <2>3, <2>4, <2>5, <2>6 DEF Clocked
<1>3. CASE TopupInserted(o)
  <2>1. /\ UNCHANGED <<now, trade, sweep>>
        /\ order'[o].created = now /\ order'[o].status = "pending"
        /\ \A q \in OrderIds : q # o => order'[q] = order[q] /\ topup'[q] = topup[q]
        /\ trade[o].state # "paid"
    BY <1>3 DEF TopupInserted, TypeOK, OpenedOnce
  <2>2. \A q \in OrderIds : q # o =>
          /\ trade'[q].state = "open" => /\ trade'[q].at <= now'
                                         /\ topup'[q] = "created" => trade'[q].at <= order'[q].created
          /\ trade'[q].state = "paid" => trade'[q].at <= order'[q].created + PayWindow
          /\ Unsettled(q)' => now' <= trade'[q].at + SettleWindow
          /\ order'[q].status = "deleted" => order'[q].created + Retention < now'
    BY <2>1 DEF Clocked, Unsettled
  <2>3. /\ trade'[o].state = "open" => trade'[o].at <= now' /\ trade'[o].at <= order'[o].created
        /\ trade'[o].state # "paid" /\ ~Unsettled(o)' /\ order'[o].status # "deleted"
    BY <2>1 DEF Clocked, Unsettled
  <2>4. sweep' <= now' BY <2>1 DEF Clocked
  <2> QED BY <2>2, <2>3, <2>4 DEF Clocked
<1> QED BY <1>1, <1>2, <1>3 DEF Create, TopupTrade, topupStripe

\* A payment arrives while the gateway still accepts it.
LEMMA PayClock ==
  ASSUME PaidInv, Clocked, NEW o \in OrderIds, PayTrade(o)
  PROVE  Clocked'
<1> USE DEF PaidInv
<1>1. /\ topup[o] = "created" /\ trade[o].state = "open" /\ now <= trade[o].at + PayWindow
      /\ UNCHANGED <<now, order, topup, sweep>>
      /\ trade'[o].state = "paid" /\ trade'[o].at = now
      /\ \A q \in OrderIds : q # o => trade'[q] = trade[q]
  <2>1. trade \in [OrderIds -> Trade] BY DEF TypeOK, Trade
  <2> QED BY <2>1 DEF PayTrade, Trade
<1>2. now <= order[o].created + PayWindow
  <2>1. trade[o].at <= order[o].created BY <1>1 DEF Clocked
  <2> QED BY <1>1, <2>1, Times
<1>3. now <= now + SettleWindow BY Times
<1>4. \A q \in OrderIds : q # o =>
        /\ trade'[q].state = "open" => /\ trade'[q].at <= now'
                                       /\ topup'[q] = "created" => trade'[q].at <= order'[q].created
        /\ trade'[q].state = "paid" => trade'[q].at <= order'[q].created + PayWindow
        /\ Unsettled(q)' => now' <= trade'[q].at + SettleWindow
        /\ order'[q].status = "deleted" => order'[q].created + Retention < now'
  BY <1>1 DEF Clocked, Unsettled
<1>5. /\ trade'[o].state # "open" /\ trade'[o].at <= order'[o].created + PayWindow
      /\ now' <= trade'[o].at + SettleWindow
      /\ order'[o].status = "deleted" => order'[o].created + Retention < now'
  BY <1>1, <1>2, <1>3 DEF Clocked
<1>6. sweep' <= now' BY <1>1 DEF Clocked
<1> QED BY <1>4, <1>5, <1>6 DEF Clocked

\* The clock advances, though not past an unsettled payment.
LEMMA TickClock ==
  ASSUME PaidInv, Clocked, Tick
  PROVE  Clocked'
<1> USE DEF PaidInv
<1>1. /\ UNCHANGED <<order, topup, trade, sweep>> /\ now' = now + 1
      /\ \A o \in OrderIds : Unsettled(o) => now < trade[o].at + SettleWindow
  BY DEF Tick
<1>2. now \in Nat /\ sweep \in Int BY DEF TypeOK, NotSweeping
<1>3. sweep' <= now' BY <1>1, <1>2 DEF Clocked
<1> SUFFICES ASSUME NEW o \in OrderIds
             PROVE  /\ trade[o].state = "open" =>
                         /\ trade[o].at <= now'
                         /\ topup[o] = "created" => trade[o].at <= order[o].created
                    /\ trade[o].state = "paid" => trade[o].at <= order[o].created + PayWindow
                    /\ Unsettled(o) => now' <= trade[o].at + SettleWindow
                    /\ order[o].status = "deleted" => order[o].created + Retention < now'
  BY <1>1, <1>3 DEF Clocked, Unsettled
<1>4. trade[o].state = "open" => trade[o].at <= now' BY <1>1, Times DEF Clocked
<1>5. Unsettled(o) => now' <= trade[o].at + SettleWindow
  <2>1. Unsettled(o) => now < trade[o].at + SettleWindow BY <1>1
  <2> QED BY <1>1, <2>1, Times
<1>6. order[o].status = "deleted" => order[o].created + Retention < now'
  <2>1. order[o].status = "deleted" => order[o].created + Retention < now BY DEF Clocked
  <2> QED BY <1>1, <2>1, Times
<1> QED BY <1>4, <1>5, <1>6 DEF Clocked

\* The sweeper deletes only what the tick it started at makes old.
LEMMA SweepClock ==
  ASSUME PaidInv, Clocked, SweepExpire \/ SweepDelete
  PROVE  Clocked'
<1> USE DEF PaidInv
<1>1. /\ UNCHANGED <<now, trade, topup>>
      /\ \A q \in OrderIds :
           \/ order'[q] = order[q]
           \/ order[q].status = "pending" /\ order'[q] = [order[q] EXCEPT !.status = "expired"]
           \/ /\ order[q].status = "expired" /\ order'[q] = [order[q] EXCEPT !.status = "deleted"]
              /\ order[q].created < sweep - Retention
  BY DEF SweepExpire, SweepDelete, Older
<1>2. sweep' <= now BY Times DEF SweepExpire, SweepDelete, NotSweeping, TypeOK
<1>3. ASSUME NEW q \in OrderIds
      PROVE  /\ order'[q].created = order[q].created
             /\ order[q].status = "paid" => order'[q].status = "paid"
             /\ order'[q].status = "deleted"
                  => order[q].status = "deleted" \/ order[q].created + Retention < now
  <2>1. order[q] \in OrderRow BY Times
  <2>2. CASE order'[q] = order[q] BY <2>2
  <2>3. CASE order[q].status = "pending" /\ order'[q] = [order[q] EXCEPT !.status = "expired"]
    BY <2>1, <2>3 DEF OrderRow
  <2>4. CASE /\ order[q].status = "expired" /\ order'[q] = [order[q] EXCEPT !.status = "deleted"]
             /\ order[q].created < sweep - Retention
    <3>1. order[q].created + Retention < now
      <4>1. sweep <= now BY DEF Clocked
      <4> QED BY <2>4, <4>1, Times
    <3>2. order'[q].created = order[q].created BY <2>1, <2>4 DEF OrderRow
    <3> QED BY <2>4, <3>1, <3>2
  <2> QED BY <1>1, <2>2, <2>3, <2>4
<1>4. ClockKept BY <1>1, <1>2, <1>3 DEF ClockKept
<1> QED BY <1>4, KeptClock

\* A handler's step.
LEMMA HandlerClock ==
  ASSUME PaidInv, Clocked, NEW h \in Handlers, Settle(h) \/ SettleFails(h) \/ AnswerLost(h)
  PROVE  Clocked'
<1> USE DEF PaidInv, OrdersTyped
<1>1. UNCHANGED <<now, trade, topup, sweep>>
  BY DEF Settle, NotifyReturnsEarly, NotifyExpires, NotifyChecks, StripeReturnsEarly,
         SettleCommits, SettleFails, AnswerLost
<1>2. order \in [OrderIds -> OrderRow] BY DEF TypeOK
<1>3. UNCHANGED order \/ \E o \in OrderIds, v \in {"expired", "paid"} :
        order' = [order EXCEPT ![o].status = v] /\ order[o].status # "paid"
  <2>1. CASE NotifyReturnsEarly(h) \/ NotifyChecks(h) \/ StripeReturnsEarly(h) \/ SettleFails(h)
    BY <2>1 DEF NotifyReturnsEarly, NotifyChecks, StripeReturnsEarly, SettleFails
  <2>2. CASE NotifyExpires(h)
    <3>1. handler[h] # Idle BY <2>2 DEF NotifyExpires, Reading, Idle
    <3>2. handler[h].id \in OrderIds BY <3>1 DEF TypeOK
    <3> QED BY <2>2, <3>2 DEF NotifyExpires
  <2>3. CASE SettleCommits(h) \/ AnswerLost(h) BY <2>3, CommitKeeps DEF Credited
  <2> QED BY <2>1, <2>2, <2>3 DEF Settle
<1>4. \A q \in OrderIds :
        /\ order'[q].created = order[q].created
        /\ order[q].status = "paid" => order'[q].status = "paid"
        /\ order'[q].status = "deleted" => order[q].status = "deleted"
  BY <1>2, <1>3 DEF OrderRow
<1>5. ClockKept BY <1>1, <1>4 DEF ClockKept, Clocked
<1> QED BY <1>5, KeptClock

\* Every step keeps the clock invariant.
LEMMA ClockStep ==
  ASSUME PaidInv, Clocked, [Next]_vars
  PROVE  Clocked'
<1>1. CASE \E o \in OrderIds : Create(o) \/ PayTrade(o) BY <1>1, CreateClock, PayClock
<1>2. CASE \E h \in Handlers, o \in OrderIds :
             \E src \in {"notify", "reconcile", "webhook", "poll"} : SettleRead(h, o, src)
  <2>1. UNCHANGED <<now, trade, order, topup, sweep>> BY <1>2 DEF SettleRead
  <2> QED BY <2>1 DEF Clocked, Unsettled
<1>3. CASE \E h \in Handlers : Settle(h) \/ SettleFails(h) \/ AnswerLost(h)
  BY <1>3, HandlerClock
<1>4. CASE SweepExpire \/ SweepDelete BY <1>4, SweepClock
<1>5. CASE Tick BY <1>5, TickClock
<1>6. CASE UNCHANGED vars BY <1>6 DEF vars, Clocked, Unsettled
<1> QED BY <1>1, <1>2, <1>3, <1>4, <1>5, <1>6 DEF Next

\* For every number of orders, users and handlers: an order is paid exactly
\* when its credit is on its owner's wallet, once and in full, for a trade the
\* gateway was paid for; and if an expired order is retained as long as a Stripe
\* payment may take to arrive and to be reported, no paid one loses its row.
THEOREM OrdersCorrect ==
  ASSUME PayWindow + SettleWindow <= Retention
  PROVE  Spec => []OrdersHold
<1>1. Init => Clocked
  <2> SUFFICES ASSUME Init PROVE Clocked OBVIOUS
  <2>1. now = 0 /\ sweep = -1 BY DEF Init, NotSweeping
  <2>2. \A o \in OrderIds : trade[o].state = "none" /\ order[o].status = "none"
    BY DEF Init, NoOrder
  <2> QED BY <2>1, <2>2 DEF Clocked, Unsettled
<1>2. PaidInv /\ Clocked /\ [Next]_vars => Clocked' BY ClockStep
<1>3. PaidInv /\ Clocked => OrdersHold BY ClockKeepsRow DEF PaidInv, OrdersHold
<1> QED BY <1>1, <1>2, <1>3, PaidAlways, PTL DEF Spec
=============================================================================
