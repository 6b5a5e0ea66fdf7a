---------------------------- MODULE GiftsProofs ----------------------------
(***************************************************************************)
(* Theorems about Gifts, for every number of users and gift codes, and     *)
(* about the Codex turns of MCProgress, for every number of them.          *)
(*                                                                         *)
(* Gifts: a gift that its sender is still preparing has no row yet         *)
(* (Unsent), so that the debit, the claim and the refund of a gift each    *)
(* write the first row of their kind; and each of the four transactions    *)
(* that write rows changes the headroom of one user, by as much as it      *)
(* changes what is in escrow or the real money that came in.               *)
(*                                                                         *)
(* Turns: a send is on a credential that will not be offered again or was  *)
(* allowed by a retry (Asked), nothing is shown that may still be retried  *)
(* (Shown), and a socket that holds frames nobody read is in use, not      *)
(* pooled.                                                                 *)
(***************************************************************************)
EXTENDS MCProgress, WalletProofs

-----------------------------------------------------------------------------
(* The inductive invariant.                                                *)

Unsent ==
  \A c \in Codes : send[c].pc \in {"idle", "headroom", "checked"} => gift[c].status = "none"

GiftsInv == GiftsHold /\ Unsent

GiftType == [status : {"none", "pending", "claimed", "refunded"}, claimer : Users \cup {Nobody}]
SendType == [pc : {"idle", "headroom", "checked", "sent", "done"}, headroom : Int]

-----------------------------------------------------------------------------
(* The transactions that move money.                                       *)

\* No row is written, no gift changes, no money comes in.
Quiet == UNCHANGED <<balance, ledger, gift, moved>>

Debits(c) ==
  /\ send[c].pc = "checked"
  /\ AddBalanceTx(Gift[c].sender, "adjust", -Gift[c].amount, GiftRef("gift_send", c), FALSE)
  /\ gift' = [gift EXCEPT ![c].status = "pending"]
  /\ UNCHANGED moved

Claims(c, u) ==
  /\ gift[c].status = "pending"
  /\ gift' = [gift EXCEPT ![c] = [status |-> "claimed", claimer |-> u]]
  /\ AddBalanceTx(u, "adjust", Gift[c].amount, GiftRef("gift_claim", c), TRUE)
  /\ UNCHANGED moved

Refunds(c) ==
  /\ gift[c].status = "pending"
  /\ gift' = [gift EXCEPT ![c].status = "refunded"]
  /\ AddBalanceTx(Gift[c].sender, "refund", Gift[c].amount, GiftRef("gift_refund", c), TRUE)
  /\ UNCHANGED moved

Moves(u, what) ==
  /\ <<u, what>> \notin moved
  /\ moved' = moved \cup {<<u, what>>}
  /\ CASE what = "topup" -> AddBalanceTx(u, "topup", MoneyIn[u].topup, OtherRef("order"), TRUE)
       [] what = "bonus" -> AddBalanceTx(u, "adjust", MoneyIn[u].bonus, OtherRef("signup_bonus"), TRUE)
       [] what = "spend" -> AddBalanceTx(u, "charge", -MoneyIn[u].spend, OtherRef("token"), TRUE)
  /\ UNCHANGED gift

MoneySteps ==
  \/ Quiet
  \/ \E c \in Codes : Debits(c) \/ Refunds(c)
  \/ \E c \in Codes, u \in Users : Claims(c, u)
  \/ \E u \in Users, what \in {"topup", "bonus", "spend"} : Moves(u, what)

LEMMA StepsOfMoney == TypeOK /\ [Next]_vars => MoneySteps
<1> SUFFICES ASSUME TypeOK, [Next]_vars PROVE MoneySteps
  OBVIOUS
<1> USE DEF MoneySteps, Quiet
<1>1. ASSUME NEW c \in Codes, NEW u \in Users, GiftClaimTx(c, u), UNCHANGED moved
      PROVE  Claims(c, u) \/ Quiet
  BY <1>1 DEF GiftClaimTx, Claims
<1>2. ASSUME NEW c \in Codes, SendReadHeadroom(c) \/ SendChecks(c) \/ Expire(c)
      PROVE  MoneySteps
  BY <1>2 DEF SendReadHeadroom, SendChecks, Expire
<1>3. ASSUME NEW c \in Codes, GiftSendTx(c) PROVE MoneySteps
  <2>1. CASE Affordable(Personal[Gift[c].sender], -Gift[c].amount, FALSE)
    BY <1>3, <2>1 DEF GiftSendTx, Debits
  <2>2. CASE ~Affordable(Personal[Gift[c].sender], -Gift[c].amount, FALSE)
    BY <1>3, <2>2 DEF GiftSendTx
  <2> QED BY <2>1, <2>2
<1>4. ASSUME NEW c \in Codes, SendClaim(c) PROVE MoneySteps
  <2>1. Gift[c].recipient \in Users BY GiftsAssumption
  <2>2. GiftClaimTx(c, Gift[c].recipient) \/ Quiet BY <1>4 DEF SendClaim
  <2>3. UNCHANGED moved BY <1>4 DEF SendClaim
  <2> QED BY <1>1, <2>1, <2>2, <2>3
<1>5. ASSUME NEW c \in Codes, SweepRefund(c) PROVE MoneySteps
  BY <1>5 DEF SweepRefund, GiftRefundTx, Refunds
<1>6. ASSUME NEW u \in Users, NEW c \in Codes, ClaimGiftByCode(c, u) \/ AutoClaimNext(u, c)
      PROVE  MoneySteps
  BY <1>1, <1>6 DEF ClaimGiftByCode, AutoClaimNext
<1>7. ASSUME NEW u \in Users, CreateUser(u) \/ AutoClaimList(u) \/ Disable(u) PROVE MoneySteps
  BY <1>7 DEF CreateUser, AutoClaimList, Disable
<1>8. ASSUME NEW u \in Users, NEW what \in {"topup", "bonus", "spend"}, Move(u, what)
      PROVE  MoneySteps
  <2>1. Moves(u, what) BY <1>8 DEF Move, Moves
  <2> QED BY <2>1
<1>9. CASE SweepList \/ Crash BY <1>9 DEF SweepList, Crash
<1>10. CASE UNCHANGED vars BY <1>10 DEF vars
<1> QED BY <1>2, <1>3, <1>4, <1>5, <1>6, <1>7, <1>8, <1>9, <1>10 DEF Next

\* Each of them writes one row of a gift or of other money on a personal wallet.
Posts(u, kind, amount, ref) ==
  /\ balance' = [balance EXCEPT ![Personal[u]] = @ + amount]
  /\ ledger' = Append(ledger, Row(Personal[u], u, kind, amount, ref, NoKey))

LEMMA BalanceTxPosts ==
  ASSUME NEW u \in Users, NEW kind, NEW amount \in Int, NEW ref, NEW ok,
         AddBalanceTx(u, kind, amount, ref, ok)
  PROVE  Posts(u, kind, amount, ref)
BY DEF AddBalanceTx, addWorkspaceBalanceTx, Post, Row, Posts

\* A row keeps the types, leaves the rows before it and is found by its ref.
LEMMA PostedRow ==
  ASSUME TypeOK, NEW u \in Users, NEW kind \in {"topup", "adjust", "charge", "refund"},
         NEW amount \in Int,
         NEW ref \in (GiftRefs \X Codes) \cup ({"order", "signup_bonus", "token"} \X {Nobody}),
         Posts(u, kind, amount, ref)
  PROVE  /\ balance' \in [Workspaces -> Int]
         /\ ledger' \in Seq(RowType)
         /\ Grown(ledger, ledger', Row(Personal[u], u, kind, amount, ref, NoKey))
<1> DEFINE row == Row(Personal[u], u, kind, amount, ref, NoKey)
<1>1. row \in RowType BY PersonalAssumption DEF Row, RowType
<1>2. ledger \in Seq(RowType) /\ ledger' = Append(ledger, row) BY DEF TypeOK, Posts
<1> HIDE DEF row
<1>3. ledger' \in Seq(RowType) /\ Grown(ledger, ledger', row) BY <1>1, <1>2, AppendGrows
<1>6. balance' \in [Workspaces -> Int] BY PersonalAssumption DEF TypeOK, Posts
<1> QED BY <1>3, <1>6 DEF row

-----------------------------------------------------------------------------
(* Escrow: the rows of a gift.                                             *)

RowsIn(l, what, c) == {i \in DOMAIN l : l[i].ref = GiftRef(what, c)}
OneRowIn(l, what, c, u, s) ==
  \E i \in DOMAIN l :
    /\ RowsIn(l, what, c) = {i} /\ l[i].ws = Personal[u] /\ l[i].amount = s * Gift[c].amount

\* What EscrowMatchesLedger says of a gift in state g.
Matches(l, c, g) ==
  /\ IF g.status = "none" THEN RowsIn(l, "gift_send", c) = {}
     ELSE OneRowIn(l, "gift_send", c, Gift[c].sender, -1)
  /\ IF g.status = "claimed" THEN OneRowIn(l, "gift_claim", c, g.claimer, 1)
     ELSE RowsIn(l, "gift_claim", c) = {}
  /\ IF g.status = "refunded" THEN OneRowIn(l, "gift_refund", c, Gift[c].sender, 1)
     ELSE RowsIn(l, "gift_refund", c) = {}

LEMMA EscrowIsMatches ==
  /\ EscrowMatchesLedger <=> \A c \in Codes : Matches(ledger, c, gift[c])
  /\ EscrowMatchesLedger' <=> \A c \in Codes : Matches(ledger', c, gift'[c])
BY DEF EscrowMatchesLedger, Matches, OneRow, OneRowIn, RowsFor, RowsIn

\* A row with another ref changes nothing about a gift's rows ...
LEMMA OtherRows ==
  ASSUME NEW l, NEW m, NEW r, Grown(l, m, r), NEW what, NEW c, r.ref # GiftRef(what, c)
  PROVE  /\ RowsIn(m, what, c) = RowsIn(l, what, c)
         /\ \A u, s : OneRowIn(l, what, c, u, s) => OneRowIn(m, what, c, u, s)
<1>1. RowsIn(m, what, c) = RowsIn(l, what, c)
  BY DEF Grown, RowsIn
<1>2. ASSUME NEW u, NEW s, OneRowIn(l, what, c, u, s) PROVE OneRowIn(m, what, c, u, s)
  BY <1>1, <1>2 DEF OneRowIn, Grown
<1> QED BY <1>1, <1>2

\* ... and the first with its ref is the one row of its kind.
LEMMA FirstRow ==
  ASSUME NEW l, NEW m, NEW r, Grown(l, m, r), NEW what, NEW c, r.ref = GiftRef(what, c),
         RowsIn(l, what, c) = {},
         NEW u, NEW s, r.ws = Personal[u], r.amount = s * Gift[c].amount
  PROVE  OneRowIn(m, what, c, u, s)
<1>1. RowsIn(m, what, c) = {Len(l) + 1}
  BY DEF Grown, RowsIn
<1>2. Len(l) + 1 \in DOMAIN m BY DEF Grown
<1> QED BY <1>1, <1>2 DEF OneRowIn, Grown

\* A row of no gift, or of another one, leaves a gift as it was.
LEMMA MatchesKept ==
  ASSUME NEW l, NEW m, NEW r, Grown(l, m, r), NEW c, NEW g, Matches(l, c, g),
         \A what \in GiftRefs : r.ref # GiftRef(what, c)
  PROVE  Matches(m, c, g)
<1>1. \A what \in GiftRefs :
        /\ RowsIn(m, what, c) = RowsIn(l, what, c)
        /\ \A u, s : OneRowIn(l, what, c, u, s) => OneRowIn(m, what, c, u, s)
  BY OtherRows
<1>2. "gift_send" \in GiftRefs /\ "gift_claim" \in GiftRefs /\ "gift_refund" \in GiftRefs
  BY DEF GiftRefs
<1> QED BY <1>1, <1>2 DEF Matches

LEMMA RefsDiffer ==
  /\ \A what, also, c, d : GiftRef(what, c) = GiftRef(also, d) <=> what = also /\ c = d
  /\ \A what \in GiftRefs : \A c : /\ OtherRef("order") # GiftRef(what, c)
                                   /\ OtherRef("signup_bonus") # GiftRef(what, c)
                                   /\ OtherRef("token") # GiftRef(what, c)
BY DEF GiftRef, OtherRef, GiftRefs

LEMMA GiftConstants ==
  /\ \A c \in Codes : /\ Gift[c].sender \in Users /\ Gift[c].recipient \in Users
                      /\ Gift[c].amount \in Int /\ -Gift[c].amount \in Int
                      /\ \A what \in GiftRefs : GiftRef(what, c) \in GiftRefs \X Codes
  /\ \A u \in Users : /\ MoneyIn[u].topup \in Int /\ MoneyIn[u].bonus \in Int
                      /\ MoneyIn[u].spend \in Int /\ -MoneyIn[u].spend \in Int
  /\ \A what \in {"order", "signup_bonus", "token"} :
       OtherRef(what) \in {"order", "signup_bonus", "token"} \X {Nobody}
BY GiftsAssumption DEF GiftRef, OtherRef

\* The one row each transaction writes.
DebitRow(c) ==
  Row(Personal[Gift[c].sender], Gift[c].sender, "adjust", -Gift[c].amount,
      GiftRef("gift_send", c), NoKey)
ClaimRow(c, u) ==
  Row(Personal[u], u, "adjust", Gift[c].amount, GiftRef("gift_claim", c), NoKey)
RefundRow(c) ==
  Row(Personal[Gift[c].sender], Gift[c].sender, "refund", Gift[c].amount,
      GiftRef("gift_refund", c), NoKey)
MoveRow(u, what) ==
  CASE what = "topup" -> Row(Personal[u], u, "topup", MoneyIn[u].topup, OtherRef("order"), NoKey)
    [] what = "bonus" -> Row(Personal[u], u, "adjust", MoneyIn[u].bonus, OtherRef("signup_bonus"), NoKey)
    [] what = "spend" -> Row(Personal[u], u, "charge", -MoneyIn[u].spend, OtherRef("token"), NoKey)

\* What the ledger and the balances are after a row.
Written(r) ==
  /\ balance' \in [Workspaces -> Int] /\ ledger' \in Seq(RowType)
  /\ ledger' = Append(ledger, r)
  /\ Grown(ledger, ledger', r)

LEMMA RowsWritten ==
  ASSUME TypeOK
  PROVE  /\ \A c \in Codes : /\ Debits(c) => Written(DebitRow(c))
                             /\ Refunds(c) => Written(RefundRow(c))
         /\ \A c \in Codes, u \in Users : Claims(c, u) => Written(ClaimRow(c, u))
         /\ \A u \in Users, what \in {"topup", "bonus", "spend"} :
              Moves(u, what) => Written(MoveRow(u, what))
<1>1. ASSUME NEW u \in Users, NEW kind \in {"topup", "adjust", "charge", "refund"},
             NEW amount \in Int,
             NEW ref \in (GiftRefs \X Codes) \cup ({"order", "signup_bonus", "token"} \X {Nobody}),
             NEW ok, AddBalanceTx(u, kind, amount, ref, ok)
      PROVE  Written(Row(Personal[u], u, kind, amount, ref, NoKey))
  <2>1. Posts(u, kind, amount, ref) BY <1>1, BalanceTxPosts
  <2> QED BY <2>1, PostedRow DEF Written, Posts
<1>g. GiftRefs = {"gift_send", "gift_claim", "gift_refund"} BY DEF GiftRefs
<1>2. ASSUME NEW c \in Codes, Debits(c) PROVE Written(DebitRow(c))
  BY <1>1, <1>2, <1>g, GiftConstants DEF Debits, DebitRow
<1>3. ASSUME NEW c \in Codes, Refunds(c) PROVE Written(RefundRow(c))
  BY <1>1, <1>3, <1>g, GiftConstants DEF Refunds, RefundRow
<1>4. ASSUME NEW c \in Codes, NEW u \in Users, Claims(c, u) PROVE Written(ClaimRow(c, u))
  BY <1>1, <1>4, <1>g, GiftConstants DEF Claims, ClaimRow
<1>5. ASSUME NEW u \in Users, NEW what \in {"topup", "bonus", "spend"}, Moves(u, what)
      PROVE  Written(MoveRow(u, what))
  <2>1. CASE what = "topup" BY <1>1, <1>5, <2>1, GiftConstants DEF Moves, MoveRow
  <2>2. CASE what = "bonus" BY <1>1, <1>5, <2>2, GiftConstants DEF Moves, MoveRow
  <2>3. CASE what = "spend" BY <1>1, <1>5, <2>3, GiftConstants DEF Moves, MoveRow
  <2> QED BY <2>1, <2>2, <2>3
<1> QED BY <1>2, <1>3, <1>4, <1>5

\* The debit, the claim and the refund each write the first row of their kind.
LEMMA DebitMatches ==
  ASSUME NEW l, NEW m, NEW c, NEW g, NEW h, Grown(l, m, DebitRow(c)), Matches(l, c, g),
         c \in Codes, g.status = "none", h.status = "pending"
  PROVE  Matches(m, c, h)
<1> DEFINE r == DebitRow(c)
<1>1. /\ r.ref = GiftRef("gift_send", c) /\ r.ws = Personal[Gift[c].sender]
      /\ r.amount = -1 * Gift[c].amount
  BY GiftConstants DEF DebitRow, Row
<1> HIDE DEF r
<1>2. OneRowIn(m, "gift_send", c, Gift[c].sender, -1)
  <2> DEFINE s == -1
  <2>1. Grown(l, m, r) /\ RowsIn(l, "gift_send", c) = {} BY DEF Matches, r
  <2>2. r.amount = s * Gift[c].amount BY <1>1, GiftConstants
  <2> HIDE DEF s
  <2>3. OneRowIn(m, "gift_send", c, Gift[c].sender, s) BY <1>1, <2>1, <2>2, FirstRow
  <2> QED BY <2>3 DEF s
<1>3. /\ RowsIn(m, "gift_claim", c) = RowsIn(l, "gift_claim", c)
      /\ RowsIn(m, "gift_refund", c) = RowsIn(l, "gift_refund", c)
  BY <1>1, RefsDiffer, OtherRows DEF r
<1> QED BY <1>2, <1>3 DEF Matches

LEMMA ClaimMatches ==
  ASSUME NEW l, NEW m, NEW c, NEW u, NEW g, NEW h, Grown(l, m, ClaimRow(c, u)), Matches(l, c, g),
         c \in Codes, g.status = "pending", h.status = "claimed", h.claimer = u
  PROVE  Matches(m, c, h)
<1> DEFINE r == ClaimRow(c, u)
<1>1. /\ r.ref = GiftRef("gift_claim", c) /\ r.ws = Personal[u]
      /\ r.amount = 1 * Gift[c].amount
  BY GiftConstants DEF ClaimRow, Row
<1> HIDE DEF r
<1>2. OneRowIn(m, "gift_claim", c, u, 1) BY <1>1, FirstRow DEF Matches, r
<1>3. /\ \A v, s : OneRowIn(l, "gift_send", c, v, s) => OneRowIn(m, "gift_send", c, v, s)
      /\ RowsIn(m, "gift_refund", c) = RowsIn(l, "gift_refund", c)
  BY <1>1, RefsDiffer, OtherRows DEF r
<1> QED BY <1>2, <1>3 DEF Matches

LEMMA RefundMatches ==
  ASSUME NEW l, NEW m, NEW c, NEW g, NEW h, Grown(l, m, RefundRow(c)), Matches(l, c, g),
         c \in Codes, g.status = "pending", h.status = "refunded"
  PROVE  Matches(m, c, h)
<1> DEFINE r == RefundRow(c)
<1>1. /\ r.ref = GiftRef("gift_refund", c) /\ r.ws = Personal[Gift[c].sender]
      /\ r.amount = 1 * Gift[c].amount
  BY GiftConstants DEF RefundRow, Row
<1> HIDE DEF r
<1>2. OneRowIn(m, "gift_refund", c, Gift[c].sender, 1) BY <1>1, FirstRow DEF Matches, r
<1>3. /\ \A v, s : OneRowIn(l, "gift_send", c, v, s) => OneRowIn(m, "gift_send", c, v, s)
      /\ RowsIn(m, "gift_claim", c) = RowsIn(l, "gift_claim", c)
  BY <1>1, RefsDiffer, OtherRows DEF r
<1> QED BY <1>2, <1>3 DEF Matches

LEMMA EscrowStep == GiftsInv /\ [Next]_vars => EscrowMatchesLedger'
<1> SUFFICES ASSUME GiftsInv, [Next]_vars PROVE \A c \in Codes : Matches(ledger', c, gift'[c])
  BY EscrowIsMatches
<1>0. TypeOK /\ Unsent /\ \A c \in Codes : Matches(ledger, c, gift[c])
  BY EscrowIsMatches DEF GiftsInv, GiftsHold
<1>1. gift \in [Codes -> GiftType] BY <1>0 DEF TypeOK, GiftType
<1>2. MoneySteps BY <1>0, StepsOfMoney
<1>3. CASE Quiet BY <1>0, <1>3 DEF Quiet
<1>4. ASSUME NEW c \in Codes, Debits(c) PROVE \A d \in Codes : Matches(ledger', d, gift'[d])
  <2>1. Grown(ledger, ledger', DebitRow(c)) BY <1>0, <1>4, RowsWritten DEF Written
  <2>2. /\ gift[c].status = "none" /\ gift'[c].status = "pending"
        /\ \A d \in Codes \ {c} : gift'[d] = gift[d]
    BY <1>0, <1>1, <1>4 DEF Debits, Unsent, GiftType
  <2>3. Matches(ledger', c, gift'[c]) BY <1>0, <2>1, <2>2, DebitMatches
  <2>4. ASSUME NEW d \in Codes \ {c} PROVE Matches(ledger', d, gift'[d])
    <3>1. \A what \in GiftRefs : DebitRow(c).ref # GiftRef(what, d)
      BY RefsDiffer DEF DebitRow, Row
    <3> QED BY <1>0, <2>1, <2>2, <3>1, MatchesKept
  <2> QED BY <2>3, <2>4
<1>5. ASSUME NEW c \in Codes, NEW u \in Users, Claims(c, u)
      PROVE  \A d \in Codes : Matches(ledger', d, gift'[d])
  <2>1. Grown(ledger, ledger', ClaimRow(c, u)) BY <1>0, <1>5, RowsWritten DEF Written
  <2>2. /\ gift[c].status = "pending" /\ gift'[c].status = "claimed" /\ gift'[c].claimer = u
        /\ \A d \in Codes \ {c} : gift'[d] = gift[d]
    BY <1>1, <1>5 DEF Claims
  <2>3. Matches(ledger', c, gift'[c]) BY <1>0, <2>1, <2>2, ClaimMatches
  <2>4. ASSUME NEW d \in Codes \ {c} PROVE Matches(ledger', d, gift'[d])
    <3>1. \A what \in GiftRefs : ClaimRow(c, u).ref # GiftRef(what, d)
      BY RefsDiffer DEF ClaimRow, Row
    <3> QED BY <1>0, <2>1, <2>2, <3>1, MatchesKept
  <2> QED BY <2>3, <2>4
<1>6. ASSUME NEW c \in Codes, Refunds(c) PROVE \A d \in Codes : Matches(ledger', d, gift'[d])
  <2>1. Grown(ledger, ledger', RefundRow(c)) BY <1>0, <1>6, RowsWritten DEF Written
  <2>2. /\ gift[c].status = "pending" /\ gift'[c].status = "refunded"
        /\ \A d \in Codes \ {c} : gift'[d] = gift[d]
    BY <1>1, <1>6 DEF Refunds, GiftType
  <2>3. Matches(ledger', c, gift'[c]) BY <1>0, <2>1, <2>2, RefundMatches
  <2>4. ASSUME NEW d \in Codes \ {c} PROVE Matches(ledger', d, gift'[d])
    <3>1. \A what \in GiftRefs : RefundRow(c).ref # GiftRef(what, d)
      BY RefsDiffer DEF RefundRow, Row
    <3> QED BY <1>0, <2>1, <2>2, <3>1, MatchesKept
  <2> QED BY <2>3, <2>4
<1>7. ASSUME NEW u \in Users, NEW what \in {"topup", "bonus", "spend"}, Moves(u, what)
      PROVE  \A d \in Codes : Matches(ledger', d, gift'[d])
  <2>1. Grown(ledger, ledger', MoveRow(u, what)) BY <1>0, <1>7, RowsWritten DEF Written
  <2>2. \A d : \A w \in GiftRefs : MoveRow(u, what).ref # GiftRef(w, d)
    BY RefsDiffer DEF MoveRow, Row
  <2>3. gift' = gift BY <1>7 DEF Moves
  <2> QED BY <1>0, <2>1, <2>2, <2>3, MatchesKept
<1> QED BY <1>2, <1>3, <1>4, <1>5, <1>6, <1>7 DEF MoneySteps

-----------------------------------------------------------------------------
(* Headroom: the three sums.                                               *)

RealAmounts(l, u) == [i \in 1..Len(l) |-> IF CountsAsReal(l[i], u) THEN l[i].amount ELSE 0]
Headrooms(l) == [u \in Users |-> Total(RealAmounts(l, u))]
HeadroomSum(l) == SumFunctionOnSet(Headrooms(l), Users)

Amounts == [c \in Codes |-> Gift[c].amount]
Pending(g) == {c \in Codes : g[c].status = "pending"}
EscrowSum(g) == SumFunctionOnSet(Amounts, Pending(g))

TopUps == [u \in Users |-> MoneyIn[u].topup]
Funded(m) == {u \in Users : <<u, "topup">> \in m}
RealSum(m) == SumFunctionOnSet(TopUps, Funded(m))

LEMMA ConservedIsSums ==
  /\ HeadroomConserved <=> HeadroomSum(ledger) + EscrowSum(gift) = RealSum(moved)
  /\ HeadroomConserved' <=> HeadroomSum(ledger') + EscrowSum(gift') = RealSum(moved')
BY DEF HeadroomConserved, HeadroomSum, Headrooms, GiftableHeadroom, RealAmounts, EscrowSum,
       Amounts, Pending, RealSum, TopUps, Funded

LEMMA RealAmountsAppend ==
  ASSUME NEW l \in Seq(RowType), NEW r \in RowType, NEW u
  PROVE  /\ RealAmounts(l, u) \in Seq(Int)
         /\ RealAmounts(Append(l, r), u) =
              Append(RealAmounts(l, u), IF CountsAsReal(r, u) THEN r.amount ELSE 0)
<1> DEFINE m == Append(l, r)
           x == IF CountsAsReal(r, u) THEN r.amount ELSE 0
           s == RealAmounts(l, u)
           t == RealAmounts(m, u)
<1>1. \A i \in 1..Len(l) : l[i].amount \in Int
  <2>1. \A i \in 1..Len(l) : l[i] \in RowType OBVIOUS
  <2> QED BY <2>1 DEF RowType
<1>2. s \in Seq(Int) /\ Len(s) = Len(l) BY <1>1 DEF RealAmounts
<1>3. x \in Int BY DEF RowType
<1>4. /\ m \in Seq(RowType) /\ Len(m) = Len(l) + 1 /\ m[Len(l) + 1] = r
      /\ \A i \in 1..Len(l) : m[i] = l[i]
  OBVIOUS
<1>5. t = Append(s, x)
  <2>1. t \in Seq(Int) /\ Len(t) = Len(l) + 1
    <3>1. \A i \in 1..Len(m) : m[i] \in RowType BY <1>4
    <3>2. \A i \in 1..Len(m) : m[i].amount \in Int BY <3>1 DEF RowType
    <3> QED BY <1>4, <3>2 DEF RealAmounts
  <2>2. Append(s, x) \in Seq(Int) /\ Len(Append(s, x)) = Len(l) + 1 BY <1>2, <1>3
  <2>3. ASSUME NEW i \in 1..(Len(l) + 1) PROVE t[i] = Append(s, x)[i]
    <3> USE <1>2, <1>3, <1>4 DEF RealAmounts
    <3>1. CASE i \in 1..Len(l) BY <3>1
    <3>2. CASE i = Len(l) + 1 BY <3>2
    <3> QED BY <3>1, <3>2
  <2> HIDE DEF t, s, x
  <2> QED BY <2>1, <2>2, <2>3
<1> QED BY <1>2, <1>5

\* A row on a user's wallet is real money of that user or of nobody.
Real(r) == r.kind = "topup" \/ r.ref[1] \in GiftRefs

LEMMA HeadroomSumAppend ==
  ASSUME NEW l \in Seq(RowType), NEW r \in RowType, NEW u \in Users,
         r.user = u, r.ws = Personal[u]
  PROVE  /\ HeadroomSum(l) \in Int
         /\ HeadroomSum(Append(l, r)) = HeadroomSum(l) + (IF Real(r) THEN r.amount ELSE 0)
<1> DEFINE f == Headrooms(l)
           h == Headrooms(Append(l, r))
           d == IF Real(r) THEN r.amount ELSE 0
<1>1. \A v \in Users : RealAmounts(l, v) \in Seq(Int) BY RealAmountsAppend
<1>2. \A v \in Users : f[v] \in Int BY <1>1, TotalType DEF Headrooms
<1>3. \A v \in Users : h[v] = f[v] + (IF CountsAsReal(r, v) THEN r.amount ELSE 0)
  <2> TAKE v \in Users
  <2> DEFINE x == IF CountsAsReal(r, v) THEN r.amount ELSE 0
  <2>1. x \in Int BY DEF RowType
  <2>2. RealAmounts(Append(l, r), v) = Append(RealAmounts(l, v), x) BY RealAmountsAppend
  <2> HIDE DEF x
  <2>3. Total(RealAmounts(Append(l, r), v)) = Total(RealAmounts(l, v)) + x
    BY <1>1, <2>1, <2>2, TotalAppend
  <2> QED BY <2>3 DEF Headrooms, x
<1>4. CountsAsReal(r, u) = Real(r) /\ \A v \in Users \ {u} : ~CountsAsReal(r, v)
  BY GiftsAssumption DEF CountsAsReal, Real
<1>5. d \in Int BY DEF RowType
<1>6. h[u] = f[u] + d BY <1>3, <1>4
<1>7. \A v \in Users \ {u} : h[v] = f[v]
  <2>1. ASSUME NEW v \in Users \ {u} PROVE h[v] = f[v]
    <3>1. f[v] \in Int /\ h[v] = f[v] + 0 BY <1>2, <1>3, <1>4
    <3> HIDE DEF f, h
    <3> QED BY <3>1
  <2> QED BY <2>1
<1>8. IsFiniteSet(Users) BY GiftsAssumption
<1> HIDE DEF f, h, d
<1>9. SumFunctionOnSet(h, Users) = SumFunctionOnSet(f, Users) + d
  BY <1>2, <1>5, <1>6, <1>7, <1>8, SumChange
<1>10. SumFunctionOnSet(f, Users) \in Int BY <1>2, <1>8, SumType
<1> QED BY <1>9, <1>10 DEF HeadroomSum, f, h, d

LEMMA EscrowSumType ==
  ASSUME NEW g
  PROVE  EscrowSum(g) \in Int
<1>1. IsFiniteSet(Pending(g)) BY GiftsAssumption, FS_Subset DEF Pending
<1>2. \A d \in Pending(g) : Amounts[d] \in Int BY GiftConstants DEF Amounts, Pending
<1> QED BY <1>1, <1>2, SumType DEF EscrowSum

\* A gift that enters escrow, or leaves it, changes what is in escrow by its amount.
LEMMA EscrowSumChange ==
  ASSUME NEW g, NEW h, NEW c \in Codes, \A d \in Codes \ {c} : h[d] = g[d],
         g[c].status # "pending", h[c].status = "pending"
  PROVE  /\ EscrowSum(g) \in Int
         /\ EscrowSum(h) = EscrowSum(g) + Gift[c].amount
<1>1. IsFiniteSet(Pending(g)) BY GiftsAssumption, FS_Subset DEF Pending
<1>2. c \notin Pending(g) /\ Pending(h) = Pending(g) \cup {c} BY DEF Pending
<1>3. \A d \in Pending(g) \cup {c} : Amounts[d] \in Int
  BY GiftConstants DEF Amounts, Pending
<1>4. SumFunctionOnSet(Amounts, Pending(g) \cup {c}) = Amounts[c] + SumFunctionOnSet(Amounts, Pending(g))
  BY <1>1, <1>2, <1>3, SumAdd
<1>5. SumFunctionOnSet(Amounts, Pending(g)) \in Int BY <1>1, <1>3, SumType
<1>6. Amounts[c] = Gift[c].amount /\ Gift[c].amount \in Int BY GiftConstants DEF Amounts
<1> QED BY <1>2, <1>4, <1>5, <1>6 DEF EscrowSum

LEMMA RealSumChange ==
  ASSUME NEW m, NEW u \in Users, <<u, "topup">> \notin m
  PROVE  /\ RealSum(m) \in Int
         /\ RealSum(m \cup {<<u, "topup">>}) = RealSum(m) + MoneyIn[u].topup
<1> DEFINE n == m \cup {<<u, "topup">>}
<1>1. IsFiniteSet(Funded(m)) BY GiftsAssumption, FS_Subset DEF Funded
<1>2. u \notin Funded(m) /\ Funded(n) = Funded(m) \cup {u} BY DEF Funded
<1>3. \A v \in Funded(m) \cup {u} : TopUps[v] \in Int BY GiftConstants DEF TopUps, Funded
<1>4. SumFunctionOnSet(TopUps, Funded(m) \cup {u}) = TopUps[u] + SumFunctionOnSet(TopUps, Funded(m))
  BY <1>1, <1>2, <1>3, SumAdd
<1>5. SumFunctionOnSet(TopUps, Funded(m)) \in Int BY <1>1, <1>3, SumType
<1>6. TopUps[u] = MoneyIn[u].topup /\ MoneyIn[u].topup \in Int BY GiftConstants DEF TopUps
<1> HIDE DEF n
<1>7. RealSum(n) = RealSum(m) + MoneyIn[u].topup BY <1>2, <1>4, <1>5, <1>6 DEF RealSum
<1> QED BY <1>5, <1>7 DEF RealSum, n

LEMMA HeadroomStep == GiftsInv /\ [Next]_vars => HeadroomConserved'
<1> SUFFICES ASSUME GiftsInv, [Next]_vars PROVE HeadroomConserved' OBVIOUS
<1> USE DEF Written
<1>0. TypeOK /\ Unsent /\ HeadroomConserved BY DEF GiftsInv, GiftsHold
<1>1. /\ ledger \in Seq(RowType) /\ gift \in [Codes -> GiftType]
      /\ HeadroomSum(ledger) + EscrowSum(gift) = RealSum(moved)
  BY <1>0, ConservedIsSums DEF TypeOK, GiftType
<1>2. MoneySteps BY <1>0, StepsOfMoney
<1>g. GiftRefs = {"gift_send", "gift_claim", "gift_refund"} BY DEF GiftRefs
<1>3. CASE Quiet BY <1>1, <1>3, ConservedIsSums DEF Quiet
\* A row of a gift, or of a top-up, adds its amount; no other row adds anything.
<1>4. ASSUME NEW r \in RowType, NEW u \in Users, r.user = u, r.ws = Personal[u],
             ledger' = Append(ledger, r)
      PROVE  /\ HeadroomSum(ledger) \in Int
             /\ HeadroomSum(ledger') = HeadroomSum(ledger) + (IF Real(r) THEN r.amount ELSE 0)
  BY <1>1, <1>4, HeadroomSumAppend
<1>5. ASSUME NEW c \in Codes, Debits(c) PROVE HeadroomConserved'
  <2>1. ledger' = Append(ledger, DebitRow(c)) BY <1>0, <1>5, RowsWritten
  <2>2. /\ DebitRow(c) \in RowType /\ Real(DebitRow(c))
        /\ DebitRow(c).user = Gift[c].sender /\ DebitRow(c).ws = Personal[Gift[c].sender]
        /\ DebitRow(c).amount = -Gift[c].amount
    BY <1>g, GiftConstants, PersonalAssumption DEF DebitRow, Row, RowType, Real, GiftRef
  <2>3. Gift[c].sender \in Users /\ Gift[c].amount \in Int BY GiftConstants
  <2>4. /\ HeadroomSum(ledger) \in Int
        /\ HeadroomSum(ledger') = HeadroomSum(ledger) - Gift[c].amount
    BY <1>4, <2>1, <2>2, <2>3
  <2>5. /\ gift[c].status # "pending" /\ gift'[c].status = "pending"
        /\ \A d \in Codes \ {c} : gift'[d] = gift[d]
    BY <1>0, <1>1, <1>5 DEF Debits, Unsent, GiftType
  <2>6. EscrowSum(gift) \in Int /\ EscrowSum(gift') = EscrowSum(gift) + Gift[c].amount
    BY <2>5, EscrowSumChange
  <2>7. moved' = moved BY <1>5 DEF Debits
  <2> QED BY <1>1, <2>3, <2>4, <2>6, <2>7, ConservedIsSums
<1>6. ASSUME NEW c \in Codes, NEW u \in Users, Claims(c, u) PROVE HeadroomConserved'
  <2>1. ledger' = Append(ledger, ClaimRow(c, u)) BY <1>0, <1>6, RowsWritten
  <2>2. /\ ClaimRow(c, u) \in RowType /\ Real(ClaimRow(c, u))
        /\ ClaimRow(c, u).user = u /\ ClaimRow(c, u).ws = Personal[u]
        /\ ClaimRow(c, u).amount = Gift[c].amount
    BY <1>g, GiftConstants, PersonalAssumption DEF ClaimRow, Row, RowType, Real, GiftRef
  <2>3. Gift[c].amount \in Int BY GiftConstants
  <2>4. /\ HeadroomSum(ledger) \in Int
        /\ HeadroomSum(ledger') = HeadroomSum(ledger) + Gift[c].amount
    BY <1>4, <2>1, <2>2, <2>3
  <2>5. /\ gift[c].status = "pending" /\ gift'[c].status # "pending"
        /\ \A d \in Codes \ {c} : gift[d] = gift'[d]
    BY <1>1, <1>6 DEF Claims
  <2>6. EscrowSum(gift') \in Int /\ EscrowSum(gift) = EscrowSum(gift') + Gift[c].amount
    BY <2>5, EscrowSumChange
  <2>7. moved' = moved BY <1>6 DEF Claims
  <2> QED BY <1>1, <2>3, <2>4, <2>6, <2>7, ConservedIsSums
<1>7. ASSUME NEW c \in Codes, Refunds(c) PROVE HeadroomConserved'
  <2>1. ledger' = Append(ledger, RefundRow(c)) BY <1>0, <1>7, RowsWritten
  <2>2. /\ RefundRow(c) \in RowType /\ Real(RefundRow(c))
        /\ RefundRow(c).user = Gift[c].sender /\ RefundRow(c).ws = Personal[Gift[c].sender]
        /\ RefundRow(c).amount = Gift[c].amount
    BY <1>g, GiftConstants, PersonalAssumption DEF RefundRow, Row, RowType, Real, GiftRef
  <2>3. Gift[c].sender \in Users /\ Gift[c].amount \in Int BY GiftConstants
  <2>4. /\ HeadroomSum(ledger) \in Int
        /\ HeadroomSum(ledger') = HeadroomSum(ledger) + Gift[c].amount
    BY <1>4, <2>1, <2>2, <2>3
  <2>5. /\ gift[c].status = "pending" /\ gift'[c].status # "pending"
        /\ \A d \in Codes \ {c} : gift[d] = gift'[d]
    BY <1>1, <1>7 DEF Refunds, GiftType
  <2>6. EscrowSum(gift') \in Int /\ EscrowSum(gift) = EscrowSum(gift') + Gift[c].amount
    BY <2>5, EscrowSumChange
  <2>7. moved' = moved BY <1>7 DEF Refunds
  <2> QED BY <1>1, <2>3, <2>4, <2>6, <2>7, ConservedIsSums
<1>8. ASSUME NEW u \in Users, NEW what \in {"topup", "bonus", "spend"}, Moves(u, what)
      PROVE  HeadroomConserved'
  <2>1. ledger' = Append(ledger, MoveRow(u, what)) BY <1>0, <1>8, RowsWritten
  <2>2. /\ MoveRow(u, what) \in RowType
        /\ MoveRow(u, what).user = u /\ MoveRow(u, what).ws = Personal[u]
    BY GiftConstants, PersonalAssumption DEF MoveRow, Row, RowType
  <2>3. gift' = gift /\ moved' = moved \cup {<<u, what>>} BY <1>8 DEF Moves
  <2>4. CASE what = "topup"
    <3>1. Real(MoveRow(u, what)) /\ MoveRow(u, what).amount = MoneyIn[u].topup
      BY <2>4 DEF MoveRow, Row, Real
    <3>2. /\ HeadroomSum(ledger) \in Int
          /\ HeadroomSum(ledger') = HeadroomSum(ledger) + MoneyIn[u].topup
      BY <1>4, <2>1, <2>2, <3>1
    <3>3. RealSum(moved) \in Int /\ RealSum(moved') = RealSum(moved) + MoneyIn[u].topup
      BY <1>8, <2>3, <2>4, RealSumChange DEF Moves
    <3>4. MoneyIn[u].topup \in Int BY GiftConstants
    <3>5. EscrowSum(gift) \in Int BY EscrowSumType
    <3> QED BY <1>1, <2>3, <3>2, <3>3, <3>4, <3>5, ConservedIsSums
  <2>5. CASE what # "topup"
    <3>1. ~Real(MoveRow(u, what))
      BY <1>g, <2>5 DEF MoveRow, Row, Real, OtherRef
    <3>2. HeadroomSum(ledger) \in Int /\ HeadroomSum(ledger') = HeadroomSum(ledger) + 0
      BY <1>4, <2>1, <2>2, <3>1
    <3>3. Funded(moved') = Funded(moved) BY <2>3, <2>5 DEF Funded
    <3> QED BY <1>1, <2>3, <3>2, <3>3, ConservedIsSums DEF RealSum
  <2> QED BY <2>4, <2>5
<1> QED BY <1>2, <1>3, <1>5, <1>6, <1>7, <1>8 DEF MoneySteps

-----------------------------------------------------------------------------
(* Types, unsent gifts and stranded gifts.                                 *)

LEMMA MoneyTypes ==
  ASSUME TypeOK, MoneySteps
  PROVE  balance' \in [Workspaces -> Int] /\ ledger' \in Seq(RowType) /\ gift' \in [Codes -> GiftType]
         /\ moved' \subseteq (Users \X {"topup", "bonus", "spend"})
<1> USE RowsWritten DEF Written, GiftType
<1>1. CASE Quiet BY <1>1 DEF Quiet, TypeOK
<1>2. ASSUME NEW c \in Codes, Debits(c) \/ Refunds(c)
      PROVE  balance' \in [Workspaces -> Int] /\ ledger' \in Seq(RowType)
             /\ gift' \in [Codes -> GiftType] /\ moved' = moved
  <2>1. CASE Debits(c) BY <2>1 DEF Debits, TypeOK
  <2>2. CASE Refunds(c) BY <2>2 DEF Refunds, TypeOK
  <2> QED BY <1>2, <2>1, <2>2
<1>3. ASSUME NEW c \in Codes, NEW u \in Users, Claims(c, u)
      PROVE  balance' \in [Workspaces -> Int] /\ ledger' \in Seq(RowType)
             /\ gift' \in [Codes -> GiftType] /\ moved' = moved
  BY <1>3 DEF Claims, TypeOK
<1>4. ASSUME NEW u \in Users, NEW what \in {"topup", "bonus", "spend"}, Moves(u, what)
      PROVE  balance' \in [Workspaces -> Int] /\ ledger' \in Seq(RowType)
             /\ gift' = gift /\ moved' = moved \cup {<<u, what>>}
  BY <1>4 DEF Moves
<1> QED BY <1>1, <1>2, <1>3, <1>4 DEF MoneySteps, TypeOK

\* The state that is not money.
RestType ==
  /\ expired \subseteq Codes
  /\ send \in [Codes -> SendType]
  /\ account \in [Users -> {"absent", "created", "registered"}]
  /\ disabled \subseteq Users
  /\ listed \in [Users -> SUBSET Codes]
  /\ sweeping \subseteq Codes
  /\ crashes \in Nat

LEMMA HeadroomType == TypeOK => \A u : GiftableHeadroom(u) \in Int
<1> SUFFICES ASSUME TypeOK, NEW u PROVE GiftableHeadroom(u) \in Int OBVIOUS
<1>1. \A i \in 1..Len(ledger) : ledger[i] \in RowType BY DEF TypeOK
<1>2. \A i \in 1..Len(ledger) : ledger[i].amount \in Int BY <1>1 DEF RowType
<1>3. Len(ledger) \in Nat BY DEF TypeOK
<1>4. [i \in 1..Len(ledger) |-> IF CountsAsReal(ledger[i], u) THEN ledger[i].amount ELSE 0] \in Seq(Int)
  BY <1>2, <1>3
<1> QED BY <1>4, TotalType DEF GiftableHeadroom

LEMMA RestTypeStep == TypeOK /\ [Next]_vars => RestType'
<1> SUFFICES ASSUME TypeOK, [Next]_vars PROVE RestType' OBVIOUS
<1>0. RestType BY DEF TypeOK, RestType, SendType
<1> USE DEF RestType, SendType
<1>1. ASSUME NEW c \in Codes, SendReadHeadroom(c) PROVE RestType'
  BY <1>0, <1>1, HeadroomType DEF SendReadHeadroom
<1>2. ASSUME NEW c \in Codes, SendChecks(c) PROVE RestType'
  BY <1>0, <1>2 DEF SendChecks
<1>3. ASSUME NEW c \in Codes, GiftSendTx(c) PROVE RestType'
  <2>1. send' = [send EXCEPT ![c].pc = "sent"] \/ send' = [send EXCEPT ![c].pc = "done"]
    BY <1>3 DEF GiftSendTx
  <2>2. UNCHANGED <<expired, account, disabled, listed, sweeping, crashes>>
    BY <1>3 DEF GiftSendTx
  <2> QED BY <1>0, <2>1, <2>2
<1>4. ASSUME NEW c \in Codes, SendClaim(c) PROVE RestType'
  BY <1>0, <1>4 DEF SendClaim
<1>5. ASSUME NEW c \in Codes, SweepRefund(c) \/ Expire(c) PROVE RestType'
  BY <1>0, <1>5 DEF SweepRefund, Expire
<1>6. ASSUME NEW u \in Users, NEW c \in Codes, ClaimGiftByCode(c, u) \/ AutoClaimNext(u, c)
      PROVE  RestType'
  BY <1>0, <1>6 DEF ClaimGiftByCode, AutoClaimNext
<1>7. ASSUME NEW u \in Users, CreateUser(u) \/ AutoClaimList(u) \/ Disable(u) PROVE RestType'
  BY <1>0, <1>7 DEF CreateUser, AutoClaimList, Disable, PendingFor
<1>8. ASSUME NEW u \in Users, NEW what \in {"topup", "bonus", "spend"}, Move(u, what)
      PROVE  RestType'
  BY <1>0, <1>8 DEF Move
<1>9. CASE SweepList BY <1>0, <1>9 DEF SweepList
<1>10. CASE Crash BY <1>0, <1>10 DEF Crash
<1>11. CASE UNCHANGED vars BY <1>0, <1>11 DEF vars
<1> QED BY <1>1, <1>2, <1>3, <1>4, <1>5, <1>6, <1>7, <1>8, <1>9, <1>10, <1>11 DEF Next

LEMMA TypeStep == TypeOK /\ [Next]_vars => TypeOK'
BY StepsOfMoney, MoneyTypes, RestTypeStep DEF TypeOK, RestType, GiftType, SendType

\* Only the sender's own transaction gives a gift a status.
LEMMA UnsentStep == TypeOK /\ Unsent /\ [Next]_vars => Unsent'
<1> SUFFICES ASSUME TypeOK, Unsent, [Next]_vars PROVE Unsent' OBVIOUS
<1>0. gift \in [Codes -> GiftType] /\ send \in [Codes -> SendType]
  BY DEF TypeOK, GiftType, SendType
<1> USE DEF Unsent, GiftType, SendType
<1>1. ASSUME NEW c \in Codes, SendReadHeadroom(c) PROVE Unsent'
  BY <1>0, <1>1 DEF SendReadHeadroom
<1>2. ASSUME NEW c \in Codes, SendChecks(c) PROVE Unsent'
  BY <1>0, <1>2 DEF SendChecks
<1>3. ASSUME NEW c \in Codes, GiftSendTx(c) PROVE Unsent'
  <2>1. send'[c].pc \in {"sent", "done"} BY <1>0, <1>3 DEF GiftSendTx
  <2>2. \A d \in Codes \ {c} : send'[d] = send[d] /\ gift'[d] = gift[d]
    BY <1>0, <1>3 DEF GiftSendTx
  <2> QED BY <2>1, <2>2
<1>4. ASSUME NEW c \in Codes, SendClaim(c) PROVE Unsent'
  BY <1>0, <1>4 DEF SendClaim, GiftClaimTx
<1>5. ASSUME NEW c \in Codes, SweepRefund(c) \/ Expire(c) PROVE Unsent'
  BY <1>0, <1>5 DEF SweepRefund, GiftRefundTx, Expire
<1>6. ASSUME NEW u \in Users, NEW c \in Codes, ClaimGiftByCode(c, u) \/ AutoClaimNext(u, c)
      PROVE  Unsent'
  BY <1>0, <1>6 DEF ClaimGiftByCode, AutoClaimNext, GiftClaimTx
<1>7. ASSUME NEW u \in Users, CreateUser(u) \/ AutoClaimList(u) \/ Disable(u) PROVE Unsent'
  BY <1>7 DEF CreateUser, AutoClaimList, Disable
<1>8. ASSUME NEW u \in Users, NEW what \in {"topup", "bonus", "spend"}, Move(u, what)
      PROVE  Unsent'
  BY <1>8 DEF Move
<1>9. CASE SweepList BY <1>9 DEF SweepList
<1>10. CASE Crash BY <1>0, <1>10 DEF Crash
<1>11. CASE UNCHANGED vars BY <1>11 DEF vars
<1> QED BY <1>1, <1>2, <1>3, <1>4, <1>5, <1>6, <1>7, <1>8, <1>9, <1>10, <1>11 DEF Next

\* A gift that is pending when its requests are over is on its recipient's list.
LEMMA StrandedStep == TypeOK /\ Unsent /\ NoStrandedGift /\ [Next]_vars => NoStrandedGift'
<1> SUFFICES ASSUME TypeOK, Unsent, NoStrandedGift, [Next]_vars PROVE NoStrandedGift' OBVIOUS
<1>0. /\ gift \in [Codes -> GiftType] /\ send \in [Codes -> SendType]
      /\ account \in [Users -> {"absent", "created", "registered"}]
      /\ listed \in [Users -> SUBSET Codes] /\ crashes \in Nat
      /\ \A c \in Codes : Gift[c].recipient \in Users
  BY GiftConstants DEF TypeOK, GiftType, SendType
<1> USE DEF NoStrandedGift, Unsent, GiftType, SendType
<1>1. ASSUME NEW c \in Codes, SendReadHeadroom(c) PROVE NoStrandedGift'
  BY <1>0, <1>1 DEF SendReadHeadroom
<1>2. ASSUME NEW c \in Codes, SendChecks(c) PROVE NoStrandedGift'
  BY <1>0, <1>2 DEF SendChecks
<1>3. ASSUME NEW c \in Codes, GiftSendTx(c) PROVE NoStrandedGift'
  <2>1. send[c].pc = "checked" /\ UNCHANGED <<account, listed, crashes, disabled>>
    BY <1>3 DEF GiftSendTx
  <2>2. \/ /\ gift' = [gift EXCEPT ![c].status = "pending"]
           /\ send' = [send EXCEPT ![c].pc = "sent"]
        \/ gift' = gift /\ send' = [send EXCEPT ![c].pc = "done"]
    BY <1>3 DEF GiftSendTx
  <2>3. gift[c].status = "none" BY <2>1
  <2>4. CASE gift' = [gift EXCEPT ![c].status = "pending"] /\ send' = [send EXCEPT ![c].pc = "sent"]
    BY <1>0, <2>1, <2>4
  <2>5. CASE gift' = gift /\ send' = [send EXCEPT ![c].pc = "done"]
    BY <1>0, <2>1, <2>3, <2>5
  <2> QED BY <2>2, <2>4, <2>5
<1>4. ASSUME NEW c \in Codes, SendClaim(c) PROVE NoStrandedGift'
  <2>1. send' = [send EXCEPT ![c].pc = "done"] /\ UNCHANGED <<account, listed, crashes, disabled>>
    BY <1>4 DEF SendClaim
  <2>2. \/ gift' = gift /\ gift[c].status # "pending"
        \/ gift' = gift /\ (account[Gift[c].recipient] = "absent" \/ Gift[c].recipient \in disabled)
        \/ gift' = [gift EXCEPT ![c] = [status |-> "claimed", claimer |-> Gift[c].recipient]]
    BY <1>4 DEF SendClaim, GiftClaimTx
  <2> QED BY <1>0, <2>1, <2>2
<1>5. ASSUME NEW c \in Codes, SweepRefund(c) \/ Expire(c) PROVE NoStrandedGift'
  BY <1>0, <1>5 DEF SweepRefund, GiftRefundTx, Expire
<1>6. ASSUME NEW u \in Users, NEW c \in Codes, ClaimGiftByCode(c, u) \/ AutoClaimNext(u, c)
      PROVE  NoStrandedGift'
  <2>1. \/ gift' = gift /\ gift[c].status # "pending"
        \/ gift' = [gift EXCEPT ![c] = [status |-> "claimed", claimer |-> u]]
    BY <1>6 DEF ClaimGiftByCode, AutoClaimNext, GiftClaimTx
  <2>2. /\ listed' = listed \/ listed' = [listed EXCEPT ![u] = @ \ {c}]
        /\ UNCHANGED <<send, account, crashes, disabled>>
    BY <1>6 DEF ClaimGiftByCode, AutoClaimNext
  <2> QED BY <1>0, <2>1, <2>2
<1>7. ASSUME NEW u \in Users, CreateUser(u) \/ Disable(u) PROVE NoStrandedGift'
  BY <1>0, <1>7 DEF CreateUser, Disable
<1>8. ASSUME NEW u \in Users, AutoClaimList(u) PROVE NoStrandedGift'
  BY <1>0, <1>8, GiftsAssumption DEF AutoClaimList, PendingFor
<1>9. ASSUME NEW u \in Users, NEW what \in {"topup", "bonus", "spend"}, Move(u, what)
      PROVE  NoStrandedGift'
  BY <1>9 DEF Move
<1>10. CASE SweepList BY <1>10 DEF SweepList
<1>11. CASE Crash BY <1>0, <1>11 DEF Crash
<1>12. CASE UNCHANGED vars BY <1>12 DEF vars
<1> QED
  BY <1>1, <1>2, <1>3, <1>4, <1>5, <1>6, <1>7, <1>8, <1>9, <1>10, <1>11, <1>12 DEF Next

-----------------------------------------------------------------------------
(* The theorem.                                                            *)

LEMMA GiftsInit == Init => GiftsInv
<1> SUFFICES ASSUME Init PROVE GiftsInv OBVIOUS
<1> USE DEF Init, WalletInit
<1>1. TypeOK BY DEF TypeOK
<1>2. Unsent BY DEF Unsent
<1>3. EscrowMatchesLedger BY DEF EscrowMatchesLedger, RowsFor
<1>4. HeadroomConserved
  <2>1. \A u \in Users : Headrooms(ledger)[u] = 0
    <3> TAKE u \in Users
    <3>1. RealAmounts(ledger, u) = << >> BY DEF RealAmounts
    <3> QED BY <3>1, TotalEmpty DEF Headrooms
  <2>2. HeadroomSum(ledger) = 0
    <3> DEFINE f == Headrooms(ledger)
    <3>1. \A v \in Users : f[v] = 0 BY <2>1
    <3>2. IsFiniteSet(Users) BY GiftsAssumption
    <3> HIDE DEF f
    <3>3. SumFunctionOnSet(f, Users) = 0 BY <3>1, <3>2, SumOfZeros
    <3> QED BY <3>3 DEF HeadroomSum, f
  <2>3. Pending(gift) = {} BY DEF Pending
  <2>4. Funded(moved) = {} BY DEF Funded
  <2>5. EscrowSum(gift) = 0 BY <2>3, SumOfNone DEF EscrowSum
  <2>6. RealSum(moved) = 0 BY <2>4, SumOfNone DEF RealSum
  <2>7. HeadroomSum(ledger) + EscrowSum(gift) = RealSum(moved) BY <2>2, <2>5, <2>6
  <2> QED BY <2>7, ConservedIsSums
<1>5. NoStrandedGift BY DEF NoStrandedGift
<1> QED BY <1>1, <1>2, <1>3, <1>4, <1>5 DEF GiftsInv, GiftsHold

LEMMA GiftsStep == GiftsInv /\ [Next]_vars => GiftsInv'
BY TypeStep, UnsentStep, StrandedStep, EscrowStep, HeadroomStep DEF GiftsInv, GiftsHold

\* Gifts are escrow: a gift's status and its rows tell the same story, headroom
\* is conserved across all transfers, and no gift is stranded; for any number of
\* users and gifts.
THEOREM GiftsCorrect == Spec => []GiftsHold
<1>1. GiftsInv => GiftsHold BY DEF GiftsInv
<1> QED BY <1>1, GiftsInit, GiftsStep, PTL DEF Spec

-----------------------------------------------------------------------------
(* One Codex request at a time on its way through the credentials.          *)

\* What a turn remembers.
TurnType ==
  [kind : T!Kinds, pc : {"acquire", "sent", "answer", "paused", "done"},
   cred : T!Creds \cup {T!NoCred}, via : {"http", "ws"}, reused : BOOLEAN,
   tried : SUBSET T!Creds, staleRetried : SUBSET OAuth, shedRetried : [OAuth -> 0..2], oauth : Nat,
   sends : [T!Creds -> Nat], header : BOOLEAN, wrote : BOOLEAN, deferred : BOOLEAN,
   rows : Seq({"upstream", "503", "499", "502", "200"}), charged : {0, 1}]

\* Where a turn may be: a send is on a credential it will not be offered again,
\* a WebSocket is read by a native turn of a subscription.
Placed(t) ==
  /\ t.pc \in {"sent", "answer", "paused"} => t.cred \in t.tried \cup OAuth
  /\ t.pc \in {"sent", "answer"} => t.cred \in t.tried
  /\ t.pc = "answer" /\ t.via = "ws" => t.kind = "native" /\ t.cred \in OAuth
  /\ t.pc = "sent" => t.via = "http"

\* Nothing is charged before the end, and nothing shown that may be retried.
Shown(t) ==
  /\ t.pc \in {"acquire", "sent", "paused"} => ~t.wrote
  /\ t.pc = "answer" /\ t.kind \in {"plain", "compact"} => ~t.wrote
  /\ t.charged = 1 => t.pc = "done" /\ t.wrote

\* Each send but the one that tried a credential was allowed by a retry on it.
Asked(t) ==
  \A c \in T!Creds :
    t.sends[c] <= (IF c \in t.tried THEN 1 ELSE 0)
                  + (IF c \in OAuth THEN t.shedRetried[c] + (IF c \in t.staleRetried THEN 1 ELSE 0)
                     ELSE 0)

\* A turn logs before its end only what a subscription answered that could not
\* be assembled, once for each of them.
TriedOAuth(t) == Cardinality(t.tried \cap OAuth)
InUse(t) == IF t.pc \in {"sent", "answer"} /\ t.cred \in OAuth THEN 1 ELSE 0

RowsBound(t) ==
  /\ t.pc # "done" =>
       IF t.kind = "plain" THEN Len(t.rows) + InUse(t) <= TriedOAuth(t) ELSE t.rows = << >>
  /\ t.pc = "done" =>
       IF t.kind = "plain" THEN Len(t.rows) <= Cardinality(OAuth) + 1 ELSE Len(t.rows) <= 1

TurnShape(t) == Placed(t) /\ Shown(t) /\ Asked(t) /\ RowsBound(t)

SockType ==
  /\ sock \in [OAuth -> {"none", "idle", "stale", "leased", "dead"}]
  /\ cool \subseteq OAuth /\ resting \subseteq T!Creds
  /\ dog \in {"armed", "loaded", "spared", "cut"}

Logs == T!At("done") /\ ~T!cancelled => turn.rows # << >>

TurnInv ==
  /\ turn \in TurnType /\ TurnShape(turn) /\ SockType
  /\ T!LeasesEnd /\ T!NoForeignFrames /\ Logs

-----------------------------------------------------------------------------
\* What the steps do to the turn alone: a new attempt, another try, an end.

LEMMA SameSets ==
  \A S : (T!IsFiniteSet(S) <=> IsFiniteSet(S)) /\ T!Cardinality(S) = Cardinality(S)
BY DEF T!IsFiniteSet, IsFiniteSet, T!Cardinality, Cardinality

LEMMA TurnSets ==
  IsFiniteSet(OAuth) /\ Cardinality(OAuth) \in Nat /\ T!NoCred \notin T!Creds /\ OAuth \subseteq T!Creds
BY TurnsAssumption, SameSets, FS_CardinalityType DEF T!TurnAssumption, T!Creds

LEMMA TriedOAuthBound ==
  ASSUME NEW t \in TurnType
  PROVE  TriedOAuth(t) \in Nat /\ TriedOAuth(t) <= Cardinality(OAuth)
<1>1. t.tried \cap OAuth \subseteq OAuth OBVIOUS
<1> QED BY <1>1, TurnSets, FS_Subset, FS_CardinalityType DEF TriedOAuth

LEMMA TriedOAuthAdd ==
  ASSUME NEW t \in TurnType, NEW c \in OAuth \ t.tried
  PROVE  Cardinality((t.tried \cup {c}) \cap OAuth) = TriedOAuth(t) + 1
<1>1. IsFiniteSet(t.tried \cap OAuth) BY TurnSets, FS_Subset
<1>2. (t.tried \cup {c}) \cap OAuth = (t.tried \cap OAuth) \cup {c} OBVIOUS
<1> QED BY <1>1, <1>2, FS_AddElement DEF TriedOAuth

\* A request begins.
LEMMA FreshTurn ==
  ASSUME NEW k \in T!Kinds
  PROVE  T!Fresh(k) \in TurnType /\ TurnShape(T!Fresh(k)) /\ T!Fresh(k).pc = "acquire"
<1> DEFINE t == T!Fresh(k)
<1>1. [o \in OAuth |-> 0] \in [OAuth -> 0..2] /\ [c \in T!Creds |-> 0] \in [T!Creds -> Nat] OBVIOUS
<1>2. << >> \in Seq({"upstream", "503", "499", "502", "200"}) /\ Len(<< >>) = 0 OBVIOUS
<1>3. t \in TurnType BY <1>1, <1>2, TurnSets DEF T!Fresh, TurnType
<1>4. /\ t.pc = "acquire" /\ ~t.wrote /\ t.charged = 0 /\ t.rows = << >>
      /\ \A c \in T!Creds : t.sends[c] = 0
      /\ t.shedRetried = [o \in OAuth |-> 0] /\ t.staleRetried = {} /\ t.kind = k
  BY TurnSets DEF T!Fresh
<1>5. TriedOAuth(t) \in Nat BY <1>3, TriedOAuthBound
<1> HIDE DEF t
<1>6. Placed(t) /\ Shown(t) BY <1>4 DEF Placed, Shown
<1>7. Asked(t) BY <1>4 DEF Asked
<1>8. RowsBound(t) BY <1>2, <1>4, <1>5 DEF RowsBound, InUse
<1> QED BY <1>3, <1>4, <1>6, <1>7, <1>8 DEF TurnShape, t

\* A credential that was not tried is sent the request.
LEMMA AttemptTurn ==
  ASSUME turn \in TurnType, TurnShape(turn), turn.pc = "acquire",
         NEW c \in T!Creds \ turn.tried, NEW pc \in {"acquire", "sent", "answer"},
         pc = "acquire" => c \in Keys
  PROVE  /\ T!Attempt(c, pc) \in TurnType /\ T!Attempt(c, pc).pc = pc
         /\ T!Attempt(c, pc).cred = c /\ T!Attempt(c, pc).via = "http"
         /\ T!Attempt(c, pc).kind = turn.kind
         /\ TurnShape(T!Attempt(c, pc))
<1> DEFINE t == T!Attempt(c, pc)
<1>1. turn.oauth + (IF c \in OAuth THEN 1 ELSE 0) \in Nat BY DEF TurnType
<1>2. [turn.sends EXCEPT ![c] = @ + 1] \in [T!Creds -> Nat] BY DEF TurnType
<1>3. t = [turn EXCEPT !.pc = pc, !.cred = c, !.via = "http", !.reused = FALSE,
                       !.tried = turn.tried \cup {c}, !.sends = [turn.sends EXCEPT ![c] = @ + 1],
                       !.oauth = turn.oauth + (IF c \in OAuth THEN 1 ELSE 0)]
  BY DEF T!Attempt, TurnType
<1>4. t \in TurnType
  <2> HIDE DEF t
  <2> QED BY <1>1, <1>2, <1>3 DEF TurnType
<1>5. /\ t.pc = pc /\ t.cred = c /\ t.via = "http" /\ t.tried = turn.tried \cup {c}
      /\ t.kind = turn.kind /\ t.wrote = turn.wrote /\ t.charged = turn.charged
      /\ t.shedRetried = turn.shedRetried /\ t.staleRetried = turn.staleRetried
      /\ t.rows = turn.rows
  BY <1>3 DEF TurnType
<1>a. t.sends = [turn.sends EXCEPT ![c] = @ + 1] BY <1>3 DEF TurnType
<1> HIDE DEF t
<1>6. Placed(t) BY <1>5 DEF Placed
<1>7. Shown(t) BY <1>5 DEF Shown, TurnShape, TurnType
<1>8. Asked(t)
  <2> SUFFICES ASSUME NEW d \in T!Creds
               PROVE  t.sends[d] <= (IF d \in t.tried THEN 1 ELSE 0)
                        + (IF d \in OAuth THEN t.shedRetried[d]
                                              + (IF d \in t.staleRetried THEN 1 ELSE 0) ELSE 0)
    BY DEF Asked
  <2>1. turn.sends[d] <= (IF d \in turn.tried THEN 1 ELSE 0)
                        + (IF d \in OAuth THEN turn.shedRetried[d]
                                              + (IF d \in turn.staleRetried THEN 1 ELSE 0) ELSE 0)
    BY DEF TurnShape, Asked
  <2>2. turn.sends[d] \in Nat /\ (d \in OAuth => turn.shedRetried[d] \in 0..2) BY DEF TurnType
  <2>3. t.sends[d] = IF d = c THEN turn.sends[d] + 1 ELSE turn.sends[d] BY <1>a DEF TurnType
  <2> QED BY <1>5, <2>1, <2>2, <2>3
<1>9. RowsBound(t)
  <2>1. Len(turn.rows) \in Nat /\ TriedOAuth(turn) \in Nat /\ InUse(turn) = 0
    BY TriedOAuthBound DEF InUse, TurnType
  <2>2. CASE turn.kind # "plain" BY <1>5, <2>2 DEF RowsBound, TurnShape
  <2>3. CASE turn.kind = "plain"
    <3>1. Len(turn.rows) <= TriedOAuth(turn) BY <2>1, <2>3 DEF RowsBound, TurnShape
    <3>2. CASE c \in OAuth
      <4>1. TriedOAuth(t) = TriedOAuth(turn) + 1 BY <1>5, <3>2, TriedOAuthAdd DEF TriedOAuth
      <4>2. InUse(t) \in {0, 1} BY DEF InUse
      <4>3. t.pc # "done" /\ t.rows = turn.rows BY <1>5
      <4>4. Len(t.rows) + InUse(t) <= TriedOAuth(t) BY <2>1, <3>1, <4>1, <4>2, <4>3
      <4> QED BY <4>3, <4>4, <2>3, <1>5 DEF RowsBound
    <3>3. CASE c \notin OAuth
      <4>1. t.tried \cap OAuth = turn.tried \cap OAuth BY <1>5, <3>3
      <4>2. TriedOAuth(t) = TriedOAuth(turn) BY <4>1 DEF TriedOAuth
      <4>3. InUse(t) = 0 BY <1>5, <3>3 DEF InUse
      <4>4. t.pc # "done" /\ t.rows = turn.rows BY <1>5
      <4>5. Len(t.rows) + InUse(t) <= TriedOAuth(t) BY <2>1, <3>1, <4>2, <4>3, <4>4
      <4> QED BY <4>4, <4>5, <2>3, <1>5 DEF RowsBound
    <3> QED BY <3>2, <3>3
  <2> QED BY <2>2, <2>3
<1> QED BY <1>4, <1>5, <1>6, <1>7, <1>8, <1>9 DEF TurnShape, t

\* What is asked of whom stays as it is unless a step says otherwise.
LEMMA TurnKept ==
  ASSUME turn \in TurnType, TurnShape(turn), NEW t \in TurnType,
         t.tried = turn.tried, t.sends = turn.sends,
         t.shedRetried = turn.shedRetried, t.staleRetried = turn.staleRetried,
         Placed(t), Shown(t), RowsBound(t)
  PROVE  TurnShape(t)
BY DEF TurnShape, Asked

LEMMA RowsKept ==
  ASSUME turn \in TurnType, TurnShape(turn), turn.pc # "done", NEW t \in TurnType,
         t.kind = turn.kind, t.tried = turn.tried, t.rows = turn.rows,
         InUse(t) <= InUse(turn)
  PROVE  RowsBound(t)
<1>0. TriedOAuth(t) = TriedOAuth(turn) BY DEF TriedOAuth
<1>a. Len(turn.rows) \in Nat BY DEF TurnType
<1>b. TriedOAuth(turn) \in Nat /\ TriedOAuth(turn) <= Cardinality(OAuth) BY TriedOAuthBound
<1>1. /\ Len(turn.rows) \in Nat /\ Cardinality(OAuth) \in Nat /\ TriedOAuth(turn) \in Nat
      /\ TriedOAuth(turn) <= Cardinality(OAuth) /\ TriedOAuth(t) = TriedOAuth(turn)
  BY <1>0, <1>a, <1>b, TurnSets
<1>2. InUse(t) \in {0, 1} /\ InUse(turn) \in {0, 1} BY DEF InUse
<1>3. CASE turn.kind = "plain"
  <2>1. Len(turn.rows) + InUse(turn) <= TriedOAuth(turn) BY <1>3 DEF TurnShape, RowsBound
  <2>2. Len(t.rows) + InUse(t) <= TriedOAuth(t) /\ Len(t.rows) <= Cardinality(OAuth) + 1
    BY <1>1, <1>2, <2>1
  <2> QED BY <1>3, <2>2 DEF RowsBound
<1>4. CASE turn.kind # "plain"
  <2>1. turn.rows = << >> BY <1>4 DEF TurnShape, RowsBound
  <2>2. Len(t.rows) = 0 BY <2>1
  <2> QED BY <1>4, <2>1, <2>2 DEF RowsBound
<1> QED BY <1>3, <1>4

LEMMA RowsLogged ==
  ASSUME turn \in TurnType, TurnShape(turn), turn.pc # "done", NEW t \in TurnType,
         NEW status \in {"upstream", "503", "499", "502", "200"}, t.kind = turn.kind, t.rows = Append(turn.rows, status), t.pc = "done"
  PROVE  RowsBound(t) /\ t.rows # << >>
<1>a. Len(turn.rows) \in Nat BY DEF TurnType
<1>b. TriedOAuth(turn) \in Nat /\ TriedOAuth(turn) <= Cardinality(OAuth) BY TriedOAuthBound
<1>1. /\ Len(turn.rows) \in Nat /\ Cardinality(OAuth) \in Nat /\ TriedOAuth(turn) \in Nat
      /\ TriedOAuth(turn) <= Cardinality(OAuth)
  BY <1>a, <1>b, TurnSets
<1>c. t.rows # << >>
  <2>1. turn.rows \in Seq({"upstream", "503", "499", "502", "200"}) BY DEF TurnType
  <2> QED BY <2>1
<1>2. Len(t.rows) = Len(turn.rows) + 1 BY DEF TurnType
<1>3. CASE turn.kind = "plain"
  <2>1. Len(turn.rows) + InUse(turn) <= TriedOAuth(turn) /\ InUse(turn) \in {0, 1}
    BY <1>3 DEF TurnShape, RowsBound, InUse
  <2>2. Len(t.rows) <= Cardinality(OAuth) + 1 BY <1>1, <1>2, <2>1
  <2> QED BY <1>3, <1>c, <2>2 DEF RowsBound
<1>4. CASE turn.kind # "plain"
  <2>1. Len(turn.rows) = 0 BY <1>4 DEF TurnShape, RowsBound
  <2>2. Len(t.rows) <= 1 BY <1>2, <2>1
  <2> QED BY <1>4, <1>c, <2>2 DEF RowsBound
<1> QED BY <1>3, <1>4

\* The turn ends with a log row.
LEMMA LoggedTurn ==
  ASSUME turn \in TurnType, TurnShape(turn), turn.pc # "done",
         NEW status \in {"upstream", "503", "499", "502", "200"}
  PROVE  /\ T!Logged(turn, status) \in TurnType /\ TurnShape(T!Logged(turn, status))
         /\ T!Logged(turn, status).pc = "done" /\ T!Logged(turn, status).rows # << >>
<1> DEFINE t == T!Logged(turn, status)
<1>1. t = [turn EXCEPT !.pc = "done", !.rows = Append(turn.rows, status)] BY DEF T!Logged, TurnType
<1>2. t \in TurnType
  <2>1. Append(turn.rows, status) \in Seq({"upstream", "503", "499", "502", "200"}) BY DEF TurnType
  <2> HIDE DEF t
  <2> QED BY <1>1, <2>1 DEF TurnType
<1>3. /\ t.pc = "done" /\ t.rows = Append(turn.rows, status) /\ t.kind = turn.kind
      /\ t.tried = turn.tried /\ t.sends = turn.sends /\ t.shedRetried = turn.shedRetried
      /\ t.staleRetried = turn.staleRetried /\ t.charged = turn.charged
  BY <1>1 DEF TurnType
<1> HIDE DEF t
<1>4. Placed(t) BY <1>3 DEF Placed
<1>5. Shown(t) BY <1>3 DEF Shown, TurnShape
<1>6. RowsBound(t) /\ t.rows # << >> BY <1>2, <1>3, RowsLogged
<1> QED BY <1>2, <1>3, <1>4, <1>5, <1>6, TurnKept DEF t

\* The client has been served, and what was used is charged.
LEMMA ServedTurn ==
  ASSUME turn \in TurnType, TurnShape(turn), turn.pc # "done", NEW usage \in BOOLEAN,
         NEW status \in {"upstream", "503", "499", "502", "200"}
  PROVE  /\ T!Served(turn, usage, status) \in TurnType /\ TurnShape(T!Served(turn, usage, status))
         /\ T!Served(turn, usage, status).pc = "done"
         /\ T!Served(turn, usage, status).rows # << >>
<1> DEFINE t == T!Served(turn, usage, status)
           paid == turn.charged + (IF usage THEN 1 ELSE 0)
<1>0. turn.charged = 0 /\ paid \in {0, 1} BY DEF TurnShape, Shown, TurnType
<1>1. t = [turn EXCEPT !.header = TRUE, !.wrote = TRUE, !.charged = paid, !.pc = "done",
                       !.rows = Append(turn.rows, status)]
  BY DEF T!Served, T!Logged, TurnType
<1>2. t \in TurnType
  <2>1. Append(turn.rows, status) \in Seq({"upstream", "503", "499", "502", "200"}) BY DEF TurnType
  <2> HIDE DEF t, paid
  <2> QED BY <1>0, <1>1, <2>1 DEF TurnType
<1>3. /\ t.pc = "done" /\ t.rows = Append(turn.rows, status) /\ t.kind = turn.kind
      /\ t.tried = turn.tried /\ t.sends = turn.sends /\ t.shedRetried = turn.shedRetried
      /\ t.staleRetried = turn.staleRetried /\ t.wrote
  BY <1>1 DEF TurnType
<1> HIDE DEF t
<1>4. Placed(t) BY <1>3 DEF Placed
<1>5. Shown(t) BY <1>3 DEF Shown
<1>6. RowsBound(t) /\ t.rows # << >> BY <1>2, <1>3, RowsLogged
<1> QED BY <1>2, <1>3, <1>4, <1>5, <1>6, TurnKept DEF t

\* A turn that has shown nothing goes on, with or without a refusal to surface.
LEMMA MovedTurn ==
  ASSUME turn \in TurnType, TurnShape(turn), turn.pc # "done", ~turn.wrote,
         NEW pc \in {"acquire", "done"}, NEW d \in BOOLEAN
  PROVE  LET t == [turn EXCEPT !.pc = pc, !.deferred = d] IN
           t \in TurnType /\ TurnShape(t) /\ t.pc = pc
<1> DEFINE t == [turn EXCEPT !.pc = pc, !.deferred = d]
<1>1. t \in TurnType BY DEF TurnType
<1>2. /\ t.pc = pc /\ t.rows = turn.rows /\ t.kind = turn.kind
      /\ t.tried = turn.tried /\ t.sends = turn.sends /\ t.shedRetried = turn.shedRetried
      /\ t.staleRetried = turn.staleRetried /\ t.charged = turn.charged /\ t.wrote = turn.wrote
  BY DEF TurnType
<1> HIDE DEF t
<1>3. Placed(t) BY <1>2 DEF Placed
<1>4. Shown(t) BY <1>2 DEF Shown, TurnShape
<1>5. InUse(t) <= InUse(turn) BY <1>2 DEF InUse
<1>6. RowsBound(t) BY <1>1, <1>2, <1>5, RowsKept
<1>7. TurnShape(t) BY <1>1, <1>2, <1>3, <1>4, <1>6, TurnKept
<1> QED BY <1>1, <1>2, <1>7 DEF t

LEMMA RetryTurn ==
  ASSUME turn \in TurnType, TurnShape(turn), turn.pc # "done", ~turn.wrote
  PROVE  /\ T!Retry(turn) \in TurnType /\ TurnShape(T!Retry(turn)) /\ T!Retry(turn).pc = "acquire"
         /\ [T!Retry(turn) EXCEPT !.deferred = TRUE] \in TurnType
         /\ TurnShape([T!Retry(turn) EXCEPT !.deferred = TRUE])
         /\ [T!Retry(turn) EXCEPT !.deferred = TRUE].pc = "acquire"
<1>1. turn.deferred \in BOOLEAN BY DEF TurnType
<1>2. T!Retry(turn) = [turn EXCEPT !.pc = "acquire", !.deferred = turn.deferred]
  BY DEF T!Retry, TurnType
<1>3. [T!Retry(turn) EXCEPT !.deferred = TRUE] = [turn EXCEPT !.pc = "acquire", !.deferred = TRUE]
  BY DEF T!Retry, TurnType
<1>4. T!Retry(turn) \in TurnType /\ TurnShape(T!Retry(turn)) /\ T!Retry(turn).pc = "acquire"
  BY <1>1, <1>2, MovedTurn
<1> QED BY <1>3, <1>4, MovedTurn

LEMMA EndedTurn ==
  ASSUME turn \in TurnType, TurnShape(turn), turn.pc # "done", ~turn.wrote
  PROVE  /\ [turn EXCEPT !.pc = "done"] \in TurnType /\ TurnShape([turn EXCEPT !.pc = "done"])
         /\ [turn EXCEPT !.pc = "done"].pc = "done"
<1>1. turn.deferred \in BOOLEAN BY DEF TurnType
<1>2. [turn EXCEPT !.pc = "done"] = [turn EXCEPT !.pc = "done", !.deferred = turn.deferred]
  BY DEF TurnType
<1> QED BY <1>1, <1>2, MovedTurn

\* The answer goes on: accepted, headers out, output out.
LEMMA AnswerTurn ==
  ASSUME turn \in TurnType, TurnShape(turn), turn.pc \in {"sent", "answer"},
         NEW pc \in {"sent", "answer"}, NEW h \in BOOLEAN, NEW w \in BOOLEAN,
         turn.pc = "answer" => pc = "answer",
         w => (turn.wrote \/ (pc = "answer" /\ turn.kind \in {"native", "chat"}))
  PROVE  LET t == [turn EXCEPT !.pc = pc, !.header = h, !.wrote = w] IN
           /\ t \in TurnType /\ TurnShape(t) /\ t.pc = pc
           /\ t.via = turn.via /\ t.cred = turn.cred
<1> DEFINE t == [turn EXCEPT !.pc = pc, !.header = h, !.wrote = w]
<1>1. t \in TurnType BY DEF TurnType
<1>2. /\ t.pc = pc /\ t.rows = turn.rows /\ t.kind = turn.kind /\ t.via = turn.via
      /\ t.cred = turn.cred /\ t.tried = turn.tried /\ t.sends = turn.sends
      /\ t.shedRetried = turn.shedRetried /\ t.staleRetried = turn.staleRetried
      /\ t.charged = turn.charged /\ t.wrote = w
  BY DEF TurnType
<1> HIDE DEF t
<1>3. Placed(t) BY <1>2 DEF Placed, TurnShape
<1>4. Shown(t) BY <1>2 DEF Shown, TurnShape
<1>5. InUse(t) <= InUse(turn) BY <1>2 DEF InUse
<1>6. RowsBound(t) BY <1>1, <1>2, <1>5, RowsKept
<1>7. TurnShape(t) BY <1>1, <1>2, <1>3, <1>4, <1>6, TurnKept
<1> QED BY <1>1, <1>2, <1>7 DEF t

\* A subscription that could not be assembled is logged, and another one asked.
LEMMA LoggedRetryTurn ==
  ASSUME turn \in TurnType, TurnShape(turn), turn.pc = "answer", turn.kind = "plain",
         turn.cred \in OAuth
  PROVE  /\ T!Retry(T!Logged(turn, "502")) \in TurnType /\ TurnShape(T!Retry(T!Logged(turn, "502")))
         /\ T!Retry(T!Logged(turn, "502")).pc = "acquire"
<1> DEFINE t == T!Retry(T!Logged(turn, "502"))
           rows == Append(turn.rows, "502")
<1>1. t = [turn EXCEPT !.pc = "acquire", !.rows = rows] BY DEF T!Retry, T!Logged, TurnType
<1>2. rows \in Seq({"upstream", "503", "499", "502", "200"}) /\ Len(rows) = Len(turn.rows) + 1
  BY DEF TurnType
<1>3. t \in TurnType
  <2> HIDE DEF t, rows
  <2> QED BY <1>1, <1>2 DEF TurnType
<1>4. /\ t.pc = "acquire" /\ t.rows = rows /\ t.kind = turn.kind /\ t.cred = turn.cred
      /\ t.tried = turn.tried /\ t.sends = turn.sends /\ t.shedRetried = turn.shedRetried
      /\ t.staleRetried = turn.staleRetried /\ t.charged = turn.charged /\ t.wrote = turn.wrote
  BY <1>1 DEF TurnType
<1> HIDE DEF t
<1>5. Placed(t) BY <1>4 DEF Placed
<1>6. Shown(t) BY <1>4 DEF Shown, TurnShape
<1>7. RowsBound(t)
  <2>1. Len(turn.rows) + InUse(turn) <= TriedOAuth(turn) BY DEF TurnShape, RowsBound
  <2>2. InUse(turn) = 1 /\ InUse(t) = 0 BY <1>4 DEF InUse
  <2>3. TriedOAuth(t) = TriedOAuth(turn) BY <1>4 DEF TriedOAuth
  <2>4. TriedOAuth(turn) \in Nat BY TriedOAuthBound
  <2>5. Len(turn.rows) \in Nat BY DEF TurnType
  <2>6. Len(t.rows) + InUse(t) <= TriedOAuth(t) BY <1>2, <1>4, <2>1, <2>2, <2>3, <2>4, <2>5
  <2> QED BY <1>4, <2>6 DEF RowsBound
<1> QED BY <1>3, <1>4, <1>5, <1>6, <1>7, TurnKept DEF t

\* The credential of a stream is asked again.
OnceMore(stale, shed) ==
  \A o \in OAuth :
    turn.shedRetried[o] + (IF o \in turn.staleRetried THEN 1 ELSE 0) + (IF o = turn.cred THEN 1 ELSE 0)
      <= shed[o] + (IF o \in stale THEN 1 ELSE 0)

LEMMA SecondTry ==
  ASSUME turn \in TurnType, TurnShape(turn), turn.pc = "answer", turn.kind \in {"native", "chat"},
         ~turn.wrote, turn.cred \in OAuth, NEW pc \in {"acquire", "paused"},
         NEW stale \in SUBSET OAuth, NEW shed \in [OAuth -> 0..2], OnceMore(stale, shed)
  PROVE  LET t == [turn EXCEPT !.pc = pc, !.tried = turn.tried \ {turn.cred},
                               !.staleRetried = stale, !.shedRetried = shed] IN
           t \in TurnType /\ TurnShape(t) /\ t.pc = pc
<1> DEFINE t == [turn EXCEPT !.pc = pc, !.tried = turn.tried \ {turn.cred},
                             !.staleRetried = stale, !.shedRetried = shed]
<1>1. t \in TurnType BY DEF TurnType
<1>2. /\ t.pc = pc /\ t.rows = turn.rows /\ t.kind = turn.kind /\ t.cred = turn.cred
      /\ t.tried = turn.tried \ {turn.cred} /\ t.sends = turn.sends /\ t.shedRetried = shed
      /\ t.staleRetried = stale /\ t.charged = turn.charged /\ t.wrote = turn.wrote
  BY DEF TurnType
<1> HIDE DEF t
<1>3. Placed(t) BY <1>2 DEF Placed
<1>4. Shown(t) BY <1>2 DEF Shown, TurnShape
<1>5. RowsBound(t)
  <2>1. turn.rows = << >> BY DEF TurnShape, RowsBound
  <2> QED BY <1>2, <2>1 DEF RowsBound
<1>6. Asked(t)
  <2> SUFFICES ASSUME NEW d \in T!Creds
               PROVE  t.sends[d] <= (IF d \in t.tried THEN 1 ELSE 0)
                        + (IF d \in OAuth THEN t.shedRetried[d]
                                              + (IF d \in t.staleRetried THEN 1 ELSE 0) ELSE 0)
    BY DEF Asked
  <2>1. turn.sends[d] <= (IF d \in turn.tried THEN 1 ELSE 0)
                        + (IF d \in OAuth THEN turn.shedRetried[d]
                                              + (IF d \in turn.staleRetried THEN 1 ELSE 0) ELSE 0)
    BY DEF TurnShape, Asked
  <2>2. turn.sends[d] \in Nat /\ (d \in OAuth => turn.shedRetried[d] \in 0..2) BY DEF TurnType
  <2>3. CASE d \in OAuth
    <3>1. turn.shedRetried[d] + (IF d \in turn.staleRetried THEN 1 ELSE 0)
            + (IF d = turn.cred THEN 1 ELSE 0)
            <= shed[d] + (IF d \in stale THEN 1 ELSE 0)
      BY <2>3 DEF OnceMore
    <3>2. shed[d] \in 0..2 BY <2>3
    <3> QED BY <1>2, <2>1, <2>2, <2>3, <3>1, <3>2
  <2>4. CASE d \notin OAuth
    <3>1. d \in t.tried <=> d \in turn.tried BY <1>2, <2>4
    <3> QED BY <1>2, <2>1, <2>2, <2>4, <3>1
  <2> QED BY <2>3, <2>4
<1> QED BY <1>1, <1>2, <1>3, <1>4, <1>5, <1>6 DEF TurnShape, t

-----------------------------------------------------------------------------
\* What a step leaves of the sockets.
TurnKeeps == SockType /\ T!LeasesEnd /\ T!NoForeignFrames

\* A turn that reads no socket has none.
LEMMA PoolLeft ==
  ASSUME TurnInv, UNCHANGED <<sock, unread, cool, dog>>, resting' \subseteq T!Creds,
         turn.pc # "answer" \/ turn.via # "ws", turn'.pc # "answer" \/ turn'.via # "ws"
  PROVE  TurnKeeps'
<1>1. SockType' BY DEF TurnInv, SockType
<1>2. T!LeasesEnd' BY DEF TurnInv, T!LeasesEnd, T!At
<1> QED BY <1>1, <1>2 DEF TurnInv, TurnKeeps, T!NoForeignFrames

\* A turn that goes on reading keeps its socket.
LEMMA PoolHeld ==
  ASSUME TurnInv, UNCHANGED <<sock, unread, cool, dog>>, resting' \subseteq T!Creds,
         turn'.pc = turn.pc, turn'.via = turn.via, turn'.cred = turn.cred
  PROVE  TurnKeeps'
<1>1. SockType' BY DEF TurnInv, SockType
<1>2. T!LeasesEnd' BY DEF TurnInv, T!LeasesEnd, T!At
<1> QED BY <1>1, <1>2 DEF TurnInv, TurnKeeps, T!NoForeignFrames

\* A turn that is over gives its socket back, or closes it.
LEMMA PoolClosed ==
  ASSUME TurnInv, NEW whole \in BOOLEAN, turn.pc = "answer", T!Close(whole),
         UNCHANGED <<dog, resting>>, turn'.pc # "answer"
  PROVE  TurnKeeps'
<1>1. CASE turn.via # "ws"
  <2>1. UNCHANGED <<sock, unread, cool, dog>> /\ resting' \subseteq T!Creds
    BY <1>1 DEF T!Close, T!Pool, TurnInv, SockType
  <2> QED BY <1>1, <2>1, PoolLeft
<1>2. CASE turn.via = "ws"
  <2>1. /\ sock' = [sock EXCEPT ![turn.cred] = IF whole THEN "idle" ELSE "none"]
        /\ unread' = unread /\ cool' \subseteq cool
    BY <1>2 DEF T!Close, T!Keep
  <2>2. SockType'
    <3>1. sock' \in [OAuth -> {"none", "idle", "stale", "leased", "dead"}]
      BY <2>1 DEF TurnInv, SockType
    <3> QED BY <2>1, <3>1 DEF TurnInv, SockType
  <2>3. T!LeasesEnd'
    <3> SUFFICES ASSUME NEW o \in OAuth PROVE sock'[o] \notin {"leased", "dead"}
      BY DEF T!LeasesEnd, T!At
    <3>1. CASE o = turn.cred BY <2>1, <3>1 DEF TurnInv, SockType
    <3>2. CASE o # turn.cred BY <2>1, <3>2 DEF TurnInv, SockType, T!LeasesEnd
    <3> QED BY <3>1, <3>2
  <2> QED BY <2>1, <2>2, <2>3 DEF TurnInv, TurnKeeps, T!NoForeignFrames
<1> QED BY <1>1, <1>2

\* The parts of the invariant.
LEMMA TurnParts ==
  ASSUME turn' \in TurnType, TurnShape(turn)', TurnKeeps', Logs'
  PROVE  TurnInv'
BY DEF TurnInv, TurnKeeps

LEMMA StillLogs == ASSUME turn'.pc # "done" PROVE Logs'
BY DEF Logs, T!At

LEMMA HasLogged == ASSUME turn'.rows # << >> PROVE Logs'
BY DEF Logs

\* The loop asks the next credential, or gives up.
LEMMA TurnLoop ==
  ASSUME TurnInv,
         \/ \E c \in T!Creds : T!SendHTTP(c) \/ T!DialFails(c) \/ T!SendWS(c)
         \/ T!Exhausted \/ T!Resume
  PROVE  TurnInv'
<1> USE DEF T!World, T!Pool
<1>a. turn \in TurnType /\ TurnShape(turn) BY DEF TurnInv
<1>b. resting \subseteq T!Creds BY DEF TurnInv, SockType
<1>1. ASSUME NEW c \in T!Creds, T!SendHTTP(c) PROVE TurnInv'
  <2> DEFINE pc == IF c \in Keys /\ turn.kind = "image" THEN "acquire" ELSE "sent"
  <2>1. turn.pc = "acquire" /\ c \in T!Creds \ turn.tried /\ turn' = T!Attempt(c, pc)
    BY <1>1 DEF T!SendHTTP, T!MayTry, T!At, T!Available
  <2>2. pc \in {"acquire", "sent", "answer"} /\ (pc = "acquire" => c \in Keys) OBVIOUS
  <2>3. turn' \in TurnType /\ TurnShape(turn') /\ turn'.pc = pc
    BY <1>a, <2>1, <2>2, AttemptTurn
  <2>4. TurnKeeps' BY <1>1, <1>b, <2>1, <2>3, PoolLeft DEF T!SendHTTP
  <2> QED BY <2>3, <2>4, TurnParts, StillLogs
<1>2. ASSUME NEW c \in T!Creds, T!DialFails(c) PROVE TurnInv'
  <2>1. turn.pc = "acquire" /\ c \in T!Creds \ turn.tried /\ turn' = T!Attempt(c, "sent") /\ c \in OAuth
    BY <1>2 DEF T!DialFails, T!MayTry, T!At, T!Available, T!eligible
  <2>2. turn' \in TurnType /\ TurnShape(turn') /\ turn'.pc = "sent" BY <1>a, <2>1, AttemptTurn
  <2>3. /\ sock' = [sock EXCEPT ![c] = "none"] /\ unread' \subseteq unread /\ cool' = cool \cup {c}
        /\ UNCHANGED <<dog, resting>>
    BY <1>2 DEF T!DialFails
  <2>4. SockType' BY <2>1, <2>3 DEF TurnInv, SockType
  <2>5. T!LeasesEnd' BY <2>1, <2>2, <2>3 DEF TurnInv, SockType, T!LeasesEnd, T!At
  <2>6. TurnKeeps' BY <2>3, <2>4, <2>5 DEF TurnInv, TurnKeeps, T!NoForeignFrames
  <2> QED BY <2>2, <2>6, TurnParts, StillLogs
<1>3. ASSUME NEW c \in T!Creds, T!SendWS(c) PROVE TurnInv'
  <2> DEFINE a == T!Attempt(c, "answer")
             reused == sock[c] # "none"
  <2>1. /\ turn.pc = "acquire" /\ c \in T!Creds \ turn.tried /\ c \in OAuth /\ turn.kind = "native"
        /\ turn' = [a EXCEPT !.via = "ws", !.reused = reused]
    BY <1>3 DEF T!SendWS, T!MayTry, T!At, T!Available, T!eligible
  <2>2. a \in TurnType /\ TurnShape(a) /\ a.pc = "answer" /\ a.cred = c /\ a.kind = turn.kind
    BY <1>a, <2>1, AttemptTurn
  <2> HIDE DEF a
  <2>3. turn' \in TurnType
    <3>1. reused \in BOOLEAN OBVIOUS
    <3> HIDE DEF reused
    <3> QED BY <2>1, <2>2, <3>1 DEF TurnType
  <2>4. /\ turn'.pc = "answer" /\ turn'.cred = c /\ turn'.via = "ws" /\ turn'.kind = "native"
        /\ turn'.tried = a.tried /\ turn'.sends = a.sends /\ turn'.shedRetried = a.shedRetried
        /\ turn'.staleRetried = a.staleRetried /\ turn'.rows = a.rows /\ turn'.wrote = a.wrote
        /\ turn'.charged = a.charged
    BY <2>1, <2>2 DEF TurnType
  <2>5. TurnShape(turn')
    <3>1. Placed(turn') BY <2>1, <2>2, <2>4 DEF TurnShape, Placed
    <3>2. Shown(turn') BY <2>1, <2>2, <2>4 DEF TurnShape, Shown
    <3>3. Asked(turn') BY <2>1, <2>2, <2>4 DEF TurnShape, Asked
    <3>4. RowsBound(turn')
      <4>1. a.rows = << >> BY <2>1, <2>2 DEF TurnShape, RowsBound
      <4> QED BY <2>4, <4>1 DEF RowsBound
    <3> QED BY <3>1, <3>2, <3>3, <3>4 DEF TurnShape
  <2>6. /\ sock' = [sock EXCEPT ![c] = IF sock[c] = "stale" THEN "dead" ELSE "leased"]
        /\ UNCHANGED <<unread, cool, resting, dog>>
    BY <1>3 DEF T!SendWS
  <2>7. SockType' BY <2>1, <2>6 DEF TurnInv, SockType
  <2>8. T!LeasesEnd'
    <3> SUFFICES ASSUME NEW o \in OAuth
                 PROVE  sock'[o] \in {"leased", "dead"} <=> o = c
      BY <2>4 DEF T!LeasesEnd, T!At
    <3>1. CASE o = c BY <2>6, <3>1 DEF TurnInv, SockType
    <3>2. CASE o # c
      <4>1. sock[o] \notin {"leased", "dead"} BY <2>1 DEF TurnInv, T!LeasesEnd, T!At
      <4>2. sock'[o] = sock[o] BY <2>6, <3>2 DEF TurnInv, SockType
      <4> QED BY <3>2, <4>1, <4>2
    <3> QED BY <3>1, <3>2
  <2>9. TurnKeeps' BY <2>6, <2>7, <2>8 DEF TurnInv, TurnKeeps, T!NoForeignFrames
  <2> QED BY <2>3, <2>4, <2>5, <2>9, TurnParts, StillLogs
<1>4. CASE T!Exhausted
  <2>1. turn.pc = "acquire" BY <1>4 DEF T!Exhausted, T!At
  <2>2. PICK status \in {"upstream", "503"} : turn' = T!Logged(turn, status)
    BY <1>4 DEF T!Exhausted
  <2>3. /\ turn' \in TurnType /\ TurnShape(turn') /\ turn'.pc = "done" /\ turn'.rows # << >>
    BY <1>a, <2>1, <2>2, LoggedTurn
  <2>4. TurnKeeps' BY <1>4, <1>b, <2>1, <2>3, PoolLeft DEF T!Exhausted
  <2> QED BY <2>3, <2>4, TurnParts, HasLogged
<1>5. CASE T!Resume
  <2>1. turn.pc = "paused" /\ ~turn.wrote BY <1>5, <1>a DEF T!Resume, T!At, TurnShape, Shown
  <2>2. CASE T!cancelled
    <3>1. turn' = [turn EXCEPT !.pc = "done"] BY <1>5, <2>2 DEF T!Resume
    <3>2. turn' \in TurnType /\ TurnShape(turn') /\ turn'.pc = "done"
      BY <1>a, <2>1, <3>1, EndedTurn
    <3>3. TurnKeeps' BY <1>5, <1>b, <2>1, <3>2, PoolLeft DEF T!Resume
    <3>4. Logs' BY <1>5, <2>2 DEF T!Resume, Logs, T!cancelled
    <3> QED BY <3>2, <3>3, <3>4, TurnParts
  <2>3. CASE ~T!cancelled
    <3>1. turn' = T!Retry(turn) BY <1>5, <2>3 DEF T!Resume
    <3>2. turn' \in TurnType /\ TurnShape(turn') /\ turn'.pc = "acquire"
      BY <1>a, <2>1, <3>1, RetryTurn
    <3>3. TurnKeeps' BY <1>5, <1>b, <2>1, <3>2, PoolLeft DEF T!Resume
    <3> QED BY <3>2, <3>3, TurnParts, StillLogs
  <2> QED BY <2>2, <2>3
<1> QED BY <1>1, <1>2, <1>3, <1>4, <1>5

\* The status of an answer, and an image.
LEMMA TurnStatus ==
  ASSUME TurnInv,
         \/ T!TransportFails \/ T!KeyUnreachable \/ T!Refused \/ T!KeyRefuses \/ T!Rejected
         \/ T!Accepted \/ T!ImageCommits \/ T!ImageUnreadable
         \/ \E b \in BOOLEAN : T!ImageAnswers(b)
  PROVE  TurnInv'
<1> USE DEF T!World, T!Pool
<1>a. turn \in TurnType /\ TurnShape(turn) BY DEF TurnInv
<1>b. turn.pc = "sent"
  BY DEF T!TransportFails, T!KeyUnreachable, T!Refused, T!KeyRefuses, T!Rejected, T!Accepted,
         T!ImageCommits, T!ImageUnreadable, T!ImageAnswers, T!At
<1>c. ~turn.wrote /\ turn.via = "http" /\ turn.pc # "done" /\ turn.cred \in T!Creds
  <2>1. ~turn.wrote /\ turn.via = "http" /\ turn.cred \in turn.tried
    BY <1>a, <1>b DEF TurnShape, Shown, Placed
  <2> QED BY <1>a, <1>b, <2>1 DEF TurnType
<1>d. UNCHANGED <<sock, unread, cool, dog>> /\ resting' \subseteq T!Creds
  <2>1. resting' \in {resting, resting \cup {turn.cred}}
    BY DEF T!TransportFails, T!KeyUnreachable, T!Refused, T!KeyRefuses, T!Rejected, T!Accepted,
           T!ImageCommits, T!ImageUnreadable, T!ImageAnswers
  <2>2. resting' \subseteq T!Creds BY <1>c, <2>1 DEF TurnInv, SockType
  <2> QED
    BY <2>2 DEF T!TransportFails, T!KeyUnreachable, T!Refused, T!KeyRefuses, T!Rejected,
                T!Accepted, T!ImageCommits, T!ImageUnreadable, T!ImageAnswers
<1>1. CASE \E status \in {"499", "502", "upstream"} : turn' = T!Logged(turn, status)
  <2>1. turn' \in TurnType /\ TurnShape(turn') /\ turn'.pc = "done" /\ turn'.rows # << >>
    BY <1>a, <1>c, <1>1, LoggedTurn
  <2>2. TurnKeeps' BY <1>b, <1>d, <2>1, PoolLeft
  <2> QED BY <2>1, <2>2, TurnParts, HasLogged
<1>2. CASE turn' = T!Retry(turn) \/ turn' = [T!Retry(turn) EXCEPT !.deferred = TRUE]
  <2>1. turn' \in TurnType /\ TurnShape(turn') /\ turn'.pc = "acquire"
    BY <1>a, <1>c, <1>2, RetryTurn
  <2>2. TurnKeeps' BY <1>b, <1>d, <2>1, PoolLeft
  <2> QED BY <2>1, <2>2, TurnParts, StillLogs
<1>3. CASE T!Accepted
  <2>1. turn' = [turn EXCEPT !.pc = "answer", !.header = turn.header, !.wrote = turn.wrote]
    BY <1>a, <1>3 DEF T!Accepted, TurnType
  <2>2. turn.header \in BOOLEAN /\ turn.wrote \in BOOLEAN BY <1>a DEF TurnType
  <2>3. turn' \in TurnType /\ TurnShape(turn') /\ turn'.pc = "answer" /\ turn'.via = turn.via
    BY <1>a, <1>b, <2>1, <2>2, AnswerTurn, ZenonT(60)
  <2>4. TurnKeeps' BY <1>b, <1>c, <1>d, <2>3, PoolLeft
  <2> QED BY <2>3, <2>4, TurnParts, StillLogs
<1>4. CASE T!ImageCommits
  <2>1. turn' = [turn EXCEPT !.pc = "sent", !.header = TRUE, !.wrote = turn.wrote]
    BY <1>a, <1>b, <1>4 DEF T!ImageCommits, TurnType
  <2>2. turn.wrote \in BOOLEAN BY <1>a DEF TurnType
  <2>3. turn' \in TurnType /\ TurnShape(turn') /\ turn'.pc = "sent"
    BY <1>a, <1>b, <2>1, <2>2, AnswerTurn
  <2>4. TurnKeeps' BY <1>b, <1>d, <2>3, PoolLeft
  <2> QED BY <2>3, <2>4, TurnParts, StillLogs
<1>5. ASSUME NEW b \in BOOLEAN, T!ImageAnswers(b) PROVE TurnInv'
  <2>1. turn' = T!Served(turn, b, "200") BY <1>5 DEF T!ImageAnswers
  <2>2. turn' \in TurnType /\ TurnShape(turn') /\ turn'.pc = "done" /\ turn'.rows # << >>
    BY <1>a, <1>c, <2>1, ServedTurn
  <2>3. TurnKeeps' BY <1>b, <1>d, <2>2, PoolLeft
  <2> QED BY <2>2, <2>3, TurnParts, HasLogged
<1>6. CASE T!TransportFails BY <1>1, <1>2, <1>6 DEF T!TransportFails
<1>7. CASE T!KeyUnreachable BY <1>1, <1>2, <1>7 DEF T!KeyUnreachable
<1>8. CASE T!Refused BY <1>1, <1>2, <1>8 DEF T!Refused
<1>9. CASE T!KeyRefuses BY <1>2, <1>9 DEF T!KeyRefuses
<1>10. CASE T!Rejected BY <1>1, <1>10 DEF T!Rejected
<1>11. CASE T!ImageUnreadable BY <1>1, <1>2, <1>11 DEF T!ImageUnreadable
<1> QED BY <1>3, <1>4, <1>5, <1>6, <1>7, <1>8, <1>9, <1>10, <1>11

\* A streamed answer.
LEMMA TurnStream ==
  ASSUME TurnInv,
         \/ T!Keepalive \/ T!Output \/ T!Breaks
         \/ \E u, b \in BOOLEAN : T!Completes(u, b) \/ T!Sheds(u, b) \/ T!KeyServes(u, b)
         \/ \E b \in BOOLEAN : T!KeySheds(b)
  PROVE  TurnInv'
<1> USE DEF T!World, T!Pool
<1>a. turn \in TurnType /\ TurnShape(turn) BY DEF TurnInv
<1>b. turn.pc = "answer" /\ turn.kind \in {"native", "chat"}
  BY DEF T!Keepalive, T!Output, T!Breaks, T!Completes, T!Sheds, T!KeyServes, T!KeySheds,
         T!Streaming, T!At
<1>c. /\ turn.pc # "done" /\ turn.cred \in T!Creds /\ (turn.via = "ws" => turn.cred \in OAuth)
      /\ resting \subseteq T!Creds
  BY <1>b DEF TurnInv, TurnShape, Placed, TurnType, SockType
<1>1. CASE T!Keepalive \/ T!Output
  <2>1. turn.header \in BOOLEAN /\ turn.wrote \in BOOLEAN BY <1>a DEF TurnType
  <2>2. PICK w \in BOOLEAN : turn' = [turn EXCEPT !.pc = "answer", !.header = TRUE, !.wrote = w]
    <3>1. CASE T!Keepalive
      <4>1. turn' = [turn EXCEPT !.pc = "answer", !.header = TRUE, !.wrote = turn.wrote]
        BY <1>a, <1>b, <3>1 DEF T!Keepalive, TurnType
      <4> QED BY <2>1, <4>1
    <3>2. CASE T!Output
      <4>1. turn' = [turn EXCEPT !.pc = "answer", !.header = TRUE, !.wrote = TRUE]
        BY <1>a, <1>b, <3>2 DEF T!Output, TurnType
      <4> QED BY <4>1
    <3> QED BY <1>1, <3>1, <3>2
  <2>3. /\ turn' \in TurnType /\ TurnShape(turn') /\ turn'.pc = "answer"
        /\ turn'.via = turn.via /\ turn'.cred = turn.cred
    BY <1>a, <1>b, <2>2, AnswerTurn
  <2>4. UNCHANGED <<sock, unread, cool, dog, resting>> BY <1>1 DEF T!Keepalive, T!Output
  <2>5. TurnKeeps' BY <1>b, <1>c, <2>3, <2>4, PoolHeld
  <2> QED BY <2>3, <2>5, TurnParts, StillLogs
<1>2. ASSUME NEW whole \in BOOLEAN, T!Close(whole), UNCHANGED <<dog, resting>>,
             \E status \in {"499", "200"} : turn' = T!Logged(turn, status)
      PROVE  TurnInv'
  <2>1. turn' \in TurnType /\ TurnShape(turn') /\ turn'.pc = "done" /\ turn'.rows # << >>
    BY <1>a, <1>c, <1>2, LoggedTurn
  <2>2. TurnKeeps' BY <1>b, <1>2, <2>1, PoolClosed
  <2> QED BY <2>1, <2>2, TurnParts, HasLogged
<1>3. ASSUME NEW whole \in BOOLEAN, T!Close(whole), UNCHANGED <<dog, resting>>, ~turn.wrote,
             turn' = T!Retry(turn)
      PROVE  TurnInv'
  <2>1. turn' \in TurnType /\ TurnShape(turn') /\ turn'.pc = "acquire"
    BY <1>a, <1>c, <1>3, RetryTurn
  <2>2. TurnKeeps' BY <1>b, <1>3, <2>1, PoolClosed
  <2> QED BY <2>1, <2>2, TurnParts, StillLogs
<1>4. CASE T!Breaks
  <2>1. T!Close(FALSE) /\ UNCHANGED <<dog, resting>> BY <1>4 DEF T!Breaks
  <2>2. CASE T!RetriedBroken /\ ~T!cancelled
    <3>1. ~turn.wrote BY <2>2 DEF T!RetriedBroken
    <3>2. CASE turn.via = "ws" /\ turn.reused /\ turn.cred \notin turn.staleRetried
      <4>1. turn' = [turn EXCEPT !.pc = "acquire", !.tried = turn.tried \ {turn.cred},
                                 !.staleRetried = turn.staleRetried \cup {turn.cred},
                                 !.shedRetried = turn.shedRetried]
        <5>1. turn' = [T!Retry(turn) EXCEPT !.tried = @ \ {turn.cred},
                                            !.staleRetried = @ \cup {turn.cred}]
          BY <1>4, <2>2, <3>2 DEF T!Breaks
        <5> QED BY <1>a, <5>1 DEF T!Retry, TurnType
      <4>2. /\ turn.staleRetried \cup {turn.cred} \in SUBSET OAuth
            /\ turn.shedRetried \in [OAuth -> 0..2]
        BY <1>a, <1>c, <3>2 DEF TurnType
      <4>a. OnceMore(turn.staleRetried \cup {turn.cred}, turn.shedRetried)
        BY <1>a, <3>2 DEF OnceMore, TurnType
      <4>3. turn' \in TurnType /\ TurnShape(turn') /\ turn'.pc = "acquire"
        BY <1>a, <1>b, <1>c, <3>1, <3>2, <4>1, <4>2, <4>a, SecondTry, ZenonT(60)
      <4>4. TurnKeeps' BY <1>b, <2>1, <4>3, PoolClosed
      <4> QED BY <4>3, <4>4, TurnParts, StillLogs
    <3>3. CASE ~(turn.via = "ws" /\ turn.reused /\ turn.cred \notin turn.staleRetried)
      <4>1. turn' = T!Retry(turn) BY <1>4, <2>2, <3>3 DEF T!Breaks
      <4> QED BY <1>3, <2>1, <3>1, <4>1
    <3> QED BY <3>2, <3>3
  <2>3. CASE ~(T!RetriedBroken /\ ~T!cancelled)
    <3>1. \E status \in {"499", "200"} : turn' = T!Logged(turn, status)
      BY <1>4, <2>3 DEF T!Breaks
    <3> QED BY <1>2, <2>1, <3>1
  <2> QED BY <2>2, <2>3
<1>5. ASSUME NEW u \in BOOLEAN, NEW b \in BOOLEAN, T!Completes(u, b) PROVE TurnInv'
  <2>1. PICK status \in {"502", "200"} : turn' = T!Served(turn, u, status)
    BY <1>5 DEF T!Completes
  <2>2. turn' \in TurnType /\ TurnShape(turn') /\ turn'.pc = "done" /\ turn'.rows # << >>
    BY <1>a, <1>c, <2>1, ServedTurn
  <2>3. T!Close(TRUE) /\ UNCHANGED <<dog, resting>> BY <1>5 DEF T!Completes
  <2>4. TurnKeeps' BY <1>b, <2>2, <2>3, PoolClosed
  <2> QED BY <2>2, <2>4, TurnParts, HasLogged
<1>6. ASSUME NEW capacity \in BOOLEAN, NEW whole \in BOOLEAN, T!Sheds(capacity, whole)
      PROVE  TurnInv'
  <2>1. T!Close(whole) /\ UNCHANGED <<dog, resting>> /\ ~turn.wrote /\ turn.cred \in OAuth
    BY <1>6 DEF T!Sheds, T!OnOAuth
  <2>2. CASE T!cancelled /\ ~whole
    <3>1. turn' = T!Logged(turn, "499") BY <1>6, <2>2 DEF T!Sheds
    <3> QED BY <1>2, <2>1, <3>1
  <2>3. CASE ~(T!cancelled /\ ~whole) /\ capacity /\ T!ShedPauses
    <3> DEFINE stale == turn.staleRetried
               shed == [turn.shedRetried EXCEPT ![turn.cred] = @ + 1]
    <3>1. turn' = [turn EXCEPT !.pc = "paused", !.tried = turn.tried \ {turn.cred},
                               !.staleRetried = stale, !.shedRetried = shed]
      <4>1. turn' = [turn EXCEPT !.pc = "paused", !.tried = @ \ {turn.cred},
                                 !.shedRetried[turn.cred] = @ + 1]
        BY <1>6, <2>3 DEF T!Sheds
      <4> QED BY <1>a, <4>1 DEF TurnType
    <3>2. stale \in SUBSET OAuth /\ shed \in [OAuth -> 0..2]
      <4>1. turn.shedRetried[turn.cred] \in 0..1
        BY <1>a, <2>1, <2>3 DEF TurnType, T!ShedPauses, T!codexSameCredShedRetries
      <4> QED BY <1>a, <2>1, <4>1 DEF TurnType
    <3>a. OnceMore(stale, shed) BY <1>a, <2>1 DEF OnceMore, TurnType
    <3> HIDE DEF stale, shed
    <3>3. turn' \in TurnType /\ TurnShape(turn') /\ turn'.pc = "paused"
      BY <1>a, <1>b, <2>1, <3>1, <3>2, <3>a, SecondTry
    <3>4. TurnKeeps' BY <1>b, <2>1, <3>3, PoolClosed
    <3> QED BY <3>3, <3>4, TurnParts, StillLogs
  <2>4. CASE ~(T!cancelled /\ ~whole) /\ ~(capacity /\ T!ShedPauses)
    <3>1. turn' = T!Retry(turn) BY <1>6, <2>4 DEF T!Sheds
    <3> QED BY <1>3, <2>1, <3>1
  <2> QED BY <2>2, <2>3, <2>4
<1>7. ASSUME NEW usage \in BOOLEAN, NEW whole \in BOOLEAN, T!KeyServes(usage, whole)
      PROVE  TurnInv'
  <2>1. PICK status \in {"499", "200"} : turn' = T!Served(turn, usage, status)
    BY <1>7 DEF T!KeyServes
  <2>2. turn' \in TurnType /\ TurnShape(turn') /\ turn'.pc = "done" /\ turn'.rows # << >>
    BY <1>a, <1>c, <2>1, ServedTurn
  <2>3. turn.via # "ws" /\ UNCHANGED <<sock, unread, cool, dog, resting>>
    BY <1>7, <1>c DEF T!KeyServes, T!OnOAuth
  <2>4. TurnKeeps' BY <1>c, <2>2, <2>3, PoolLeft
  <2> QED BY <2>2, <2>4, TurnParts, HasLogged
<1>8. ASSUME NEW whole \in BOOLEAN, T!KeySheds(whole) PROVE TurnInv'
  <2>1. turn.via # "ws" /\ UNCHANGED <<sock, unread, cool, dog, resting>> /\ ~turn.wrote
    BY <1>8, <1>c DEF T!KeySheds, T!OnOAuth
  <2>2. CASE turn' = T!Logged(turn, "499")
    <3>1. turn' \in TurnType /\ TurnShape(turn') /\ turn'.pc = "done" /\ turn'.rows # << >>
      BY <1>a, <1>c, <2>2, LoggedTurn
    <3>2. TurnKeeps' BY <1>c, <2>1, <3>1, PoolLeft
    <3> QED BY <3>1, <3>2, TurnParts, HasLogged
  <2>3. CASE turn' = T!Retry(turn)
    <3>1. turn' \in TurnType /\ TurnShape(turn') /\ turn'.pc = "acquire"
      BY <1>a, <1>c, <2>1, <2>3, RetryTurn
    <3>2. TurnKeeps' BY <1>c, <2>1, <3>1, PoolLeft
    <3> QED BY <3>1, <3>2, TurnParts, StillLogs
  <2> QED BY <1>8, <2>2, <2>3 DEF T!KeySheds
<1> QED BY <1>1, <1>4, <1>5, <1>6, <1>7, <1>8

\* An answer assembled first and sent second.
LEMMA TurnAssembled ==
  ASSUME TurnInv,
         \/ T!Generates \/ T!PlainSheds \/ T!Unusable
         \/ \E b \in BOOLEAN : T!Delivers(b) \/ T!Unreadable(b)
  PROVE  TurnInv'
<1> USE DEF T!World, T!Pool
<1>a. turn \in TurnType /\ TurnShape(turn) BY DEF TurnInv
<1>b. turn.pc = "answer" /\ turn.kind \in {"plain", "compact"}
  BY DEF T!Generates, T!PlainSheds, T!Unusable, T!Delivers, T!Unreadable, T!Assembling, T!At
<1>c. turn.pc # "done" /\ turn.via # "ws" /\ ~turn.wrote /\ resting \subseteq T!Creds
  BY <1>b DEF TurnInv, TurnShape, Placed, Shown, SockType
<1>d. UNCHANGED <<sock, unread, cool, dog, resting, ctx>>
  BY DEF T!Generates, T!PlainSheds, T!Unusable, T!Delivers, T!Unreadable
<1>1. CASE turn' = T!Logged(turn, "499") \/ turn' = T!Logged(turn, "502")
  <2>1. turn' \in TurnType /\ TurnShape(turn') /\ turn'.pc = "done" /\ turn'.rows # << >>
    BY <1>a, <1>c, <1>1, LoggedTurn
  <2>2. TurnKeeps' BY <1>c, <1>d, <2>1, PoolLeft
  <2> QED BY <2>1, <2>2, TurnParts, HasLogged
<1>2. CASE turn' = T!Retry(turn)
  <2>1. turn' \in TurnType /\ TurnShape(turn') /\ turn'.pc = "acquire"
    BY <1>a, <1>c, <1>2, RetryTurn
  <2>2. TurnKeeps' BY <1>c, <1>d, <2>1, PoolLeft
  <2> QED BY <2>1, <2>2, TurnParts, StillLogs
<1>3. CASE T!Generates
  <2>1. turn' = [turn EXCEPT !.pc = "answer", !.header = TRUE, !.wrote = turn.wrote]
    BY <1>a, <1>b, <1>3 DEF T!Generates, TurnType
  <2>2. turn.wrote \in BOOLEAN BY <1>a DEF TurnType
  <2>3. /\ turn' \in TurnType /\ TurnShape(turn') /\ turn'.pc = "answer"
        /\ turn'.via = turn.via /\ turn'.cred = turn.cred
    BY <1>a, <1>b, <2>1, <2>2, AnswerTurn
  <2>4. TurnKeeps' BY <1>c, <1>d, <2>3, PoolLeft
  <2> QED BY <2>3, <2>4, TurnParts, StillLogs
<1>4. CASE T!PlainSheds BY <1>1, <1>2, <1>4 DEF T!PlainSheds
<1>5. CASE T!Unusable BY <1>1, <1>2, <1>5 DEF T!Unusable
<1>6. ASSUME NEW b \in BOOLEAN, T!Delivers(b) PROVE TurnInv'
  <2>1. turn' = T!Served(turn, b, "200") BY <1>6 DEF T!Delivers
  <2>2. turn' \in TurnType /\ TurnShape(turn') /\ turn'.pc = "done" /\ turn'.rows # << >>
    BY <1>a, <1>c, <2>1, ServedTurn
  <2>3. TurnKeeps' BY <1>c, <1>d, <2>2, PoolLeft
  <2> QED BY <2>2, <2>3, TurnParts, HasLogged
<1>7. ASSUME NEW b \in BOOLEAN, T!Unreadable(b) PROVE TurnInv'
  <2>1. CASE turn' = [turn EXCEPT !.pc = "done"] /\ T!cancelled
    <3>1. turn' \in TurnType /\ TurnShape(turn') /\ turn'.pc = "done"
      BY <1>a, <1>c, <2>1, EndedTurn
    <3>2. TurnKeeps' BY <1>c, <1>d, <3>1, PoolLeft
    <3>3. Logs' BY <1>d, <2>1 DEF Logs, T!cancelled
    <3> QED BY <3>1, <3>2, <3>3, TurnParts
  <2>2. CASE turn' = T!Retry(T!Logged(turn, "502")) /\ turn.kind = "plain" /\ turn.cred \in OAuth
    <3>1. turn' \in TurnType /\ TurnShape(turn') /\ turn'.pc = "acquire"
      BY <1>a, <1>b, <2>2, LoggedRetryTurn
    <3>2. TurnKeeps' BY <1>c, <1>d, <3>1, PoolLeft
    <3> QED BY <3>1, <3>2, TurnParts, StillLogs
  <2> QED BY <1>1, <1>2, <1>7, <1>b, <2>1, <2>2 DEF T!Unreadable, T!OnOAuth
<1> QED BY <1>3, <1>4, <1>5, <1>6, <1>7

\* The client, the clocks and the idle sockets.
LEMMA TurnWorld ==
  ASSUME TurnInv,
         \/ T!Leave \/ T!Deadline \/ T!Fires \/ T!Cuts
         \/ \E o \in OAuth : T!Idles(o) \/ T!CooldownEnds(o)
         \/ \E k \in T!Kinds : T!NextTurn(k)
         \/ UNCHANGED <<turn, turns, client, ctx, dog, late, sock, unread, cool, resting>>
  PROVE  TurnInv'
<1> USE DEF T!World, T!Pool
<1>a. turn \in TurnType /\ TurnShape(turn) BY DEF TurnInv
<1>1. ASSUME UNCHANGED <<turn, sock, unread>>, cool' \subseteq OAuth, UNCHANGED resting,
             dog' \in {"armed", "loaded", "spared", "cut"}, Logs'
      PROVE  TurnInv'
  <2>1. SockType' /\ T!LeasesEnd' /\ T!NoForeignFrames'
    BY <1>1 DEF TurnInv, SockType, T!LeasesEnd, T!At, T!NoForeignFrames
  <2>2. turn' \in TurnType /\ TurnShape(turn)' BY <1>1, <1>a
  <2> QED BY <1>1, <2>1, <2>2 DEF TurnInv
<1>2. CASE T!Leave
  <2>1. Logs' BY <1>2 DEF T!Leave, Logs, T!At
  <2> QED BY <1>1, <1>2, <2>1 DEF T!Leave, TurnInv, SockType
<1>3. CASE T!Deadline
  <2>1. Logs' BY <1>3 DEF T!Deadline, Logs, T!At
  <2> QED BY <1>1, <1>3, <2>1 DEF T!Deadline, TurnInv, SockType
<1>4. CASE T!Fires \/ T!Cuts
  <2>1. Logs' BY <1>4 DEF T!Fires, T!Cuts, T!Watched, Logs, T!At
  <2>2. dog' \in {"armed", "loaded", "spared", "cut"} BY <1>4 DEF T!Fires, T!Cuts
  <2> QED BY <1>1, <1>4, <2>1, <2>2 DEF T!Fires, T!Cuts, TurnInv, SockType
<1>5. ASSUME NEW o \in OAuth, T!Idles(o) PROVE TurnInv'
  <2>1. UNCHANGED <<turn, ctx, unread, cool, resting, dog>> /\ sock[o] = "idle"
        /\ sock' = [sock EXCEPT ![o] = "stale"]
    BY <1>5 DEF T!Idles
  <2>2. SockType' BY <2>1 DEF TurnInv, SockType
  <2>3. T!LeasesEnd'
    <3> SUFFICES ASSUME NEW p \in OAuth
                 PROVE  sock'[p] \in {"leased", "dead"} <=> sock[p] \in {"leased", "dead"}
      BY <2>1 DEF TurnInv, T!LeasesEnd, T!At
    <3> QED BY <2>1 DEF TurnInv, SockType
  <2>4. Logs' BY <2>1 DEF TurnInv, Logs, T!At, T!cancelled
  <2>5. turn' \in TurnType /\ TurnShape(turn)' BY <2>1, <1>a
  <2> QED BY <2>1, <2>2, <2>3, <2>4, <2>5 DEF TurnInv, T!NoForeignFrames
<1>6. ASSUME NEW o \in OAuth, T!CooldownEnds(o) PROVE TurnInv'
  <2>1. UNCHANGED <<turn, ctx, sock, unread, resting, dog>> /\ cool' \subseteq cool
    BY <1>6 DEF T!CooldownEnds
  <2>2. Logs' BY <2>1 DEF TurnInv, Logs, T!At, T!cancelled
  <2> QED BY <1>1, <2>1, <2>2 DEF TurnInv, SockType
<1>7. ASSUME NEW k \in T!Kinds, T!NextTurn(k) PROVE TurnInv'
  <2>1. /\ turn.pc = "done" /\ turn' = T!Fresh(k) /\ resting' = {} /\ dog' = "armed"
        /\ UNCHANGED <<sock, unread, cool>>
    BY <1>7 DEF T!NextTurn, T!At
  <2>2. turn' \in TurnType /\ TurnShape(turn') /\ turn'.pc = "acquire" BY <2>1, FreshTurn
  <2>3. SockType' BY <2>1 DEF TurnInv, SockType
  <2>4. T!LeasesEnd' BY <2>1, <2>2 DEF TurnInv, T!LeasesEnd, T!At
  <2> QED BY <2>1, <2>2, <2>3, <2>4, TurnParts, StillLogs DEF TurnInv, TurnKeeps, T!NoForeignFrames
<1>8. CASE UNCHANGED <<turn, turns, client, ctx, dog, late, sock, unread, cool, resting>>
  <2>1. Logs' BY <1>8 DEF TurnInv, Logs, T!At, T!cancelled
  <2> QED BY <1>1, <1>8, <2>1 DEF TurnInv, SockType
<1> QED BY <1>2, <1>3, <1>4, <1>5, <1>6, <1>7, <1>8

LEMMA TurnInit == ASSUME T!Init PROVE TurnInv
<1>1. PICK k \in T!Kinds : turn = T!Fresh(k) BY DEF T!Init
<1>2. turn \in TurnType /\ TurnShape(turn) /\ turn.pc = "acquire" BY <1>1, FreshTurn
<1>3. SockType /\ T!LeasesEnd /\ T!NoForeignFrames
  BY <1>2 DEF T!Init, SockType, T!LeasesEnd, T!At, T!NoForeignFrames
<1> QED BY <1>2, <1>3 DEF TurnInv, Logs, T!At

LEMMA TurnStep ==
  ASSUME TurnInv, T!Next \/ UNCHANGED request
  PROVE  TurnInv'
BY TurnLoop, TurnStatus, TurnStream, TurnAssembled, TurnWorld DEF T!Next, T!Ending, request

-----------------------------------------------------------------------------
\* What the invariant says of sends, of charges and of log rows.
LEMMA TurnsHold == ASSUME TurnInv PROVE T!TurnHolds
<1>a. turn \in TurnType /\ TurnShape(turn) BY DEF TurnInv
<1>b. IsFiniteSet(OAuth) /\ T!Cardinality(OAuth) = Cardinality(OAuth) /\ Cardinality(OAuth) \in Nat
  BY TurnSets, SameSets
<1>1. T!SendsBounded
  <2> SUFFICES ASSUME NEW c \in T!Creds
               PROVE  turn.sends[c] <= 1 + (IF c \in OAuth THEN 1 + 2 ELSE 0)
    BY DEF T!SendsBounded, T!codexSameCredShedRetries
  <2>1. turn.sends[c] <= (IF c \in turn.tried THEN 1 ELSE 0)
                        + (IF c \in OAuth THEN turn.shedRetried[c]
                                              + (IF c \in turn.staleRetried THEN 1 ELSE 0) ELSE 0)
    BY <1>a DEF TurnShape, Asked
  <2>2. turn.sends[c] \in Nat /\ (c \in OAuth => turn.shedRetried[c] \in 0..2) BY <1>a DEF TurnType
  <2> QED BY <2>1, <2>2
<1>2. Len(turn.rows) <= Cardinality(OAuth) + 1 /\ T!RowsAccounted
  <2>1. Len(turn.rows) \in Nat /\ InUse(turn) \in {0, 1} BY <1>a DEF TurnType, InUse
  <2>2. TriedOAuth(turn) \in Nat /\ TriedOAuth(turn) <= Cardinality(OAuth) BY <1>a, TriedOAuthBound
  <2>3. turn.rows = << >> => Len(turn.rows) = 0 OBVIOUS
  <2>4. Len(turn.rows) <= Cardinality(OAuth) + 1
    <3>1. \/ Len(turn.rows) + InUse(turn) <= TriedOAuth(turn) \/ turn.rows = << >>
          \/ Len(turn.rows) <= Cardinality(OAuth) + 1 \/ Len(turn.rows) <= 1
      BY <1>a DEF TurnShape, RowsBound
    <3> QED BY <1>b, <2>1, <2>2, <2>3, <3>1
  <2>5. turn.pc = "done" /\ turn.kind # "plain" => Len(turn.rows) <= 1
    BY <1>a DEF TurnShape, RowsBound
  <2> QED BY <2>4, <2>5 DEF TurnInv, Logs, T!RowsAccounted, T!At
<1>3. T!RetryIsSilent /\ T!ChargedOnce
  <2>1. turn.charged \in {0, 1} BY <1>a DEF TurnType
  <2> QED BY <1>a, <2>1 DEF TurnShape, Shown, T!RetryIsSilent, T!ChargedOnce, T!At
<1>4. T!TypeOK
  <2>1. turn.kind \in T!Kinds /\ turn.pc \in {"acquire", "sent", "answer", "paused", "done"}
        /\ turn.tried \subseteq T!Creds
    BY <1>a DEF TurnType
  <2> QED BY <1>2, <1>b, <2>1 DEF TurnInv, SockType, T!NoForeignFrames, T!TypeOK
<1> QED BY <1>1, <1>2, <1>3, <1>4 DEF TurnInv, T!TurnHolds

\* Every turn of Codex is asked of each credential a bounded number of times,
\* charged at most once and only for what was shown, logged if its client
\* stayed, and holds a socket exactly while it reads it.
THEOREM TurnCorrect == MCSpec => []TurnHolds
<1>1. MCInit => TurnInv BY TurnInit DEF MCInit
<1>2. TurnInv /\ [(Gifting /\ Next) \/ (Turn /\ T!Next)]_all => TurnInv'
  BY TurnStep DEF Gifting, Turn, all
<1>3. TurnInv => TurnHolds BY TurnsHold DEF TurnHolds
<1> QED BY <1>1, <1>2, <1>3, PTL DEF MCSpec
=============================================================================
