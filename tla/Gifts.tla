------------------------------- MODULE Gifts -------------------------------
(***************************************************************************)
(* Gift cards: internal/saas/db/gifts.go and internal/saas/referral.       *)
(*                                                                         *)
(* A gift is escrow: sending debits the sender and records a pending row,  *)
(* claiming credits the claimer, and the hourly sweeper returns an expired *)
(* pending gift to its sender.  The provenance check of SendGift reads the *)
(* sender's headroom and balance before, and outside, the transaction that *)
(* debits; registration, email verification, bearers of the code and the   *)
(* sweeper race for the same pending row.                                  *)
(***************************************************************************)
EXTENDS Wallet, FiniteSets, Functions

CONSTANTS
  Codes,       \* gift codes; each is one SendGift request
  Gift,        \* [Codes -> [sender, recipient : Users, amount : Nat \ {0}]]
  Newcomers,   \* users whose email has no account yet
  MoneyIn,     \* [Users -> [topup, bonus, spend : Nat]]: each at most once
  MaxCrashes   \* bound: server crashes

VARIABLES
  gift,       \* gift_cards: [status, claimer]
  expired,    \* gifts whose expires_at has passed
  send,       \* SendGift per code: [pc, headroom]
  account,    \* users: "absent", "created" (registering) or "registered"
  disabled,   \* users.disabled
  listed,     \* gifts AutoClaimForEmail has read and not yet tried, per user
  sweeping,   \* gifts the sweeper has read and not yet tried
  moved,      \* <<user, kind>> money movements already made
  crashes

vars == <<balance, ledger, gift, expired, send, account, disabled, listed,
          sweeping, moved, crashes>>

Nobody == "nobody"

ASSUME GiftsAssumption ==
  /\ IsFiniteSet(Users) /\ IsFiniteSet(Codes)
  /\ Gift \in [Codes -> [sender : Users, recipient : Users, amount : Nat \ {0}]]
  /\ \A c \in Codes : Gift[c].sender # Gift[c].recipient    \* ErrSelfGift
  /\ \A u, v \in Users : Personal[u] = Personal[v] => u = v
  /\ Newcomers \subseteq Users
  /\ MoneyIn \in [Users -> [topup : Nat, bonus : Nat, spend : Nat]]
  /\ MaxCrashes \in Nat

Init ==
  /\ WalletInit
  /\ gift = [c \in Codes |-> [status |-> "none", claimer |-> Nobody]]
  /\ expired = {}
  /\ send = [c \in Codes |-> [pc |-> "idle", headroom |-> 0]]
  /\ account = [u \in Users |-> IF u \in Newcomers THEN "absent" ELSE "registered"]
  /\ disabled = {}
  /\ listed = [u \in Users |-> {}]
  /\ sweeping = {}
  /\ moved = {}
  /\ crashes = 0

-----------------------------------------------------------------------------
(* The headroom rule.                                                      *)

GiftRefs == {"gift_send", "gift_claim", "gift_refund"}
GiftRef(what, c) == <<what, c>>
OtherRef(what) == <<what, Nobody>>

\* The rows GiftableHeadroom sums for u: real money and gifts, not bonuses and
\* not consumption.
CountsAsReal(row, u) ==
  /\ row.user = u \/ row.ws = Personal[u]
  /\ row.kind = "topup" \/ row.ref[1] \in GiftRefs

GiftableHeadroom(u) ==
  Total([i \in 1..Len(ledger) |->
           IF CountsAsReal(ledger[i], u) THEN ledger[i].amount ELSE 0])

GetBalance(u) == balance[Personal[u]]

\* SendGift's refusals ErrTopupRequired and ErrBonusNotGiftable.  Asking for
\* more than the whole balance is left to GiftSendTx.
ProvenanceRefused(amount, headroom, bal) ==
  LET giftable == Greater(0, Lesser(headroom, bal))
  IN  amount <= bal /\ (giftable <= 0 \/ amount > giftable)

-----------------------------------------------------------------------------
(* SendGift.                                                               *)

SendReadHeadroom(c) ==
  LET u == Gift[c].sender
  IN  /\ send[c].pc = "idle"
      /\ account[u] = "registered" /\ u \notin disabled
      /\ send' = [send EXCEPT ![c] = [pc |-> "headroom", headroom |-> GiftableHeadroom(u)]]
      /\ UNCHANGED <<balance, ledger, gift, expired, account, disabled, listed,
                     sweeping, moved, crashes>>

SendChecks(c) ==
  /\ send[c].pc = "headroom"
  /\ send' = [send EXCEPT ![c].pc =
       IF ProvenanceRefused(Gift[c].amount, send[c].headroom, GetBalance(Gift[c].sender))
       THEN "done" ELSE "checked"]
  /\ UNCHANGED <<balance, ledger, gift, expired, account, disabled, listed,
                 sweeping, moved, crashes>>

\* The debit and the escrow row are one transaction.
GiftSendTx(c) ==
  /\ send[c].pc = "checked"
  /\ IF Affordable(Personal[Gift[c].sender], -Gift[c].amount, FALSE)
     THEN /\ AddBalanceTx(Gift[c].sender, "adjust", -Gift[c].amount,
                          GiftRef("gift_send", c), FALSE)
          /\ gift' = [gift EXCEPT ![c].status = "pending"]
          /\ send' = [send EXCEPT ![c].pc = "sent"]
     ELSE /\ send' = [send EXCEPT ![c].pc = "done"]
          /\ UNCHANGED <<balance, ledger, gift>>
  /\ UNCHANGED <<expired, account, disabled, listed, sweeping, moved, crashes>>

-----------------------------------------------------------------------------
(* Claims and refunds: the status guard decides every race.                *)

\* Mutant: the claim has no status guard.
GiftClaimUnguarded(c, u) ==
  /\ gift' = [gift EXCEPT ![c] = [status |-> "claimed", claimer |-> u]]
  /\ AddBalanceTx(u, "adjust", Gift[c].amount, GiftRef("gift_claim", c), TRUE)

GiftClaimTx(c, u) ==
  IF gift[c].status = "pending"
  THEN /\ gift' = [gift EXCEPT ![c] = [status |-> "claimed", claimer |-> u]]
       /\ AddBalanceTx(u, "adjust", Gift[c].amount, GiftRef("gift_claim", c), TRUE)
  ELSE UNCHANGED <<balance, ledger, gift>>

GiftRefundTx(c) ==
  IF gift[c].status = "pending"
  THEN /\ gift' = [gift EXCEPT ![c].status = "refunded"]
       /\ AddBalanceTx(Gift[c].sender, "refund", Gift[c].amount,
                       GiftRef("gift_refund", c), TRUE)
  ELSE UNCHANGED <<balance, ledger, gift>>

\* The tail of SendGift: a recipient with an enabled account is credited now.
SendClaim(c) ==
  LET r == Gift[c].recipient
  IN  /\ send[c].pc = "sent"
      /\ IF account[r] # "absent" /\ r \notin disabled
         THEN GiftClaimTx(c, r) ELSE UNCHANGED <<balance, ledger, gift>>
      /\ send' = [send EXCEPT ![c].pc = "done"]
      /\ UNCHANGED <<expired, account, disabled, listed, sweeping, moved, crashes>>

\* Whoever holds the code may redeem it; expires_at is not looked at.
ClaimGiftByCode(c, u) ==
  /\ gift[c].status = "pending"
  /\ account[u] = "registered" /\ u \notin disabled
  /\ GiftClaimTx(c, u)
  /\ UNCHANGED <<expired, send, account, disabled, listed, sweeping, moved, crashes>>

CreateUser(u) ==
  /\ account[u] = "absent"
  /\ account' = [account EXCEPT ![u] = "created"]
  /\ UNCHANGED <<balance, ledger, gift, expired, send, disabled, listed,
                 sweeping, moved, crashes>>

\* ListPendingGiftsForEmail, less the user's own gifts.
PendingFor(u) ==
  {c \in Codes : gift[c].status = "pending" /\ Gift[c].recipient = u /\ Gift[c].sender # u}

\* The list is read at the end of registration and at email verification ...
AutoClaimList(u) ==
  /\ account[u] # "absent"
  /\ listed[u] = {}
  /\ account' = [account EXCEPT ![u] = "registered"]
  /\ listed' = [listed EXCEPT ![u] = PendingFor(u)]
  /\ UNCHANGED <<balance, ledger, gift, expired, send, disabled, sweeping, moved, crashes>>

\* ... and each listed gift is then claimed in a transaction of its own.
AutoClaimNext(u, c) ==
  /\ c \in listed[u]
  /\ GiftClaimTx(c, u)
  /\ listed' = [listed EXCEPT ![u] = @ \ {c}]
  /\ UNCHANGED <<expired, send, account, disabled, sweeping, moved, crashes>>

\* Mutant: only gifts to people without an account are swept.
SweepListUnknown ==
  /\ sweeping = {}
  /\ sweeping' = {c \in expired : /\ gift[c].status = "pending"
                                  /\ account[Gift[c].recipient] = "absent"}
  /\ UNCHANGED <<balance, ledger, gift, expired, send, account, disabled, listed,
                 moved, crashes>>

\* ListExpiredPendingGifts, then one refund transaction per gift.
SweepList ==
  /\ sweeping = {}
  /\ sweeping' = {c \in expired : gift[c].status = "pending"}
  /\ UNCHANGED <<balance, ledger, gift, expired, send, account, disabled, listed,
                 moved, crashes>>

SweepRefund(c) ==
  /\ c \in sweeping
  /\ GiftRefundTx(c)
  /\ sweeping' = sweeping \ {c}
  /\ UNCHANGED <<expired, send, account, disabled, listed, moved, crashes>>

-----------------------------------------------------------------------------
(* The environment: time, money, an administrator, crashes.                *)

Expire(c) ==
  /\ gift[c].status # "none" /\ c \notin expired
  /\ expired' = expired \cup {c}
  /\ UNCHANGED <<balance, ledger, gift, send, account, disabled, listed,
                 sweeping, moved, crashes>>

\* A top-up, a bonus (kind adjust), or usage charged to the wallet.
Move(u, what) ==
  /\ account[u] = "registered"
  /\ <<u, what>> \notin moved
  /\ MoneyIn[u][what] > 0
  /\ moved' = moved \cup {<<u, what>>}
  /\ CASE what = "topup" -> AddBalanceTx(u, "topup", MoneyIn[u].topup, OtherRef("order"), TRUE)
       [] what = "bonus" -> AddBalanceTx(u, "adjust", MoneyIn[u].bonus, OtherRef("signup_bonus"), TRUE)
       [] what = "spend" -> AddBalanceTx(u, "charge", -MoneyIn[u].spend, OtherRef("token"), TRUE)
  /\ UNCHANGED <<gift, expired, send, account, disabled, listed, sweeping, crashes>>

Disable(u) ==
  /\ u \notin disabled
  /\ disabled' = disabled \cup {u}
  /\ UNCHANGED <<balance, ledger, gift, expired, send, account, listed, sweeping,
                 moved, crashes>>

\* Everything a handler or the sweeper holds in memory is lost.
Crash ==
  /\ crashes < MaxCrashes
  /\ crashes' = crashes + 1
  /\ send' = [c \in Codes |-> IF send[c].pc = "idle" THEN send[c]
                              ELSE [send[c] EXCEPT !.pc = "done"]]
  /\ account' = [u \in Users |-> IF account[u] = "created" THEN "registered" ELSE account[u]]
  /\ listed' = [u \in Users |-> {}]
  /\ sweeping' = {}
  /\ UNCHANGED <<balance, ledger, gift, expired, disabled, moved>>

Next ==
  \/ \E c \in Codes : \/ SendReadHeadroom(c) \/ SendChecks(c) \/ GiftSendTx(c)
                      \/ SendClaim(c) \/ SweepRefund(c) \/ Expire(c)
  \/ \E u \in Users, c \in Codes : ClaimGiftByCode(c, u) \/ AutoClaimNext(u, c)
  \/ \E u \in Users : CreateUser(u) \/ AutoClaimList(u) \/ Disable(u)
  \/ \E u \in Users, what \in {"topup", "bonus", "spend"} : Move(u, what)
  \/ SweepList
  \/ Crash

\* Time passes, and the sweeper's ticker fires for as long as the process (or
\* its restart) runs: it lists and refunds.
Fairness ==
  /\ \A c \in Codes : WF_vars(Expire(c)) /\ WF_vars(SweepRefund(c))
  /\ WF_vars(SweepList)

Spec == Init /\ [][Next]_vars /\ Fairness

-----------------------------------------------------------------------------
(* Properties.                                                             *)

RowType ==
  [ws : Workspaces, user : Users, kind : {"topup", "adjust", "charge", "refund"},
   amount : Int, key : {NoKey},
   ref : (GiftRefs \X Codes) \cup ({"order", "signup_bonus", "token"} \X {Nobody})]

TypeOK ==
  /\ balance \in [Workspaces -> Int]
  /\ ledger \in Seq(RowType)
  /\ gift \in [Codes -> [status : {"none", "pending", "claimed", "refunded"},
                         claimer : Users \cup {Nobody}]]
  /\ expired \subseteq Codes
  /\ send \in [Codes -> [pc : {"idle", "headroom", "checked", "sent", "done"},
                         headroom : Int]]
  /\ account \in [Users -> {"absent", "created", "registered"}]
  /\ disabled \subseteq Users
  /\ listed \in [Users -> SUBSET Codes]
  /\ sweeping \subseteq Codes
  /\ moved \subseteq (Users \X {"topup", "bonus", "spend"})
  /\ crashes \in Nat

RowsFor(what, c) == {i \in DOMAIN ledger : ledger[i].ref = GiftRef(what, c)}

\* Exactly one row of the gift's amount, with sign s, on u's personal wallet.
OneRow(what, c, u, s) ==
  \E i \in DOMAIN ledger :
    /\ RowsFor(what, c) = {i}
    /\ ledger[i].ws = Personal[u]
    /\ ledger[i].amount = s * Gift[c].amount

\* Escrow: a gift's status and its ledger rows always tell the same story, so
\* no race of claim, auto-claim, sweep and crash pays a gift out twice, pays it
\* to both sides, or debits a sender without a gift to show for it.
EscrowMatchesLedger ==
  \A c \in Codes :
    /\ IF gift[c].status = "none" THEN RowsFor("gift_send", c) = {}
       ELSE OneRow("gift_send", c, Gift[c].sender, -1)
    /\ IF gift[c].status = "claimed" THEN OneRow("gift_claim", c, gift[c].claimer, 1)
       ELSE RowsFor("gift_claim", c) = {}
    /\ IF gift[c].status = "refunded" THEN OneRow("gift_refund", c, Gift[c].sender, 1)
       ELSE RowsFor("gift_refund", c) = {}

\* Headroom is conserved across transfers (db/wallet.go, GiftableHeadroom: "the
\* total never grows"): what all users may gift on, together with the gifts in
\* escrow, is exactly the real money that came in.
HeadroomConserved ==
  SumFunctionOnSet([u \in Users |-> GiftableHeadroom(u)], Users)
    + SumFunctionOnSet([c \in Codes |-> Gift[c].amount],
                       {c \in Codes : gift[c].status = "pending"})
  = SumFunctionOnSet([u \in Users |-> MoneyIn[u].topup],
                     {u \in Users : <<u, "topup">> \in moved})

\* Bonus credit cannot be gifted (db/wallet.go:293: "it just cannot be moved"):
\* nobody ever sends more than the real money they hold, so no headroom is
\* negative.
BonusNeverMoved == \A u \in Users : GiftableHeadroom(u) >= 0

\* Without crashes and disabled accounts no gift is stranded: one sent to a
\* person who already has an account, or who is registering meanwhile, does
\* not stay pending once both requests are over.
NoStrandedGift ==
  \A c \in Codes :
    LET r == Gift[c].recipient
    IN  ~ /\ gift[c].status = "pending"
          /\ send[c].pc = "done"
          /\ account[r] = "registered" /\ c \notin listed[r]
          /\ crashes = 0 /\ r \notin disabled

\* The three together: where the money of a gift is.
GiftsHold == TypeOK /\ EscrowMatchesLedger /\ HeadroomConserved /\ NoStrandedGift

\* Escrow always ends: a pending gift is claimed or returned, even if the
\* server crashes between the send and the claim or in the middle of a sweep.
EscrowEnds ==
  \A c \in Codes : gift[c].status = "pending" ~> gift[c].status \in {"claimed", "refunded"}
=============================================================================
