----------------------------- MODULE Referral -----------------------------
(***************************************************************************)
(* Invitations: internal/saas/referral/grant.go and the tail of            *)
(* registration that calls it.  A registration through a personal invite   *)
(* card prices the bonuses from counts it reads, records the conversion,   *)
(* and then credits invitee, inviter and milestone tiers one statement at  *)
(* a time; a deferred inviter reward is released by a goroutine that every *)
(* charge of the invitee starts.  Any credit can fail (it is only logged)  *)
(* and the server can die between any two statements.                      *)
(***************************************************************************)
EXTENDS Wallet, FiniteSets

CONSTANTS
  Invitees,      \* users registering through an invite card
  Inviter,       \* [Invitees -> Users], the owner of the card
  Campaigns,     \* what the card's campaign may be: [status, inviteeBonus, inviterBonus,
                 \*   rewardOn, maxRewarded, dailyBudget, minSpend, dailyInviteCap]
  Tiers,         \* milestone tiers, ordered by threshold: [1..n -> [threshold, bonus]]
  TrialBonus,    \* saas.trial_bonus_usd
  Releasers,     \* goroutines running ReleaseInviterReward
  Day,           \* 24 hours in ticks of the clock
  MaxTime,       \* bound: the clock
  MaxSpends,     \* bound: charges of each invitee
  MaxFaults      \* bound: failed statements and crashes

VARIABLES
  campaign,  \* the row of referral_campaigns
  conv,      \* referral_conversions by invitee
  granted,   \* referral_milestone_grants: <<user, tier>>
  invites,   \* user_profiles.lifetime_invites
  job,       \* registrations (one per invitee) and releasers: locals and pc
  now,       \* the clock
  midnight,  \* length of the ledger at the start of the UTC day
  faults

vars == <<balance, ledger, campaign, conv, granted, invites, job, now, midnight, faults>>

Jobs == Invitees \cup Releasers
NoConversion == [recorded |-> FALSE]

ReferralAssumption ==
  /\ Invitees \subseteq Users /\ IsFiniteSet(Invitees)
  /\ Personal \in [Users -> Workspaces]
  /\ Inviter \in [Invitees -> Users]
  /\ Campaigns \subseteq [status : {"active", "paused"}, inviteeBonus : Nat, inviterBonus : Nat,
                   rewardOn : {"signup", "first_spend"}, maxRewarded : Nat,
                   dailyBudget : Nat, minSpend : Nat, dailyInviteCap : Nat]
  /\ Tiers \in Seq([threshold : Nat \ {0}, bonus : Nat \ {0}])
  /\ TrialBonus \in Nat /\ Day \in Nat \ {0}
  /\ Invitees \cap Releasers = {}

\* A job's invitee, whether the campaign was live, the prices of the
\* conversion, and the tiers it has still to look at.
Fresh(i, pc) ==
  [pc |-> pc, invitee |-> i, active |-> FALSE, fraud |-> FALSE, matched |-> FALSE,
   inviteeBonus |-> 0, inviterBonus |-> 0, paid |-> TRUE, tiers |-> {}]
IdleReleaser == [pc |-> "idle"]

Init ==
  /\ WalletInit
  /\ campaign \in Campaigns
  /\ conv = [i \in Invitees |-> NoConversion]
  /\ granted = {}
  /\ invites = [u \in Users |-> 0]
  /\ job = [p \in Jobs |-> IF p \in Invitees THEN Fresh(p, "new") ELSE IdleReleaser]
  /\ now = 0
  /\ midnight = 0
  /\ faults = 0

-----------------------------------------------------------------------------
(* What the queries of grant.go read.                                      *)

BonusRefs == {"ref_invitee", "ref_inviter", "ref_tier"}

\* The ref of a bonus row; the model adds which invitee or tier it is for.
BonusRef(what, x) == <<what, x>>

todayBonusSpend ==
  Total([k \in 1..Len(ledger) |->
           IF k > midnight /\ ledger[k].kind = "adjust" /\ ledger[k].ref[1] \in BonusRefs
           THEN ledger[k].amount ELSE 0])

capTripped == campaign.dailyBudget > 0 /\ todayBonusSpend >= campaign.dailyBudget

Conversions(u) == {i \in Invitees : conv[i].recorded /\ Inviter[i] = u}
countConfirmedInvites(u) == Cardinality({i \in Conversions(u) : ~conv[i].fraud})
countRecentInvites(u) ==
  Cardinality({i \in Conversions(u) : ~conv[i].fraud /\ conv[i].at > now - Day})

\* Invites that paid the inviter: the milestone basis.
countQualifiedInvites(u) ==
  Cardinality({i \in Conversions(u) : /\ ~conv[i].fraud /\ conv[i].paid
                                      /\ conv[i].inviterBonus > 0})

inviteeSpend(i) ==
  Total([k \in 1..Len(ledger) |->
           IF ledger[k].user = i /\ ledger[k].kind = "charge" THEN -ledger[k].amount ELSE 0])

Credit(u, amount, ref) == AddBalanceTx(u, "adjust", amount, ref, TRUE)
CreditIf(cond, u, amount, ref) ==
  IF cond THEN Credit(u, amount, ref) ELSE UNCHANGED walletVars

-----------------------------------------------------------------------------
(* Registration through an invite card: grantInvite.                       *)

At(p, pc) == job[p].pc = pc
Goto(p, pc) == job' = [job EXCEPT ![p].pc = pc]

\* RecordSignupDevice says whether the signup is suspect; the campaign is read.
grantInvite(i) ==
  /\ At(i, "new")
  /\ \E fraud \in BOOLEAN :
       job' = [job EXCEPT ![i].pc = IF campaign.status = "active" /\ ~fraud THEN "budget" ELSE "insert",
                          ![i].active = (campaign.status = "active"),
                          ![i].fraud = fraud]
  /\ UNCHANGED <<balance, ledger, campaign, conv, granted, invites, now, midnight, faults>>

\* The circuit breaker: past the daily budget the conversion is worth nothing.
CheckBudget(i) ==
  /\ At(i, "budget")
  /\ Goto(i, IF capTripped THEN "insert" ELSE "price")
  /\ UNCHANGED <<balance, ledger, campaign, conv, granted, invites, now, midnight, faults>>

OverCaps(u) ==
  \/ campaign.maxRewarded > 0 /\ countConfirmedInvites(u) >= campaign.maxRewarded
  \/ campaign.dailyInviteCap > 0 /\ countRecentInvites(u) >= campaign.dailyInviteCap

\* An inviter's bonus is deferred until the invitee spends.
Deferred(bonus) == campaign.rewardOn = "first_spend" /\ bonus > 0

PriceConversion(i) ==
  LET bonus == IF OverCaps(Inviter[i]) THEN 0 ELSE campaign.inviterBonus
  IN  /\ At(i, "price")
      /\ job' = [job EXCEPT ![i].pc = "insert",
                            ![i].inviteeBonus = campaign.inviteeBonus,
                            ![i].inviterBonus = bonus,
                            ![i].paid = ~Deferred(bonus)]
      /\ UNCHANGED <<balance, ledger, campaign, conv, granted, invites, now, midnight, faults>>

\* The conversion is on record before any of it is paid.  A fraudulent one
\* ends here, matched only if the campaign was live.
insertConversion(i) ==
  LET j == job[i]
  IN  /\ At(i, "insert")
      /\ conv' = [conv EXCEPT ![i] =
           [recorded |-> TRUE, inviteeBonus |-> j.inviteeBonus,
            inviterBonus |-> j.inviterBonus, fraud |-> j.fraud, paid |-> j.paid, at |-> now]]
      /\ job' = [job EXCEPT ![i].pc = IF j.fraud THEN "tail" ELSE "invitee",
                            ![i].matched = ~j.fraud \/ j.active]
      /\ UNCHANGED <<balance, ledger, campaign, granted, invites, now, midnight, faults>>

CreditInvitee(i) ==
  /\ At(i, "invitee")
  /\ CreditIf(job[i].inviteeBonus > 0, i, job[i].inviteeBonus, BonusRef("ref_invitee", i))
  /\ Goto(i, "inviter")
  /\ UNCHANGED <<campaign, conv, granted, invites, now, midnight, faults>>

CreditInviter(i) ==
  /\ At(i, "inviter")
  /\ CreditIf(job[i].paid /\ job[i].inviterBonus > 0, Inviter[i], job[i].inviterBonus,
              BonusRef("ref_inviter", i))
  /\ Goto(i, "bump")
  /\ UNCHANGED <<campaign, conv, granted, invites, now, midnight, faults>>

BumpInvites(i) ==
  /\ At(i, "bump")
  /\ invites' = [invites EXCEPT ![Inviter[i]] = @ + 1]
  /\ Goto(i, IF job[i].active THEN "count" ELSE "tail")
  /\ UNCHANGED <<balance, ledger, campaign, conv, granted, now, midnight, faults>>

\* register's tail: the trial credit of a signup nothing else has matched.
RegisterTail(i) ==
  /\ At(i, "tail")
  /\ CreditIf(~job[i].matched /\ ~job[i].fraud /\ TrialBonus > 0, i, TrialBonus,
              BonusRef("trial", i))
  /\ Goto(i, "done")
  /\ UNCHANGED <<campaign, conv, granted, invites, now, midnight, faults>>

-----------------------------------------------------------------------------
(* checkMilestones, for a registration or a releaser.                      *)

\* checkMilestones returns: to register, or out of the goroutine.
Leave(p) ==
  job' = [job EXCEPT ![p] = IF p \in Invitees THEN [@ EXCEPT !.pc = "tail"] ELSE IdleReleaser]

Reached(t, n) == t.threshold <= n

\* The tier that comes next of those left, in the order of the thresholds.
NextTier(p) == CHOOSE k \in job[p].tiers : \A l \in job[p].tiers : k <= l
Rest(p) == job[p].tiers \ {NextTier(p)}

checkMilestones(p) ==
  LET n == countQualifiedInvites(Inviter[job[p].invitee])
  IN  /\ At(p, "count")
      /\ job' = [job EXCEPT ![p].pc = "tier",
                            ![p].tiers = {k \in DOMAIN Tiers : Reached(Tiers[k], n)}]
      /\ UNCHANGED <<balance, ledger, campaign, conv, granted, invites, now, midnight, faults>>

\* The next reached tier: deferred while the budget is exhausted, skipped when
\* it was granted before, else put on record and then paid.
GrantTier(p) ==
  LET k == NextTier(p)
      u == Inviter[job[p].invitee]
  IN  /\ At(p, "tier") /\ job[p].tiers # {}
      /\ IF capTripped \/ <<u, k>> \in granted
         THEN /\ job' = [job EXCEPT ![p].tiers = Rest(p)]
              /\ UNCHANGED granted
         ELSE /\ job' = [job EXCEPT ![p].pc = "tiercredit"]
              /\ granted' = granted \cup {<<u, k>>}
      /\ UNCHANGED <<balance, ledger, campaign, conv, invites, now, midnight, faults>>

CreditTier(p) ==
  LET k == NextTier(p)
  IN  /\ At(p, "tiercredit")
      /\ Credit(Inviter[job[p].invitee], Tiers[k].bonus, BonusRef("ref_tier", k))
      /\ job' = [job EXCEPT ![p].pc = "tier", ![p].tiers = Rest(p)]
      /\ UNCHANGED <<campaign, conv, granted, invites, now, midnight, faults>>

TiersDone(p) ==
  /\ At(p, "tier") /\ job[p].tiers = {}
  /\ Leave(p)
  /\ UNCHANGED <<balance, ledger, campaign, conv, granted, invites, now, midnight, faults>>

-----------------------------------------------------------------------------
(* ReleaseInviterReward.                                                   *)

\* A charge of the invitee, which starts a releaser (Adapter.Charge).
Spend(i, r) ==
  /\ At(i, "done")
  /\ inviteeSpend(i) < MaxSpends
  /\ At(r, "idle")
  /\ AddBalanceTx(i, "charge", -1, BonusRef("spend", i), TRUE)
  /\ job' = [job EXCEPT ![r] = Fresh(i, "pending")]
  /\ UNCHANGED <<campaign, conv, granted, invites, now, midnight, faults>>

Owed(i) == conv[i].recorded /\ ~conv[i].paid /\ ~conv[i].fraud

ReleasePending(r) ==
  LET i == job[r].invitee
  IN  /\ At(r, "pending")
      /\ job' = [job EXCEPT ![r] =
           IF Owed(i) THEN [@ EXCEPT !.pc = "gates", !.inviterBonus = conv[i].inviterBonus]
           ELSE IdleReleaser]
      /\ UNCHANGED <<balance, ledger, campaign, conv, granted, invites, now, midnight, faults>>

Earned(i) == campaign.minSpend > 0 => inviteeSpend(i) >= campaign.minSpend

\* The budget and the minimum spend; a refused release waits for another charge.
ReleaseGates(r) ==
  /\ At(r, "gates")
  /\ IF capTripped \/ ~Earned(job[r].invitee) THEN Leave(r) ELSE Goto(r, "mark")
  /\ UNCHANGED <<balance, ledger, campaign, conv, granted, invites, now, midnight, faults>>

\* Mutant: the UPDATE is not guarded.
ReleaseMarkAlways(r) ==
  /\ At(r, "mark")
  /\ conv' = [conv EXCEPT ![job[r].invitee].paid = TRUE]
  /\ Goto(r, "pay")
  /\ UNCHANGED <<balance, ledger, campaign, granted, invites, now, midnight, faults>>

\* UPDATE ... SET inviter_paid = 1 WHERE inviter_paid = 0: one releaser wins.
ReleaseMark(r) ==
  LET i == job[r].invitee
  IN  /\ At(r, "mark")
      /\ IF conv[i].paid
         THEN Leave(r) /\ UNCHANGED conv
         ELSE Goto(r, "pay") /\ conv' = [conv EXCEPT ![i].paid = TRUE]
      /\ UNCHANGED <<balance, ledger, campaign, granted, invites, now, midnight, faults>>

ReleasePay(r) ==
  LET i == job[r].invitee
  IN  /\ At(r, "pay")
      /\ Credit(Inviter[i], job[r].inviterBonus, BonusRef("ref_inviter", i))
      /\ IF campaign.status = "active" THEN Goto(r, "count") ELSE Leave(r)
      /\ UNCHANGED <<campaign, conv, granted, invites, now, midnight, faults>>

-----------------------------------------------------------------------------
(* Failures, time and the operator.                                        *)

\* A failed statement: an unreadable budget does not trip the breaker, a failed
\* INSERT of the conversion (like an unreadable campaign) leaves the signup
\* unmatched, a failed credit is logged and skipped, a failed release returns.
StatementFails(p) ==
  /\ faults < MaxFaults
  /\ faults' = faults + 1
  /\ CASE job[p].pc \in {"new", "insert"} -> Goto(p, "tail")
       [] At(p, "budget")     -> Goto(p, "price")
       [] At(p, "invitee")    -> Goto(p, "inviter")
       [] At(p, "inviter")    -> Goto(p, "bump")
       [] At(p, "tail")       -> Goto(p, "done")
       [] At(p, "tier") /\ job[p].tiers # {} -> job' = [job EXCEPT ![p].tiers = Rest(p)]
       [] At(p, "tiercredit") -> job' = [job EXCEPT ![p].pc = "tier", ![p].tiers = Rest(p)]
       [] job[p].pc \in {"count", "pending", "gates", "mark", "pay"} -> Leave(p)
       [] OTHER -> FALSE
  /\ UNCHANGED <<balance, ledger, campaign, conv, granted, invites, now, midnight>>

\* The server dies: registrations in flight end, goroutines are gone.
Crash ==
  /\ faults < MaxFaults
  /\ faults' = faults + 1
  /\ job' = [p \in Jobs |->
       IF p \in Releasers THEN IdleReleaser
       ELSE IF At(p, "new") THEN job[p] ELSE [job[p] EXCEPT !.pc = "done"]]
  /\ UNCHANGED <<balance, ledger, campaign, conv, granted, invites, now, midnight>>

SetStatus ==
  /\ campaign' = [campaign EXCEPT !.status = IF @ = "active" THEN "paused" ELSE "active"]
  /\ UNCHANGED <<balance, ledger, conv, granted, invites, job, now, midnight, faults>>

Tick ==
  /\ now < MaxTime
  /\ now' = now + 1
  /\ midnight' = IF now' % Day = 0 THEN Len(ledger) ELSE midnight
  /\ UNCHANGED <<balance, ledger, campaign, conv, granted, invites, job, faults>>

Register(i) ==
  \/ grantInvite(i) \/ CheckBudget(i) \/ PriceConversion(i) \/ insertConversion(i)
  \/ CreditInvitee(i) \/ CreditInviter(i) \/ BumpInvites(i) \/ RegisterTail(i)

Release(r) == ReleasePending(r) \/ ReleaseGates(r) \/ ReleaseMark(r) \/ ReleasePay(r)

Next ==
  \/ \E i \in Invitees : Register(i)
  \/ \E r \in Releasers : Release(r)
  \/ \E i \in Invitees, r \in Releasers : Spend(i, r)
  \/ \E p \in Jobs : \/ checkMilestones(p) \/ GrantTier(p) \/ CreditTier(p)
                     \/ TiersDone(p) \/ StatementFails(p)
  \/ Crash \/ SetStatus \/ Tick

Spec == Init /\ [][Next]_vars

-----------------------------------------------------------------------------
(* Properties.                                                             *)

JobPcs == {"new", "budget", "price", "insert", "invitee", "inviter", "bump", "tail", "done",
           "count", "tier", "tiercredit", "pending", "gates", "mark", "pay"}

TypeOK ==
  /\ balance \in [Workspaces -> Int]
  /\ ledger \in Seq([ws : Workspaces, user : Users, kind : {"adjust", "charge"}, amount : Int,
                     ref : ((BonusRefs \cup {"trial", "spend"}) \X (Invitees \cup Nat)),
                     key : {NoKey}])
  /\ campaign.status \in {"active", "paused"}
  /\ conv \in [Invitees -> {NoConversion} \cup
       [recorded : {TRUE}, inviteeBonus : Nat, inviterBonus : Nat, fraud : BOOLEAN,
        paid : BOOLEAN, at : Nat]]
  /\ granted \subseteq Users \X DOMAIN Tiers
  /\ invites \in [Users -> Nat]
  /\ job \in [Jobs -> {IdleReleaser} \cup
       [pc : JobPcs, invitee : Invitees, active : BOOLEAN, fraud : BOOLEAN,
        matched : BOOLEAN, inviteeBonus : Nat, inviterBonus : Nat, paid : BOOLEAN,
        tiers : SUBSET DOMAIN Tiers]]
  /\ now \in Nat /\ midnight \in Nat /\ faults \in Nat

Rows(what, x) == {k \in DOMAIN ledger : ledger[k].ref = BonusRef(what, x)}
TierRows(u, k) == {n \in Rows("ref_tier", k) : ledger[n].user = u}

\* Every bonus row is backed by the record that justifies it, and no record is
\* paid twice: a conversion pays its invitee and its inviter at most once, a
\* tier pays a user at most once, whatever signups, charges and releases race.
BonusesBackedOnce ==
  /\ \A i \in Invitees :
       /\ Cardinality(Rows("ref_invitee", i)) <= 1
       /\ Cardinality(Rows("ref_inviter", i)) <= 1
       /\ \A k \in Rows("ref_invitee", i) :
            conv[i].recorded /\ ledger[k].amount = conv[i].inviteeBonus
       /\ \A k \in Rows("ref_inviter", i) :
            conv[i].recorded /\ conv[i].paid /\ ledger[k].amount = conv[i].inviterBonus
  /\ \A u \in Users, k \in DOMAIN Tiers :
       /\ Cardinality(TierRows(u, k)) <= 1
       /\ TierRows(u, k) # {} => <<u, k>> \in granted

\* As long as nothing fails, whatever is on record as paid is paid or is the
\* next thing a running job pays: no race of registrations and releasers, no
\* exhausted budget and no midnight turns a recorded bonus into nothing.
RecordedIsPaid ==
  faults = 0 =>
    /\ \A i \in Invitees :
         conv[i].recorded /\ ~conv[i].fraud =>
           /\ conv[i].inviteeBonus > 0 => Rows("ref_invitee", i) # {} \/ At(i, "invitee")
           /\ conv[i].inviterBonus > 0 /\ conv[i].paid =>
                \/ Rows("ref_inviter", i) # {}
                \/ job[i].pc \in {"invitee", "inviter"}
                \/ \E r \in Releasers : At(r, "pay") /\ job[r].invitee = i
    /\ \A g \in granted :
         \/ TierRows(g[1], g[2]) # {}
         \/ \E p \in Jobs : /\ At(p, "tiercredit")
                            /\ Inviter[job[p].invitee] = g[1] /\ NextTier(p) = g[2]

\* A deferred reward is earned before it is paid, and so is a tier: the invitee
\* has spent the minimum, and the inviter has as many invitees who did as the
\* tier asks for (grant.go:241: a farm must not collect instantly).
RewardsAreEarned ==
  campaign.rewardOn = "first_spend" =>
    /\ \A i \in Invitees :
         Rows("ref_inviter", i) # {} => inviteeSpend(i) >= campaign.minSpend
    /\ \A g \in granted :
         Tiers[g[2]].threshold <=
           Cardinality({i \in Conversions(g[1]) :
                          /\ conv[i].inviterBonus > 0
                          /\ inviteeSpend(i) >= campaign.minSpend})

\* A newcomer is welcomed once: by the invitation or by the trial credit, and
\* by neither when the signup was flagged.
OneWelcome ==
  \A i \in Invitees :
    LET welcome == Rows("ref_invitee", i) \cup Rows("trial", i)
    IN  Cardinality(welcome) <= 1 /\ (job[i].fraud => welcome = {})

\* The four together: a bonus is recorded, earned, paid, and each of it once.
ReferralHolds ==
  TypeOK /\ BonusesBackedOnce /\ RecordedIsPaid /\ RewardsAreEarned /\ OneWelcome
=============================================================================
