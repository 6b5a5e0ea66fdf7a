----------------------------- MODULE MCAccounts -----------------------------
(***************************************************************************)
(* Instances for TLC of the people's side: how they sign in, meet limits,  *)
(* share workspaces, spend under caps, are charged by services, earn for   *)
(* referrals.  The components share no state, so each behaviour runs one   *)
(* of them, chosen in MCInit: the state space is the sum of theirs.  The   *)
(* variables stand in the order of the components below; a name that       *)
(* another component has taken is replaced.                                *)
(***************************************************************************)
EXTENDS ServiceApi, TLC

CONSTANTS
  Emails, IPs, NoIP, EmailWins, IpWins, Longest, ClaimMax, ClaimWidth, UserMax, UserWidth,
  LastTick,                                  \* the rate limiters
  Right, Inboxes, Attempts, Mails, Deaths,   \* the accounts
  SsoCodes, Ttl, Grace, Horizon, Updates,    \* single sign-on
  Operators, Issues,                         \* workspaces
  Holders, Owner, Bills, DayCap, MonthCap, MemberCap, KeyDay, KeyMonth, AdminCaps,
  DaysPerMonth, MaxDay, MaxSpend, MaxSecrets,   \* API keys and their caps
  Tokens, First, Providers, Scale, Weekly, Ceilings, Default, MaxEdits,   \* client tokens
  Parties, Purses, HomeOf, Offers, Welcome, DayTicks, Alone, Together,    \* referrals
  i1, i2

VARIABLES
  component,
  tick, events, hits, window, asked, claimed, entered, refused,
  user, code, mails, inbox, signing, consumed, guesses, born, orphaned, deaths,
  clock, row, sso, sessions, redeeming, issued,
  exists, roles, invite, issues, inviting, promoted,
  day, space, belongs, key, request, spent,
  ceiling, used, inflight, visit, panel, minted, edits, outside,
  purse, book, campaign, conv, granted, invites, job, now, midnight, faults

limits == <<tick, events, hits, window, asked, claimed, entered, refused>>
signin == <<user, code, mails, inbox, signing, consumed, guesses, born, orphaned, deaths>>
single == <<clock, row, sso, sessions, redeeming, issued>>
spaces == <<exists, roles, invite, issues, inviting, promoted>>
caps == <<day, space, belongs, key, request, spent>>
tokens == <<ceiling, used, inflight, visit, panel, minted, edits, outside>>
referral == <<purse, book, campaign, conv, granted, invites, job, now, midnight, faults>>
all == <<component, vars, limits, signin, single, spaces, caps, tokens, referral>>

Windows == {[max |-> 1, width |-> 1], [max |-> 2, width |-> 3]}
AddressWindows == {[max |-> 2, width |-> 2], [max |-> 3, width |-> 4]}
Scales == [p \in {"claude", "codex"} |-> IF p = "codex" THEN 5 ELSE 1]
OneOwner == [k \in Right |-> "u1"]

\* u2 is a member of u1's workspace and charges 3 there; f1 and f2 refund 2 of
\* it under keys of their own.  Two mistakes: f3 reuses the charge's key, f4
\* claims the money for another wallet.
Pair == {"w1", "w2"}
Home == [u \in Users |-> IF u = "u1" THEN "w1" ELSE "w2"]
Joined == {<<"w1", "u1">>, <<"w2", "u2">>, <<"w1", "u2">>}
CallKeys == {"k1", "k2", "k3", "k4"}
Request(op, idem, ws, amount, of) ==
  [op |-> op, key |-> idem, user |-> "u2", ws |-> ws, amount |-> amount, of |-> of]
Called ==
  [c \in Calls |->
    CASE c = "c1" -> Request("charge", "k1", "w1", 3, "none")
      [] c = "f1" -> Request("refund", "k2", "w1", 2, "c1")
      [] c = "f2" -> Request("refund", "k3", "w1", 2, "c1")
      [] c = "f3" -> Request("refund", "k1", "w1", 1, "c1")
      [] c = "f4" -> Request("refund", "k4", "w2", 1, "c1")]
Twice == [c \in Calls |-> IF c \in {"c1", "f1"} THEN 2 ELSE 1]

\* Rewards on the first spend, under a daily budget that three bonuses exhaust,
\* or at signup for one invitee a day.
Terms(status, on, cap) ==
  [status |-> status, inviteeBonus |-> 1, inviterBonus |-> 1, rewardOn |-> on,
   maxRewarded |-> 0, dailyBudget |-> 3, minSpend |-> 2, dailyInviteCap |-> cap]
Rewards == {Terms(s, "first_spend", 0) : s \in {"active", "paused"}} \cup
           {Terms(s, "signup", 1) : s \in {"active", "paused"}}
Everyone == {"u1", i1, i2}
Wallets == {"w1", "w2", "w3"}
Homes == ("u1" :> "w1") @@ (i1 :> "w2") @@ (i2 :> "w3")
Ladder == <<[threshold |-> 1, bonus |-> 1], [threshold |-> 2, bonus |-> 2]>>
SecondOnly == <<[threshold |-> 2, bonus |-> 1]>>

\* i1 registers through u1's card; a day is two ticks, and a statement may fail.
OneInvite ==
  [invitees |-> {i1}, inviter |-> [i \in {i1} |-> "u1"], tiers |-> Ladder,
   time |-> 2, spends |-> 3, faults |-> 1]

\* Both invitees register, and the second invitation earns a tier.
TwoInvites ==
  [invitees |-> {i1, i2}, inviter |-> [i \in {i1, i2} |-> "u1"], tiers |-> SecondOnly,
   time |-> 0, spends |-> 2, faults |-> 0]

-----------------------------------------------------------------------------
\* One email and one address; a minute is one tick, an hour two, a day three.
L == INSTANCE RateLimits WITH
       MaxTime <- LastTick, now <- tick, minted <- entered

\* Two requests about one email address.
S == INSTANCE SignIn WITH
       Emails <- Inboxes, MaxAttempts <- Attempts, MaxMails <- Mails, MaxCrashes <- Deaths,
       handler <- signing, crashes <- deaths

\* The users and requests of the service API.
O == INSTANCE Sso WITH
       Codes <- SsoCodes, MaxTime <- Horizon, MaxUpdates <- Updates,
       now <- clock, handler <- redeeming

\* Two invites into the workspace of an operator.
W == INSTANCE Workspaces WITH
       Invites <- Right, MaxIssues <- Issues,
       member <- roles, handler <- inviting

\* Two requests under two keys of one member, with every cap at 1.
C == INSTANCE SpendCaps WITH
       Users <- Holders, Keys <- Right, Requests <- Handlers, member <- belongs

\* Two requests by one client token, and two edits of tokens.
K == INSTANCE ClientKeys WITH
       Requests <- Handlers, request <- visit

\* The invitations of a story: who is invited by whom, and the tiers to earn.
R(story) == INSTANCE Referral WITH
       Users <- Parties, Workspaces <- Purses, Personal <- HomeOf,
       Invitees <- story.invitees, Inviter <- story.inviter, Campaigns <- Offers,
       Tiers <- story.tiers, TrialBonus <- Welcome, Releasers <- Handlers, Day <- DayTicks,
       MaxTime <- story.time, MaxSpends <- story.spends, MaxFaults <- story.faults,
       balance <- purse, ledger <- book

-----------------------------------------------------------------------------
\* A component that does not run is in one state.
NoLimits ==
  /\ tick = 0 /\ events = 0 /\ hits = 0 /\ window = 0
  /\ asked = 0 /\ claimed = 0 /\ entered = 0 /\ refused = 0
NoSignIn ==
  /\ user = 0 /\ code = 0 /\ mails = 0 /\ inbox = 0 /\ signing = 0
  /\ consumed = 0 /\ guesses = 0 /\ born = 0 /\ orphaned = 0 /\ deaths = 0
NoSso == clock = 0 /\ row = 0 /\ sso = 0 /\ sessions = 0 /\ redeeming = 0 /\ issued = 0
NoSpaces == exists = 0 /\ roles = 0 /\ invite = 0 /\ issues = 0 /\ inviting = 0 /\ promoted = 0
NoCaps == day = 0 /\ space = 0 /\ belongs = 0 /\ key = 0 /\ request = 0 /\ spent = 0
NoTokens ==
  /\ ceiling = 0 /\ used = 0 /\ inflight = 0 /\ visit = 0
  /\ panel = 0 /\ minted = 0 /\ edits = 0 /\ outside = 0
NoReferral ==
  /\ purse = 0 /\ book = 0 /\ campaign = 0 /\ conv = 0 /\ granted = 0
  /\ invites = 0 /\ job = 0 /\ now = 0 /\ midnight = 0 /\ faults = 0

\* The three limiters know nothing of each other.
Limiters == {"window", "claim", "user"}
Components ==
  Limiters \cup {"api", "signin", "sso", "spaces", "caps", "keys", "referral", "referral_pair"}

MCInit ==
  /\ component \in Components
  /\ Init
  /\ IF component \in Limiters THEN L!Init ELSE NoLimits
  /\ IF component = "signin" THEN S!Init ELSE NoSignIn
  /\ IF component = "sso" THEN O!Init ELSE NoSso
  /\ IF component = "spaces" THEN W!Init ELSE NoSpaces
  /\ IF component = "caps" THEN C!Init ELSE NoCaps
  /\ IF component = "keys" THEN K!Init ELSE NoTokens
  /\ CASE component = "referral" -> R(Alone)!Init
       [] component = "referral_pair" -> R(Together)!Init
       [] OTHER -> NoReferral

\* A call of the limiter that runs, or time passing.
Limited ==
  \/ component = "window" /\ \E e \in Emails, ip \in IPs \cup {NoIP} : L!Allow(e, ip)
  \/ component = "claim" /\ (L!ClaimAllow \/ L!ClaimGc)
  \/ component = "user" /\ L!UserAllow
  \/ L!Tick

MCNext ==
  /\ UNCHANGED component
  /\ IF component = "api" THEN Next ELSE UNCHANGED vars
  /\ IF component \in Limiters THEN Limited ELSE UNCHANGED limits
  /\ IF component = "signin" THEN S!Next ELSE UNCHANGED signin
  /\ IF component = "sso" THEN O!Next ELSE UNCHANGED single
  /\ IF component = "spaces" THEN W!Next ELSE UNCHANGED spaces
  /\ IF component = "caps" THEN C!Next ELSE UNCHANGED caps
  /\ IF component = "keys" THEN K!Next ELSE UNCHANGED tokens
  /\ CASE component = "referral" -> R(Alone)!Next
       [] component = "referral_pair" -> R(Together)!Next
       [] OTHER -> UNCHANGED referral

MCSpec == MCInit /\ [][MCNext]_all

\* Each pair takes parts that the modules do not tell apart.
Alike == Permutations(Handlers) \cup Permutations(Right)

-----------------------------------------------------------------------------
ASSUME AccountsAssumption ==
  /\ L!RateLimitsAssumption /\ S!SignInAssumption /\ O!SsoAssumption
  /\ W!WorkspacesAssumption /\ C!SpendCapsAssumption /\ K!ClientKeysAssumption
ASSUME ReferralsAssumption == R(Alone)!ReferralAssumption /\ R(Together)!ReferralAssumption

\* No limiter lets more calls through than its windows, nor refuses one that
\* calls let through before it do not explain.
LimitsHold == component \in Limiters => L!LimitsHold

\* Emailed codes are spent once and outlast few guesses; racing registrations
\* make one account, with its wallet unless the server died.
SignInHolds == component = "signin" => S!SignInHolds

\* A password changes only by a reset code mailed to the account.
PasswordFromInbox == [][component = "signin" => S!PasswordChange]_all

\* A handoff code becomes one session, and every authority is the row's.
SsoHolds == component = "sso" => O!SsoHolds

\* Members join by their own invites, and administrators were made so.
MembershipHolds == component = "spaces" => W!MembershipHolds

\* Accepting an invite makes its addressee a member in the same step.
AcceptanceIsAtomic == [][component = "spaces" => W!Acceptance]_all

\* Concurrent requests overshoot a cap or a budget by no more than their own
\* bills, and are never more than their ceiling.
CapsHold ==
  /\ component = "caps" => C!CapsHold
  /\ component = "keys" => K!ClientKeysHold

\* Bonuses are backed by one conversion each, rewards are earned, and nobody is
\* welcomed twice; without faults what is recorded is paid.
ReferralHolds ==
  /\ component = "referral" => R(Alone)!ReferralHolds
  /\ component = "referral_pair" => R(Together)!ReferralHolds
=============================================================================
