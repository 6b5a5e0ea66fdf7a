----------------------------- MODULE SpendCaps -----------------------------
(***************************************************************************)
(* API keys and the caps checked before a request is served:               *)
(* db/tokens.go, tokens/handlers.go, resolveToken and PreCheck of          *)
(* adapter/adapter.go.                                                     *)
(*                                                                         *)
(* A request resolves its key once, is checked against the ledger of the   *)
(* moment and is charged when it ends, maybe in a later day; meanwhile     *)
(* others are checked and charged, keys are edited, and members removed.   *)
(* All keys bill one enterprise workspace.                                 *)
(***************************************************************************)
EXTENDS FiniteSets, Functions

CONSTANTS
  Users, Keys, Requests,
  Owner,        \* [Keys -> Users]
  Bills,        \* what a request may cost
  DayCap, MonthCap,        \* the workspace's caps, 0 for none
  MemberCap,               \* workspace_members.monthly_usd_cap
  KeyDay, KeyMonth, AdminCaps,   \* the key's own caps, and those an admin sets
  DaysPerMonth, MaxDay,    \* bound: the calendar
  MaxSpend,                \* bound: the ledger
  MaxSecrets               \* bound: rotations of a key

VARIABLES
  day,
  space,      \* workspaces.disabled, as "open" or "disabled"
  member,     \* users who are members
  key,        \* user_tokens: [st, secret, admin]
  request,    \* [pc, key, admin, good]: the identity it resolved; ghost good:
              \* whether that identity was in order when resolved
  spent       \* the ledger's charges, summed per <<key, day>>

vars == <<day, space, member, key, request, spent>>

SpendCapsAssumption ==
  /\ IsFiniteSet(Keys) /\ IsFiniteSet(Requests) /\ Owner \in [Keys -> Users]
  /\ Bills \subseteq Nat /\ \E b \in Bills : \A c \in Bills : b >= c
  /\ {DayCap, MonthCap, MemberCap, KeyDay, KeyMonth, MaxDay} \cup AdminCaps \subseteq Nat
  /\ DaysPerMonth \in Nat \ {0}

Idle == [pc |-> "idle", key |-> "none", admin |-> 0, good |-> FALSE]

Init ==
  /\ day = 0
  /\ space = "open"
  /\ member = Users
  /\ key = [k \in Keys |-> [st |-> "none", secret |-> 0, admin |-> 0]]
  /\ request = [r \in Requests |-> Idle]
  /\ spent = [c \in Keys \X (0..MaxDay) |-> 0]

month(d) == d \div DaysPerMonth

\* SumChargeSinceForWorkspace, ...ForMember and ...ForToken.
SumOf(keys, days) == SumFunctionOnSet(spent, keys \X days)
Today == {day}
ThisMonth == {d \in 0..day : month(d) = month(day)}
KeysOf(u) == {k \in Keys : Owner[k] = u}

-----------------------------------------------------------------------------
(* Keys and membership.                                                    *)

\* create: the membership check, then the insert (Insert).
create(r, k) ==
  /\ request[r].pc = "idle" /\ key[k].st = "none"
  /\ Owner[k] \in member
  /\ request' = [request EXCEPT ![r] = [pc |-> "insert", key |-> k, admin |-> 0, good |-> FALSE]]
  /\ UNCHANGED <<day, space, member, key, spent>>

CreateUserToken(r) ==
  LET k == request[r].key IN
  /\ request[r].pc = "insert" /\ key[k].st = "none"
  /\ key' = [key EXCEPT ![k] = [st |-> "live", secret |-> 1, admin |-> 0]]
  /\ request' = [request EXCEPT ![r] = Idle]
  /\ UNCHANGED <<day, space, member, spent>>

\* update: the owner disables or enables.
UpdateUserToken(k) ==
  /\ key[k].st \in {"live", "disabled"}
  /\ key' = [key EXCEPT ![k].st = IF @ = "live" THEN "disabled" ELSE "live"]
  /\ UNCHANGED <<day, space, member, request, spent>>

\* rotate: a new secret for the same row.
RotateUserToken(k) ==
  /\ key[k].st \in {"live", "disabled"} /\ key[k].secret < MaxSecrets
  /\ key' = [key EXCEPT ![k].secret = @ + 1]
  /\ UNCHANGED <<day, space, member, request, spent>>

DeleteUserToken(k) ==
  /\ key[k].st \in {"live", "disabled"}
  /\ key' = [key EXCEPT ![k] = [st |-> "deleted", secret |-> 0, admin |-> 0]]
  /\ UNCHANGED <<day, space, member, request, spent>>

\* setTokenCap: a space admin's cap on a member's key.
SetTokenAdminMonthlyCap(k) ==
  /\ key[k].st \in {"live", "disabled"}
  /\ \E c \in AdminCaps \ {key[k].admin} : key' = [key EXCEPT ![k].admin = c]
  /\ UNCHANGED <<day, space, member, request, spent>>

RemoveWorkspaceMember(u) ==
  /\ u \in member
  /\ member' = member \ {u}
  /\ UNCHANGED <<day, space, key, request, spent>>

UpdateWorkspace ==
  /\ space = "open"
  /\ space' = "disabled"
  /\ UNCHANGED <<day, member, key, request, spent>>

-----------------------------------------------------------------------------
(* A request.                                                              *)

\* effectiveMonthlyCap: the tighter of two caps, 0 meaning none.
effectiveMonthlyCap(self, admin) ==
  IF self = 0 THEN admin ELSE IF admin = 0 THEN self ELSE IF admin < self THEN admin ELSE self

\* resolveToken: disabled when the key or the workspace is, or when the owner
\* is no member of the enterprise space.
Disabled(k) == key[k].st = "disabled" \/ space = "disabled" \/ Owner[k] \notin member

\* Lookup by the secret in hand: only a key that exists with that secret.
resolveToken(r, k, secret) ==
  /\ request[r].pc = "idle"
  /\ key[k].st \in {"live", "disabled"} /\ key[k].secret = secret
  /\ request' = [request EXCEPT ![r] =
       IF Disabled(k) THEN Idle
       ELSE [pc |-> "resolved", key |-> k, admin |-> key[k].admin,
             good |-> key[k].st = "live" /\ space = "open" /\ Owner[k] \in member]]
  /\ UNCHANGED <<day, space, member, key, spent>>

\* Mutant: a cap is refused only when exceeded.
UnderOrAt(keys, days, cap) == cap = 0 \/ SumOf(keys, days) <= cap

Under(keys, days, cap) == cap = 0 \/ SumOf(keys, days) < cap

\* PreCheck: workspace, member and key caps against the ledger as it is now,
\* the key's caps as resolved.  A refusal ends the request.
Passes(r) ==
  LET k == request[r].key
      u == Owner[k]
  IN /\ Under(Keys, Today, DayCap) /\ Under(Keys, ThisMonth, MonthCap)
     /\ Under(KeysOf(u), ThisMonth, MemberCap)
     /\ Under({k}, Today, KeyDay)
     /\ Under({k}, ThisMonth, effectiveMonthlyCap(KeyMonth, request[r].admin))

PreCheck(r) ==
  /\ request[r].pc = "resolved"
  /\ request' = [request EXCEPT ![r] =
       IF Passes(r) THEN [@ EXCEPT !.pc = "serving"] ELSE Idle]
  /\ UNCHANGED <<day, space, member, key, spent>>

\* The request is served and charged, by the identity it resolved.
Charge(r) ==
  /\ request[r].pc = "serving" /\ SumOf(Keys, 0..MaxDay) < MaxSpend
  /\ \E a \in Bills : spent' = [spent EXCEPT ![<<request[r].key, day>>] = @ + a]
  /\ request' = [request EXCEPT ![r] = Idle]
  /\ UNCHANGED <<day, space, member, key>>

\* BillingDayStart and BillingMonthStart: midnight in the billing zone.
Midnight ==
  /\ day < MaxDay
  /\ day' = day + 1
  /\ UNCHANGED <<space, member, key, request, spent>>

Next ==
  \/ \E r \in Requests, k \in Keys : create(r, k) \/ \E s \in 1..MaxSecrets : resolveToken(r, k, s)
  \/ \E r \in Requests : CreateUserToken(r) \/ PreCheck(r) \/ Charge(r)
  \/ \E k \in Keys : \/ UpdateUserToken(k) \/ RotateUserToken(k) \/ DeleteUserToken(k)
                     \/ SetTokenAdminMonthlyCap(k)
  \/ \E u \in Users : RemoveWorkspaceMember(u)
  \/ UpdateWorkspace
  \/ Midnight

Spec == Init /\ [][Next]_vars

-----------------------------------------------------------------------------
TypeOK ==
  /\ day \in 0..MaxDay /\ member \subseteq Users
  /\ \A k \in Keys : key[k].st \in {"none", "live", "disabled", "deleted"}
  /\ \A r \in Requests : request[r].pc \in {"idle", "insert", "resolved", "serving"}

\* Concurrent requests overshoot a cap, but each by no more than its own bill:
\* the month's and the day's spend stay below the cap plus what the requests
\* that can be in flight together may cost.
MaxBill == CHOOSE b \in Bills : \A c \in Bills : b >= c
Slack == Cardinality(Requests) * MaxBill
Within(keys, days, cap) == cap = 0 \/ SumOf(keys, days) < cap + Slack
OvershootBounded ==
  /\ Within(Keys, Today, DayCap) /\ Within(Keys, ThisMonth, MonthCap)
  /\ \A u \in Users : Within(KeysOf(u), ThisMonth, MemberCap)
  /\ \A k \in Keys : Within({k}, Today, KeyDay) /\ Within({k}, ThisMonth, KeyMonth)

\* Nothing is served for a key whose owner was no member, or which was
\* disabled or gone, when the request resolved it: a key inserted after its
\* owner's removal is inert.
ServedAsMember == \A r \in Requests : request[r].pc \in {"resolved", "serving"} => request[r].good

CapsHold == TypeOK /\ OvershootBounded /\ ServedAsMember
=============================================================================
