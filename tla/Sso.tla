-------------------------------- MODULE Sso --------------------------------
(***************************************************************************)
(* Sessions and the single sign-on handoff: auth/jwt.go, auth/middleware.go*)
(* auth/sso_bridge.go, adapter/sso.go, db/sso.go and the redeem endpoint   *)
(* of adapter/service.go.                                                  *)
(*                                                                         *)
(* A session carries the role of the moment it was issued; every request   *)
(* loads the user's row again.  The SELECT and the UPDATE of a redemption  *)
(* are separate steps: the guard is the UPDATE's row count, which the code *)
(* claims to be enough under any isolation.  Administrators change roles   *)
(* and disable accounts meanwhile.                                         *)
(***************************************************************************)
EXTENDS Naturals

CONSTANTS
  Users, Handlers, Codes,
  Ttl,          \* SSOCodeTTL, in ticks
  Grace,        \* ssoPruneGrace
  MaxTime,      \* bound: the clock
  MaxUpdates    \* bound: edits of user rows

VARIABLES
  now,
  row,        \* users: [role, disabled, edits]
  sso,        \* sso_codes: [st, user, expires]; st is free, fresh, used, pruned
  sessions,   \* session tokens in circulation: [user, role]
  handler,    \* what each request is doing
  issued      \* sessions a code was turned into

vars == <<now, row, sso, sessions, handler, issued>>

SsoAssumption == {Ttl, Grace, MaxTime, MaxUpdates} \subseteq Nat

Roles == {"user", "admin"}
Idle == [at |-> "idle"]
At(h, pc) == handler[h].at = pc
Go(h, next) == handler' = [handler EXCEPT ![h] = next]

Init ==
  /\ now = 0
  /\ row \in [Users -> {[role |-> r, disabled |-> FALSE, edits |-> 0] : r \in Roles}]
  /\ \E u \in Users : row[u].role = "admin"
  /\ sso = [c \in Codes |-> [st |-> "free", user |-> "none", expires |-> 0]]
  /\ sessions = {[user |-> u, role |-> row[u].role] : u \in Users}
  /\ handler = [h \in Handlers |-> Idle]
  /\ issued = [c \in Codes |-> 0]

-----------------------------------------------------------------------------
\* RequireUser: the signature names a user, the row decides; the request goes
\* on as the row it loaded.
RequireUser(h, s) ==
  /\ At(h, "idle")
  /\ ~row[s.user].disabled
  /\ Go(h, [at |-> "acting", user |-> s.user, role |-> row[s.user].role, edits |-> row[s.user].edits])
  /\ UNCHANGED <<now, row, sso, sessions, issued>>

\* RequireAdmin looks at the role of the row loaded, never at the session's.
RequireAdmin(h) == handler[h].role = "admin"

\* LegacyAdminSSO lets an administrator into the old console by the same rule.
LegacyAdminSSO(h, s) ==
  /\ At(h, "idle")
  /\ ~row[s.user].disabled /\ row[s.user].role = "admin"
  /\ Go(h, [at |-> "console", user |-> s.user, role |-> "admin", edits |-> row[s.user].edits])
  /\ UNCHANGED <<now, row, sso, sessions, issued>>

\* CreateSSOCode: a row redeemable until Ttl has passed.
CreateSSOCode(c, u) == sso' = [sso EXCEPT ![c] = [st |-> "fresh", user |-> u, expires |-> now + Ttl]]

\* issueCode: a code for the caller.
issueCode(h, c) ==
  /\ At(h, "acting")
  /\ sso[c].st = "free"
  /\ CreateSSOCode(c, handler[h].user)
  /\ Go(h, Idle)
  /\ UNCHANGED <<now, row, sessions, issued>>

\* updateUser of the admin panel: the role or the disabled flag.  A request
\* with both is two of these, as its statements are separate.
updateUser(h, u) ==
  /\ At(h, "acting") /\ RequireAdmin(h)
  /\ row[u].edits < MaxUpdates
  /\ \E new \in [role : Roles, disabled : BOOLEAN, edits : {row[u].edits + 1}] :
       /\ new.role = row[u].role \/ new.disabled = row[u].disabled
       /\ row' = [row EXCEPT ![u] = new]
  /\ Go(h, Idle)
  /\ UNCHANGED <<now, sso, sessions, issued>>

\* Any other use of an authenticated request.
Finish(h) ==
  /\ At(h, "acting") \/ At(h, "console")
  /\ Go(h, Idle)
  /\ UNCHANGED <<now, row, sso, sessions, issued>>

-----------------------------------------------------------------------------
\* RedeemSSOCode, its SELECT: an unused code that has not expired.
RedeemSelect(h, c) ==
  /\ At(h, "idle")
  /\ sso[c].st = "fresh" /\ sso[c].expires > now
  /\ Go(h, [at |-> "selected", code |-> c])
  /\ UNCHANGED <<now, row, sso, sessions, issued>>

\* Mutant: the UPDATE's row count is not looked at.
RedeemUpdateBlind(h) ==
  /\ At(h, "selected")
  /\ sso' = [sso EXCEPT ![handler[h].code].st = "used"]
  /\ Go(h, [handler[h] EXCEPT !.at = "spent"])
  /\ UNCHANGED <<now, row, sessions, issued>>

\* Its UPDATE ... WHERE used_at = 0: exactly one row, or the code is invalid.
RedeemUpdate(h) ==
  /\ At(h, "selected")
  /\ LET c == handler[h].code IN
       IF sso[c].st = "fresh"
       THEN /\ sso' = [sso EXCEPT ![c].st = "used"]
            /\ Go(h, [handler[h] EXCEPT !.at = "spent"])
       ELSE Go(h, Idle) /\ UNCHANGED sso
  /\ UNCHANGED <<now, row, sessions, issued>>

\* ssoRedeem loads the user again: a disabled one gets nothing for the code.
ReloadUser(h) ==
  /\ At(h, "spent")
  /\ LET c == handler[h].code
         u == sso[c].user
     IN Go(h, IF row[u].disabled THEN Idle
              ELSE [at |-> "issue", code |-> c, user |-> u, role |-> row[u].role,
                    edits |-> row[u].edits])
  /\ UNCHANGED <<now, row, sso, sessions, issued>>

\* Issue: a session for the user, with the role of the row loaded.
Issue(h) ==
  /\ At(h, "issue")
  /\ sessions' = sessions \cup {[user |-> handler[h].user, role |-> handler[h].role]}
  /\ issued' = [issued EXCEPT ![handler[h].code] = @ + 1]
  /\ Go(h, Idle)
  /\ UNCHANGED <<now, row, sso>>

\* PruneSSOCodes, on the ticker of RunSSOCodePrune: rows expired for longer
\* than the grace period go, spent or not.
PruneSSOCodes ==
  LET gone == {c \in Codes : sso[c].st \in {"fresh", "used"} /\ sso[c].expires + Grace < now} IN
  /\ gone # {}
  /\ sso' = [c \in Codes |-> IF c \in gone THEN [sso[c] EXCEPT !.st = "pruned"] ELSE sso[c]]
  /\ UNCHANGED <<now, row, sessions, handler, issued>>

\* Time passes; a redemption's transaction holds the write lock for less.
Tick ==
  /\ now < MaxTime
  /\ \A h \in Handlers : ~At(h, "selected")
  /\ now' = now + 1
  /\ UNCHANGED <<row, sso, sessions, handler, issued>>

Next ==
  \/ \E h \in Handlers, s \in sessions : RequireUser(h, s) \/ LegacyAdminSSO(h, s)
  \/ \E h \in Handlers, c \in Codes : issueCode(h, c) \/ RedeemSelect(h, c)
  \/ \E h \in Handlers, u \in Users : updateUser(h, u)
  \/ \E h \in Handlers : Finish(h) \/ RedeemUpdate(h) \/ ReloadUser(h) \/ Issue(h)
  \/ PruneSSOCodes
  \/ Tick

Spec == Init /\ [][Next]_vars

-----------------------------------------------------------------------------
Row == [role : Roles, disabled : BOOLEAN, edits : Nat]
Request ==
  [at : {"idle"}] \cup [at : {"acting", "console"}, user : Users, role : Roles, edits : Nat]
    \cup [at : {"selected", "spent"}, code : Codes]
    \cup [at : {"issue"}, code : Codes, user : Users, role : Roles, edits : Nat]

TypeOK ==
  /\ now \in 0..MaxTime
  /\ row \in [Users -> Row]
  /\ sso \in [Codes -> [st : {"free", "fresh", "used", "pruned"}, user : Users \cup {"none"},
                        expires : Nat]]
  /\ sessions \subseteq [user : Users, role : Roles]
  /\ handler \in [Handlers -> Request]
  /\ issued \in [Codes -> Nat]

\* A handoff code becomes at most one session, though several redemptions may
\* read it as unused, and only a code marked used becomes one.
RedeemedOnce ==
  \A c \in Codes : issued[c] <= 1 /\ (issued[c] = 1 => sso[c].st \in {"used", "pruned"})

\* A code presented again within the grace period still finds its row, so the
\* replay is answered as such.
ReplayAnswerable ==
  \A c \in Codes : (sso[c].st = "pruned") => sso[c].expires + Grace < now

\* A request acts, and a session is issued, with the authority of the user's
\* row: unless the row was edited after it was loaded, the row is enabled and
\* has the role, whatever role the session claims.
AuthorityFromRow ==
  \A h \in Handlers :
    handler[h].at \in {"acting", "console", "issue"} =>
      LET r == row[handler[h].user] IN
        r.edits = handler[h].edits => ~r.disabled /\ r.role = handler[h].role

SsoHolds == TypeOK /\ RedeemedOnce /\ ReplayAnswerable /\ AuthorityFromRow

-----------------------------------------------------------------------------
(* The inductive invariant: a code that was given out belongs to a user,   *)
(* one request at most has spent a code it has not yet turned into a       *)
(* session, and a row's count of edits is never behind what was loaded.    *)

Holds(h, c) == handler[h].at \in {"spent", "issue"} /\ handler[h].code = c

OneHolder ==
  \A h \in Handlers, c \in Codes : Holds(h, c) =>
    /\ issued[c] = 0 /\ sso[c].st \in {"used", "pruned"}
    /\ \A g \in Handlers : Holds(g, c) => g = h

CodesOwned ==
  /\ \A c \in Codes : sso[c].st # "free" => sso[c].user \in Users
  /\ \A h \in Handlers : At(h, "selected") => sso[handler[h].code].st # "free"

EditsGrow ==
  \A h \in Handlers :
    handler[h].at \in {"acting", "console", "issue"} =>
      handler[h].edits <= row[handler[h].user].edits

SsoInv == SsoHolds /\ OneHolder /\ CodesOwned /\ EditsGrow
=============================================================================
