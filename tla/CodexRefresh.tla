---------------------------- MODULE CodexRefresh ----------------------------
(***************************************************************************)
(* What a 401 does to an OAuth credential: rejectCodexBearer counts a      *)
(* strike and re-mints the access token, unless another request has done   *)
(* so, behind a gate of the credential.  Refresh tokens rotate on use and  *)
(* a credential whose refresh token is presented twice is lost, so two     *)
(* requests must never exchange one grant.                                 *)
(***************************************************************************)
EXTENDS Naturals, FiniteSets

CONSTANTS Requests,
          Threshold,   \* auth401HardFailureThreshold
          MaxTokens    \* bound: tokens minted

VARIABLES
  token, alive,     \* the current access token, and whether the upstream takes it
  strikes, hard,    \* Consecutive401s, and whether the credential is retired
  cooling,          \* the plain cooldown
  gate,             \* who holds the credential's refresh gate
  req               \* per request: where it is, and the bearer it carried

vars == <<token, alive, strikes, hard, cooling, gate, req>>

Nobody == "nobody"
RefreshAssumption ==
  Nobody \notin Requests /\ Threshold \in Nat \ {0} /\ MaxTokens \in Nat \ {0}

Init ==
  /\ token = 1 /\ alive = TRUE
  /\ strikes = 0 /\ hard = FALSE /\ cooling = FALSE
  /\ gate = Nobody
  /\ req = [r \in Requests |-> [pc |-> "idle", seen |-> 0]]

At(r, pc) == req[r].pc = pc
Go(r, pc) == req' = [req EXCEPT ![r].pc = pc]
Health == <<strikes, hard, cooling>>
Tokens == <<token, alive>>

Send(r) ==
  /\ At(r, "idle") /\ ~hard /\ ~cooling
  /\ req' = [req EXCEPT ![r] = [pc |-> "sent", seen |-> token]]
  /\ UNCHANGED <<Tokens, Health, gate>>

Served(r) ==
  /\ At(r, "sent") /\ req[r].seen = token /\ alive
  /\ Go(r, "idle")
  /\ strikes' = 0
  /\ UNCHANGED <<Tokens, hard, cooling, gate>>

\* rejectCodexBearer: the strike comes first, whatever bearer was rejected.
Reject(r) ==
  /\ At(r, "sent") /\ ~(req[r].seen = token /\ alive)
  /\ strikes' = strikes + 1
  /\ hard' = (hard \/ strikes + 1 >= Threshold)
  /\ Go(r, IF hard' THEN "idle" ELSE "wait")
  /\ UNCHANGED <<Tokens, cooling, gate>>

\* Mutant: whoever gets the gate refreshes.
NeverReminted(r) == req[r].seen > token
Reminted(r) == token # req[r].seen

\* recoverRejectedToken: inside the gate the rejected bearer is compared with
\* the current one.
Enter(r) ==
  /\ At(r, "wait") /\ gate = Nobody
  /\ IF Reminted(r) THEN Go(r, "idle") /\ UNCHANGED gate
     ELSE Go(r, "exchange") /\ gate' = r
  /\ UNCHANGED <<Tokens, Health>>

\* The exchange mints a token, which a revoked account's upstream rejects too.
Mint(r) ==
  /\ At(r, "exchange") /\ token < MaxTokens
  /\ token' = token + 1 /\ alive' \in BOOLEAN
  /\ gate' = Nobody /\ Go(r, "idle")
  /\ UNCHANGED Health

\* It fails, or there is nothing to exchange: a cooldown follows.  A rejected
\* grant retires the credential.
MintFails(r) ==
  /\ At(r, "exchange")
  /\ hard' \in BOOLEAN /\ (hard => hard')
  /\ gate' = Nobody /\ Go(r, "report")
  /\ UNCHANGED <<Tokens, strikes, cooling>>

Report(r) ==
  /\ At(r, "report")
  /\ cooling' = TRUE /\ Go(r, "idle")
  /\ UNCHANGED <<Tokens, strikes, hard, gate>>

\* The upstream invalidates the token; a cooldown ends.
Invalidate ==
  /\ alive /\ alive' = FALSE
  /\ UNCHANGED <<token, Health, gate, req>>

CoolOff ==
  /\ cooling /\ cooling' = FALSE
  /\ UNCHANGED <<Tokens, strikes, hard, gate, req>>

Next ==
  \/ \E r \in Requests :
       Send(r) \/ Served(r) \/ Reject(r) \/ Enter(r) \/ Mint(r) \/ MintFails(r) \/ Report(r)
  \/ Invalidate \/ CoolOff

Spec == Init /\ [][Next]_vars

-----------------------------------------------------------------------------
TypeOK ==
  /\ token \in 1..MaxTokens /\ alive \in BOOLEAN
  /\ strikes \in Nat /\ hard \in BOOLEAN /\ cooling \in BOOLEAN
  /\ gate \in Requests \cup {Nobody}
  /\ req \in [Requests -> [pc : {"idle", "sent", "wait", "exchange", "report"}, seen : 0..MaxTokens]]

\* Only one request exchanges, and only a grant whose token was rejected: what
\* another request re-minted is never thrown away.
ExchangesAreNeeded ==
  \A r \in Requests : At(r, "exchange") => gate = r /\ req[r].seen = token

\* No credential stays in rotation with a run of strikes behind it.
StrikesRetire == ~hard => strikes < Threshold

RefreshHolds == TypeOK /\ ExchangesAreNeeded /\ StrikesRetire
=============================================================================
