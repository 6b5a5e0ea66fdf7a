----------------------------- MODULE Failover -----------------------------
(***************************************************************************)
(* One proxied request tries credential after credential until one serves  *)
(* it (forwardWithFailover in internal/server/proxy.go, here for the       *)
(* Anthropic paths), and every request's outcome feeds the health of the   *)
(* API keys it used (internal/server/apikey_health.go): a key that keeps   *)
(* failing is paused, and after the pause one request at a time probes it. *)
(* The pool and the health record of a credential are cc-core's: they are  *)
(* modelled from what this code does with them.                            *)
(***************************************************************************)
EXTENDS Naturals, FiniteSets, Sequences, TLC

CONSTANTS
  Requests,   \* concurrent request slots
  Keys,       \* API-key credentials
  Subs,       \* OAuth (subscription) credentials
  MaxOAuth,   \* maxOAuthAttempts
  PauseAfter, \* consecutive failures after which cc-core pauses a key
  Operated    \* bound: the keys an operator works on

VARIABLES
  health,    \* cc-core's record of each key: [fails, open, paused, disabled]
  recovery,  \* apiKeyRecovery: keys that have stopped serving and are unverified
  probes,    \* apiKeyProbes: keys with a half-open request in flight
  limited,   \* keys excluded for the model (MarkModelRateLimited)
  resting,   \* OAuth credentials the pool does not offer now
  down,      \* keys whose relay does not work at present
  req        \* the locals of each request

vars == <<health, recovery, probes, limited, resting, down, req>>

Creds == Keys \cup Subs
NoCred == "none"

ASSUME FailoverAssumption ==
  /\ Keys \cap Subs = {} /\ NoCred \notin Creds
  /\ IsFiniteSet(Creds)
  /\ MaxOAuth \in Nat \ {0} /\ PauseAfter \in Nat \ {0}

Working == [fails |-> 0, open |-> FALSE, paused |-> FALSE, disabled |-> FALSE]

\* used: credentials a request was sent to; rows: its attempt-only log rows;
\* old: its key's circuit opened after it was admitted; stale: its key failed
\* after it was sent; ending: how it ended.
Fresh == [pc |-> "acquire", tried |-> {}, attempts |-> 0, oauthAttempts |-> 0,
          apiKeyOnly |-> FALSE, withheld |-> FALSE,
          cred |-> NoCred, lease |-> FALSE, old |-> FALSE, stale |-> FALSE,
          retry |-> FALSE, used |-> << >>, rows |-> 0, ending |-> "open"]

Idle == [Fresh EXCEPT !.pc = "idle"]

Init ==
  /\ health = [k \in Keys |-> Working]
  /\ recovery = {} /\ probes = {} /\ limited = {} /\ resting = {} /\ down = {}
  /\ req = [r \in Requests |-> Idle]

-----------------------------------------------------------------------------
(* Health of API keys.                                                     *)

Serving(k) == ~health[k].paused /\ ~health[k].disabled
Healthy(k) == Serving(k) /\ ~health[k].open

On(r, k) == req[r].cred = k /\ req[r].pc \in {"ready", "sent"}

\* cc-core: MarkHardFailure pauses at once, MarkFailure on a run of failures or
\* during recovery; a 429 pauses without counting as either.
Failed(h, fault) ==
  IF fault = "429" THEN [h EXCEPT !.paused = TRUE]
  ELSE IF fault = "credential" \/ h.open \/ h.fails + 1 >= PauseAfter
  THEN [h EXCEPT !.fails = PauseAfter, !.open = TRUE, !.paused = TRUE]
  ELSE [h EXCEPT !.fails = @ + 1]

\* The fault of r's key k; r goes on as next.  The other requests on k are
\* older than this failure, and than the circuit if it is open now.
recordAPIKeyFailure(r, k, fault, next) ==
  IF health[k].disabled
  THEN /\ req' = [req EXCEPT ![r] = next]
       /\ UNCHANGED <<health, recovery>>
  ELSE LET h == Failed(health[k], fault)
       IN  /\ health' = [health EXCEPT ![k] = h]
           /\ recovery' = IF h.paused THEN recovery \cup {k} ELSE recovery
           /\ \E counts \in IF fault = "429" THEN BOOLEAN ELSE {TRUE} :
                req' = [q \in Requests |->
                  IF q = r THEN next
                  ELSE IF On(q, k)
                  THEN [req[q] EXCEPT !.old = @ \/ h.open,
                                      !.stale = @ \/ (counts /\ req[q].pc = "sent")]
                  ELSE req[q]]

\* Mutant: any success closes the circuit.
recordAPIKeySuccessAny(r, k) ==
  /\ health' = [health EXCEPT ![k] = IF @.disabled THEN @ ELSE Working]
  /\ recovery' = IF health[k].disabled THEN recovery ELSE recovery \ {k}

\* A success counts unless the key is disabled, or unverified and the request
\* was sent before its last failure.
recordAPIKeySuccess(r, k) ==
  IF health[k].disabled \/ ((health[k].open \/ k \in recovery) /\ req[r].stale)
  THEN UNCHANGED <<health, recovery>>
  ELSE /\ health' = [health EXCEPT ![k] = Working]
       /\ recovery' = recovery \ {k}

-----------------------------------------------------------------------------
(* Choosing a credential: acquireWithAPIKeyRecovery.                       *)

\* Keys no longer in recovery are forgotten by the next request to look.
Recovering == {k \in recovery : ~health[k].disabled /\ ~Healthy(k)}

\* Mutant: recovery probes are not offered before ordinary traffic.
DueNever == {}

Due == {k \in Recovering : Serving(k) /\ k \notin probes}

\* What the pool may offer: OAuth credentials it has in rotation and keys that
\* are not disabled, with paused keys as a last resort only.
Offered(r) ==
  LET untried == Creds \ req[r].tried
      keys == {k \in untried \cap Keys : ~health[k].disabled}
      subs == IF req[r].apiKeyOnly \/ req[r].oauthAttempts >= MaxOAuth THEN {}
              ELSE untried \cap (Subs \ resting)
      ready == subs \cup {k \in keys : Serving(k)}
  IN  IF Due \cap untried # {} THEN Due \cap untried
      ELSE IF ready # {} THEN ready ELSE keys

\* A request that has ended keeps what it reports.
End(q, how) ==
  [Idle EXCEPT !.pc = "done", !.attempts = q.attempts, !.rows = q.rows, !.used = q.used,
               !.ending = how]

\* The loop goes round.
Again(q) ==
  [q EXCEPT !.pc = "acquire", !.cred = NoCred, !.lease = FALSE, !.old = FALSE,
            !.stale = FALSE, !.retry = FALSE]

\* The budget is tested before an attempt starts, never before the first.
GiveUp(r) ==
  /\ req[r].pc = "acquire" /\ req[r].attempts > 0
  /\ req' = [req EXCEPT ![r] = End(@, "gave up")]
  /\ UNCHANGED <<health, recovery, probes, limited, resting, down>>

\* No credential is left: the last withheld error, or a 503.
Exhausted(r) ==
  /\ req[r].pc = "acquire" /\ Offered(r) = {}
  /\ recovery' = Recovering
  /\ req' = [req EXCEPT ![r] =
               End(@, IF @.withheld THEN "withheld error" ELSE "unavailable")]
  /\ UNCHANGED <<health, probes, limited, resting, down>>

Counted(q, a) ==
  [q EXCEPT !.attempts = @ + 1, !.oauthAttempts = @ + (IF a \in Subs THEN 1 ELSE 0)]

Skipped(q, a) == [q EXCEPT !.tried = @ \cup {a}]
Chosen(q, a) == [Skipped(Counted(q, a), a) EXCEPT !.cred = a, !.pc = "begin"]

\* The credential is tried, unless it is known not to serve this model.
Acquire(r) ==
  /\ req[r].pc = "acquire"
  /\ recovery' = Recovering
  /\ \E a \in Offered(r) :
       req' = [req EXCEPT ![r] =
         IF a \in limited THEN Skipped(@, a) ELSE Chosen(@, a)]
  /\ UNCHANGED <<health, probes, limited, resting, down>>

\* OAuth preparation is local; a failure leaves only API keys to fall back to.
PrepareOAuth(r) ==
  /\ req[r].pc = "begin" /\ req[r].cred \in Subs
  /\ req' = [req EXCEPT ![r].pc = "ready"]
  /\ UNCHANGED <<health, recovery, probes, limited, resting, down>>

Unprepared(q) == [Again(q) EXCEPT !.apiKeyOnly = TRUE, !.withheld = FALSE, !.rows = @ + 1]

PreparationFails(r) ==
  /\ req[r].pc = "begin" /\ req[r].cred \in Subs
  /\ req' = [req EXCEPT ![r] = Unprepared(@)]
  /\ UNCHANGED <<health, recovery, probes, limited, resting, down>>

\* Mutants: a refused key is not excluded; an open circuit admits everybody once
\* the pause is over.
RefusedUntried(q) == [Again(q) EXCEPT !.attempts = @ - 1, !.tried = @ \ {q.cred}]
UnverifiedNever(k) == FALSE

Refused(q) == [Again(q) EXCEPT !.attempts = @ - 1]
Unverified(k) == health[k].open \/ k \in recovery

\* A key that is paused, or being probed, refuses; one that is unverified is
\* leased to one request.
beginAPIKeyAttempt(r) ==
  LET k == req[r].cred
  IN  /\ req[r].pc = "begin" /\ k \in Keys
      /\ IF ~Serving(k) \/ k \in probes
         THEN /\ req' = [req EXCEPT ![r] = Refused(@)]
              /\ UNCHANGED probes
         ELSE /\ req' = [req EXCEPT ![r] = [@ EXCEPT !.pc = "ready", !.lease = Unverified(k)]]
              /\ probes' = IF Unverified(k) THEN probes \cup {k} ELSE probes
      /\ UNCHANGED <<health, recovery, limited, resting, down>>

Dispatch(r) ==
  /\ req[r].pc = "ready"
  /\ req' = [req EXCEPT ![r].pc = "sent", ![r].used = Append(@, req[r].cred)]
  /\ UNCHANGED <<health, recovery, probes, limited, resting, down>>

-----------------------------------------------------------------------------
(* Outcomes of an attempt: doForwardPrepared, doForwardAnthropicAPIKey.    *)

Sent(r, creds) == req[r].pc = "sent" /\ req[r].cred \in creds

Withheld(q) ==
  [q EXCEPT !.pc = "settled", !.retry = TRUE, !.withheld = TRUE, !.rows = @ + 1]
Answered(q, how) == [q EXCEPT !.pc = "settled", !.retry = FALSE, !.ending = how]

\* A complete, accounted-for response.
KeyServes(r) ==
  /\ Sent(r, Keys \ down)
  /\ recordAPIKeySuccess(r, req[r].cred)
  /\ req' = [req EXCEPT ![r] = Answered(@, "served")]
  /\ UNCHANGED <<probes, limited, resting, down>>

\* A response that breaks off, or reports no usage, after it has begun.
KeyBreaksOff(r) ==
  /\ Sent(r, down)
  /\ recordAPIKeyFailure(r, req[r].cred, "upstream", Answered(req[r], "served"))
  /\ UNCHANGED <<probes, limited, resting, down>>

\* A transport error, a 5xx or a body that is no answer; a 401, 402 or 403; a 429.
KeyFails(r) ==
  /\ Sent(r, down)
  /\ \E fault \in {"upstream", "credential", "429"} :
       recordAPIKeyFailure(r, req[r].cred, fault, Withheld(req[r]))
  /\ UNCHANGED <<probes, limited, resting, down>>

\* The key serves, but not this model or not this client.
KeyRestricted(r) ==
  /\ Sent(r, Keys)
  /\ limited' \in {limited, limited \cup {req[r].cred}}
  /\ req' = [req EXCEPT ![r] = Withheld(@)]
  /\ UNCHANGED <<health, recovery, probes, resting, down>>

SubServes(r) ==
  /\ Sent(r, Subs)
  /\ req' = [req EXCEPT ![r] = Answered(@, "served")]
  /\ resting' = resting \ {req[r].cred}
  /\ UNCHANGED <<health, recovery, probes, limited, down>>

\* A transport error, a break before the first byte, a 401, 403, 429 or a ban;
\* after some of them the pool stops offering the credential.
SubFails(r) ==
  /\ Sent(r, Subs)
  /\ resting' \in {resting, resting \cup {req[r].cred}}
  /\ req' = [req EXCEPT ![r] = Withheld(@)]
  /\ UNCHANGED <<health, recovery, probes, limited, down>>

\* The request itself is at fault (or an OAuth upstream answers 5xx), or its
\* client has gone: any credential's health is left alone.
Forwarded(r) ==
  /\ Sent(r, Creds)
  /\ \E how \in {"client error", "client gone"} : req' = [req EXCEPT ![r] = Answered(@, how)]
  /\ UNCHANGED <<health, recovery, probes, limited, resting, down>>

Loop(r) ==
  req' = [req EXCEPT ![r] =
            IF @.retry THEN Again(@) ELSE End(@, @.ending)]

\* The probe is released, and the loop returns or goes round.
Settle(r) ==
  /\ req[r].pc = "settled"
  /\ Loop(r)
  /\ probes' = IF req[r].lease THEN probes \ {req[r].cred} ELSE probes
  /\ UNCHANGED <<health, recovery, limited, resting, down>>

-----------------------------------------------------------------------------
(* Clients, relays, time and the operator.                                 *)

Arrive(r) ==
  /\ req[r].pc \in {"idle", "done"}
  /\ req' = [req EXCEPT ![r] = Fresh]
  /\ UNCHANGED <<health, recovery, probes, limited, resting, down>>

PauseLapses(k) ==
  /\ health[k].paused
  /\ health' = [health EXCEPT ![k].paused = FALSE]
  /\ UNCHANGED <<recovery, probes, limited, resting, down, req>>

ExclusionLapses(a) ==
  /\ a \in limited \cup resting
  /\ limited' = limited \ {a}
  /\ resting' = resting \ {a}
  /\ UNCHANGED <<health, recovery, probes, down, req>>

RelayTurns(k) ==
  /\ down' = IF k \in down THEN down \ {k} ELSE down \cup {k}
  /\ UNCHANGED <<health, recovery, probes, limited, resting, req>>

Disable(k) ==
  /\ ~health[k].disabled
  /\ health' = [health EXCEPT ![k].disabled = TRUE]
  /\ UNCHANGED <<recovery, probes, limited, resting, down, req>>

\* Enabling a key clears its failures and its quota state.
Enable(k) ==
  /\ health[k].disabled
  /\ health' = [health EXCEPT ![k] = Working]
  /\ limited' = limited \ {k}
  /\ UNCHANGED <<recovery, probes, resting, down, req>>

ClearFailure(k) ==
  /\ health[k] # Working
  /\ health' = [health EXCEPT ![k] = [Working EXCEPT !.disabled = health[k].disabled]]
  /\ UNCHANGED <<recovery, probes, limited, resting, down, req>>

Step(r) ==
  \/ GiveUp(r) \/ Exhausted(r) \/ Acquire(r)
  \/ PrepareOAuth(r) \/ PreparationFails(r) \/ beginAPIKeyAttempt(r) \/ Dispatch(r)
  \/ KeyServes(r) \/ KeyBreaksOff(r) \/ KeyFails(r) \/ KeyRestricted(r)
  \/ SubServes(r) \/ SubFails(r) \/ Forwarded(r) \/ Settle(r)

Operator(k) == k \in Operated /\ (Disable(k) \/ Enable(k) \/ ClearFailure(k))

Next ==
  \/ \E r \in Requests : Arrive(r) \/ Step(r)
  \/ \E k \in Keys : PauseLapses(k) \/ RelayTurns(k) \/ Operator(k)
  \/ \E a \in Creds : ExclusionLapses(a)

Spec == Init /\ [][Next]_vars

\* Each request that has arrived goes on; nothing else need ever happen.
ServeSpec == Spec /\ \A r \in Requests : WF_vars(Step(r))

\* What a key's recovery needs besides: requests keep coming, pauses end, the
\* pool's choice among keys that are due is fair (the pause of a key that fails
\* its probes grows, so that it is due less and less often), and the probe of a
\* working key is not cut short by its client every single time.
Traffic ==
  /\ \A r \in Requests : WF_vars(Arrive(r))
  /\ \A k \in Keys : WF_vars(PauseLapses(k))
  /\ \A a \in Creds : WF_vars(ExclusionLapses(a))
  /\ \A r \in Requests, k \in Keys :
       /\ SF_vars(k \in Due /\ Acquire(r) /\ req'[r].cred = k)
       /\ SF_vars(req[r].cred = k /\ KeyServes(r))

-----------------------------------------------------------------------------
(* Properties.                                                             *)

Pcs == {"idle", "acquire", "begin", "ready", "sent", "settled", "done"}
Endings == {"open", "served", "client error", "client gone", "gave up", "withheld error",
            "unavailable"}

TypeOK ==
  /\ health \in [Keys -> [fails : 0..PauseAfter, open : BOOLEAN, paused : BOOLEAN,
                          disabled : BOOLEAN]]
  /\ recovery \subseteq Keys /\ probes \subseteq Keys /\ down \subseteq Keys
  /\ limited \subseteq Keys /\ resting \subseteq Subs
  /\ req \in [Requests ->
       [pc : Pcs, tried : SUBSET Creds, attempts : Nat, oauthAttempts : 0..MaxOAuth,
        apiKeyOnly : BOOLEAN, withheld : BOOLEAN, cred : Creds \cup {NoCred},
        lease : BOOLEAN, old : BOOLEAN, stale : BOOLEAN, retry : BOOLEAN, used : Seq(Creds),
        rows : Nat, ending : Endings]]

\* A key whose circuit has opened and has not been verified since carries at
\* most one request admitted after it opened: the half-open probe.  The pause
\* may lapse, the operator may interfere and other requests may fail meanwhile.
OneProbe ==
  \A k \in Keys :
    health[k].open => Cardinality({r \in Requests : On(r, k) /\ ~req[r].old}) <= 1

\* A lease on a key is held by exactly one running request: none leaks when a
\* request moves on to another key, is cancelled, or ends.
LeasesHeld ==
  /\ \A r \in Requests : req[r].lease => req[r].cred \in probes
  /\ \A k \in probes : Cardinality({r \in Requests : req[r].lease /\ req[r].cred = k}) = 1

\* The attempts a request reports are the rows of the log it accounts for: one
\* for each withheld attempt and one for the attempt that answered.  Refused
\* probes and known model restrictions cost no attempt.
AttemptsAccounted ==
  \A r \in Requests :
    req[r].pc = "done" =>
      req[r].attempts = req[r].rows +
        (IF req[r].ending \in {"served", "client error", "client gone"} THEN 1 ELSE 0)

\* No request is sent twice to one credential, nor to more than MaxOAuth OAuth
\* credentials, however credentials pause, recover and are refused meanwhile.
EachTriedOnce ==
  \A r \in Requests :
    /\ \A i, j \in DOMAIN req[r].used : i # j => req[r].used[i] # req[r].used[j]
    /\ Cardinality({i \in DOMAIN req[r].used : req[r].used[i] \in Subs}) <= MaxOAuth

\* The five together: what a request, its credentials and its log row agree on.
FailoverHolds == TypeOK /\ OneProbe /\ LeasesHeld /\ AttemptsAccounted /\ EachTriedOnce

\* An open circuit is closed by the operator, or by a success that was sent
\* after the key's last failure: an answer overtaken by a failure proves nothing.
VerifiedByFreshAnswer ==
  [][\A k \in Keys :
       health[k].open /\ ~health'[k].open =>
         \/ Operator(k)
         \/ \E r \in Requests : KeyServes(r) /\ req[r].cred = k /\ ~req[r].stale]_vars

\* Every request ends, even when keys stay paused and refuse for ever and the
\* time budget never runs out.
RequestsEnd ==
  \A r \in Requests : req[r].pc \notin {"idle", "done"} ~> req[r].pc = "done"

\* A key whose relay works again is verified and serves again while traffic
\* goes on, even if an OAuth credential could serve all of it.
KeyRecovers ==
  Traffic =>
    \A k \in Keys :
      <>[](k \notin down /\ ~health[k].disabled) => <>[](~health[k].open)

\* For TLC: slots, keys and OAuth credentials are interchangeable.
Alike == Permutations(Requests) \cup Permutations(Keys) \cup Permutations(Subs)
=============================================================================
