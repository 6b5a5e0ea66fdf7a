---------------------------- MODULE CodexModels -----------------------------
(***************************************************************************)
(* The ingress guard of Codex models (codex_model_guard.go): a model that  *)
(* no credential can serve is refused before it costs an attempt.  What    *)
(* OAuth plans serve is known; what API-key relays serve is a catalog that *)
(* a background refresh builds by asking each of them in turn.             *)
(***************************************************************************)
EXTENDS Naturals, FiniteSets

CONSTANTS Keys, Models,
          RelayModels,  \* what an API-key relay may serve
          PlanModels,   \* what the OAuth credentials' plans serve, hidden ones included
          KeyOnly,      \* OpenAIAPIKeyOnlyModels
          Base          \* Base[m]: the name codexModelCandidates strips m down to

VARIABLES
  enabled,    \* the API keys in the pool
  offers,     \* what each of them serves at the moment
  catalog,    \* codexModels.models; Unset before the first refresh ended
  stale,      \* the catalog's TTL has passed
  rested,     \* codexAPIKeyProbeMinInterval has passed since the last attempt
  refresh,    \* the refresh in flight: keys to ask, models found
  steady, since,  \* key/model pairs served ever since the refresh (in flight, behind
                  \* the catalog) began
  verdict     \* the guard's last answer, until what it rests on changes

vars == <<enabled, offers, catalog, stale, rested, refresh, steady, since, verdict>>

ModelsAssumption == RelayModels \subseteq Models

Unset == [set |-> FALSE, models |-> {}]
NoVerdict == [model |-> CHOOSE m \in Models : TRUE, is |-> "none"]
NoRefresh == [on |-> FALSE, ask |-> {}, found |-> {}]

Init ==
  /\ enabled \in SUBSET Keys
  /\ offers \in [Keys -> SUBSET RelayModels]
  /\ catalog = Unset /\ stale = TRUE /\ rested = TRUE
  /\ refresh = NoRefresh /\ steady = {} /\ since = {}
  /\ verdict = NoVerdict

Serving == {p \in Keys \X Models : p[1] \in enabled /\ p[2] \in offers[p[1]]}

codexModelCandidates(m) == {m, Base[m]}
codexModelServable(m, set) == codexModelCandidates(m) \cap set # {}

\* apiKeyModels: a stale catalog is refreshed, by one refresh at a time, and
\* answers meanwhile.
apiKeyModels ==
  IF stale /\ rested /\ ~refresh.on
  THEN /\ refresh' = [on |-> TRUE, ask |-> enabled, found |-> {}]
       /\ rested' = FALSE /\ since' = Serving
  ELSE UNCHANGED <<refresh, rested, since>>

\* guardCodexModel, for a model configured to API keys only, for one a plan
\* serves, for one without any relay to ask, and for the rest.
Answer(m, is) == verdict' = [model |-> m, is |-> is]
Pool == <<enabled, offers, catalog, stale, steady>>

GuardKeyOnly(m) ==
  /\ m \in KeyOnly
  /\ Answer(m, IF enabled # {} THEN "keys" ELSE "unavailable")
  /\ UNCHANGED <<Pool, rested, refresh, since>>

GuardPlan(m) ==
  /\ m \notin KeyOnly
  /\ codexModelServable(m, PlanModels) \/ enabled = {}
  /\ Answer(m, IF codexModelServable(m, PlanModels) THEN "pass" ELSE "refused")
  /\ UNCHANGED <<Pool, rested, refresh, since>>

GuardRelay(m) ==
  /\ m \notin KeyOnly /\ ~codexModelServable(m, PlanModels) /\ enabled # {}
  /\ apiKeyModels
  /\ Answer(m, IF ~catalog.set \/ codexModelServable(m, catalog.models) THEN "keys" ELSE "refused")
  /\ UNCHANGED Pool

\* refreshAPIKeyModels: one key after the other.
Ask(k) ==
  /\ refresh.on /\ k \in refresh.ask
  /\ refresh' = [refresh EXCEPT !.ask = @ \ {k}, !.found = @ \cup offers[k]]
  /\ UNCHANGED <<Pool, rested, since, verdict>>

Arm(found) ==
  /\ refresh' = NoRefresh
  /\ catalog' = [set |-> TRUE, models |-> found] /\ stale' = FALSE
  /\ steady' = since
  /\ verdict' = NoVerdict
  /\ UNCHANGED <<enabled, offers, rested, since>>

Finish == refresh.on /\ refresh.ask = {} /\ Arm(refresh.found)

\* Mutant: the catalogs that could be read make the new one.
FailsPartially == refresh.on /\ refresh.ask # {} /\ Arm(refresh.found)

\* A key cannot be asked: the whole refresh is given up, the catalog stays.
Fails ==
  /\ refresh.on /\ refresh.ask # {}
  /\ refresh' = NoRefresh
  /\ UNCHANGED <<Pool, rested, since, verdict>>

\* Time passes; operators add and remove keys, and relays change what they serve.
Expire ==
  /\ stale' = TRUE /\ rested' = TRUE
  /\ UNCHANGED <<enabled, offers, catalog, refresh, steady, since, verdict>>

Change(k, on, ms) ==
  /\ enabled' = IF on THEN enabled \cup {k} ELSE enabled \ {k}
  /\ offers' = [offers EXCEPT ![k] = ms]
  /\ LET kept(set) == {p \in set : p[1] # k \/ (on /\ p[2] \in ms)}
     IN steady' = kept(steady) /\ since' = kept(since)
  /\ verdict' = NoVerdict
  /\ UNCHANGED <<catalog, stale, rested, refresh>>

Next ==
  \/ \E m \in Models : GuardKeyOnly(m) \/ GuardPlan(m) \/ GuardRelay(m)
  \/ \E k \in Keys : Ask(k) \/ \E on \in BOOLEAN, ms \in SUBSET RelayModels : Change(k, on, ms)
  \/ Finish \/ Fails \/ Expire

Spec == Init /\ [][Next]_vars

-----------------------------------------------------------------------------
TypeOK ==
  /\ enabled \subseteq Keys /\ catalog.models \subseteq Models
  /\ refresh.ask \subseteq Keys /\ refresh.found \subseteq Models
  /\ verdict.is \in {"none", "pass", "keys", "unavailable", "refused"}

\* The guard refuses no model that a relay has been serving ever since the
\* refresh behind the catalog began, nor one a plan serves: a relay that could
\* not be asked never costs another one its models.
ServedIsNotRefused ==
  verdict.is = "refused" =>
    /\ ~codexModelServable(verdict.model, PlanModels)
    /\ \A p \in steady : p[2] \notin codexModelCandidates(verdict.model) \/ enabled = {}

\* Before a first complete catalog nothing a relay might serve is refused.
FailsOpen == verdict.is = "refused" => catalog.set \/ enabled = {}

ModelsHold == TypeOK /\ ServedIsNotRefused /\ FailsOpen
=============================================================================
