------------------------------- MODULE Caches -------------------------------
(***************************************************************************)
(* The four caches of the panels' aggregates.  All collapse concurrent     *)
(* fetches of a key into one flight; they differ in what they serve stale, *)
(* in whether a caller that queued behind a flight looks again, in what    *)
(* they evict and in what they answer when the fetch fails.                *)
(***************************************************************************)
EXTENDS Integers, FiniteSets

CONSTANTS
  Keys, Callers,
  Ttl, MaxStale,
  MaxEntries,
  MaxTime, MaxVersions  \* bounds: clock, versions of the data

CachesAssumption == IsFiniteSet(Keys) /\ MaxEntries \in Nat \ {0}

VARIABLES
  policy,   \* "swr" (swrCache), "auth" (cachedByAuth), "query" (cachedQuery), "resp" (respCache)
  now,
  data,     \* version of the data the fetches read
  entry,    \* key -> [val, at], or Missing
  flight,   \* key -> [stage, val]: its fetch
  warming,  \* keys a background goroutine is about to refresh
  caller,   \* [stage, key, floor, got] of each caller
  shown,    \* history: key -> latest version answered
  repeated  \* history: a fetch began for a caller while the entry was fresh

vars == <<policy, now, data, entry, flight, warming, caller, shown, repeated>>

Missing == [val |-> -1, at |-> 0]
Landed == [stage |-> "none", val |-> -1]
Idle == [stage |-> "idle", key |-> "none", floor |-> -1, got |-> -1]
Failed == -2

Init ==
  /\ policy \in {"swr", "auth", "query", "resp"}
  /\ now = 0 /\ data = 0 /\ entry = [k \in Keys |-> Missing] /\ flight = [k \in Keys |-> Landed]
  /\ warming = {} /\ caller = [r \in Callers |-> Idle] /\ shown = [k \in Keys |-> -1]
  /\ repeated = FALSE

Held == {k \in Keys : entry[k] # Missing}
Fresh(k) == k \in Held /\ now - entry[k].at < Ttl

\* What is served though it is stale, while a goroutine refreshes it.
Usable(k) ==
  k \in Held /\ (policy = "swr" \/ (policy = "auth" /\ now - entry[k].at < MaxStale))

\* The later of two answers.
Later(v, w) == IF v > w THEN v ELSE w

-----------------------------------------------------------------------------
\* get, cachedByAuth, cachedQuery, do: an answer from the cache, or a flight
\* is needed.
Ask(r, k) ==
  /\ caller[r].stage = "idle"
  /\ IF Fresh(k) \/ Usable(k)
     THEN /\ caller' = [caller EXCEPT ![r] = [stage |-> "told", key |-> k, floor |-> shown[k],
                                              got |-> entry[k].val]]
          /\ shown' = [shown EXCEPT ![k] = Later(@, entry[k].val)]
          /\ warming' = IF Fresh(k) THEN warming ELSE warming \cup {k}
     ELSE /\ caller' = [caller EXCEPT ![r] = [stage |-> "missed", key |-> k, floor |-> shown[k],
                                              got |-> -1]]
          /\ UNCHANGED <<shown, warming>>
  /\ UNCHANGED <<policy, now, data, entry, flight, repeated>>

\* The caller finds a flight to wait for, or looks again, all but cachedQuery,
\* and fetches.
Fly(r) ==
  LET k == caller[r].key
      again == policy # "query" /\ Fresh(k) IN
  /\ caller[r].stage = "missed"
  /\ IF flight[k] = Landed /\ again
     THEN /\ caller' = [caller EXCEPT ![r].stage = "told", ![r].got = entry[k].val]
          /\ shown' = [shown EXCEPT ![k] = Later(@, entry[k].val)]
          /\ UNCHANGED <<flight, repeated>>
     ELSE /\ caller' = [caller EXCEPT ![r].stage = "waiting"]
          /\ flight' = IF flight[k] = Landed THEN [flight EXCEPT ![k].stage = "fetching"] ELSE flight
          /\ repeated' = (repeated \/ (flight[k] = Landed /\ Fresh(k)))
          /\ UNCHANGED shown
  /\ UNCHANGED <<policy, now, data, entry, warming>>

\* The background goroutine joins a flight or fetches without looking again.
Warm(k) ==
  /\ k \in warming /\ warming' = warming \ {k}
  /\ flight' = IF flight[k] = Landed THEN [flight EXCEPT ![k].stage = "fetching"] ELSE flight
  /\ UNCHANGED <<policy, now, data, entry, caller, shown, repeated>>

\* The query reads the data as it is.
Fetch(k) ==
  /\ flight[k].stage = "fetching"
  /\ flight' = [flight EXCEPT ![k] = [stage |-> "fetched", val |-> data]]
  /\ UNCHANGED <<policy, now, data, entry, warming, caller, shown, repeated>>

\* Mutant: the bound is looked at after the entry is added.
KeptLate ==
  IF policy \notin {"query", "resp"} \/ Cardinality(Held) <= MaxEntries THEN Held
  ELSE LET live == {k \in Held : policy = "resp" /\ Fresh(k)} IN
       IF Cardinality(live) >= MaxEntries THEN {} ELSE live

\* storeReqCache drops everything at the bound; put drops what is stale first.
Kept ==
  IF policy \notin {"query", "resp"} \/ Cardinality(Held) < MaxEntries THEN Held
  ELSE LET live == {k \in Held : policy = "resp" /\ Fresh(k)} IN
       IF Cardinality(live) >= MaxEntries THEN {} ELSE live

Waiting(k) == {r \in Callers : caller[r].stage = "waiting" /\ caller[r].key = k}
Answer(k, v) ==
  caller' = [r \in Callers |-> IF r \in Waiting(k) THEN [caller[r] EXCEPT !.stage = "told", !.got = v]
                               ELSE caller[r]]

\* The flight stores what it fetched and answers everyone who waits for it.
Land(k) ==
  /\ flight[k].stage = "fetched"
  /\ entry' = [j \in Keys |-> IF j = k THEN [val |-> flight[k].val, at |-> now]
                              ELSE IF j \in Kept THEN entry[j] ELSE Missing]
  /\ Answer(k, flight[k].val)
  /\ shown' = IF Waiting(k) = {} THEN shown ELSE [shown EXCEPT ![k] = Later(@, flight[k].val)]
  /\ flight' = [flight EXCEPT ![k] = Landed]
  /\ UNCHANGED <<policy, now, data, warming, repeated>>

\* The fetch fails: cachedByAuth answers with an entry of any age, the others
\* with the error.
Fail(k) ==
  /\ flight[k].stage = "fetching"
  /\ Answer(k, IF policy = "auth" /\ k \in Held THEN entry[k].val ELSE Failed)
  /\ flight' = [flight EXCEPT ![k] = Landed]
  /\ UNCHANGED <<policy, now, data, entry, warming, shown, repeated>>

Leave(r) ==
  /\ caller[r].stage = "told"
  /\ caller' = [caller EXCEPT ![r] = Idle]
  /\ UNCHANGED <<policy, now, data, entry, flight, warming, shown, repeated>>

Write == data < MaxVersions /\ data' = data + 1 /\ UNCHANGED <<policy, now, entry, flight, warming, caller, shown, repeated>>
Tick == now < MaxTime /\ now' = now + 1 /\ UNCHANGED <<policy, data, entry, flight, warming, caller, shown, repeated>>

Next ==
  \/ \E r \in Callers : Fly(r) \/ Leave(r) \/ \E k \in Keys : Ask(r, k)
  \/ \E k \in Keys : Warm(k) \/ Fetch(k) \/ Land(k) \/ Fail(k)
  \/ Write \/ Tick

Spec == Init /\ [][Next]_vars

-----------------------------------------------------------------------------
\* The maps that could grow do not, and the caches without a bound on what they
\* serve stale are the ones that say so.
TypeOK ==
  /\ policy \in {"query", "resp"} => Cardinality(Held) <= MaxEntries
  /\ policy \notin {"swr", "auth"} => warming = {}
  /\ \A k \in Keys : shown[k] \in -1..data /\ entry[k].val \in -1..data

\* A caller never sees data older than an answer that was given before it
\* asked, through refreshes, evictions and failures.
NoStepBack ==
  \A r \in Callers : caller[r].stage = "told" /\ caller[r].got # Failed =>
    caller[r].got >= caller[r].floor

\* Who waited behind a fetch does not run it again, but for cachedQuery.
QueuedOnce == repeated => policy = "query"

CachesHold == TypeOK /\ NoStepBack /\ QueuedOnce
=============================================================================
