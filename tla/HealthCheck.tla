---------------------------- MODULE HealthCheck ----------------------------
(***************************************************************************)
(* The upstream health checker: in each cycle it prunes the rows of        *)
(* credentials that left the pool and then judges every credential and     *)
(* model, by a probe, by the recent traffic or by the pool's own state,    *)
(* while credentials are removed, disabled and reconfigured.               *)
(***************************************************************************)
EXTENDS Naturals, Sequences, FiniteSets

CONSTANTS
  Auths, Models,
  Judged,        \* how a credential is judged: "probe", "traffic" or "pool"
  Cap,           \* history rows kept per credential and model
  MaxChanges     \* bound: changes of the pool

HealthAssumption == Cap \in Nat

VARIABLES
  live, disabled, enabled,   \* the pool, and a credential's enabled models
  row,           \* model_health: the current verdict on <<credential, model>>
  history,       \* model_health_history of <<credential, model>>, oldest first
  running,       \* a RunOnce is in progress
  queue,         \* the credentials its snapshot of the pool has left
  work,          \* [of, models]: the credential in hand and its models left
  judged,        \* the verdict of a probe that is not written yet, or "none"
  touched,       \* history: credentials changed since the cycle began
  cycles,        \* history: whether a cycle has completed
  changes

vars == <<live, disabled, enabled, row, history, running, queue, work, judged, touched, cycles, changes>>
pool == <<live, disabled, enabled, touched, changes>>

Pairs == Auths \X Models
Idle == [of |-> "nobody", models |-> {}]

Init ==
  /\ live = Auths /\ disabled \in SUBSET Auths
  /\ enabled \in [Auths -> (SUBSET Models) \ {{}}]
  /\ row = [p \in Pairs |-> "none"] /\ history = [p \in Pairs |-> <<>>]
  /\ running = FALSE /\ queue = {} /\ work = Idle /\ judged = "none"
  /\ touched = {} /\ cycles = FALSE /\ changes = 0

-----------------------------------------------------------------------------
(* validateProbeResponse: the events of a streamed answer up to its end.   *)

Stops == {"error", "done", "[DONE]"}
\* A good answer, one cut short, one without usage and one that fails late.
Answers == {<<"input", "output", "done">>, <<"input", "output">>, <<"input", "done">>,
            <<"input", "output", "error", "done">>}

\* Completion after both usages were observed, before any error.
validateProbeResponse(s) ==
  \E i \in 1..Len(s) :
    /\ s[i] = "done"
    /\ \A j \in 1..i - 1 : s[j] \notin Stops
    /\ {"input", "output"} \subseteq {s[j] : j \in 1..i}

\* The latest request of the last half hour speaks; no traffic is unknown.
recordPassiveTraffic == {"ok", "fail", "unknown"}

\* A probe, the traffic, or the pool's own state (recordOAuthFromPool).
Verdicts(a) ==
  CASE Judged[a] = "probe" -> {IF validateProbeResponse(s) THEN "ok" ELSE "fail" : s \in Answers}
    [] Judged[a] = "traffic" -> recordPassiveTraffic
    [] OTHER -> {"ok", "fail"}

-----------------------------------------------------------------------------
(* The two tables of verdicts.                                             *)

\* DELETE of the verdicts, and of the history rows, on the given pairs.
DropRows(ps) == row' = [p \in Pairs |-> IF p \in ps THEN "none" ELSE row[p]]
DropHistory(ps) == history' = [p \in Pairs |-> IF p \in ps THEN <<>> ELSE history[p]]

PruneModelHealthExcept(keep) ==
  LET gone == (Auths \ keep) \X Models IN DropRows(gone) /\ DropHistory(gone)

PruneModelHealthOtherModels(a, keep) ==
  LET others == {a} \X (Models \ keep) IN DropRows(others) /\ DropHistory(others)

UpsertModelHealth(p, verdict) == row' = [row EXCEPT ![p] = verdict]

\* The newest Cap rows stay.
AppendModelHealthHistory(p, verdict) ==
  LET longer == Append(history[p], verdict)
  IN history' = [history EXCEPT ![p] = IF Len(longer) > Cap THEN Tail(longer) ELSE longer]

-----------------------------------------------------------------------------
(* The pool changes under the checker.                                     *)

Touch(a) ==
  /\ changes < MaxChanges
  /\ changes' = changes + 1
  /\ touched' = touched \cup {a}
  /\ UNCHANGED <<row, history, running, queue, work, judged, cycles>>

Remove(a) == a \in live /\ live' = live \ {a} /\ UNCHANGED <<disabled, enabled>> /\ Touch(a)

SetDisabled(a) ==
  /\ a \in live
  /\ disabled' = IF a \in disabled THEN disabled \ {a} ELSE disabled \cup {a}
  /\ UNCHANGED <<live, enabled>>
  /\ Touch(a)

SetModels(a, ms) ==
  /\ a \in live
  /\ enabled' = [enabled EXCEPT ![a] = ms]
  /\ UNCHANGED <<live, disabled>>
  /\ Touch(a)

-----------------------------------------------------------------------------
\* RunOnce, unless one is running: the pool's snapshot, then
\* PruneModelHealthExcept of what is not in it.
RunOnce ==
  /\ ~running
  /\ running' = TRUE
  /\ queue' = live
  /\ touched' = {}
  /\ PruneModelHealthExcept(live)
  /\ UNCHANGED <<live, disabled, enabled, work, judged, cycles, changes>>

\* The next credential, looked up again: gone, disabled (its verdict goes, its
\* history stays), or judged for the models enabled now, the rows of others
\* being dropped (PruneModelHealthOtherModels).
NextAuth(a) ==
  /\ running /\ work = Idle
  /\ a \in queue
  /\ queue' = queue \ {a}
  /\ work' = IF a \in live \ disabled THEN [of |-> a, models |-> enabled[a]] ELSE Idle
  /\ CASE a \notin live -> UNCHANGED <<row, history>>
       [] a \in live \cap disabled -> DropRows({a} \X Models) /\ UNCHANGED history
       [] OTHER -> PruneModelHealthOtherModels(a, enabled[a])
  /\ UNCHANGED <<pool, running, judged, cycles>>

\* A probe is sent, the log queried or the pool asked; that takes a while.
Judge ==
  /\ work # Idle /\ judged = "none"
  /\ judged' \in Verdicts(work.of)
  /\ UNCHANGED <<pool, row, history, running, queue, work, cycles>>

\* The verdict replaces the one before; one of unknown has no history.
Record(m) ==
  /\ judged # "none"
  /\ m \in work.models
  /\ UpsertModelHealth(<<work.of, m>>, judged)
  /\ IF judged = "unknown" THEN UNCHANGED history
     ELSE AppendModelHealthHistory(<<work.of, m>>, judged)
  /\ work' = IF work.models = {m} THEN Idle ELSE [work EXCEPT !.models = @ \ {m}]
  /\ judged' = "none"
  /\ UNCHANGED <<pool, running, queue, cycles>>

EndCycle ==
  /\ running /\ queue = {} /\ work = Idle
  /\ running' = FALSE
  /\ cycles' = TRUE
  /\ UNCHANGED <<pool, row, history, queue, work, judged>>

Next ==
  \/ \E a \in Auths : Remove(a) \/ SetDisabled(a) \/ NextAuth(a)
  \/ \E a \in Auths, ms \in (SUBSET Models) \ {{}} : SetModels(a, ms)
  \/ \E m \in Models : Record(m)
  \/ RunOnce \/ Judge \/ EndCycle

Spec == Init /\ [][Next]_vars

-----------------------------------------------------------------------------
TypeOK ==
  /\ row \in [Pairs -> {"none", "ok", "fail", "unknown"}]
  /\ \A p \in Pairs : Len(history[p]) <= Cap /\ \A i \in 1..Len(history[p]) : history[p][i] \in {"ok", "fail"}
  /\ work.of \in live \cup touched \cup {"nobody"}

\* After a cycle no ghost is left: a verdict on a credential that is gone,
\* disabled or no longer has the model is of one that changed under the cycle.
GhostsAreRecent ==
  cycles /\ ~running =>
    \A p \in Pairs :
      row[p] # "none" /\ (p[1] \notin live \ disabled \/ p[2] \notin enabled[p[1]]) => p[1] \in touched

\* And every serving credential has a verdict on each of its models.
NobodyOverlooked ==
  cycles /\ ~running =>
    \A a \in live \ (disabled \cup touched) : \A m \in enabled[a] : row[<<a, m>>] # "none"

\* The status page shows the pool as it is, but for what just changed.
HealthHolds == TypeOK /\ GhostsAreRecent /\ NobodyOverlooked
=============================================================================
