----------------------------- MODULE Integrity -----------------------------
(***************************************************************************)
(* The corruption detector of the wallet database: traffic and an hourly   *)
(* check report errors, the first report trips a latch and starts a        *)
(* self-heal, which recycles the pooled connections, checks the file and   *)
(* clears the latch, and the operator is paged.                            *)
(*                                                                         *)
(* Errors have two causes the server cannot tell apart: connections whose  *)
(* files were replaced underneath them, and a damaged file.                *)
(***************************************************************************)
EXTENDS Naturals, Sequences

CONSTANTS
  Conns,             \* connections of the pool
  Reporters,         \* goroutines that raise an alert
  RecoverCooldown, MaxRecoverAttempts, AttemptReset, AlertCooldown,
  MaxUnlinks,        \* bound: times the files are replaced underneath the server
  MaxTime            \* bound: time

IntegrityAssumption ==
  /\ RecoverCooldown \in Nat /\ MaxRecoverAttempts \in Nat /\ AttemptReset \in Nat
  /\ AlertCooldown \in Nat \ {0}

VARIABLES
  now,
  damaged,           \* the file itself
  stale,             \* connections that hold replaced files
  busy,              \* connections checked out by queries
  draining,          \* recycleConns is in its grace window: returned connections close
  reporter,          \* [stage, at, first, last] of a raise
  tripped, lastAlert,
  healer,            \* stage of the recovery goroutine: inFlight unless "idle"
  lastAttempt, attempts,
  recycles,          \* history: [at, healed] of every recycling of the pool
  pages,             \* history: [at, first] of every alert sent
  unanswered,        \* history: a report came since the last check that passed
  unlinks

vars == <<now, damaged, stale, busy, draining, reporter, tripped, lastAlert, healer,
          lastAttempt, attempts, recycles, pages, unanswered, unlinks>>
pool == <<damaged, stale, busy, draining, unlinks>>
repair == <<healer, lastAttempt, attempts, recycles>>

Quiet == [stage |-> "idle", at |-> 0, first |-> FALSE, last |-> 0]

\* Time starts past both cooldowns, whose zero values mean "never".
Init ==
  /\ now = AlertCooldown
  /\ damaged = FALSE /\ stale = {} /\ busy = {} /\ draining = FALSE /\ unlinks = 0
  /\ reporter = [r \in Reporters |-> Quiet]
  /\ tripped = FALSE /\ lastAlert = 0
  /\ healer = "idle" /\ lastAttempt = 0 /\ attempts = 0
  /\ recycles = <<>> /\ pages = <<>> /\ unanswered = FALSE

-----------------------------------------------------------------------------
(* The file and the pool.                                                  *)

\* Something outside the process replaces the files under every connection.
Unlink ==
  /\ unlinks < MaxUnlinks
  /\ unlinks' = unlinks + 1
  /\ stale' = Conns
  /\ UNCHANGED <<now, damaged, busy, draining, reporter, tripped, lastAlert, repair, pages, unanswered>>

Damage ==
  /\ ~damaged
  /\ damaged' = TRUE
  /\ UNCHANGED <<now, stale, busy, draining, unlinks, reporter, tripped, lastAlert, repair, pages, unanswered>>

Borrow(c) ==
  /\ c \notin busy
  /\ busy' = busy \cup {c}
  /\ UNCHANGED <<now, damaged, stale, draining, unlinks, reporter, tripped, lastAlert, repair, pages, unanswered>>

\* A connection returned during the grace window is closed, and opened anew.
Return(c) ==
  /\ c \in busy
  /\ busy' = busy \ {c}
  /\ stale' = IF draining THEN stale \ {c} ELSE stale
  /\ UNCHANGED <<now, damaged, draining, unlinks, reporter, tripped, lastAlert, repair, pages, unanswered>>

Fails(c) == damaged \/ c \in stale

-----------------------------------------------------------------------------
(* raise.                                                                  *)

\* Report from a query on c, or checkOnce whose quick_check ran on it.
Observe(r, c) ==
  /\ reporter[r].stage = "idle"
  /\ Fails(c)
  /\ reporter' = [reporter EXCEPT ![r] = [Quiet EXCEPT !.stage = "seen", !.at = now]]
  /\ UNCHANGED <<now, pool, tripped, lastAlert, repair, pages, unanswered>>

\* The latch, then scheduleRecover: at most one recovery goroutine.
Trip(r) ==
  /\ reporter[r].stage = "seen"
  /\ reporter' = [reporter EXCEPT ![r].stage = "tripped", ![r].first = ~tripped]
  /\ tripped' = TRUE
  /\ healer' = IF healer = "idle" THEN "started" ELSE healer
  /\ unanswered' = (unanswered \/ healer # "passed")
  /\ UNCHANGED <<now, pool, lastAlert, lastAttempt, attempts, recycles, pages>>

LoadLastAlert(r) ==
  /\ reporter[r].stage = "tripped"
  /\ LET muted == ~reporter[r].first /\ reporter[r].at < lastAlert + AlertCooldown
     IN reporter' = [reporter EXCEPT ![r] = IF muted THEN Quiet ELSE [@ EXCEPT !.stage = "alerting", !.last = lastAlert]]
  /\ UNCHANGED <<now, pool, tripped, lastAlert, repair, pages, unanswered>>

\* The compare-and-swap of lastAlert, and the page unless another won it.
Alert(r) ==
  /\ reporter[r].stage = "alerting"
  /\ reporter' = [reporter EXCEPT ![r] = Quiet]
  /\ IF lastAlert = reporter[r].last
     THEN /\ lastAlert' = reporter[r].at
          /\ pages' = Append(pages, [at |-> reporter[r].at, first |-> reporter[r].first])
     ELSE UNCHANGED <<lastAlert, pages>>
  /\ UNCHANGED <<now, pool, tripped, repair, unanswered>>

-----------------------------------------------------------------------------
(* recoverNow.                                                             *)

Quieted == lastAttempt # 0 /\ now - lastAttempt > AttemptReset
Throttled == lastAttempt # 0 /\ now - lastAttempt < RecoverCooldown
Spent == (IF Quieted THEN 0 ELSE attempts) >= MaxRecoverAttempts

\* Throttled by the cooldown, given up after the attempts of the incident, or
\* recycleConns begins: idle connections close.  attempts stops one past the
\* budget here.
StartRecovery ==
  /\ healer = "started"
  /\ \/ Throttled /\ healer' = "idle" /\ UNCHANGED <<lastAttempt, attempts, recycles, stale, draining>>
     \/ /\ ~Throttled
        /\ lastAttempt' = now
        /\ attempts' = IF Spent THEN MaxRecoverAttempts + 1 ELSE (IF Quieted THEN 1 ELSE attempts + 1)
        /\ IF Spent
           THEN healer' = "idle" /\ UNCHANGED <<recycles, stale, draining>>
           ELSE /\ healer' = "recycling"
                /\ recycles' = Append(recycles, [at |-> now, healed |-> FALSE])
                /\ stale' = stale \cap busy
                /\ draining' = TRUE
  /\ UNCHANGED <<now, damaged, busy, unlinks, reporter, tripped, lastAlert, pages, unanswered>>

\* The grace window ends; a query that outlasts it keeps its old connection.
EndGrace ==
  /\ healer = "recycling"
  /\ healer' = "checking"
  /\ draining' = FALSE
  /\ UNCHANGED <<now, damaged, stale, busy, unlinks, reporter, tripped, lastAlert,
                 lastAttempt, attempts, recycles, pages, unanswered>>

\* QuickCheck on a connection of the pool.
QuickCheck(c) ==
  /\ healer = "checking"
  /\ c \notin busy
  /\ healer' = IF Fails(c) THEN "idle" ELSE "passed"
  /\ unanswered' = (unanswered /\ Fails(c))
  /\ UNCHANGED <<now, pool, reporter, tripped, lastAlert, lastAttempt, attempts, recycles, pages>>

\* The latch and the budget are cleared; the all-clear goes out unthrottled.
Heal ==
  /\ healer = "passed"
  /\ healer' = "idle"
  /\ attempts' = 0
  /\ tripped' = FALSE
  /\ recycles' = [recycles EXCEPT ![Len(recycles)].healed = TRUE]
  /\ UNCHANGED <<now, pool, reporter, lastAlert, lastAttempt, pages, unanswered>>

Tick ==
  /\ now < MaxTime
  /\ now' = now + 1
  /\ UNCHANGED <<pool, reporter, tripped, lastAlert, repair, pages, unanswered>>

Next ==
  \/ Unlink \/ Damage \/ Tick
  \/ \E c \in Conns : Borrow(c) \/ Return(c) \/ QuickCheck(c)
  \/ \E r \in Reporters, c \in Conns : Observe(r, c)
  \/ \E r \in Reporters : Trip(r) \/ LoadLastAlert(r) \/ Alert(r)
  \/ StartRecovery \/ EndGrace \/ Heal

Spec == Init /\ [][Next]_vars

-----------------------------------------------------------------------------
TypeOK ==
  /\ stale \subseteq Conns /\ busy \subseteq Conns
  /\ healer \in {"idle", "started", "recycling", "checking", "passed"}
  /\ attempts \in 0..MaxRecoverAttempts + 1
  /\ \A r \in Reporters : reporter[r].stage \in {"idle", "seen", "tripped", "alerting"}

\* However many errors pour in, the pool is not recycled twice in a cooldown.
RepairsSpaced ==
  \A i \in 1..Len(recycles) - 1 : recycles[i + 1].at - recycles[i].at >= RecoverCooldown

\* A damaged file is given up on: the budget is exceeded only after a heal or
\* a spell longer than the reset without an attempt.
BudgetPerIncident ==
  \A i \in 1..Len(recycles) - MaxRecoverAttempts :
    \E j \in i..i + MaxRecoverAttempts - 1 :
      recycles[j].healed \/ recycles[j + 1].at - recycles[j].at > AttemptReset

\* Operators are paged once per cooldown, but for the page of a report that
\* trips the latch, which waits for nothing.
PagesThrottled ==
  \A i \in 1..Len(pages) - 1 :
    ~pages[i + 1].first => pages[i + 1].at - pages[i].at >= AlertCooldown

\* The latch says so while a report is unanswered by a check that passed after
\* it; only a report between that check and the clearing is wiped out.
ReportsKeepLatch == unanswered => tripped

\* Detection, repair and paging keep to their limits and to the evidence.
IntegrityHolds ==
  TypeOK /\ RepairsSpaced /\ BudgetPerIncident /\ PagesThrottled /\ ReportsKeepLatch
=============================================================================
