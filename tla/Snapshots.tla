----------------------------- MODULE Snapshots -----------------------------
(***************************************************************************)
(* The snapshots of the wallet database that the server keeps beside it:   *)
(* one a day, taken at startup and every 24 hours, the oldest pruned.  A   *)
(* run may fail or die half-way and leave a torn file.                     *)
(***************************************************************************)
EXTENDS Naturals, FiniteSets

CONSTANTS
  Keep,          \* snapshots that pruning leaves
  MaxCrashes,    \* bound: crashes of the server
  MaxDay         \* bound: days

SnapshotsAssumption == Keep \in Nat

VARIABLES
  day,
  snapshots,     \* saas-<date>.db files: [day, at, whole]
  runner,        \* the daily backup: "off", "due", "vacuum", "prune", "waiting"
  before,        \* history: the whole snapshots there were when the run began
  done,          \* history: the days whose last run completed its snapshot
  clock, crashes

vars == <<day, snapshots, runner, before, done, clock, crashes>>

Init ==
  /\ day = 1 /\ snapshots = {} /\ runner = "off" /\ before = {} /\ done = {}
  /\ clock = 0 /\ crashes = 0

Whole == {s \in snapshots : s.whole}

-----------------------------------------------------------------------------
\* RunDailyBackups takes a snapshot at once.
Start ==
  /\ runner = "off"
  /\ runner' = "due"
  /\ UNCHANGED <<day, snapshots, before, done, clock, crashes>>

\* SnapshotTo removes the file of a run earlier the same day, since VACUUM INTO
\* does not overwrite, and begins a new one.
SnapshotTo ==
  /\ runner = "due"
  /\ before' = Whole
  /\ clock' = clock + 1
  /\ snapshots' = {s \in snapshots : s.day # day} \cup {[day |-> day, at |-> clock + 1, whole |-> FALSE]}
  /\ done' = done \ {day}
  /\ runner' = "vacuum"
  /\ UNCHANGED <<day, crashes>>

\* VACUUM INTO completes, or fails and ends the run with what it wrote.
Vacuumed ==
  /\ runner = "vacuum"
  /\ \/ /\ runner' = "prune"
        /\ snapshots' = {[s EXCEPT !.whole = @ \/ s.at = clock] : s \in snapshots}
        /\ done' = done \cup {day}
     \/ runner' = "waiting" /\ UNCHANGED <<snapshots, done>>
  /\ UNCHANGED <<day, before, clock, crashes>>

\* The newest files by time, whole or not.
Kept == {s \in snapshots : Cardinality({x \in snapshots : x.at >= s.at}) <= Keep}

pruneOldBackups ==
  /\ runner = "prune"
  /\ snapshots' = Kept
  /\ runner' = "waiting"
  /\ UNCHANGED <<day, before, done, clock, crashes>>

\* The 24-hour ticker, or a day that passes while the server is down.
NextDay ==
  /\ day < MaxDay
  /\ runner \in {"off", "waiting"}
  /\ day' = day + 1
  /\ runner' = IF runner = "waiting" THEN "due" ELSE runner
  /\ UNCHANGED <<snapshots, before, done, clock, crashes>>

Crash ==
  /\ crashes < MaxCrashes
  /\ runner # "off"
  /\ crashes' = crashes + 1
  /\ runner' = "off"
  /\ UNCHANGED <<day, snapshots, before, done, clock>>

Next == Start \/ SnapshotTo \/ Vacuumed \/ pruneOldBackups \/ NextDay \/ Crash

Spec == Init /\ [][Next]_vars

-----------------------------------------------------------------------------
TypeOK ==
  /\ runner \in {"off", "due", "vacuum", "prune", "waiting"}
  /\ \A s, t \in snapshots : s.day = t.day => s = t

\* A run destroys no whole snapshot but the one of its own day until it has
\* another: a crash or a full disk half-way leaves the days before it.
OlderSurviveRun == runner = "vacuum" => {s \in before : s.day # day} \subseteq snapshots

\* Pruning counts torn files too: once a day's last run completed, some day
\* stays restorable as long as fewer than Keep files are torn, the one being
\* written included.
SomeDayRestorable ==
  done # {} /\ Cardinality(snapshots \ Whole) < Keep => Whole # {}

\* The server can go back to some day, as far as runs that died allow.
SnapshotsHold == TypeOK /\ OlderSurviveRun /\ SomeDayRestorable
=============================================================================
