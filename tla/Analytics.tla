----------------------------- MODULE Analytics ------------------------------
(***************************************************************************)
(* Visitor tracking: a counter row and a flow log per session, written     *)
(* together, and the move of both from the shared database to a database   *)
(* of their own.  The move is tried at every start while the new database  *)
(* has no session; it copies rows and log in two transactions, a failure   *)
(* is only logged, and a start that cannot open the new database uses the  *)
(* shared one.                                                             *)
(***************************************************************************)
EXTENDS Naturals, Sequences, FiniteSets

CONSTANTS
  Sids, Names,
  MaxDwell,    \* longest dwell time a ping may claim
  MaxHops,     \* hops a flow shows
  MaxEvents,   \* bound: events recorded
  MaxBoots     \* bound: starts of the server

AnalyticsAssumption == MaxDwell \in Nat /\ MaxHops \in Nat /\ MaxBoots \in Nat

VARIABLES
  row,       \* store -> session -> [pv, act, first, dwell], or None
  log,       \* store -> session -> its events, in order of their numbers
  server,    \* "down", "copied" (the rows, not the log), or the store in use
  boots,
  told,      \* history: session -> events accepted
  longest,   \* history: session -> longest dwell time accepted
  severed    \* history: a failure has left history where it is not read

vars == <<row, log, server, boots, told, longest, severed>>

Stores == {"shared", "own"}
Kinds == {"pageview", "action"}
Events == [kind : Kinds, name : Names]
Silent == [kind |-> "none", name |-> "none"]
None == [pv |-> 0, act |-> 0, first |-> [Silent EXCEPT !.kind = "unborn"], dwell |-> 0]

\* The row that the first event of a session inserts.
Fresh == [pv |-> 0, act |-> 0, first |-> Silent, dwell |-> 0]

Init ==
  /\ row = [s \in Stores |-> [i \in Sids |-> None]]
  /\ log = [s \in Stores |-> [i \in Sids |-> << >>]]
  /\ server = "down" /\ boots = 0
  /\ told = [i \in Sids |-> << >>] /\ longest = [i \in Sids |-> 0] /\ severed = FALSE

Empty(s) == \A i \in Sids : row[s][i] = None
Serving == server \in Stores

-----------------------------------------------------------------------------
\* The release before this one used the shared database alone, so its first
\* start is modelled as one that could not open the new one.
Boot == server = "down" /\ boots < MaxBoots /\ boots' = boots + 1

\* main falls back to the shared database when the other cannot be opened.
FallBack ==
  /\ Boot
  /\ server' = "shared"
  /\ UNCHANGED <<row, log, told, longest, severed>>

\* ImportFrom does nothing where sessions exist; main ignores its failure.
Open ==
  /\ Boot
  /\ server' = "own"
  /\ UNCHANGED <<row, log, told, longest, severed>>

\* importSessions commits the rows of every session.
importSessions ==
  /\ Boot
  /\ Empty("own") /\ ~Empty("shared")
  /\ server' = "copied"
  /\ row' = [row EXCEPT !["own"] = row["shared"]]
  /\ UNCHANGED <<log, told, longest, severed>>

\* importEvents commits the log of every session, and the server serves.
importEvents ==
  /\ server = "copied"
  /\ server' = "own"
  /\ log' = [log EXCEPT !["own"] = log["shared"]]
  /\ UNCHANGED <<row, boots, told, longest, severed>>

\* importEvents fails or times out, or the server dies before it: the next
\* start finds sessions and does not try again.
LoseEvents ==
  /\ server = "copied"
  /\ server' \in {"own", "down"}
  /\ severed' = TRUE
  /\ UNCHANGED <<row, log, boots, told, longest>>

Stop == Serving /\ server' = "down" /\ UNCHANGED <<row, log, boots, told, longest, severed>>

-----------------------------------------------------------------------------
\* Mutant: the landing page counts as navigation.
CountedLanding(r, e) ==
  LET first == IF r.first = Silent THEN e ELSE r.first IN
  IF e.kind = "action" THEN [r EXCEPT !.act = @ + 1, !.first = first]
  ELSE [r EXCEPT !.pv = @ + 1, !.first = first]

\* A pageview after the first one, and any action, is the first action of a
\* session that has none.
Counted(r, e) ==
  LET first == IF r.first = Silent THEN e ELSE r.first IN
  IF e.kind = "action" THEN [r EXCEPT !.act = @ + 1, !.first = first]
  ELSE [r EXCEPT !.pv = @ + 1, !.first = IF r.pv >= 1 THEN first ELSE @]

\* trackEvent, RecordEvent: log entry and counters in one transaction.  New
\* events in a database without the earlier ones end the chance of a move.
RecordEvent(i, e) ==
  LET s == server
      old == IF row[s][i] = None THEN Fresh ELSE row[s][i] IN
  /\ Serving /\ Len(told[i]) < MaxEvents
  /\ row' = [row EXCEPT ![s][i] = Counted(old, e)]
  /\ log' = [log EXCEPT ![s][i] = Append(@, e)]
  /\ told' = [told EXCEPT ![i] = Append(@, e)]
  /\ severed' = (severed \/ (s = "own" /\ Empty("own") /\ ~Empty("shared"))
                         \/ (s = "shared" /\ ~Empty("own")))
  /\ UNCHANGED <<server, boots, longest>>

\* trackDwell, AccumulateDwell: the longest claim, for a session there is.
AccumulateDwell(i, ms) ==
  LET s == server
      claim == IF ms > MaxDwell THEN MaxDwell ELSE ms IN
  /\ Serving /\ row[s][i] # None
  /\ row' = [row EXCEPT ![s][i].dwell = IF claim > @ THEN claim ELSE @]
  /\ longest' = [longest EXCEPT ![i] = IF claim > @ THEN claim ELSE @]
  /\ severed' = (severed \/ (s = "shared" /\ ~Empty("own")))
  /\ UNCHANGED <<log, server, boots, told>>

Next ==
  \/ FallBack \/ Open \/ importSessions \/ importEvents \/ LoseEvents \/ Stop
  \/ \E i \in Sids, e \in Events : RecordEvent(i, e)
  \/ \E i \in Sids, ms \in 1..(MaxDwell + 1) : AccumulateDwell(i, ms)

Spec == Init /\ [][Next]_vars

-----------------------------------------------------------------------------
\* totals: the sessions of store s that count as bounced.
Bounced(s) == {i \in Sids : row[s][i] # None /\ row[s][i].act = 0 /\ row[s][i].pv <= 1}

\* firstActions: the sessions shown without a first action.
Unmoved(s) == {i \in Sids : row[s][i] # None /\ row[s][i].first = Silent}

\* paths: the pages of a session's flow, without repeats of the page before.
Hops(l) ==
  LET Visit(h, e) == IF e.kind = "action" \/ (h # << >> /\ h[Len(h)] = e.name) THEN h
                     ELSE Append(h, e.name)
      walk[n \in 0..Len(l)] == IF n = 0 THEN << >> ELSE Visit(walk[n - 1], l[n])
  IN  walk[Len(l)]
paths(l) == IF Len(Hops(l)) <= MaxHops THEN Hops(l) ELSE Append(SubSeq(Hops(l), 1, MaxHops), "...")

Of(l, kind) == {n \in 1..Len(l) : l[n].kind = kind}

\* What RecordEvent's comment promises of the first action, over a whole log.
Moves(l) == {n \in 1..Len(l) : l[n].kind = "action" \/ \E m \in 1..(n - 1) : l[m].kind = "pageview"}
FirstMove(l) == IF Moves(l) = {} THEN Silent ELSE l[CHOOSE n \in Moves(l) : \A m \in Moves(l) : n <= m]

TypeOK ==
  /\ server \in Stores \cup {"down", "copied"} /\ boots \in 0..MaxBoots
  /\ \A s \in Stores, i \in Sids :
       /\ row[s][i] = None \/ row[s][i].first \in Events \cup {Silent}
       /\ log[s][i] \in Seq(Events)

\* The counters of a session are those of its log, in whichever database the
\* server uses, as long as no failure separated rows and log.
RowMatchesLog ==
  ~severed /\ Serving => \A i \in Sids :
    LET r == row[server][i]
        l == log[server][i] IN
    IF r = None THEN l = << >>
    ELSE /\ r.pv = Cardinality(Of(l, "pageview")) /\ r.act = Cardinality(Of(l, "action"))
         /\ r.first = FirstMove(l)

\* The database in use is the one with the history.
Settled ==
  /\ ~severed
  /\ \/ server = "shared" /\ Empty("own")
     \/ server = "own" /\ (Empty("own") => Empty("shared"))

\* No event and no dwell time is lost by the move, however often it is tried
\* or put off, unless it failed half-way or the databases were used in turns.
HistoryMoves ==
  Settled => \A i \in Sids : log[server][i] = told[i] /\ row[server][i].dwell = longest[i]

\* The two readings of a bounce agree, and no bounced session shows a flow of
\* several pages, though the log of a session may have been lost.
BouncesAgree ==
  \A s \in Stores : Bounced(s) = Unmoved(s) /\ \A i \in Bounced(s) : Len(paths(log[s][i])) <= 1

AnalyticsHold == TypeOK /\ RowMatchesLog /\ HistoryMoves /\ BouncesAgree
=============================================================================
