---------------------------- MODULE CodexSocket -----------------------------
(***************************************************************************)
(* Codex sessions over a client's WebSocket (handleCodexResponsesWS): each *)
(* acquires one OAuth credential, relays frames both ways, and bills every *)
(* completed turn through a queue drained by a goroutine of its own.  All  *)
(* sessions share the store of response ids (codexRespAccountStore).       *)
(***************************************************************************)
EXTENDS Naturals, Sequences, FiniteSets, Functions

CONSTANTS Sessions, Creds, Groups,
          MaxConc,      \* the client token's MaxConcurrent
          MaxAcquire,   \* codexWSMaxAcquire
          MaxQueue,     \* codexWSBillQueue
          MaxTurns,     \* bound: turns of one session
          Usages        \* bound: what a frame may report

VARIABLES
  ses,       \* the sessions
  inflight,  \* requests in progress of the client token
  bound      \* response ids on record, each under its group

vars == <<ses, inflight, bound>>

NoId == "none"

SocketAssumption ==
  /\ IsFiniteSet(Sessions) /\ NoId \notin Sessions
  /\ MaxConc \in Nat /\ MaxQueue \in Nat /\ Usages \subseteq Nat

\* The responses of one session are told apart by nothing but the session.
Ids == Sessions \cup {NoId}

NewSession(g) ==
  [pc |-> "new", group |-> g, cred |-> "none", tried |-> {}, dials |-> 0,
   turn |-> 0,     \* usage reported for the turn under way
   counts |-> 0,   \* usage of the session
   billed |-> 0,   \* what of it the bills handed out so far account for
   seq |-> 0, queue |-> << >>, bills |-> << >>,
   used |-> << >>, \* what each completed turn used
   chained |-> {}, \* response ids passed on to the upstream
   recorded |-> 0, row |-> FALSE]

Init ==
  /\ ses \in {[s \in Sessions |-> NewSession(g[s])] : g \in [Sessions -> Groups]}
  /\ inflight = 0
  /\ bound = {}

Is(s, pc) == ses[s].pc = pc
Set(s, r) == ses' = [ses EXCEPT ![s] = r]

\* The slot is taken before the limit is looked at, and given back when the
\* handler returns.
Over == inflight + 1 > MaxConc

Admit(s) ==
  /\ Is(s, "new")
  /\ IF Over THEN Set(s, [ses[s] EXCEPT !.pc = "refused"]) /\ UNCHANGED inflight
     ELSE Set(s, [ses[s] EXCEPT !.pc = "dial"]) /\ inflight' = inflight + 1
  /\ UNCHANGED bound

\* Up to codexWSMaxAcquire credentials are dialled, none of them twice.
Dials(s, c) ==
  Is(s, "dial") /\ c \in Creds \ ses[s].tried /\ ses[s].dials < MaxAcquire

Dialled(s, c) == [ses[s] EXCEPT !.tried = @ \cup {c}, !.dials = @ + 1]

DialFails(s, c) ==
  /\ Dials(s, c)
  /\ Set(s, Dialled(s, c))
  /\ UNCHANGED <<inflight, bound>>

\* A response id is passed on only if it is on record under this group.
Known(s, id) == [group |-> ses[s].group, id |-> id] \in bound
Chain(s, id) == IF Known(s, id) THEN {id} ELSE {}

\* The first frame goes out with the dial that succeeds; the write may fail,
\* which ends the session without a row.
Connect(s, c, id) ==
  /\ Dials(s, c)
  /\ Set(s, [Dialled(s, c) EXCEPT !.pc = "pump", !.cred = c, !.chained = @ \cup Chain(s, id)])
  /\ UNCHANGED <<inflight, bound>>

NoCredential(s) ==
  /\ Is(s, "dial")
  /\ ses[s].dials = MaxAcquire \/ Creds = ses[s].tried
  /\ Set(s, [ses[s] EXCEPT !.pc = "closed", !.row = TRUE])
  /\ inflight' = inflight - 1
  /\ UNCHANGED bound

\* client -> upstream.
ClientFrame(s, id) ==
  /\ Is(s, "pump")
  /\ Set(s, [ses[s] EXCEPT !.chained = @ \cup Chain(s, id)])
  /\ UNCHANGED <<inflight, bound>>

\* upstream -> client: a frame that names the response, one that reports usage,
\* which overwrites what the turn reported before, and the terminal event.
Created(s) ==
  /\ Is(s, "pump") /\ ses[s].seq < MaxTurns
  /\ bound' = bound \cup {[group |-> ses[s].group, id |-> s]}
  /\ UNCHANGED <<ses, inflight>>

Reports(s, u) ==
  /\ Is(s, "pump") /\ ses[s].seq < MaxTurns
  /\ Set(s, [ses[s] EXCEPT !.turn = u])
  /\ UNCHANGED <<inflight, bound>>

\* Mutant: the first turn's usage is in every later bill.
DeltaOfTotal(cur, billed) == cur
codexTurnDelta(cur, billed) == cur - billed

\* A completed turn joins the session's total, and what the bills have not yet
\* accounted for is billed: by the worker, or here if its queue is full.
Completes(s) ==
  /\ Is(s, "pump") /\ ses[s].seq < MaxTurns
  /\ LET r == ses[s]
         total == r.counts + r.turn
         bill == [seq |-> r.seq + 1, tokens |-> codexTurnDelta(total, r.billed)]
         full == Len(r.queue) = MaxQueue
     IN Set(s, [r EXCEPT !.counts = total, !.billed = total, !.turn = 0, !.seq = @ + 1,
                         !.used = Append(@, r.turn),
                         !.queue = IF full THEN @ ELSE Append(@, bill),
                         !.bills = IF full THEN Append(@, bill) ELSE @])
  /\ UNCHANGED <<inflight, bound>>

\* Either side is gone: a turn cut off is in the total, but not billed.
Hangup(s) ==
  /\ Is(s, "pump")
  /\ Set(s, [ses[s] EXCEPT !.pc = "drain", !.counts = @ + ses[s].turn, !.turn = 0])
  /\ UNCHANGED <<inflight, bound>>

\* The worker bills a turn, under a key of its own.
Bill(s) ==
  /\ ses[s].pc \in {"pump", "drain"} /\ ses[s].queue # << >>
  /\ Set(s, [ses[s] EXCEPT !.queue = Tail(@), !.bills = Append(@, Head(ses[s].queue))])
  /\ UNCHANGED <<inflight, bound>>

\* The handler returns when the queue is drained.
Close(s) ==
  /\ Is(s, "drain") /\ ses[s].queue = << >>
  /\ Set(s, [ses[s] EXCEPT !.pc = "closed", !.recorded = @ + ses[s].counts])
  /\ inflight' = inflight - 1
  /\ UNCHANGED bound

\* codexRespAccountTTL: a binding lapses.
Lapse(b) ==
  /\ bound' = bound \ {b}
  /\ UNCHANGED <<ses, inflight>>

\* The server dies: sessions, queued bills and bindings are gone.
Crash ==
  /\ ses' = [s \in Sessions |->
       IF ses[s].pc \in {"closed", "refused"} THEN ses[s] ELSE [ses[s] EXCEPT !.pc = "crashed"]]
  /\ inflight' = 0 /\ bound' = {}

Next ==
  \/ \E s \in Sessions :
       \/ Admit(s) \/ NoCredential(s) \/ Created(s) \/ Completes(s) \/ Hangup(s)
       \/ Bill(s) \/ Close(s)
       \/ \E c \in Creds : DialFails(s, c) \/ \E id \in Ids : Connect(s, c, id)
       \/ \E id \in Ids : ClientFrame(s, id)
       \/ \E u \in Usages : Reports(s, u)
  \/ \E b \in bound : Lapse(b)
  \/ Crash

Spec == Init /\ [][Next]_vars

-----------------------------------------------------------------------------
States == {"new", "refused", "dial", "pump", "drain", "closed", "crashed"}

TypeOK ==
  /\ \A s \in Sessions : ses[s].pc \in States /\ Len(ses[s].queue) <= MaxQueue
  /\ inflight \in Nat /\ bound \subseteq [group : Groups, id : Ids]

\* Every bill is for what its turn used, and no turn is billed twice.
BillsMatchTurns == \A s \in Sessions :
  LET b == ses[s].bills IN
  /\ \A i \in DOMAIN b : b[i].seq \in DOMAIN ses[s].used /\ b[i].tokens = ses[s].used[b[i].seq]
  /\ \A i, j \in DOMAIN b : b[i].seq = b[j].seq => i = j

\* A session that closed has billed every completed turn, and its total, with
\* the turn that was cut off, is on the credential; a crash loses the queued
\* ones and nothing else.
ClosedIsSettled == \A s \in Sessions :
  /\ Is(s, "closed") => Len(ses[s].bills) = Len(ses[s].used) /\ ses[s].recorded = ses[s].counts
  /\ Len(ses[s].bills) + Len(ses[s].queue) = Len(ses[s].used)
  /\ ses[s].counts >= SumFunction(ses[s].used)

\* A response chain is never continued for another group than the one it was
\* minted under.
ChainsStayInGroup == \A s \in Sessions :
  \A id \in ses[s].chained : ses[id].group = ses[s].group

\* A client token has at most MaxConc sessions past the gate.
ConcurrencyHolds ==
  Cardinality({s \in Sessions : ses[s].pc \in {"dial", "pump", "drain"}}) <= MaxConc

SocketHolds ==
  TypeOK /\ BillsMatchTurns /\ ClosedIsSettled /\ ChainsStayInGroup /\ ConcurrencyHolds
=============================================================================
