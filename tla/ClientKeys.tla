----------------------------- MODULE ClientKeys -----------------------------
(***************************************************************************)
(* The operator's own client tokens, which no wallet pays for: clientAuth  *)
(* and the limits of server.go, the gate before the failover loop          *)
(* (proxy.go) and the token panel (admin.go).                              *)
(*                                                                         *)
(* A request looks its token up three times, to be let in, for its weekly  *)
(* budget and for its ceiling of concurrent requests, and is recorded when *)
(* it ends; operators edit, delete, reset and merge tokens in between.     *)
(* The stores of tokens and usage and the counters are cc-core's.          *)
(***************************************************************************)
EXTENDS Integers, FiniteSets

CONSTANTS
  Tokens,      \* client tokens, those that resets mint included
  First,       \* the tokens of the first start
  Providers,
  Scale,       \* providerLimitScale
  Requests,
  Weekly,      \* weekly_usd of every token; a request costs 1
  Ceilings,    \* values of max_concurrent, 0 for none
  Default,     \* client_max_concurrent of the configuration
  MaxEdits     \* bound: edits of tokens

VARIABLES
  ceiling,     \* clienttoken.Store: max_concurrent of each token, Gone if not registered
  used,        \* usage.Store: what each token spent, in the week at hand
  inflight,    \* requests counted per provider and token
  request,     \* [pc, of: <<provider, token>>, cap: its ceiling, free: ghost, see outside]
  panel,       \* the reset or merge an operator is in: [pc, from, to]
  minted,      \* tokens that ever existed
  edits,
  outside      \* ghost: spend a token has by a rename or a merge, or from requests
               \* that found it deleted when they looked for its budget

vars == <<ceiling, used, inflight, request, panel, minted, edits, outside>>
stores == <<ceiling, used, minted, outside>>

ClientKeysAssumption ==
  /\ First \subseteq Tokens /\ IsFiniteSet(Requests)
  /\ Scale \in [Providers -> Nat] /\ Ceilings \cup {Default} \subseteq Nat
  /\ Weekly \in Nat \ {0} /\ MaxEdits \in Nat

Gone == -1
Idle == [pc |-> "idle", of |-> <<"none", "none">>, cap |-> 0, free |-> FALSE]
NoPanel == [pc |-> "idle", from |-> "none", to |-> "none"]
Registered(t) == ceiling[t] # Gone

Init ==
  /\ ceiling \in [Tokens -> Ceilings \cup {Gone}]
  /\ {t \in Tokens : Registered(t)} = First
  /\ used = [t \in Tokens |-> 0]
  /\ inflight = [k \in Providers \X Tokens |-> 0]
  /\ request = [r \in Requests |-> Idle]
  /\ panel = NoPanel
  /\ minted = First
  /\ edits = 0
  /\ outside = [t \in Tokens |-> 0]

-----------------------------------------------------------------------------
(* A request.                                                              *)

Become(r, q) == request' = [request EXCEPT ![r] = q]
Go(r, pc) == Become(r, [request[r] EXCEPT !.pc = pc])

\* clientAuth: it fails closed, an empty store included.
clientAuth(r, p, t) ==
  /\ request[r].pc = "idle" /\ Registered(t)
  /\ Become(r, [Idle EXCEPT !.pc = "known", !.of = <<p, t>>])
  /\ UNCHANGED <<stores, inflight, panel, edits>>

\* The weekly budget, of a token that is still there.
WithinBudget(r) ==
  LET t == request[r].of[2] IN
  /\ request[r].pc = "known"
  /\ ~Registered(t) \/ used[t] < Weekly
  /\ Become(r, [request[r] EXCEPT !.pc = "funded", !.free = ~Registered(t)])
  /\ UNCHANGED <<stores, inflight, panel, edits>>

OverBudget(r) ==
  /\ request[r].pc = "known"
  /\ Registered(request[r].of[2]) /\ used[request[r].of[2]] >= Weekly
  /\ Become(r, Idle)
  /\ UNCHANGED <<stores, inflight, panel, edits>>

\* The sliding window of requests per minute refuses before a slot is taken.
RateLimited(r) ==
  /\ request[r].pc = "funded"
  /\ Become(r, Idle)
  /\ UNCHANGED <<stores, inflight, panel, edits>>

\* clientMaxConcurrent: the token's ceiling, else the default, times the
\* provider's scale; 0 stays 0.
clientMaxConcurrent(p, t) == (IF ceiling[t] > 0 THEN ceiling[t] ELSE Default) * Scale[p]

\* Without a ceiling a request is not even counted.
Uncounted(r) ==
  /\ request[r].pc = "funded"
  /\ clientMaxConcurrent(request[r].of[1], request[r].of[2]) = 0
  /\ Go(r, "serving")
  /\ UNCHANGED <<stores, inflight, panel, edits>>

\* Mutant: the request that fills the last slot is not counted against it.
OverCeilingLate(n, cap) == n > cap + 1

OverCeiling(n, cap) == n > cap

\* inflight.Begin, and its answer against the ceiling; a request refused here
\* holds its slot until it leaves.
Counted(r) ==
  LET k == request[r].of
      cap == clientMaxConcurrent(k[1], k[2])
      n == inflight[k] + 1
  IN /\ request[r].pc = "funded" /\ cap > 0
     /\ inflight' = [inflight EXCEPT ![k] = n]
     /\ Become(r, [request[r] EXCEPT !.cap = cap,
                                     !.pc = IF OverCeiling(n, cap) THEN "leaving" ELSE "serving"])
     /\ UNCHANGED <<stores, panel, edits>>

\* The turn ends without an answer, or is recorded under the token it came with.
Unanswered(r) ==
  /\ request[r].pc = "serving"
  /\ Go(r, "leaving")
  /\ UNCHANGED <<stores, inflight, panel, edits>>

RecordClient(r) ==
  LET t == request[r].of[2] IN
  /\ request[r].pc = "serving"
  /\ used' = [used EXCEPT ![t] = @ + 1]
  /\ outside' = IF request[r].free THEN [outside EXCEPT ![t] = @ + 1] ELSE outside
  /\ Go(r, "leaving")
  /\ UNCHANGED <<ceiling, minted, inflight, panel, edits>>

\* The deferred release, of a slot that was taken.
Leave(r) ==
  /\ request[r].pc = "leaving"
  /\ inflight' = IF request[r].cap > 0 THEN [inflight EXCEPT ![request[r].of] = @ - 1] ELSE inflight
  /\ Become(r, Idle)
  /\ UNCHANGED <<stores, panel, edits>>

-----------------------------------------------------------------------------
(* The token panel.                                                        *)

Edit == edits < MaxEdits /\ edits' = edits + 1

\* handleCreateToken: a token that is registered is refused; one that was
\* deleted finds its usage again.
handleCreateToken(t, c) ==
  /\ Edit
  /\ ~Registered(t)
  /\ ceiling' = [ceiling EXCEPT ![t] = c]
  /\ minted' = minted \cup {t}
  /\ UNCHANGED <<used, outside, inflight, request, panel>>

handlePatchToken(t, c) ==
  /\ Edit
  /\ Registered(t) /\ ceiling[t] # c
  /\ ceiling' = [ceiling EXCEPT ![t] = c]
  /\ UNCHANGED <<used, outside, minted, inflight, request, panel>>

handleDeleteToken(t) ==
  /\ Edit
  /\ Registered(t)
  /\ ceiling' = [ceiling EXCEPT ![t] = Gone]
  /\ UNCHANGED <<used, outside, minted, inflight, request, panel>>

\* handleResetToken: the store first, under a token nobody has seen; then the
\* usage (RenameClient), which may fail and leave an orphan.
handleResetToken(t, new) ==
  /\ Edit
  /\ panel.pc = "idle"
  /\ Registered(t) /\ new \notin minted
  /\ ceiling' = [ceiling EXCEPT ![new] = ceiling[t], ![t] = Gone]
  /\ minted' = minted \cup {new}
  /\ panel' = [pc |-> "rename", from |-> t, to |-> new]
  /\ UNCHANGED <<used, outside, inflight, request>>

\* RenameClient and MergeClient: what one token spent becomes the other's.
MoveUsage ==
  LET n == used[panel.from] IN
  /\ used' = [used EXCEPT ![panel.from] = 0, ![panel.to] = @ + n]
  /\ outside' = [outside EXCEPT ![panel.from] = 0, ![panel.to] = @ + n]

EndPanel ==
  /\ panel' = NoPanel
  /\ UNCHANGED <<ceiling, minted, inflight, request, edits>>

RenameClient == panel.pc = "rename" /\ MoveUsage /\ EndPanel
RenameFails == panel.pc = "rename" /\ UNCHANGED <<used, outside>> /\ EndPanel

\* handleInheritToken: the destination is looked up, then the source, which
\* must be an orphan; then they are merged.
handleInheritToken(dst, src) ==
  /\ panel.pc = "idle" /\ src # dst
  /\ Registered(dst) /\ used[src] > 0
  /\ Edit
  /\ panel' = [pc |-> "inherit", from |-> src, to |-> dst]
  /\ UNCHANGED <<stores, inflight, request>>

SourceRegistered == panel.pc = "inherit" /\ Registered(panel.from) /\ UNCHANGED <<used, outside>> /\ EndPanel

SourceOrphan ==
  /\ panel.pc = "inherit" /\ ~Registered(panel.from)
  /\ panel' = [panel EXCEPT !.pc = "merge"]
  /\ UNCHANGED <<stores, inflight, request, edits>>

MergeClient == panel.pc = "merge" /\ MoveUsage /\ EndPanel

Next ==
  \/ \E r \in Requests :
       \/ \E p \in Providers, t \in Tokens : clientAuth(r, p, t)
       \/ WithinBudget(r) \/ OverBudget(r) \/ RateLimited(r) \/ Uncounted(r) \/ Counted(r)
       \/ Unanswered(r) \/ RecordClient(r) \/ Leave(r)
  \/ \E t \in Tokens :
       \/ \E c \in Ceilings : handleCreateToken(t, c) \/ handlePatchToken(t, c)
       \/ handleDeleteToken(t)
       \/ \E u \in Tokens : handleResetToken(t, u) \/ handleInheritToken(t, u)
  \/ RenameClient \/ RenameFails \/ SourceRegistered \/ SourceOrphan \/ MergeClient

Spec == Init /\ [][Next]_vars

-----------------------------------------------------------------------------
TypeOK ==
  /\ ceiling \in [Tokens -> Ceilings \cup {Gone}] /\ minted \subseteq Tokens
  /\ used \in [Tokens -> Nat] /\ outside \in [Tokens -> Nat]
  /\ inflight \in [Providers \X Tokens -> 0..Cardinality(Requests)]
  /\ \A r \in Requests : request[r].pc \in {"idle", "known", "funded", "serving", "leaving"}
  /\ panel.pc \in {"idle", "rename", "inherit", "merge"}

\* The weekly budget is read before a request is served and recorded after, so
\* requests in flight together overshoot it; but by no more than themselves,
\* whatever is deleted, registered again, reset or merged meanwhile.
BudgetHeld == \A t \in Tokens : used[t] - outside[t] < Weekly + Cardinality(Requests)

\* The requests of one token at one provider that were counted and are served
\* at the same time are never more than a ceiling one of them was given: an
\* edit of the ceiling or a reset cannot add to them, nor can the other provider.
CeilingHeld ==
  \A k \in Providers \X Tokens :
    LET S == {r \in Requests : request[r].pc = "serving" /\ request[r].cap > 0 /\ request[r].of = k}
    IN S # {} => \E r \in S : Cardinality(S) <= request[r].cap

\* Every slot is given back, on every way out of the gate, to the token and
\* provider it was taken from.
SlotsReturned ==
  \A k \in Providers \X Tokens :
    inflight[k] = Cardinality({r \in Requests : request[r].cap > 0 /\ request[r].of = k})

ClientKeysHold == TypeOK /\ BudgetHeld /\ CeilingHeld /\ SlotsReturned
=============================================================================
