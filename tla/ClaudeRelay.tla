---------------------------- MODULE ClaudeRelay ----------------------------
(***************************************************************************)
(* One Claude turn: it is sent on one credential after another until one   *)
(* of them answers, a request rejected for its thinking signatures is      *)
(* replayed sanitized, the answer's usage is gathered event by event, and  *)
(* the turn and the advisor sub-call within it are billed.                 *)
(***************************************************************************)
EXTENDS Naturals, Sequences, FiniteSets, Functions

CONSTANTS
  Creds, Kind,       \* credentials; "oauth" or "key"
  MaxTokens,         \* bound: tokens of each sort in one turn
  MaxTurns           \* bound: turns of the conversation

ClaudeAssumption == MaxTokens \in Nat

VARIABLES
  turn,              \* number of the turn
  stage,
  cred, tried,       \* the credential in use, and those of the turn
  signed,            \* the messages hold signed thinking of another account
  sent,              \* the request on the wire holds it
  strip,             \* credentials flagged to sanitize ahead of the forward
  truth,             \* [in, out, adv] upstream has accounted for so far
  counts,            \* [in, out, adv, seen] gathered from its events
  shown,             \* whose bytes the client has: credentials, or "error"
  over,              \* how the answer ended
  bills,             \* history: [turn, slot, tokens] of every wallet debit
  dropped,           \* history: <<turn, slot>> of every charge that failed
  weekly             \* tokens' worth on the client's weekly ledger

vars == <<turn, stage, cred, tried, signed, sent, strip, truth, counts, shown, over, bills, dropped, weekly>>
money == <<bills, dropped, weekly>>
answer == <<truth, counts, shown, over>>

Nil == [in |-> 0, out |-> 0, adv |-> 0]
Unseen == [in |-> 0, out |-> 0, adv |-> 0, seen |-> FALSE]

Init ==
  /\ turn = 1 /\ stage = "ready" /\ cred = "none" /\ tried = {}
  /\ signed \in BOOLEAN /\ sent = FALSE /\ strip = {}
  /\ truth = Nil /\ counts = Unseen /\ shown = {} /\ over = "no"
  /\ bills = << >> /\ dropped = {} /\ weekly = 0

-----------------------------------------------------------------------------
(* One credential.                                                         *)

\* The signatures are sanitized on a flagged credential, and when the switch
\* tracker, which forgets, knows the conversation from another account.
Begin(c) ==
  /\ stage = "ready" /\ c \notin tried
  /\ cred' = c /\ tried' = tried \cup {c}
  /\ \E switched \in BOOLEAN : sent' = (signed /\ c \notin strip /\ ~switched)
  /\ stage' = "sent"
  /\ truth' = Nil /\ counts' = Unseen /\ over' = "no" /\ shown' = shown
  /\ UNCHANGED <<turn, signed, strip, money>>

\* Credential-level refusals, broken connections and, of an API key, gateway
\* errors and answers in another format are withheld: another credential may.
Withhold ==
  /\ stage \in {"sent", "rejected"}
  /\ stage' = "ready"
  /\ UNCHANGED <<turn, cred, tried, signed, sent, strip, answer, money>>

\* Faults of the request and, of a subscription, upstream's own are passed on;
\* a client that has gone gets nothing.
PassOn ==
  /\ stage \in {"sent", "rejected"}
  /\ stage' = "done"
  /\ shown' \in {shown, shown \cup {"error"}}
  /\ UNCHANGED <<turn, cred, tried, signed, sent, strip, truth, counts, over, money>>

\* No credential is left: the last withheld error is replayed.
Exhausted ==
  /\ stage = "ready" /\ tried = Creds
  /\ stage' = "done"
  /\ shown' = shown \cup {"error"}
  /\ UNCHANGED <<turn, cred, tried, signed, sent, strip, truth, counts, over, money>>

\* "Invalid signature in thinking block".
RejectSignature ==
  /\ stage = "sent" /\ sent
  /\ stage' = "rejected"
  /\ UNCHANGED <<turn, cred, tried, signed, sent, strip, answer, money>>

\* One replay on the same credential, sanitized; when it succeeds the flag is
\* set, and when it does not the first error stands.
Recover ==
  /\ stage = "rejected" /\ sent
  /\ sent' = FALSE
  /\ \/ stage' = "answered" /\ strip' = strip \cup {cred}
     \/ stage' = "rejected" /\ strip' = strip
  /\ UNCHANGED <<turn, cred, tried, signed, answer, money>>

Answer ==
  /\ stage = "sent"
  /\ stage' = "answered"
  /\ UNCHANGED <<turn, cred, tried, signed, sent, strip, answer, money>>

-----------------------------------------------------------------------------
(* The answer.                                                             *)

\* mergeSSEUsage: a positive field overwrites, and usage once seen stays seen.
Merged(c, u) ==
  [in |-> IF u.in > 0 THEN u.in ELSE c.in,
   out |-> IF u.out > 0 THEN u.out ELSE c.out,
   adv |-> IF u.adv > 0 THEN u.adv ELSE c.adv,
   seen |-> c.seen \/ u.in + u.out > 0]

\* Headers of an API key's answer go out before its stream, a subscription's
\* with the first byte.
Stream ==
  /\ stage = "answered"
  /\ stage' = "streaming"
  /\ shown' = IF Kind[cred] = "key" THEN shown \cup {cred} ELSE shown
  /\ UNCHANGED <<turn, cred, tried, signed, sent, strip, truth, counts, over, money>>

\* A message_start or message_delta: cumulative usage, from which an event may
\* leave out the input and, but for a delta that ends a sub-call, the advisor.
UsageEvent ==
  /\ stage = "streaming"
  /\ \E i \in truth.in..MaxTokens, o \in truth.out..MaxTokens, a \in truth.adv..MaxTokens :
       /\ a > truth.adv => o > truth.out
       /\ truth' = [in |-> i, out |-> o, adv |-> a]
       /\ \E in \in {i} \cup (IF i = truth.in THEN {0} ELSE {}),
             adv \in {a} \cup (IF a = truth.adv THEN {0} ELSE {}) :
            counts' = Merged(counts, [in |-> in, out |-> o, adv |-> adv])
  /\ shown' = shown \cup {cred}
  /\ UNCHANGED <<turn, stage, cred, tried, signed, sent, strip, over, money>>

\* Any other event, or the ping of the keepalive.
OtherEvent ==
  /\ stage = "streaming"
  /\ shown' = shown \cup {cred}
  /\ UNCHANGED <<turn, stage, cred, tried, signed, sent, strip, truth, counts, over, money>>

\* message_stop, or an error event.
Stop ==
  /\ stage = "streaming"
  /\ stage' = "settle" /\ over' = "whole"
  /\ shown' = shown \cup {cred}
  /\ UNCHANGED <<turn, cred, tried, signed, sent, strip, truth, counts, money>>

\* The stream breaks: before any output the client is gone or another
\* credential may serve; afterwards what was seen is settled.
Break ==
  /\ stage = "streaming"
  /\ over' = "truncated"
  /\ stage' \in IF shown = {} THEN {"ready", "done"} ELSE {"settle"}
  /\ UNCHANGED <<turn, cred, tried, signed, sent, strip, truth, counts, shown, money>>

\* An answer in one piece; a body cut short reports nothing.
Whole ==
  /\ stage = "answered"
  /\ stage' = "settle"
  /\ shown' = shown \cup {cred}
  /\ \E i \in 0..MaxTokens, a \in 0..MaxTokens :
       /\ truth' = [in |-> i, out |-> i, adv |-> IF i = 0 THEN 0 ELSE a]
       /\ \/ counts' = Merged(Unseen, truth') /\ over' = "whole"
          \/ counts' = Unseen /\ over' = "truncated"
  /\ UNCHANGED <<turn, cred, tried, signed, sent, strip, money>>

-----------------------------------------------------------------------------
(* Billing.                                                                *)

Charge(slot, tokens) ==
  \/ bills' = Append(bills, [turn |-> turn, slot |-> slot, tokens |-> tokens]) /\ dropped' = dropped
  \/ dropped' = dropped \cup {<<turn, slot>>} /\ bills' = bills

Billed(slot) == \E b \in Range(bills) : b.turn = turn /\ b.slot = slot

\* A turn that reported no usage is served, and logged, for nothing.
BillTurn ==
  /\ stage = "settle"
  /\ stage' = "advisor"
  /\ IF counts.seen THEN Charge("main", counts.in + counts.out) ELSE UNCHANGED <<bills, dropped>>
  /\ UNCHANGED <<turn, cred, tried, signed, sent, strip, answer, weekly>>

\* recordSubUsage under a slot of its own, whether or not the turn's charge
\* held, and RecordClient of what both were billed.
BillAdvisor ==
  /\ stage = "advisor"
  /\ stage' = "done"
  /\ IF counts.adv > 0 THEN Charge("advisor", counts.adv) ELSE UNCHANGED <<bills, dropped>>
  /\ weekly' = IF ~counts.seen THEN weekly
               ELSE weekly + (IF Billed("main") THEN counts.in + counts.out ELSE 0)
                           + (IF bills' # bills THEN counts.adv ELSE 0)
  /\ UNCHANGED <<turn, cred, tried, signed, sent, strip, answer>>

\* The conversation goes on, with whatever thinking the answer left in it.
NextTurn ==
  /\ stage = "done" /\ turn < MaxTurns
  /\ turn' = turn + 1 /\ stage' = "ready" /\ cred' = "none" /\ tried' = {}
  /\ signed' \in BOOLEAN /\ sent' = FALSE
  /\ truth' = Nil /\ counts' = Unseen /\ shown' = {} /\ over' = "no"
  /\ UNCHANGED <<strip, money>>

Next ==
  \/ \E c \in Creds : Begin(c)
  \/ Withhold \/ PassOn \/ Exhausted \/ RejectSignature \/ Recover \/ Answer
  \/ Stream \/ UsageEvent \/ OtherEvent \/ Stop \/ Break \/ Whole
  \/ BillTurn \/ BillAdvisor \/ NextTurn

Spec == Init /\ [][Next]_vars

-----------------------------------------------------------------------------
TypeOK ==
  /\ tried \subseteq Creds /\ strip \subseteq Creds /\ signed \in BOOLEAN /\ sent \in BOOLEAN
  /\ stage \in {"ready", "sent", "rejected", "answered", "streaming", "settle", "advisor", "done"}
  /\ counts.in \in 0..MaxTokens /\ counts.out \in 0..MaxTokens
  /\ shown \subseteq Creds \cup {"error"}

\* Whatever is withheld and retried, the client gets the bytes of one
\* credential, or one error.
OneAnswer == Cardinality(shown) <= 1

\* What the events add up to is what upstream has accounted for, however they
\* repeat or leave out the fields they report.
UsageIsUpstreams ==
  stage \in {"streaming", "settle", "advisor"} /\ ~(over = "truncated" /\ ~counts.seen) =>
    counts.in = truth.in /\ counts.out = truth.out /\ counts.adv = truth.adv

\* A turn is billed once, for the answer the client has; a failed attempt
\* leaves no charge behind.
BilledOnce ==
  /\ \A i, j \in 1..Len(bills) : i # j => bills[i].turn # bills[j].turn \/ bills[i].slot # bills[j].slot
  /\ \A slot \in {"main", "advisor"} : Billed(slot) => shown = {cred} /\ <<turn, slot>> \notin dropped

\* An answer whose usage was seen is billed, or its charge is on the dropped
\* list: a truncated stream is no free turn.
NothingFree ==
  stage = "done" /\ counts.seen /\ shown = {cred} =>
    /\ Billed("main") \/ <<turn, "main">> \in dropped
    /\ counts.adv > 0 => Billed("advisor") \/ <<turn, "advisor">> \in dropped

\* The weekly ledger is what the wallet was debited, sub-calls included.
WeeklyIsWallet ==
  stage \in {"ready", "done"} => weekly = SumFunction([i \in DOMAIN bills |-> bills[i].tokens])

ClaudeHolds == TypeOK /\ OneAnswer /\ UsageIsUpstreams /\ BilledOnce /\ NothingFree /\ WeeklyIsWallet
=============================================================================
