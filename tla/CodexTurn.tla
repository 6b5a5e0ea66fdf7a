----------------------------- MODULE CodexTurn ------------------------------
(***************************************************************************)
(* One Codex request at a time on its way through the credentials: the loop*)
(* of forwardWithFailover with its no-bytes watchdog, and the three        *)
(* forwarders behind it, doForwardCodexOAuth, doForwardCodex (API keys) and*)
(* doForwardCodexImages.  An OAuth turn of kind "native" goes out on a     *)
(* pooled WebSocket when it may (codexWSEgress); sockets outlive the turn. *)
(* What the relays hold back of an answer is CodexRelay's; here a relay has*)
(* sent headers or not, and content or not.                                *)
(***************************************************************************)
EXTENDS Naturals, Sequences, FiniteSets

CONSTANTS OAuth, Keys,   \* the credentials of the pool
          MaxOAuth,      \* maxOAuthAttempts
          MaxTurns       \* bound: requests served one after the other

VARIABLES
  turn,     \* the request being served
  turns,    \* requests begun
  client, ctx,  \* is the client there, and is the request's context live
  dog, late,    \* the watchdog, and whether failoverDeadline has passed
  sock,     \* per OAuth credential, its pooled socket
  unread,   \* pooled sockets that still hold frames of an abandoned turn
  cool,     \* credentials pinned to HTTP
  resting   \* credentials cooling down or failed

vars == <<turn, turns, client, ctx, dog, late, sock, unread, cool, resting>>

Creds == OAuth \cup Keys
Kinds == {"native", "chat", "plain", "compact", "image"}
NoCred == "none"
TurnAssumption == IsFiniteSet(OAuth) /\ OAuth \cap Keys = {} /\ NoCred \notin Creds
codexSameCredShedRetries == 2

Fresh(k) ==
  [kind |-> k, pc |-> "acquire", cred |-> NoCred, via |-> "http", reused |-> FALSE,
   tried |-> {}, staleRetried |-> {}, shedRetried |-> [o \in OAuth |-> 0], oauth |-> 0,
   sends |-> [c \in Creds |-> 0], header |-> FALSE, wrote |-> FALSE,
   deferred |-> FALSE, rows |-> << >>, charged |-> 0]

Init ==
  /\ turn \in {Fresh(k) : k \in Kinds} /\ turns = 1
  /\ client = "there" /\ ctx = "live"
  /\ dog = "armed" /\ late = FALSE
  /\ sock = [o \in OAuth |-> "none"] /\ unread = {} /\ cool = {} /\ resting = {}

At(pc) == turn.pc = pc
OnOAuth == turn.cred \in OAuth
cancelled == ctx = "cancelled"

\* How a step leaves the turn: with a log row and an end, or for another try.
Logged(t, status) == [t EXCEPT !.pc = "done", !.rows = Append(@, status)]
Retry(t) == [t EXCEPT !.pc = "acquire"]
\* The tail of every forwarder: what reported usage is charged, once, and logged.
Served(t, usage, status) ==
  Logged([t EXCEPT !.header = TRUE, !.wrote = TRUE, !.charged = @ + (IF usage THEN 1 ELSE 0)], status)

Pool == <<sock, unread, cool>>
World == <<turns, client, ctx, dog, late>>

\* A WebSocket body's Close: the socket goes back to the pool only if the turn's
\* terminal event was read, and such a turn also ends the HTTP cooldown.
Keep(whole) == whole
Close(whole) ==
  IF turn.via # "ws" THEN UNCHANGED Pool
  ELSE /\ sock' = [sock EXCEPT ![turn.cred] = IF Keep(whole) THEN "idle" ELSE "none"]
       /\ unread' = IF Keep(whole) /\ ~whole THEN unread \cup {turn.cred} ELSE unread
       /\ cool' = IF Keep(whole) THEN cool \ {turn.cred} ELSE cool

-----------------------------------------------------------------------------
(* The loop.                                                               *)

Available ==
  {c \in Creds \ (turn.tried \cup resting) : c \in OAuth => turn.oauth < MaxOAuth}

GivesUp == late /\ \E c \in Creds : turn.sends[c] > 0

eligible(c) == turn.kind = "native" /\ c \in OAuth /\ c \notin cool

Attempt(c, pc) ==
  [turn EXCEPT !.pc = pc, !.cred = c, !.via = "http", !.reused = FALSE,
               !.tried = @ \cup {c}, !.sends[c] = @ + 1,
               !.oauth = @ + (IF c \in OAuth THEN 1 ELSE 0)]

MayTry(c) == At("acquire") /\ ~GivesUp /\ c \in Available

\* A key serves no images; an OAuth turn that may not use a WebSocket, or whose
\* dial fails, goes out over HTTP.
SendHTTP(c) ==
  /\ MayTry(c) /\ ~eligible(c)
  /\ turn' = Attempt(c, IF c \in Keys /\ turn.kind = "image" THEN "acquire" ELSE "sent")
  /\ UNCHANGED <<World, Pool, resting>>

DialFails(c) ==
  /\ MayTry(c) /\ eligible(c)
  /\ turn' = Attempt(c, "sent")
  /\ cool' = cool \cup {c}
  /\ sock' = [sock EXCEPT ![c] = "none"] /\ unread' = unread \ {c}
  /\ UNCHANGED <<World, resting>>

SendWS(c) ==
  /\ MayTry(c) /\ eligible(c)
  /\ turn' = [Attempt(c, "answer") EXCEPT !.via = "ws", !.reused = sock[c] # "none"]
  /\ sock' = [sock EXCEPT ![c] = IF sock[c] = "stale" THEN "dead" ELSE "leased"]
  /\ UNCHANGED <<World, unread, cool, resting>>

\* No credential is left, or the deadline for another attempt has passed: the
\* last withheld error is surfaced, or a 503.
Exhausted ==
  /\ At("acquire")
  /\ GivesUp \/ Available = {}
  /\ turn' = Logged(turn, IF turn.deferred THEN "upstream" ELSE "503")
  /\ UNCHANGED <<World, Pool, resting>>

\* The pause before a shed turn is sent to the same credential again.  A context
\* cancelled meanwhile ends the request then and there.
Resume ==
  /\ At("paused")
  /\ turn' = IF cancelled THEN [turn EXCEPT !.pc = "done"] ELSE Retry(turn)
  /\ UNCHANGED <<World, Pool, resting>>

-----------------------------------------------------------------------------
(* The response's status.                                                  *)

\* The transport gave up on a subscription's send.  An image whose headers are
\* out cannot be sent again.
Committed == turn.kind = "image" /\ turn.header

TransportFails ==
  /\ At("sent") /\ OnOAuth
  /\ IF cancelled THEN turn' = Logged(turn, "499") /\ UNCHANGED resting
     ELSE IF Committed THEN turn' = Logged(turn, "502") /\ UNCHANGED resting
     ELSE /\ turn' = Retry(turn)
          /\ resting' \in {resting, resting \cup {turn.cred}}
  /\ UNCHANGED <<World, Pool>>

\* ... or on a key's.  Faults add up until the breaker pauses the key.
KeyUnreachable ==
  /\ At("sent") /\ ~OnOAuth
  /\ IF cancelled THEN turn' = Logged(turn, "499") /\ UNCHANGED resting
     ELSE /\ turn' = Retry(turn)
          /\ resting' \in {resting, resting \cup {turn.cred}}
  /\ UNCHANGED <<World, Pool>>

\* A status that speaks of the credential: withheld, and another one is asked.
\* A re-minted token, or a model or route it does not serve, leaves it healthy.
Refused ==
  /\ At("sent") /\ OnOAuth
  /\ turn' = IF Committed THEN Logged(turn, "upstream") ELSE Retry(turn)
  /\ resting' \in {resting, resting \cup {turn.cred}}
  /\ UNCHANGED <<World, Pool>>

\* A key's refusal is kept, to be surfaced if nobody else serves the turn.
KeyRefuses ==
  /\ At("sent") /\ ~OnOAuth
  /\ turn' = [Retry(turn) EXCEPT !.deferred = TRUE]
  /\ resting' \in {resting, resting \cup {turn.cred}}
  /\ UNCHANGED <<World, Pool>>

\* A status that speaks of the request.
Rejected ==
  /\ At("sent")
  /\ turn' = Logged(turn, "upstream")
  /\ UNCHANGED <<World, Pool, resting>>

Accepted ==
  /\ At("sent") /\ turn.kind # "image"
  /\ turn' = [turn EXCEPT !.pc = "answer"]
  /\ UNCHANGED <<World, Pool, resting>>

\* Images: after CommitAfter the headers go out; the answer is one body.
ImageCommits ==
  /\ At("sent") /\ turn.kind = "image" /\ ~turn.header
  /\ turn' = [turn EXCEPT !.header = TRUE]
  /\ UNCHANGED <<World, Pool, resting>>

ImageAnswers(usage) ==
  /\ At("sent") /\ turn.kind = "image"
  /\ turn' = Served(turn, usage, "200")
  /\ UNCHANGED <<World, Pool, resting>>

ImageUnreadable ==
  /\ At("sent") /\ turn.kind = "image"
  /\ turn' = IF cancelled THEN Logged(turn, "499")
             ELSE IF turn.header THEN Logged(turn, "502") ELSE Retry(turn)
  /\ UNCHANGED <<World, Pool, resting>>

-----------------------------------------------------------------------------
(* A streamed answer.                                                      *)

Streaming == At("answer") /\ turn.kind \in {"native", "chat"}
Readable == turn.via = "ws" => sock[turn.cred] = "leased"

\* A native stream that has nothing to show yet keeps the connection alive: the
\* headers go out and with them the mark the watchdog looks at.
Keepalive ==
  /\ Streaming /\ turn.kind = "native" /\ ~turn.header
  /\ turn' = [turn EXCEPT !.header = TRUE]
  /\ UNCHANGED <<World, Pool, resting>>

Output ==
  /\ Streaming /\ Readable /\ ~turn.wrote
  /\ turn' = [turn EXCEPT !.header = TRUE, !.wrote = TRUE]
  /\ UNCHANGED <<World, Pool, resting>>

\* The terminal event: the turn is over, whole or failed.
Completes(usage, failed) ==
  /\ Streaming /\ Readable /\ OnOAuth
  /\ turn' = Served(turn, usage, IF failed THEN "502" ELSE "200")
  /\ Close(TRUE)
  /\ UNCHANGED <<World, resting>>

\* A key's stream, ended by its terminal event or broken off after output: the
\* usage it reported is charged.
KeyServes(usage, whole) ==
  /\ Streaming /\ ~OnOAuth
  /\ whole \/ turn.wrote
  /\ turn' = Served(turn, usage, IF cancelled /\ ~whole THEN "499" ELSE "200")
  /\ UNCHANGED <<World, Pool, resting>>

\* Refused inside the stream before any output, by an event or by parking the
\* turn.  A capacity refusal is tried again on the credential that has the
\* conversation cached, up to codexSameCredShedRetries times.
ShedPauses == turn.shedRetried[turn.cred] < codexSameCredShedRetries

Sheds(capacity, whole) ==
  /\ Streaming /\ Readable /\ ~turn.wrote /\ OnOAuth
  /\ LET c == turn.cred IN
       turn' = IF cancelled /\ ~whole THEN Logged(turn, "499")
               ELSE IF capacity /\ ShedPauses
                 THEN [turn EXCEPT !.pc = "paused", !.tried = @ \ {c}, !.shedRetried[c] = @ + 1]
                 ELSE Retry(turn)
  /\ Close(whole)
  /\ UNCHANGED <<World, resting>>

KeySheds(whole) ==
  /\ Streaming /\ ~turn.wrote /\ ~OnOAuth
  /\ turn' = IF cancelled /\ turn.kind = "native" /\ ~whole THEN Logged(turn, "499") ELSE Retry(turn)
  /\ UNCHANGED <<World, Pool, resting>>

\* Mutant: the broken stream is replayed though the client has part of it.
RetriedWhenBroken == turn.reused \/ ~turn.wrote
\* The stream stops without a terminal event.  Before output it is retried, on
\* a socket found dead in the pool with the same credential; a cancelled context
\* is taken for a client that left.
RetriedBroken == ~turn.wrote

Breaks ==
  /\ Streaming
  /\ LET c == turn.cred IN
       turn' = IF RetriedBroken /\ ~cancelled
                 THEN IF turn.via = "ws" /\ turn.reused /\ c \notin turn.staleRetried
                        THEN [Retry(turn) EXCEPT !.tried = @ \ {c}, !.staleRetried = @ \cup {c}]
                        ELSE Retry(turn)
                 ELSE Logged(turn, IF cancelled THEN "499" ELSE "200")
  /\ Close(FALSE)
  /\ UNCHANGED <<World, resting>>

-----------------------------------------------------------------------------
(* An answer assembled first and sent second.                              *)

Assembling == At("answer") /\ turn.kind \in {"plain", "compact"}

\* Image generation inside a non-streaming turn sends the headers early.
Generates ==
  /\ Assembling /\ turn.kind = "plain" /\ OnOAuth /\ ~turn.header
  /\ turn' = [turn EXCEPT !.header = TRUE]
  /\ UNCHANGED <<World, Pool, resting>>

Delivers(usage) ==
  /\ Assembling
  /\ turn' = Served(turn, usage, "200")
  /\ UNCHANGED <<World, Pool, resting>>

\* Refused inside the answer.
PlainSheds ==
  /\ Assembling /\ ~(OnOAuth /\ turn.kind = "compact")
  /\ turn' = IF turn.header THEN Logged(turn, "502") ELSE Retry(turn)
  /\ UNCHANGED <<World, Pool, resting>>

\* The answer cannot be read: whether there is a row depends on who reads it.
Unreadable(bridged) ==
  /\ Assembling
  /\ turn' = IF OnOAuth /\ turn.kind = "compact" THEN Logged(turn, "502")
             ELSE IF cancelled
               THEN IF OnOAuth \/ bridged THEN Logged(turn, "499") ELSE [turn EXCEPT !.pc = "done"]
             ELSE IF ~OnOAuth THEN Retry(turn)
             ELSE IF turn.header THEN Logged(turn, "502")
             \* logged as if it were over, and retried
             ELSE Retry(Logged(turn, "502"))
  /\ UNCHANGED <<World, Pool, resting>>

\* A response.failed, or an answer the chat bridge cannot render.
Unusable ==
  /\ Assembling /\ turn.kind = "plain"
  /\ turn' = IF OnOAuth THEN Logged(turn, "502") ELSE Retry(turn)
  /\ UNCHANGED <<World, Pool, resting>>

-----------------------------------------------------------------------------
(* The client, the clocks and the pool's sockets.                          *)

Leave ==
  /\ ~At("done") /\ client = "there"
  /\ client' = "gone" /\ ctx' = "cancelled"
  /\ UNCHANGED <<turn, turns, dog, late, Pool, resting>>

Deadline ==
  /\ ~At("done") /\ ~late
  /\ late' = TRUE
  /\ UNCHANGED <<turn, turns, client, ctx, dog, Pool, resting>>

Watched == turn.kind # "compact" /\ ~At("done") /\ ctx = "live"

\* Mutant: the watchdog reads the mark the wrong way round.
FiresInverted ==
  /\ Watched /\ late /\ dog = "armed"
  /\ dog' = IF turn.header THEN "loaded" ELSE "spared"
  /\ UNCHANGED <<turn, turns, client, ctx, late, Pool, resting>>

\* The watchdog looks at the mark, and cancels in a step of its own.
Fires ==
  /\ Watched /\ late /\ dog = "armed"
  /\ dog' = IF turn.header THEN "spared" ELSE "loaded"
  /\ UNCHANGED <<turn, turns, client, ctx, late, Pool, resting>>

Cuts ==
  /\ Watched /\ dog = "loaded"
  /\ ctx' = "cancelled" /\ dog' = "cut"
  /\ UNCHANGED <<turn, turns, client, late, Pool, resting>>

\* The backend closes a socket that sits in the pool.
Idles(o) ==
  /\ sock[o] = "idle"
  /\ sock' = [sock EXCEPT ![o] = "stale"]
  /\ UNCHANGED <<turn, World, unread, cool, resting>>

\* inCooldown: the time a credential is pinned to HTTP is over.
CooldownEnds(o) ==
  /\ o \in cool
  /\ cool' = cool \ {o}
  /\ UNCHANGED <<turn, World, sock, unread, resting>>

NextTurn(k) ==
  /\ At("done") /\ turns < MaxTurns
  /\ turn' = Fresh(k) /\ turns' = turns + 1
  /\ client' = "there" /\ ctx' = "live" /\ dog' = "armed" /\ late' = FALSE
  /\ resting' = {}
  /\ UNCHANGED Pool

Ending ==
  \/ Exhausted \/ Resume \/ TransportFails \/ KeyUnreachable \/ Breaks \/ ImageUnreadable
  \/ \E b \in BOOLEAN : Unreadable(b)

Next ==
  \/ Ending
  \/ \E c \in Creds : SendHTTP(c) \/ DialFails(c) \/ SendWS(c)
  \/ Refused \/ KeyRefuses \/ Rejected \/ Accepted
  \/ ImageCommits \/ Keepalive \/ Output \/ Generates
  \/ PlainSheds \/ Unusable
  \/ \E u, b \in BOOLEAN : Completes(u, b) \/ Sheds(u, b) \/ KeyServes(u, b)
  \/ \E b \in BOOLEAN : Delivers(b) \/ ImageAnswers(b) \/ KeySheds(b)
  \/ Leave \/ Deadline \/ Fires \/ Cuts
  \/ \E o \in OAuth : Idles(o) \/ CooldownEnds(o)
  \/ \E k \in Kinds : NextTurn(k)

\* A cancelled context fails whatever is under way; timers fire, and the loop
\* goes on by itself.  Nothing makes the upstream answer.
Abandons == cancelled /\ Ending
GoesOn == Exhausted \/ Resume \/ \E c \in Creds : SendHTTP(c) \/ DialFails(c) \/ SendWS(c)
Fairness == WF_vars(Abandons) /\ WF_vars(GoesOn) /\ WF_vars(Fires) /\ WF_vars(Cuts)

Spec == Init /\ [][Next]_vars /\ Fairness

-----------------------------------------------------------------------------
TypeOK ==
  /\ turn.kind \in Kinds /\ turn.pc \in {"acquire", "sent", "answer", "paused", "done"}
  /\ turn.tried \subseteq Creds /\ Len(turn.rows) <= Cardinality(OAuth) + 1
  /\ dog \in {"armed", "loaded", "spared", "cut"}
  /\ sock \in [OAuth -> {"none", "idle", "stale", "leased", "dead"}]
  /\ unread \subseteq OAuth /\ cool \subseteq OAuth /\ resting \subseteq Creds

\* While another credential may still be asked the client has seen no content:
\* it never gets parts of two answers.
RetryIsSilent == turn.pc \in {"acquire", "sent", "paused"} => ~turn.wrote

\* A turn is charged at most once, however many credentials worked on it, and
\* only when its last attempt delivered an answer.
ChargedOnce == turn.charged <= 1 /\ (turn.charged = 1 => At("done") /\ turn.wrote)

\* A socket is out of the pool exactly while the turn that leased it is read.
LeasesEnd == \A o \in OAuth :
  sock[o] \in {"leased", "dead"} <=> At("answer") /\ turn.via = "ws" /\ turn.cred = o

\* No turn is handed a socket on which frames of another are still queued.
NoForeignFrames == unread = {}

\* One credential is asked at most once per turn, plus once after a stale socket
\* and twice after a capacity refusal.
SendsBounded == \A c \in Creds :
  turn.sends[c] <= 1 + (IF c \in OAuth THEN 1 + codexSameCredShedRetries ELSE 0)

\* A turn whose client stayed is logged, and unless its answers failed to
\* assemble it is logged once.
RowsAccounted ==
  At("done") =>
    /\ ~cancelled => turn.rows # << >>
    /\ turn.kind # "plain" => Len(turn.rows) <= 1

TurnHolds ==
  TypeOK /\ RetryIsSilent /\ ChargedOnce /\ LeasesEnd /\ NoForeignFrames
    /\ SendsBounded /\ RowsAccounted

\* forwardWithFailover: a request that has not even sent headers when the
\* deadline passes comes to an end, whatever the upstream does.
SilentTurnsEnd == (late /\ turn.kind # "compact") ~> (At("done") \/ turn.header)
=============================================================================
