----------------------------- MODULE CodexRelay -----------------------------
(***************************************************************************)
(* One Codex turn's answer on its way from the upstream to the client.     *)
(* Four relays and an aggregation read the same events and differ in what  *)
(* they may hold back: streamSSECodexBackendWithContentStart for OAuth     *)
(* ("native") and API-key ("key") credentials, streamCodexAsChatCompletions*)
(* ("chat"), streamSSEOpenAI ("openai") and aggregateCodexResponseStream   *)
(* ("plain").                                                              *)
(*                                                                         *)
(* The upstream sends events of three lines (event:, data:, blank) and may *)
(* stop after any line.  Until the first byte is out the turn can still be *)
(* served by another credential, so content-free openers are buffered and  *)
(* a refusal is withheld; afterwards everything is passed on.              *)
(***************************************************************************)
EXTENDS Naturals, Sequences, Functions

CONSTANT MaxEvents   \* bound: events of one turn, dropped ones counting half

RelayAssumption == MaxEvents \in Nat

VARIABLES
  style,     \* which relay serves the turn
  late,      \* codexPreOutputWithholdCap has passed
  at, event, \* the line that comes next, and the event it belongs to
  held,      \* an event: line waits for its data: line
  preamble,  \* lines buffered before the first output
  shedding,  \* the rest of the stream is withheld
  shed,      \* why the turn was refused, if it was
  usage,     \* usage was observed
  read, out, \* data and blank lines received, less the data line of an event that
             \* is to be dropped, and those passed on
  terminal,  \* a terminal event was passed on
  over       \* how the relay ended

vars == <<style, late, at, event, held, preamble, shedding, shed, usage, read, out, terminal, over>>

Styles == {"native", "key", "chat", "openai", "plain"}
\* Refusals codexerr.Classify calls retryable, and the ones it calls fatal, of
\* which codexTransientError retries "transient" before output.
Retryable == {"capacity", "quota"}
Fatal == {"transient", "fatal"}
\* An error is an event of type error, or a response.failed, which ends the
\* turn; "bare" is a completion that reports no usage.
Events ==
  [kind : {"opener", "dropped", "content", "completed", "bare"}, failed : {FALSE}]
    \cup [kind : Retryable \cup Fatal, failed : BOOLEAN]

\* codexTerminalEvent.
Ends(e) == e.kind \in {"completed", "bare"} \/ e.failed

\* What the client gets of a data line: the two session-ending capacity codes
\* are demoted to one it retries, a top-level error becomes a response.failed.
Shown(e) == IF e.kind = "capacity" THEN "demoted" ELSE e.kind

NoEvent == [kind |-> "none", failed |-> FALSE]

Init ==
  /\ style \in Styles
  /\ late = FALSE
  /\ at = "event" /\ event = NoEvent
  /\ held = FALSE /\ preamble = << >>
  /\ shedding = FALSE /\ shed = "no" /\ usage = FALSE
  /\ read = << >> /\ out = << >>
  /\ terminal = FALSE /\ over = "open"

sent == out # << >>

Open(styles, line) == over = "open" /\ style \in styles /\ at = line

\* The lines ls go to the client, behind what was buffered for them.
Emit(ls) == out' = out \o preamble \o ls /\ preamble' = << >>
Nothing == UNCHANGED <<out, preamble>>

\* The event: line of the next event; it is held until its data: line is
\* classified.
EventLine(e) ==
  /\ over = "open" /\ at = "event"
  /\ Len(read) < 2 * MaxEvents - 1
  /\ event' = e /\ at' = "data"
  /\ held' = ~shedding
  /\ UNCHANGED <<style, late, preamble, shedding, shed, usage, read, out, terminal, over>>

\* Bookkeeping of every data: line.
Observe ==
  /\ read' = IF event.kind = "dropped" THEN read ELSE Append(read, Shown(event))
  /\ usage' = (usage \/ event.kind = "completed")
  /\ at' = "blank" /\ held' = FALSE
  /\ UNCHANGED <<style, late, event>>

-----------------------------------------------------------------------------
(* The native relay, for both kinds of credential.                         *)

Native == {"native", "key"}

\* A transient error, or for an API key a completion without usage, before any
\* output: the attempt is over at once.
NativeRefused ==
  /\ Open(Native, "data") /\ ~sent
  /\ event.kind = "transient" \/ (style = "key" /\ event.kind = "bare" /\ ~usage)
  /\ Observe
  /\ shed' = event.kind /\ over' = "eof"
  /\ UNCHANGED <<preamble, shedding, out, terminal>>

\* A retryable refusal before any output: from here everything is withheld.
NativeSheds ==
  /\ Open(Native, "data") /\ ~sent
  /\ event.kind \in Retryable
  /\ Observe
  /\ shedding' = TRUE /\ shed' = event.kind
  /\ preamble' = << >>
  /\ UNCHANGED <<out, terminal, over>>

\* Mutant: the withholding cap applies to API keys as well.
BuffersAlike == ~sent /\ ~shedding /\ event.kind = "opener" /\ ~late

\* A content-free opener is buffered: until the cap on an OAuth credential,
\* for as long as the attempt may take on an API key.
Buffers == ~sent /\ ~shedding /\ event.kind = "opener" /\ (style = "key" \/ ~late)

NativeOpens ==
  /\ Open(Native, "data") /\ Buffers
  /\ Observe
  /\ preamble' = Append(preamble, event.kind)
  /\ UNCHANGED <<shedding, shed, out, terminal, over>>

\* An event the scrubber drops takes its event: line with it.
NativeDrops ==
  /\ Open(Native, "data") /\ event.kind = "dropped"
  /\ Observe
  /\ UNCHANGED <<preamble, shedding, shed, out, terminal, over>>

\* A fatal error ends the turn: its SSE event is closed with a blank line and
\* the stream with it.  (A withheld stream loses the error but not that line.)
NativeFatal ==
  /\ Open(Native, "data") /\ event.kind \in Fatal
  /\ event.kind = "transient" => sent
  /\ Observe
  /\ IF shedding THEN Emit(<<"blank">>) /\ UNCHANGED terminal
     ELSE Emit(<<event.kind, "blank">>) /\ terminal' = (terminal \/ event.failed)
  /\ over' = "eof"
  /\ UNCHANGED <<shedding, shed>>

\* Anything else: passed on, unless the stream is being withheld.  A completed
\* API-key turn is over even if its relay keeps the connection open.
NativePasses ==
  /\ Open(Native, "data") /\ event.kind \notin Fatal \cup {"dropped"}
  /\ ~(~sent /\ event.kind \in Retryable) /\ ~Buffers
  /\ ~(~sent /\ style = "key" /\ event.kind = "bare" /\ ~usage)
  /\ Observe
  /\ IF shedding THEN Nothing /\ UNCHANGED <<terminal, over>>
     ELSE /\ Emit(<<Shown(event)>> \o IF Ends(event) /\ style = "key" THEN <<"blank">> ELSE << >>)
          /\ terminal' = (terminal \/ Ends(event))
          /\ over' = IF Ends(event) /\ style = "key" THEN "eof" ELSE over
  /\ UNCHANGED <<shedding, shed>>

\* Before output the blank line that closes an event belongs to the buffer,
\* even when the event itself was dropped.
NativeBlank ==
  /\ Open(Native, "blank")
  /\ at' = "event"
  /\ read' = Append(read, "blank")
  /\ IF shedding THEN Nothing
     ELSE IF ~sent THEN preamble' = Append(preamble, "blank") /\ UNCHANGED out
     ELSE Emit(<<"blank">>)
  /\ UNCHANGED <<style, late, event, held, shedding, shed, usage, terminal, over>>

\* The stream stops.  A parked turn is a refusal if nothing is out yet; what is
\* buffered is dropped, and half an event is passed on only mid-stream.
NativeEnds(how) ==
  /\ over = "open" /\ style \in Native
  /\ LET parked == how = "stalled" /\ ~sent /\ ~shedding IN
       /\ shed' = IF parked THEN "parked" ELSE shed
       /\ shedding' = (shedding \/ parked)
  /\ IF held /\ sent THEN Emit(<<"half">>) ELSE Nothing
  /\ over' = how
  /\ UNCHANGED <<style, late, at, event, held, usage, read, terminal>>

-----------------------------------------------------------------------------
(* The other relays read data: lines only.                                 *)

\* streamCodexAsChatCompletions: openers translate to nothing, content to
\* chunks, an end or a failure to a finish frame and [DONE].
ChatData ==
  /\ Open({"chat"}, "data")
  /\ Observe
  /\ preamble' = preamble
  /\ IF ~sent /\ event.kind = "transient"
     THEN shed' = event.kind /\ over' = "eof" /\ UNCHANGED <<shedding, out, terminal>>
     ELSE /\ over' = over
          /\ shedding' = (shedding \/ (~sent /\ event.kind \in Retryable))
          /\ shed' = IF ~shedding /\ event.kind \in Retryable /\ ~sent THEN event.kind ELSE shed
          /\ IF shedding' \/ event.kind \in {"opener", "dropped"}
             THEN UNCHANGED <<out, terminal>>
             ELSE /\ out' = Append(out, Shown(event))
                  /\ terminal' = (terminal \/ event.kind # "content")

\* streamSSEOpenAI: the headers are out before it starts and every line is
\* passed on, with capacity codes demoted.
OpenAIData ==
  /\ Open({"openai"}, "data")
  /\ Observe
  /\ out' = Append(out, Shown(event))
  /\ terminal' = (terminal \/ Ends(event))
  /\ UNCHANGED <<preamble, shedding, shed, over>>

\* aggregateCodexResponseStream: a refusal of either sort, a failure, or the
\* completion ends it; only a completion has an answer.
PlainData ==
  /\ Open({"plain"}, "data")
  /\ Observe
  /\ shed' = IF event.kind \in Retryable \cup {"transient"} THEN event.kind ELSE shed
  /\ over' = IF event.kind \in Retryable \cup Fatal \/ Ends(event) THEN "eof" ELSE over
  /\ out' = IF event.kind \in {"completed", "bare"} THEN <<event.kind>> ELSE out
  /\ terminal' = (event.kind \in {"completed", "bare"})
  /\ UNCHANGED <<preamble, shedding>>

OtherBlank ==
  /\ Open(Styles \ Native, "blank")
  /\ at' = "event"
  /\ read' = Append(read, "blank")
  /\ out' = IF style = "openai" THEN Append(out, "blank") ELSE out
  /\ UNCHANGED <<style, late, event, held, preamble, shedding, shed, usage, terminal, over>>

OtherEnds(how) ==
  /\ over = "open" /\ style \notin Native
  /\ over' = how
  /\ UNCHANGED <<style, late, at, event, held, preamble, shedding, shed, usage, read, out, terminal>>

\* codexPreOutputWithholdCap goes by.
Late ==
  /\ over = "open" /\ ~late
  /\ late' = TRUE
  /\ UNCHANGED <<style, at, event, held, preamble, shedding, shed, usage, read, out, terminal, over>>

Next ==
  \/ \E e \in Events : EventLine(e)
  \/ NativeRefused \/ NativeSheds \/ NativeOpens \/ NativeDrops \/ NativeFatal \/ NativePasses
  \/ NativeBlank \/ ChatData \/ OpenAIData \/ PlainData \/ OtherBlank \/ Late
  \/ \E how \in {"eof", "stalled", "broken"} : NativeEnds(how) \/ OtherEnds(how)

Spec == Init /\ [][Next]_vars

-----------------------------------------------------------------------------
\* What a client may be sent: an event, a blank line or half an event.
Lines == {Shown(e) : e \in Events} \cup {"blank", "half"}

TypeOK ==
  /\ style \in Styles /\ over \in {"open", "eof", "stalled", "broken"}
  /\ held \in BOOLEAN /\ late \in BOOLEAN /\ shedding \in BOOLEAN /\ terminal \in BOOLEAN
  /\ Len(read) <= 2 * MaxEvents /\ out \in Seq(Lines)

Silent == {"opener", "dropped", "blank"}

\* A turn that has produced nothing but content-free events has sent the client
\* nothing, so it can be served by another credential: unless an OAuth stream
\* has been withheld for as long as the cap allows.
SilenceIsWithheld ==
  style # "openai" /\ ~(style = "native" /\ late) /\ Range(read) \subseteq Silent => ~sent

\* No relay lets a client see a capacity code that ends its session.
NoSessionEnds == "capacity" \notin Range(out)

\* A native stream the client sees is the upstream's, whole and in order, less
\* the dropped events and but for one line at its end: buffering loses and
\* reorders nothing.
NativeInOrder ==
  style \in Native /\ sent /\ shed = "no" =>
    /\ Len(out) - Len(read) \in {0, 1}
    /\ \A i \in DOMAIN read : out[i] = read[i]

\* A refusal is recorded only while nothing is out, and then nothing of the
\* turn follows: at most the blank line of a fatal error after it.
ShedIsSilent ==
  shed # "no" =>
    out = << >> \/ (style \in Native /\ out = <<"blank">> /\ over = "eof")

\* A client gets a terminal event, or the stream's end tells it there is none.
TerminalIsShown ==
  terminal => Range(out) \cap {"completed", "bare", "demoted", "quota", "transient", "fatal"} # {}

RelayHolds ==
  TypeOK /\ SilenceIsWithheld /\ NoSessionEnds /\ NativeInOrder /\ ShedIsSilent /\ TerminalIsShown
=============================================================================
