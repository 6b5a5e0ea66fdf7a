------------------------------- MODULE Fanout -------------------------------
(***************************************************************************)
(* Which scheduler slot, credential and upstream session a turn gets: a    *)
(* trusted relay names the caller behind it, a client its window, and a    *)
(* request that names neither is spread over a few slots by an anchor read *)
(* from its body.                                                          *)
(*                                                                         *)
(* cc-core's pool is modelled by its stickiness: a slot of a token keeps   *)
(* its credential until that fails.  Hashes are constant functions.        *)
(***************************************************************************)
EXTENDS Naturals, FiniteSets

CONSTANTS
  Convs,
  Callers,    \* [token, client, window, key, meta, user, chained]: "" where not sent
  Trusted,    \* trusted relay tokens
  Openings,   \* contents of first user messages
  Creds,
  Buckets,    \* the slots of the fan-out
  Bucket,     \* anchor -> bucket
  MaxSeen,    \* relay callers remembered for the log
  MaxTurns, MaxFailures  \* bounds: turns of a conversation, failures of credentials

VARIABLES
  who,      \* conversation -> its caller
  opening,  \* conversation -> its first user message
  last,     \* conversation -> [turns, slot, cred, session] of its latest turn
  sticky,   \* <<token, slot>> -> credential
  seen,     \* relay callers logged
  failures,
  moved,    \* history: conversations given another slot than before
  strayed   \* history: chains continued on another credential than their own, which served

vars == <<who, opening, last, sticky, seen, failures, moved, strayed>>

Anchors == (UNION {{w.key, w.meta, w.user} : w \in Callers}) \cup Openings

\* Keys are drawn at random: none is another id, or how a conversation opens.
FanoutAssumption ==
  /\ IsFiniteSet(Buckets) /\ \A a \in Anchors \ {""} : Bucket[a] \in Buckets
  /\ MaxSeen \in Nat /\ MaxTurns \in Nat /\ "failed" \notin Creds
  /\ \A v, w \in Callers : v.key # "" => v.key # w.meta /\ v.key \notin Openings

NoSlot == [via |-> "token", id |-> ""]
Fresh == [turns |-> 0, slot |-> NoSlot, cred |-> "none", session |-> << >>]

Init ==
  /\ who \in [Convs -> Callers] /\ opening \in [Convs -> Openings]
  /\ last = [c \in Convs |-> Fresh] /\ sticky = [p \in {} |-> "none"] /\ seen = {}
  /\ failures = 0 /\ moved = {} /\ strayed = {}

\* A conversation that continues its response chain sends the new input only.
Continues(c) == who[c].chained /\ last[c].turns > 0

\* conversationAnchorOf: an explicit id, else what opened the conversation.
conversationAnchorOf(c, allowAnthropicUserID) ==
  LET w == who[c]
      content == IF Continues(c) THEN "" ELSE opening[c] IN
  IF w.key # "" THEN w.key
  ELSE IF w.meta # "" THEN w.meta
  ELSE IF allowAnthropicUserID /\ w.user # "" THEN w.user ELSE content

\* fanoutSlotID: one of a fixed number of slots.
fanoutSlotID(c) ==
  LET anchor == conversationAnchorOf(c, TRUE) IN
  IF anchor = "" THEN NoSlot ELSE [via |-> "fanout", id |-> Bucket[anchor]]

\* relayIdentity: nothing for a token that is not trusted.
Declared(c) == who[c].token \in Trusted /\ who[c].client # ""

\* clientSlotID: the relay's caller, else the client's window; proxy falls
\* back on the fan-out.
SlotOf(c) ==
  IF Declared(c) THEN [via |-> "relay", id |-> who[c].client]
  ELSE IF who[c].window # "" THEN [via |-> "window", id |-> who[c].window]
  ELSE fanoutSlotID(c)

\* noteRelayClient: the callers logged, up to a bound.
Noted(c) ==
  IF Declared(c) /\ Cardinality(seen) < MaxSeen THEN seen \cup {who[c].client} ELSE seen

\* Mutant: the end user's id names the session.
SessionOfUser(c, cred, slot) ==
  <<cred, who[c].token, slot, conversationAnchorOf(c, TRUE)>>

\* codexUpstreamSessionID: without the end user's id, which names no
\* conversation.
codexUpstreamSessionID(c, cred, slot) ==
  <<cred, who[c].token, slot, conversationAnchorOf(c, FALSE)>>

\* The credentials the pool may give to a slot.
Offered(at) == IF at \in DOMAIN sticky THEN {sticky[at]} ELSE Creds

\* A turn of conversation c.
Turn(c) ==
  LET slot == SlotOf(c)
      at == <<who[c].token, slot>>
      old == last[c] IN
  /\ old.turns < MaxTurns
  /\ \E cred \in Offered(at) :
       /\ sticky' = [p \in DOMAIN sticky \cup {at} |-> IF p = at THEN cred ELSE sticky[p]]
       /\ last' = [last EXCEPT ![c] = [turns |-> old.turns + 1, slot |-> slot, cred |-> cred,
                                       session |-> codexUpstreamSessionID(c, cred, slot)]]
       /\ strayed' = IF Continues(c) /\ cred # old.cred /\ old.cred # "failed"
                     THEN strayed \cup {c} ELSE strayed
  /\ moved' = IF old.turns > 0 /\ slot # old.slot THEN moved \cup {c} ELSE moved
  /\ seen' = Noted(c)
  /\ UNCHANGED <<who, opening, failures>>

\* The client compacts the conversation, which then opens with another message.
Compact(c) ==
  /\ last[c].turns > 0
  /\ \E o \in Openings \ {opening[c]} : opening' = [opening EXCEPT ![c] = o]
  /\ UNCHANGED <<who, last, sticky, seen, failures, moved, strayed>>

\* A credential fails: its slots are given to others.
Fail(cred) ==
  /\ failures < MaxFailures /\ failures' = failures + 1
  /\ sticky' = [p \in {q \in DOMAIN sticky : sticky[q] # cred} |-> sticky[p]]
  /\ last' = [c \in Convs |-> IF last[c].cred = cred THEN [last[c] EXCEPT !.cred = "failed"] ELSE last[c]]
  /\ UNCHANGED <<who, opening, seen, moved, strayed>>

Next == (\E c \in Convs : Turn(c) \/ Compact(c)) \/ \E cred \in Creds : Fail(cred)

Spec == Init /\ [][Next]_vars

-----------------------------------------------------------------------------
Named(c) == Declared(c) \/ who[c].window # "" \/ {who[c].key, who[c].meta, who[c].user} # {""}

TypeOK ==
  /\ Cardinality(seen) <= MaxSeen /\ seen \subseteq {w.client : w \in Callers}
  /\ \A c \in Convs : last[c].turns \in 0..MaxTurns

\* A conversation that any id names keeps its slot, through compaction and
\* failures, and continues its chain on the credential that holds it.
NamedStayPut == \A c \in moved \cup strayed : ~Named(c)

\* A token without windows of its own takes a slot per bucket and one more,
\* whatever callers it declares, unless it is trusted.
SlotsBounded ==
  \A t \in {who[c].token : c \in Convs} \ Trusted :
    LET slots == {p[2] : p \in {q \in DOMAIN sticky : q[1] = t /\ q[2].via # "window"}} IN
    /\ Cardinality(slots) <= Cardinality(Buckets) + 1
    /\ \A s \in slots : s.via # "relay"

\* Conversations share an upstream session only within a token, a slot and a
\* credential, and not when an id of theirs or their openings tell them apart.
SessionsApart ==
  \A c, d \in Convs : c # d /\ last[c].session = last[d].session /\ last[c].turns > 0 =>
    /\ who[c].token = who[d].token /\ last[c].slot = last[d].slot
    /\ who[c].key = who[d].key
    /\ Declared(c) => who[c].client = who[d].client
    /\ who[c].key = "" /\ who[c].meta = "" /\ ~who[c].chained /\ ~who[d].chained =>
         last[c].session[4] \in Openings

FanoutHolds == TypeOK /\ NamedStayPut /\ SlotsBounded /\ SessionsApart
=============================================================================
