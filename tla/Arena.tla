------------------------------- MODULE Arena -------------------------------
(***************************************************************************)
(* The activity office: every billed request starts a goroutine that bumps *)
(* its user's profile counters and publishes a pulse to the viewers of an  *)
(* in-memory hub, which replays its last pulses to a viewer who connects.  *)
(***************************************************************************)
EXTENDS Naturals, Sequences, FiniteSets, Functions

CONSTANTS
  Users,
  Hits,              \* goroutines: billed requests and confirmed invitations
  Viewers,           \* event streams
  RingSize,          \* pulses the hub replays
  Buffer             \* pulses a viewer's channel holds

ArenaAssumption == IsFiniteSet(Hits) /\ RingSize \in Nat /\ Buffer \in Nat

VARIABLES
  profile,           \* [exists, requests, invites, optIn] of each user
  hit,               \* [stage, kind, user, public, targets] of each goroutine
  ring,              \* the last pulses
  viewer,            \* [stage, chan, seen] of each stream
  server,            \* "up", or "panicked"
  lost,              \* history: hits no counter holds
  owed,              \* history: viewer -> pulses published since its replay
  dropped,           \* history: viewer -> pulses its full channel refused
  opted              \* history: users who have ever opted in

vars == <<profile, hit, ring, viewer, server, lost, owed, dropped, opted>>
hub == <<ring, viewer, owed, dropped>>

Absent == [exists |-> FALSE, requests |-> 0, invites |-> 0, optIn |-> FALSE]
Unused == [stage |-> "new", kind |-> "none", user |-> "none", public |-> FALSE, targets |-> {}]

Init ==
  /\ profile = [u \in Users |-> Absent] /\ opted = {}
  /\ hit = [g \in Hits |-> Unused] /\ lost = {}
  /\ ring = <<>>
  /\ viewer = [v \in Viewers |-> [stage |-> "new", chan |-> <<>>, seen |-> {}]]
  /\ server = "up"
  /\ owed = [v \in Viewers |-> {}] /\ dropped = [v \in Viewers |-> {}]

Subscribed == {v \in Viewers : viewer[v].stage \in {"subscribed", "live"}}

-----------------------------------------------------------------------------
(* Profiles.                                                               *)

Counter(kind) == IF kind = "charge" THEN "requests" ELSE "invites"

\* BumpActivity and BumpInvites: the UPDATE, which counts nothing when there
\* is no row yet; an error leaves the hit uncounted.
Bump(g, kind, u) ==
  /\ hit[g].stage = "new"
  /\ LET next == IF kind = "charge" THEN "bumped" ELSE "done"
         go(stage) == hit' = [hit EXCEPT ![g] = [Unused EXCEPT !.stage = stage, !.kind = kind, !.user = u]]
     IN \/ profile[u].exists /\ go(next) /\ lost' = lost
           /\ profile' = [profile EXCEPT ![u][Counter(kind)] = @ + 1]
        \/ ~profile[u].exists /\ go("absent") /\ UNCHANGED <<profile, lost>>
        \/ go(next) /\ lost' = lost \cup {g} /\ profile' = profile
  /\ UNCHANGED <<hub, server, opted>>

\* INSERT OR IGNORE of a row that carries the hit: ignored, and the hit lost,
\* when another goroutine or a visit made the row meanwhile.
InsertHit(g) ==
  /\ hit[g].stage = "absent"
  /\ LET u == hit[g].user IN
     /\ profile' = IF profile[u].exists THEN profile
                   ELSE [profile EXCEPT ![u] = [Absent EXCEPT !.exists = TRUE, ![Counter(hit[g].kind)] = 1]]
     /\ lost' = IF profile[u].exists THEN lost \cup {g} ELSE lost
  /\ hit' = [hit EXCEPT ![g].stage = IF hit[g].kind = "charge" THEN "bumped" ELSE "done"]
  /\ UNCHANGED <<hub, server, opted>>

\* GetOrCreateProfile of a page visit.
Visit(u) ==
  /\ ~profile[u].exists
  /\ profile' = [profile EXCEPT ![u].exists = TRUE]
  /\ UNCHANGED <<hit, hub, server, lost, opted>>

\* UpdateProfile: the row is made on first touch, then the opt-in is set; the
\* nickname is left out.
Patch(u) ==
  /\ \E choice \in BOOLEAN :
       /\ profile' = [profile EXCEPT ![u].exists = TRUE, ![u].optIn = choice]
       /\ opted' = IF choice THEN opted \cup {u} ELSE opted
  /\ UNCHANGED <<hit, hub, server, lost>>

\* OnCharge reads the identity to show: a pseudonym unless the profile says
\* otherwise, or cannot be read.
Resolve(g) ==
  /\ hit[g].stage = "bumped"
  /\ LET u == hit[g].user IN
     \/ /\ profile' = [profile EXCEPT ![u].exists = TRUE]
        /\ hit' = [hit EXCEPT ![g].stage = "named", ![g].public = profile[u].optIn]
     \/ hit' = [hit EXCEPT ![g].stage = "named"] /\ profile' = profile
  /\ UNCHANGED <<hub, server, lost, opted>>

-----------------------------------------------------------------------------
(* The hub.                                                                *)

\* The ring after a pulse: the oldest leaves when it is full.
Ringed(s, g) ==
  LET all == Append(s, g)
  IN IF Len(all) > RingSize THEN SubSeq(all, Len(all) - RingSize + 1, Len(all)) ELSE all

\* Publish under the lock: the ring, and the channels to send to.
Publish(g) ==
  /\ hit[g].stage = "named"
  /\ ring' = Ringed(ring, g)
  /\ hit' = [hit EXCEPT ![g].stage = IF Subscribed = {} THEN "done" ELSE "sending", ![g].targets = Subscribed]
  /\ owed' = [v \in Viewers |-> IF viewer[v].stage = "live" THEN owed[v] \cup {g} ELSE owed[v]]
  /\ UNCHANGED <<profile, viewer, server, lost, dropped, opted>>

\* Publish after the lock: one send, dropped by a full channel; a channel that
\* Unsubscribe has closed meanwhile panics, and nothing recovers it.
Send(g, v) ==
  /\ hit[g].stage = "sending" /\ v \in hit[g].targets
  /\ hit' = [hit EXCEPT ![g].targets = @ \ {v}, ![g].stage = IF hit[g].targets = {v} THEN "done" ELSE @]
  /\ IF viewer[v].stage = "gone" THEN server' = "panicked" /\ UNCHANGED <<viewer, dropped>>
     ELSE /\ server' = server
          /\ IF Len(viewer[v].chan) < Buffer
             THEN viewer' = [viewer EXCEPT ![v].chan = Append(@, g)] /\ dropped' = dropped
             ELSE dropped' = [dropped EXCEPT ![v] = @ \cup {g}] /\ viewer' = viewer
  /\ UNCHANGED <<profile, ring, lost, owed, opted>>

\* stream: Subscribe.
Subscribe(v) ==
  /\ viewer[v].stage = "new"
  /\ viewer' = [viewer EXCEPT ![v].stage = "subscribed"]
  /\ UNCHANGED <<profile, hit, ring, server, lost, owed, dropped, opted>>

\* stream: the replay of Recent.
Replay(v) ==
  /\ viewer[v].stage = "subscribed"
  /\ viewer' = [viewer EXCEPT ![v].stage = "live", ![v].seen = Range(ring)]
  /\ UNCHANGED <<profile, hit, ring, server, lost, owed, dropped, opted>>

\* stream: a pulse is written to the client.
Forward(v) ==
  /\ viewer[v].stage = "live" /\ viewer[v].chan # <<>>
  /\ viewer' = [viewer EXCEPT ![v].chan = Tail(@), ![v].seen = @ \cup {Head(viewer[v].chan)}]
  /\ UNCHANGED <<profile, hit, ring, server, lost, owed, dropped, opted>>

\* The client disconnects: Unsubscribe closes the channel.
Disconnect(v) ==
  /\ viewer[v].stage \in {"subscribed", "live"}
  /\ viewer' = [viewer EXCEPT ![v].stage = "gone", ![v].chan = <<>>]
  /\ UNCHANGED <<profile, hit, ring, server, lost, owed, dropped, opted>>

Next ==
  /\ server = "up"
  /\ \/ \E g \in Hits, kind \in {"charge", "invite"}, u \in Users : Bump(g, kind, u)
     \/ \E g \in Hits : InsertHit(g) \/ Resolve(g) \/ Publish(g)
     \/ \E u \in Users : Visit(u) \/ Patch(u)
     \/ \E g \in Hits, v \in Viewers : Send(g, v)
     \/ \E v \in Viewers : Subscribe(v) \/ Replay(v) \/ Forward(v) \/ Disconnect(v)

Spec == Init /\ [][Next]_vars

-----------------------------------------------------------------------------
TypeOK ==
  /\ opted \subseteq Users /\ lost \subseteq Hits
  /\ \A u \in Users : profile[u].requests \in 0..Cardinality(Hits)
  /\ \A g \in Hits : hit[g].stage \in {"new", "absent", "bumped", "named", "sending", "done"}
  /\ Len(ring) <= RingSize
  /\ \A v \in Viewers : viewer[v].stage \in {"new", "subscribed", "live", "gone"} /\ Len(viewer[v].chan) <= Buffer

\* Every hit is on its user's counter, unless it was lost.
HitsCounted ==
  \A u \in Users, kind \in {"charge", "invite"} :
    profile[u][Counter(kind)] =
      Cardinality({g \in Hits \ lost : hit[g].user = u /\ hit[g].kind = kind /\ hit[g].stage # "absent"})

\* From its replay on, a viewer misses no pulse its channel had room for: it is
\* shown, waiting, or still being sent.
NoGapAfterReplay ==
  \A v \in Viewers : viewer[v].stage = "live" =>
    owed[v] \subseteq viewer[v].seen \cup Range(viewer[v].chan) \cup dropped[v]
                      \cup {g \in Hits : v \in hit[g].targets}

\* Whoever never opted in is shown under a pseudonym, in pulses and replays.
PseudonymUnlessOpted == \A g \in Hits : hit[g].public => hit[g].user \in opted

\* Counters, pulses and names say what happened and what was allowed.
ArenaHolds == TypeOK /\ HitsCounted /\ NoGapAfterReplay /\ PseudonymUnlessOpted

\* "It never blocks the publisher: a subscriber whose buffer is full simply
\* drops the event" (hub.go); the charge that feeds it is fire and forget.
PulseNeverPanics == server = "up"
=============================================================================
