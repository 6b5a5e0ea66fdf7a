----------------------------- MODULE MCProgress -----------------------------
(***************************************************************************)
(* Instances for TLC of two components that must come to an end by         *)
(* themselves: gifts, whose money is in escrow until they are claimed or   *)
(* refunded, and Codex requests, which a silent upstream must not hold     *)
(* for ever.  Each behaviour runs one of them.                             *)
(***************************************************************************)
EXTENDS Gifts, TLC

CONSTANTS
  Components,                       \* what runs: "gifts", "turn"
  OAuth, Keys, MaxOAuth, MaxTurns   \* the credentials and bounds of the turns

VARIABLES
  component,
  turn, turns, client, ctx, dog, late, sock, unread, cool, resting

request == <<turn, turns, client, ctx, dog, late, sock, unread, cool, resting>>
all == <<component, vars, request>>

-----------------------------------------------------------------------------
\* u1 holds 2 of real money, 2 of bonus and may spend 1; it sends 2 to the
\* newcomer u2, and the same to u3.
People == {"u1", "u2", "u3"}
Wallets == {"w1", "w2", "w3"}
Own == ("u1" :> "w1") @@ ("u2" :> "w2") @@ ("u3" :> "w3")
Funds ==
  [u \in People |-> IF u = "u1" THEN [topup |-> 2, bonus |-> 2, spend |-> 1]
                                ELSE [topup |-> 0, bonus |-> 0, spend |-> 0]]
Sent ==
  [c \in Codes |-> [sender |-> "u1", recipient |-> IF c = "g1" THEN "u2" ELSE "u3", amount |-> 2]]
T == INSTANCE CodexTurn

ASSUME TurnsAssumption == T!TurnAssumption

-----------------------------------------------------------------------------
\* What does not run starts in one state.
MCInit ==
  /\ component \in Components
  /\ Init /\ T!Init
  /\ component # "turn" => turn.kind = "native"

Gifting == component = "gifts" /\ UNCHANGED <<component, request>>
Turn == component = "turn" /\ UNCHANGED <<component, vars>>

\* The fairness of Gifts and of CodexTurn, for the behaviours that run them.
MCSpec ==
  /\ MCInit /\ [][(Gifting /\ Next) \/ (Turn /\ T!Next)]_all
  /\ \A c \in Codes : WF_all(Gifting /\ Expire(c)) /\ WF_all(Gifting /\ SweepRefund(c))
  /\ WF_all(Gifting /\ SweepList)
  /\ WF_all(Turn /\ T!Abandons) /\ WF_all(Turn /\ T!GoesOn)
  /\ WF_all(Turn /\ T!Fires) /\ WF_all(Turn /\ T!Cuts)

-----------------------------------------------------------------------------
\* A turn is asked a bounded number of times, charged at most once, logged, and
\* gives its socket back clean or not at all.
TurnHolds == component = "turn" => T!TurnHolds

\* A request that has sent nothing comes to an end at the failover deadline.
SilentTurnsEnd == T!SilentTurnsEnd
=============================================================================
