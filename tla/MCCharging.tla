---------------------------- MODULE MCCharging ----------------------------
(* Instances of Charging for TLC, with all three requests or with one.        *)
EXTENDS Charging, TLC

CONSTANTS u1, u2, w1, w2, t1, t2, r1, r2, r3

\* w1 is u1's personal wallet; u2 is a member of it and has w2 of its own.
MCPersonal == (u1 :> w1) @@ (u2 :> w2)

\* All three bill w1: r1 and r3 under keys of two members, r2 over the
\* idempotent ceiling of 3.
MCBill ==
  [r \in Requests |->
    CASE r = r1 -> [user |-> u1, ws |-> w1, token |-> t1, amount |-> 3]
      [] r = r2 -> [user |-> u1, ws |-> w1, token |-> t1, amount |-> 4]
      [] OTHER  -> [user |-> u2, ws |-> w1, token |-> t2, amount |-> 2]]
=============================================================================
