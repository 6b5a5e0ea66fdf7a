---------------------------- MODULE ChargeOnce ----------------------------
(***************************************************************************)
(* What the idempotent wallet promises its callers, with no ledger, no     *)
(* retries and no failures in sight: each charge key is paid at most once, *)
(* by a positive amount of at most what is owed under it, and once paid it *)
(* is never changed.                                                       *)
(***************************************************************************)
EXTENDS Integers

CONSTANTS
  ChargeKeys,   \* idempotency keys
  Owed          \* [ChargeKeys -> Nat]: the amount a key was minted for

VARIABLE paid   \* what has been taken under each key; 0 = nothing yet

Init == paid = [k \in ChargeKeys |-> 0]

Pay(k) ==
  /\ paid[k] = 0
  /\ \E amount \in 1..Owed[k] : paid' = [paid EXCEPT ![k] = amount]

Next == \E k \in ChargeKeys : Pay(k)

Spec == Init /\ [][Next]_paid
=============================================================================
