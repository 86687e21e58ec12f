------------------------------ MODULE MCLedger ------------------------------
EXTENDS Ledger, TLC

CONSTANTS alice, bob, chase, wise, monzo, GBP, USD

(* Alice has two accounts, Bob one. *)
TwoOwners == (chase :> alice) @@ (wise :> alice) @@ (monzo :> bob)

OneOwner == (chase :> alice) @@ (wise :> alice)
=============================================================================
