----------------------------- MODULE MCRateLimit -----------------------------
EXTENDS RateLimit, TLC

CONSTANTS Alice, alice

(* Two spellings of one address. *)
Lowered == (Alice :> alice) @@ (alice :> alice)
=============================================================================
