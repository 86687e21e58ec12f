----------------------------- MODULE MCApiClient -----------------------------
EXTENDS ApiClient, TLC

CONSTANTS c1, c2, c3, left, right

(* Two calls of one tab, one of another. *)
TwoTabs == (c1 :> left) @@ (c2 :> left) @@ (c3 :> right)
=============================================================================
