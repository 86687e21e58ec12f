----------------------------- MODULE MCAccounts -----------------------------
EXTENDS Accounts, TLC

(* Requests that patch may be swapped for one another, and so may those     *)
(* that open accounts, names and users.                                     *)
Interchangeable ==
    Permutations(Patchers) \cup Permutations(Creators)
        \cup Permutations(Names) \cup Permutations(Users)
=============================================================================
