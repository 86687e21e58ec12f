------------------------------ MODULE MCSignIn ------------------------------
EXTENDS SignIn, TLC

Interchangeable ==
    Permutations(Requests) \cup Permutations(Addresses) \cup Permutations(Passwords)
=============================================================================
