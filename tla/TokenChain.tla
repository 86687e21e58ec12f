----------------------------- MODULE TokenChain -----------------------------
(***************************************************************************)
(* What the refresh-token store promises its callers, with no transaction, *)
(* lock or statement in sight.  A login starts a family with one live      *)
(* token.  Spending the live token burns it and, in the same instant,      *)
(* makes exactly one successor live.  A revocation removes tokens of one   *)
(* family.  A token only ever moves forward: unissued, live, burnt, gone.  *)
(***************************************************************************)
CONSTANT Token

VARIABLES status,   \* status[t]: where t is in its life
          kin       \* kin[t]: the token that started t's family

chainVars == <<status, kin>>

TokenStatus == {"unissued", "live", "burnt", "gone"}

ChainInit ==
    /\ status = [t \in Token |-> "unissued"]
    /\ kin = [t \in Token |-> t]

(* A sign-in: t is live and alone in its family. *)
StartFamily(t) ==
    /\ status[t] = "unissued"
    /\ \A s \in Token \ {t} : kin[s] # t
    /\ status' = [status EXCEPT ![t] = "live"]
    /\ kin' = [kin EXCEPT ![t] = t]

(* A rotation: the live token is spent and its one successor issued. *)
Spend(t, new) ==
    /\ status[t] = "live"
    /\ status[new] = "unissued"
    /\ status' = [status EXCEPT ![t] = "burnt", ![new] = "live"]
    /\ kin' = [kin EXCEPT ![new] = kin[t]]

(* A revocation: issued tokens of one family are removed together. *)
Revoke(f, S) ==
    /\ S # {}
    /\ \A t \in S : kin[t] = f /\ status[t] \in {"live", "burnt"}
    /\ status' = [t \in Token |-> IF t \in S THEN "gone" ELSE status[t]]
    /\ UNCHANGED kin

ChainNext ==
    \/ \E t \in Token : StartFamily(t)
    \/ \E t, new \in Token : Spend(t, new)
    \/ \E f \in Token, S \in SUBSET Token : Revoke(f, S)

ChainSpec == ChainInit /\ [][ChainNext]_chainVars
=============================================================================
