---------------------------- MODULE MCSessionView ----------------------------
EXTENDS SessionView, TLC

CONSTANTS left, right

BothTabs == {left, right}

(* Either one tab in which somebody signs in once more, or two tabs. *)
MCInit == Init /\ (page[right] = "closed" \/ issued = Chains)

MCSpec == MCInit /\ [][Next]_vars /\ Fairness
=============================================================================
