------------------------------ MODULE MCReports ------------------------------
EXTENDS Reports

CONSTANTS alice, bob, cash, coin, purse, GBP, BTC

AllAccounts == {cash, coin, purse}
Owners == (cash :> alice) @@ (coin :> alice) @@ (purse :> bob)
UnitsAtStart == [a \in AllAccounts |-> GBP]

Draft(account, kind, amount, category, at) ==
    [account |-> account, kind |-> kind, amount |-> amount, category |-> category, at |-> at]

(* Thousandths: 98.76 as wide as the column, 1.111 with a decimal too many,  *)
(* 99.995 that the column would round up to a digit too many.                *)
SomeDrafts ==
    {Draft(cash, "expense", 98760, "food", 1),
     Draft(cash, "expense", 1111, "none", 1),
     Draft(coin, "income", 1110, "none", 2),
     Draft(coin, "income", 99995, "none", 2),
     Draft(purse, "expense", 10, "none", 1)}

SomeTransfers ==
    {[from |-> cash, to |-> coin, sent |-> 20000, received |-> 20000, fee |-> 0, at |-> 1],
     [from |-> cash, to |-> coin, sent |-> 20000, received |-> 3330,
      fee |-> 1110, payer |-> cash, at |-> 1]}

SomePeriods == {[from |-> 1, to |-> 2], [from |-> 1, to |-> 3]}
=============================================================================
