------------------------------- MODULE Amounts -------------------------------
(***************************************************************************)
(* What becomes of an amount on its way from a request to the column and   *)
(* back: the check of the schema, the sign, the rounding of the column and *)
(* the text of a response.  Amounts are integers, counted in the smallest  *)
(* unit 10^-Fine that a request may be written with; trailing zeros are    *)
(* left out, since no step tells them apart.                               *)
(***************************************************************************)
EXTENDS Integers, FiniteSetsExt

CONSTANTS MaxDigits, \* of the schema and the column: 36
          Places,    \* decimal places of both: 18
          Precision, \* significant digits of decimal arithmetic: 28
          Fine       \* decimal places of the finest amount in a request

ASSUME AmountsAssumption ==
    /\ {MaxDigits, Places, Precision, Fine} \subseteq Nat \ {0}
    /\ Places < Precision /\ Precision < MaxDigits
    /\ Places < Fine

Magnitude(n) == IF n < 0 THEN -n ELSE n
SignOf(n) == IF n < 0 THEN -1 ELSE 1

(* The powers of ten, and the digits of an integer. *)
Ten[k \in Nat] == IF k = 0 THEN 1 ELSE 10 * Ten[k - 1]
Length[n \in Nat] == IF n = 0 THEN 0 ELSE 1 + Length[n \div 10]

Whole(n) == Length[n \div Ten[Fine]]
Decimals(n) == Min({d \in 0..Fine : n % Ten[Fine - d] = 0})
Digits(n) == Whole(n) + Decimals(n)

(* decimal: rounding to p significant digits, halves to even. *)
RoundedTo(p, n) ==
    LET unit == Ten[Length[n] - p]
        low == n \div unit
        rest == 2 * (n % unit)
    IN  IF Length[n] <= p THEN n
        ELSE IF rest > unit \/ (rest = unit /\ low % 2 = 1) THEN (low + 1) * unit
        ELSE low * unit

(* Field(gt=0, max_digits=36, decimal_places=18): a limit refuses an amount  *)
(* only if it is exceeded by the amount as written and by normalize() of it, *)
(* which rounds like every operation of decimal.                             *)
Accepts(n) ==
    LET normalized == RoundedTo(Precision, n)
    IN  /\ n > 0
        /\ Digits(n) <= MaxDigits \/ Digits(normalized) <= MaxDigits
        /\ Decimals(n) <= Places \/ Decimals(normalized) <= Places
        /\ Whole(n) <= MaxDigits - Places \/ Whole(normalized) <= MaxDigits - Places

(* Mutant: the sign by arithmetic. *)
SignedByArithmetic(n, kind) ==
    IF kind = "expense" THEN -RoundedTo(Precision, n) ELSE n

Signed(n, kind) == IF kind = "expense" THEN -n ELSE n

(* Numeric(36, 18): halves away from zero, and an error beyond 18 digits     *)
(* before the point.                                                         *)
Stored(n) ==
    LET unit == Ten[Fine - Places]
    IN  SignOf(n) * unit * ((2 * Magnitude(n) + unit) \div (2 * unit))

Overflows(n) == Whole(Magnitude(Stored(n))) > MaxDigits - Places

Fits(n) == Decimals(Magnitude(n)) <= Places /\ Whole(Magnitude(n)) <= MaxDigits - Places

(* _exact_string: a precision as wide as the value, which comes with all the *)
(* decimal places of the column.                                             *)
Shown(n) ==
    LET digits == Length[Magnitude(n) \div Ten[Fine - Places]]
    IN  SignOf(n) * RoundedTo(digits, Magnitude(n))
=============================================================================
