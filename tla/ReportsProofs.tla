---------------------------- MODULE ReportsProofs ----------------------------
(***************************************************************************)
(* What a user is told of the ledger agrees with itself and with the rows, *)
(* for any accounts, units, ids, amounts, periods and page sizes.          *)
(***************************************************************************)
EXTENDS Reports, FiniteSetTheorems, SequenceTheorems, WellFoundedInduction, TLAPS

-----------------------------------------------------------------------------
(* Induction and recursion.  A set P stands for what is to be shown of the  *)
(* members of a set: a well-founded relation leaves no member outside it.   *)

(* What holds of a set once it holds of the set without any one element     *)
(* holds of every finite set.                                               *)
LEMMA SetInduction ==
    ASSUME NEW S, IsFiniteSet(S), NEW P,
           \A T \in SUBSET S : (\A x \in T : T \ {x} \in P) => T \in P
    PROVE  SUBSET S \subseteq P
<1> DEFINE Bad == (SUBSET S) \ P
<1> SUFFICES ASSUME Bad # {} PROVE FALSE
    OBVIOUS
<1>1. IsWellFoundedOn(StrictSubsetOrdering(S), FiniteSubsetsOf(S))
    BY FS_StrictSubsetOrderingWellFounded
<1>2. Bad \subseteq FiniteSubsetsOf(S)
    BY FS_FiniteSubsetsOfFinite
<1>3. \E T \in Bad : \A U \in Bad : <<U, T>> \notin StrictSubsetOrdering(S)
  <2> HIDE DEF Bad
  <2> QED
      BY <1>1, <1>2, WFMin
<1>4. PICK T \in Bad : \A U \in Bad : <<U, T>> \notin StrictSubsetOrdering(S)
    BY <1>3
<1>5. ASSUME NEW x \in T PROVE T \ {x} \in P
  <2>1. <<T \ {x}, T>> \in StrictSubsetOrdering(S)
      BY DEF StrictSubsetOrdering
  <2> QED
      BY <1>4, <2>1
<1> QED
    BY <1>5

NatOrder == {p \in Nat \X Nat : p[1] < p[2]}

LEMMA NatIsWellFounded ==
    /\ IsWellFoundedOn(NatOrder, Nat)
    /\ \A m, n \in Nat : m < n => <<m, n>> \in NatOrder
<1>1. NatOrder = OpToRel(<, Nat)
    BY DEF NatOrder, OpToRel
<1>2. IsWellFoundedOn(NatOrder, Nat)
    BY <1>1, NatLessThanWellFounded
<1> QED
    BY <1>2 DEF NatOrder

(* What holds of a natural number once it holds of all below holds of all.  *)
LEMMA NatStrongInduction ==
    ASSUME NEW P,
           \A n \in Nat : (\A m \in Nat : m < n => m \in P) => n \in P
    PROVE  Nat \subseteq P
<1> DEFINE Bad == Nat \ P
<1> SUFFICES ASSUME Bad # {} PROVE FALSE
    OBVIOUS
<1>1. \E n \in Bad : \A m \in Bad : <<m, n>> \notin NatOrder
  <2>1. Bad \subseteq Nat /\ IsWellFoundedOn(NatOrder, Nat)
      BY NatIsWellFounded
  <2> HIDE DEF Bad
  <2> QED
      BY <2>1, WFMin
<1>2. PICK n \in Bad : \A m \in Bad : <<m, n>> \notin NatOrder
    BY <1>1
<1>3. \A m \in Nat : m < n => m \in P
    BY <1>2, NatIsWellFounded
<1> QED
    BY <1>3

(* A recursion over D: at the elements of B the value is a, and at any other *)
(* element x the step g makes it of x and the value at h[x].                 *)
Descends(h, D, B, R) == \A x \in D \ B : h[x] \in D /\ <<h[x], x>> \in R
Steps(g, D, T) == \A x \in D, v \in T : g[<<x, v>>] \in T
Recursion(f, D, B, a, g, h) ==
    \A x \in D : f[x] = IF x \in B THEN a ELSE g[<<x, f[h[x]]>>]

(* A recursion that goes down a well-founded relation defines a function.   *)
LEMMA RecursionExists ==
    ASSUME NEW D, NEW R, IsWellFoundedOn(R, D),
           NEW B, NEW h, Descends(h, D, B, R),
           NEW T, NEW a \in T, NEW g, Steps(g, D, T)
    PROVE  \E f \in [D -> T] : Recursion(f, D, B, a, g, h)
<1> USE DEF Descends, Steps, Recursion
<1> DEFINE Solves(A, f) ==
              /\ \A x \in A \ B : h[x] \in A
              /\ \A x \in A : f[x] = IF x \in B THEN a ELSE g[<<x, f[h[x]]>>]
           Solved(x) == \E A \in SUBSET D : \E f \in [A -> T] : x \in A /\ Solves(A, f)
           IsValue(x, v) ==
              \E A \in SUBSET D : \E f \in [A -> T] : x \in A /\ Solves(A, f) /\ v = f[x]
           value(x) == CHOOSE v : IsValue(x, v)
           F == [x \in D |-> value(x)]
           Bad == {x \in D : ~Solved(x)}
<1>0. ASSUME NEW A \in SUBSET D, NEW e, NEW f, Solves(A, e), Solves(A, f)
      PROVE  \A x \in A : e[x] = f[x]
  <2> DEFINE Differ == {x \in A : e[x] # f[x]}
  <2> SUFFICES ASSUME Differ # {} PROVE FALSE
      OBVIOUS
  <2>1. \E x \in Differ : \A y \in Differ : <<y, x>> \notin R
    <3>1. Differ \subseteq D
        OBVIOUS
    <3> HIDE DEF Differ
    <3> QED
        BY <3>1, WFMin
  <2>2. PICK x \in Differ : \A y \in Differ : <<y, x>> \notin R
      BY <2>1
  <2> QED
      BY <1>0, <2>2
<1>1. ASSUME NEW x \in D, x \notin B => Solved(h[x])
      PROVE  Solved(x)
  <2>1. CASE x \in B
    <3>1. Solves({x}, [y \in {x} |-> a])
        BY <2>1
    <3>2. {x} \in SUBSET D /\ [y \in {x} |-> a] \in [{x} -> T]
        OBVIOUS
    <3> QED
        BY <3>1, <3>2
  <2>2. CASE x \notin B
    <3>1. PICK A \in SUBSET D : \E f \in [A -> T] : h[x] \in A /\ Solves(A, f)
        BY <1>1, <2>2
    <3>2. PICK f \in [A -> T] : h[x] \in A /\ Solves(A, f)
        BY <3>1
    <3>3. CASE x \in A
        BY <3>2, <3>3
    <3>4. CASE x \notin A
      <4> DEFINE C == A \cup {x}
                 e == [y \in C |-> IF y = x THEN g[<<x, f[h[x]]>>] ELSE f[y]]
      <4>1. f[h[x]] \in T
          BY <3>2
      <4>2. e \in [C -> T]
          BY <4>1
      <4>3. \A y \in C \ B : h[y] \in C
          BY <3>2
      <4>4. \A y \in C : e[y] = IF y \in B THEN a ELSE g[<<y, e[h[y]]>>]
          BY <2>2, <3>2, <3>4
      <4>5. C \in SUBSET D /\ x \in C
          OBVIOUS
      <4> HIDE DEF C, e
      <4> QED
          BY <4>2, <4>3, <4>4, <4>5
    <3> QED
        BY <3>3, <3>4
  <2> QED
      BY <2>1, <2>2
<1>2. \A x \in D : Solved(x)
  <2> SUFFICES ASSUME Bad # {} PROVE FALSE
    <3> HIDE DEF Solved
    <3> QED
        OBVIOUS
  <2>1. \E x \in Bad : \A y \in Bad : <<y, x>> \notin R
    <3>1. Bad \subseteq D
        OBVIOUS
    <3> HIDE DEF Bad
    <3> QED
        BY <3>1, WFMin
  <2>2. PICK x \in Bad : \A y \in Bad : <<y, x>> \notin R
      BY <2>1
  <2> HIDE DEF Solved
  <2> QED
      BY <1>1, <2>2
<1>3. ASSUME NEW x \in D, NEW v, NEW w, IsValue(x, v), IsValue(x, w)
      PROVE  v = w
  <2>1. PICK A \in SUBSET D : \E f \in [A -> T] : x \in A /\ Solves(A, f) /\ v = f[x]
      BY <1>3
  <2>2. PICK f \in [A -> T] : x \in A /\ Solves(A, f) /\ v = f[x]
      BY <2>1
  <2>3. PICK C \in SUBSET D : \E e \in [C -> T] : x \in C /\ Solves(C, e) /\ w = e[x]
      BY <1>3
  <2>4. PICK e \in [C -> T] : x \in C /\ Solves(C, e) /\ w = e[x]
      BY <2>3
  <2>5. \A y \in A \cap C : f[y] = e[y]
    <3> DEFINE both == A \cap C
    <3>1. both \in SUBSET D /\ Solves(both, e) /\ Solves(both, f)
        BY <2>2, <2>4
    <3>2. \A y \in both : f[y] = e[y]
      <4> HIDE DEF both, Solves
      <4> QED
          BY <1>0, <3>1
    <3> QED
        BY <3>2
  <2> QED
      BY <2>2, <2>4, <2>5
<1>4. ASSUME NEW A \in SUBSET D, NEW f \in [A -> T], Solves(A, f), NEW x \in A
      PROVE  F[x] = f[x]
  <2>1. IsValue(x, f[x])
      BY <1>4
  <2>2. IsValue(x, value(x))
    <3> HIDE DEF IsValue
    <3> QED
        BY <2>1
  <2> HIDE DEF IsValue, value
  <2> QED
      BY <1>3, <2>1, <2>2
<1>5. ASSUME NEW x \in D
      PROVE  F[x] \in T /\ F[x] = IF x \in B THEN a ELSE g[<<x, F[h[x]]>>]
  <2>1. PICK A \in SUBSET D : \E f \in [A -> T] : x \in A /\ Solves(A, f)
      BY <1>2
  <2>2. PICK f \in [A -> T] : x \in A /\ Solves(A, f)
      BY <2>1
  <2>3. \A y \in A : F[y] = f[y]
    <3> HIDE DEF F, Solves
    <3> QED
        BY <1>4, <2>2
  <2> HIDE DEF F
  <2> QED
      BY <2>2, <2>3
<1>6. F \in [D -> T]
  <2>1. \A x \in D : value(x) \in T
      BY <1>5
  <2> HIDE DEF value
  <2> QED
      BY <2>1
<1> HIDE DEF F
<1> QED
    BY <1>5, <1>6

-----------------------------------------------------------------------------
(* Powers of ten and digits.                                                *)
LEMMA TenType ==
    /\ Ten \in [Nat -> Nat \ {0}]
    /\ Ten[0] = 1
    /\ \A k \in Nat : Ten[k + 1] = 10 * Ten[k]
<1> DEFINE IsTen(f) == f = [k \in Nat |-> IF k = 0 THEN 1 ELSE 10 * f[k - 1]]
           h == [k \in Nat |-> k - 1]
           T == Nat \ {0}
           g == [p \in Nat \X T |-> 10 * p[2]]
<1>1. PICK f \in [Nat -> T] : Recursion(f, Nat, {0}, 1, g, h)
  <2>1. Descends(h, Nat, {0}, NatOrder)
      BY NatIsWellFounded DEF Descends
  <2>2. 1 \in T /\ Steps(g, Nat, T)
      BY DEF Steps
  <2>3. IsWellFoundedOn(NatOrder, Nat)
      BY NatIsWellFounded
  <2> HIDE DEF h, T, g
  <2> QED
      BY <2>1, <2>2, <2>3, RecursionExists
<1>2. \A k \in Nat : f[k] = IF k = 0 THEN 1 ELSE 10 * f[k - 1]
  <2>1. \A k \in Nat \ {0} : f[k - 1] \in T
      OBVIOUS
  <2> QED
      BY <1>1, <2>1 DEF Recursion
<1>3. IsTen(Ten)
  <2>1. IsTen(f)
      BY <1>2
  <2>2. Ten = CHOOSE e : IsTen(e)
      BY DEF Ten
  <2> HIDE DEF IsTen
  <2> QED
      BY <2>1, <2>2
<1> DEFINE P == {k \in Nat : Ten[k] \in T}
<1>4. Nat \subseteq P
  <2>1. ASSUME NEW k \in Nat, \A m \in Nat : m < k => m \in P
        PROVE  k \in P
    <3>1. CASE k = 0
        BY <1>3, <3>1
    <3>2. CASE k # 0
      <4>1. k - 1 \in P
          BY <2>1, <3>2
      <4>2. Ten[k] = 10 * Ten[k - 1]
          BY <1>3, <3>2
      <4> QED
          BY <4>1, <4>2
    <3> QED
        BY <3>1, <3>2
  <2> HIDE DEF P
  <2> QED
      BY <2>1, NatStrongInduction
<1> QED
    BY <1>3, <1>4

LEMMA LengthType ==
    /\ Length \in [Nat -> Nat]
    /\ Length[0] = 0
    /\ \A n \in Nat \ {0} : Length[n] = 1 + Length[n \div 10]
<1> DEFINE IsLength(f) == f = [n \in Nat |-> IF n = 0 THEN 0 ELSE 1 + f[n \div 10]]
           h == [n \in Nat |-> n \div 10]
           g == [p \in Nat \X Nat |-> 1 + p[2]]
<1>1. \A n \in Nat : n \div 10 \in Nat /\ (n # 0 => n \div 10 < n)
    OBVIOUS
<1>2. PICK f \in [Nat -> Nat] : Recursion(f, Nat, {0}, 0, g, h)
  <2>1. Descends(h, Nat, {0}, NatOrder)
      BY <1>1, NatIsWellFounded DEF Descends
  <2>2. 0 \in Nat /\ Steps(g, Nat, Nat)
      BY DEF Steps
  <2>3. IsWellFoundedOn(NatOrder, Nat)
      BY NatIsWellFounded
  <2> HIDE DEF h, g
  <2> QED
      BY <2>1, <2>2, <2>3, RecursionExists
<1>3. \A n \in Nat : f[n] = IF n = 0 THEN 0 ELSE 1 + f[n \div 10]
    BY <1>1, <1>2 DEF Recursion
<1>4. IsLength(Length)
  <2>1. IsLength(f)
      BY <1>3
  <2>2. Length = CHOOSE e : IsLength(e)
      BY DEF Length
  <2> HIDE DEF IsLength
  <2> QED
      BY <2>1, <2>2
<1> DEFINE P == {n \in Nat : Length[n] \in Nat}
<1>5. Nat \subseteq P
  <2>1. ASSUME NEW n \in Nat, \A m \in Nat : m < n => m \in P
        PROVE  n \in P
    <3>1. CASE n = 0
        BY <1>4, <3>1
    <3>2. CASE n # 0
      <4>1. n \div 10 \in P
          BY <1>1, <2>1, <3>2
      <4>2. Length[n] = 1 + Length[n \div 10]
          BY <1>4, <3>2
      <4> QED
          BY <4>1, <4>2
    <3> QED
        BY <3>1, <3>2
  <2> HIDE DEF P
  <2> QED
      BY <2>1, NatStrongInduction
<1> QED
    BY <1>4, <1>5

LEMMA DivisionOfMultiple ==
    ASSUME NEW a \in Nat, NEW b \in Nat \ {0}
    PROVE  /\ a * b \in Nat
           /\ (a * b) \div b = a /\ (a * b) % b = 0
           /\ (2 * (a * b) + b) \div (2 * b) = a
    OBVIOUS

(* A larger power of ten is a multiple of a smaller one. *)
LEMMA TenDivides ==
    ASSUME NEW j \in Nat, NEW k \in Nat
    PROVE  \E m \in Nat \ {0} : Ten[j + k] = m * Ten[j]
<1> DEFINE P == {i \in Nat : \E m \in Nat \ {0} : Ten[j + i] = m * Ten[j]}
<1>1. ASSUME NEW i \in Nat, \A l \in Nat : l < i => l \in P
      PROVE  i \in P
  <2>1. CASE i = 0
    <3>1. Ten[j + i] = 1 * Ten[j]
        BY <2>1, TenType
    <3> QED
        BY <3>1
  <2>2. CASE i # 0
    <3>1. i - 1 \in P
        BY <1>1, <2>2
    <3>2. PICK m \in Nat \ {0} : Ten[j + (i - 1)] = m * Ten[j]
        BY <3>1
    <3>3. Ten[j + i] = 10 * Ten[j + (i - 1)]
      <4>1. j + (i - 1) \in Nat /\ (j + (i - 1)) + 1 = j + i
          BY <2>2
      <4> QED
          BY <4>1, TenType
    <3>4. Ten[j + i] = (10 * m) * Ten[j]
        BY <3>2, <3>3, TenType
    <3> QED
        BY <3>4
  <2> QED
      BY <2>1, <2>2
<1> HIDE DEF P
<1>2. Nat \subseteq P
    BY <1>1, NatStrongInduction
<1> USE DEF P
<1> QED
    BY <1>2

(* A zero at the end is a digit more. *)
LEMMA LengthOfMultiple ==
    ASSUME NEW n \in Nat \ {0}, NEW k \in Nat
    PROVE  n * Ten[k] \in Nat \ {0} /\ Length[n * Ten[k]] = Length[n] + k
<1> DEFINE P == {i \in Nat : Length[n * Ten[i]] = Length[n] + i}
<1>1. \A i \in Nat : n * Ten[i] \in Nat \ {0}
    BY TenType
<1>2. ASSUME NEW i \in Nat, \A l \in Nat : l < i => l \in P
      PROVE  i \in P
  <2>1. CASE i = 0
    <3>1. n * Ten[i] = n
        BY <2>1, TenType
    <3> QED
        BY <2>1, <3>1, LengthType
  <2>2. CASE i # 0
    <3>1. i - 1 \in P
        BY <1>2, <2>2
    <3>2. Ten[i] = 10 * Ten[i - 1] /\ Ten[i - 1] \in Nat
      <4>1. i - 1 \in Nat /\ (i - 1) + 1 = i
          BY <2>2
      <4> QED
          BY <4>1, TenType
    <3>3. (n * Ten[i]) \div 10 = n * Ten[i - 1]
        BY <3>2
    <3>4. Length[n * Ten[i]] = 1 + Length[n * Ten[i - 1]]
        BY <1>1, <3>3, LengthType
    <3> QED
        BY <3>1, <3>4, LengthType
  <2> QED
      BY <2>1, <2>2
<1> HIDE DEF P
<1>3. Nat \subseteq P
    BY <1>2, NatStrongInduction
<1> USE DEF P
<1> QED
    BY <1>1, <1>3

-----------------------------------------------------------------------------
(* Amounts without more decimals than the column holds.                     *)
Scale == Ten[Fine - Places]
OnScale(n) == \E m \in Int : n = m * Scale

LEMMA ScaleType == Scale \in Nat \ {0} /\ Fine - Places \in Nat \ {0}
    BY AmountsAssumption, TenType DEF Scale

LEMMA OnScaleFacts ==
    /\ OnScale(0)
    /\ \A n : OnScale(n) => n \in Int /\ OnScale(-n)
    /\ \A m, n : OnScale(m) /\ OnScale(n) => OnScale(m + n)
<1> USE ScaleType DEF OnScale
<1>1. OnScale(0)
  <2>1. 0 = 0 * Scale
      OBVIOUS
  <2> QED
      BY <2>1
<1>2. ASSUME NEW n, OnScale(n) PROVE n \in Int /\ OnScale(-n)
  <2>1. PICK m \in Int : n = m * Scale
      BY <1>2
  <2>2. -m \in Int /\ -n = (-m) * Scale /\ n \in Int
      BY <2>1
  <2> QED
      BY <2>2
<1>3. ASSUME NEW m, NEW n, OnScale(m), OnScale(n) PROVE OnScale(m + n)
  <2>1. PICK i \in Int : m = i * Scale
      BY <1>3
  <2>2. PICK j \in Int : n = j * Scale
      BY <1>3
  <2>3. i + j \in Int /\ m + n = (i + j) * Scale
      BY <2>1, <2>2
  <2> QED
      BY <2>3
<1> HIDE DEF OnScale
<1> QED
    BY <1>1, <1>2, <1>3

LEMMA MagnitudeOnScale ==
    ASSUME NEW n, OnScale(n)
    PROVE  /\ n \in Int /\ n = SignOf(n) * Magnitude(n)
           /\ \E m \in Nat : Magnitude(n) = m * Scale
<1>1. PICK m \in Int : n = m * Scale
    BY DEF OnScale
<1>2. n \in Int /\ n = SignOf(n) * Magnitude(n)
    BY <1>1, ScaleType DEF SignOf, Magnitude
<1>3. CASE n < 0
  <2>1. -m \in Nat
      BY <1>1, <1>3, ScaleType
  <2>2. Magnitude(n) = (-m) * Scale
      BY <1>1, <1>3, ScaleType DEF Magnitude
  <2> QED
      BY <1>2, <2>1, <2>2
<1>4. CASE ~(n < 0)
  <2>1. m \in Nat
      BY <1>1, <1>4, ScaleType
  <2>2. Magnitude(n) = m * Scale
      BY <1>1, <1>4, ScaleType DEF Magnitude
  <2> QED
      BY <1>2, <2>1, <2>2
<1> QED
    BY <1>3, <1>4

(* The text of a response keeps every digit of such an amount, however long. *)
LEMMA ShownIsExact == ASSUME NEW n, OnScale(n) PROVE Shown(n) = n
<1>1. PICK m \in Nat : Magnitude(n) = m * Scale
    BY MagnitudeOnScale
<1>2. m * Scale \in Nat /\ (m * Scale) \div Scale = m /\ (m * Scale) % Scale = 0
    BY ScaleType, DivisionOfMultiple
<1>3. RoundedTo(Length[m], m * Scale) = m * Scale
  <2>1. CASE m = 0
    <3>1. m * Scale = 0
        BY <2>1, ScaleType
    <3> QED
        BY <2>1, <3>1, LengthType DEF RoundedTo
  <2>2. CASE m # 0
    <3>1. Length[m * Scale] - Length[m] = Fine - Places /\ ~(Length[m * Scale] <= Length[m])
      <4>1. Length[m * Scale] = Length[m] + (Fine - Places)
          BY <2>2, ScaleType, LengthOfMultiple DEF Scale
      <4> QED
          BY <4>1, ScaleType, LengthType
    <3>2. ~(2 * ((m * Scale) % Scale) > Scale) /\ 2 * ((m * Scale) % Scale) # Scale
        BY <1>2, ScaleType
    <3> QED
        BY <1>2, <3>1, <3>2 DEF RoundedTo, Scale
  <2> QED
      BY <2>1, <2>2
<1>4. Shown(n) = SignOf(n) * (m * Scale)
    BY <1>1, <1>2, <1>3 DEF Shown, Scale
<1> QED
    BY <1>1, <1>4, MagnitudeOnScale

(* So does the column, and whatever it holds is such an amount.             *)
LEMMA StoredIsExact == ASSUME NEW n, OnScale(n) PROVE Stored(n) = n
<1>1. PICK m \in Nat : Magnitude(n) = m * Scale
    BY MagnitudeOnScale
<1>2. (2 * (m * Scale) + Scale) \div (2 * Scale) = m
    BY ScaleType, DivisionOfMultiple
<1>3. Stored(n) = SignOf(n) * Scale * m
    BY <1>1, <1>2 DEF Stored, Scale
<1>4. SignOf(n) * Scale * m = SignOf(n) * (m * Scale)
    BY ScaleType DEF SignOf
<1> QED
    BY <1>1, <1>3, <1>4, MagnitudeOnScale

LEMMA StoredOnScale ==
    ASSUME NEW n \in Int
    PROVE  /\ OnScale(Stored(n))
           /\ n > 0 => Stored(n) \in Nat /\ Stored(-n) = -Stored(n)
<1> DEFINE q == (2 * Magnitude(n) + Scale) \div (2 * Scale)
<1>1. Magnitude(n) \in Nat /\ SignOf(n) \in Int
    BY DEF Magnitude, SignOf
<1>2. q \in Nat
    BY <1>1, ScaleType
<1>3. Stored(n) = SignOf(n) * Scale * q
    BY DEF Stored, Scale
<1>4. n > 0 => /\ SignOf(n) = 1 /\ SignOf(-n) = -1
               /\ Magnitude(n) = n /\ Magnitude(-n) = n
    BY DEF Magnitude, SignOf
<1>5. n > 0 => Stored(-n) = (-1) * Scale * q
    BY <1>4 DEF Stored, Scale
<1> HIDE DEF q
<1>6. OnScale(Stored(n))
  <2>1. SignOf(n) * q \in Int /\ Stored(n) = (SignOf(n) * q) * Scale
      BY <1>1, <1>2, <1>3, ScaleType
  <2> QED
      BY <2>1 DEF OnScale
<1>7. n > 0 => Stored(n) \in Nat /\ Stored(-n) = -Stored(n)
    BY <1>2, <1>3, <1>4, <1>5, ScaleType
<1> QED
    BY <1>6, <1>7

LEMMA MinOfNats ==
    ASSUME NEW S \in SUBSET Nat, S # {}
    PROVE  Min(S) \in S /\ \A n \in S : Min(S) <= n
<1>1. PICK m \in S : \A n \in S : <<n, m>> \notin NatOrder
  <2>1. IsWellFoundedOn(NatOrder, Nat)
      BY NatIsWellFounded
  <2> QED
      BY <2>1, WFMin
<1>2. ASSUME NEW n \in S PROVE m <= n
  <2>1. ~(n < m)
    <3>1. n < m => <<n, m>> \in NatOrder
        BY NatIsWellFounded
    <3> QED
        BY <1>1, <3>1
  <2> QED
      BY <2>1
<1> QED
    BY <1>2 DEF Min

LEMMA DecimalsType ==
    ASSUME NEW n \in Nat
    PROVE  /\ Decimals(n) \in 0..Fine
           /\ n % Ten[Fine - Decimals(n)] = 0
           /\ \A d \in 0..Fine : n % Ten[Fine - d] = 0 => Decimals(n) <= d
<1> DEFINE S == {d \in 0..Fine : n % Ten[Fine - d] = 0}
<1>1. Fine \in S
    BY AmountsAssumption, TenType
<1>2. S \in SUBSET Nat
    OBVIOUS
<1>3. Decimals(n) = Min(S)
    BY DEF Decimals
<1>4. Min(S) \in S /\ \A d \in S : Min(S) <= d
  <2> HIDE DEF S
  <2> QED
      BY <1>1, <1>2, MinOfNats
<1> QED
    BY <1>3, <1>4

LEMMA FittingIsOnScale == ASSUME NEW n \in Int, Fits(n) PROVE OnScale(n)
<1> DEFINE m == Magnitude(n)
           d == Decimals(m)
           t == Ten[Fine - d]
<1>1. m \in Nat /\ n = SignOf(n) * m /\ SignOf(n) \in Int
    BY DEF Magnitude, SignOf
<1>2. d \in 0..Places /\ m % t = 0
  <2>1. d <= Places
      BY DEF Fits
  <2> QED
      BY <1>1, <2>1, DecimalsType, AmountsAssumption
<1>3. PICK k \in Nat \ {0} : t = k * Scale
  <2>1. Fine - d = (Fine - Places) + (Places - d) /\ Places - d \in Nat
      BY <1>2, AmountsAssumption
  <2> QED
      BY <2>1, ScaleType, TenDivides DEF Scale
<1>4. t \in Nat \ {0}
    BY <1>2, TenType, AmountsAssumption
<1> HIDE DEF m, d, t
<1>5. m = (m \div t) * t /\ m \div t \in Nat
    BY <1>1, <1>2, <1>4
<1>6. n = (SignOf(n) * (m \div t) * k) * Scale
  <2> DEFINE q == m \div t
  <2> HIDE DEF q
  <2>1. n = SignOf(n) * (q * (k * Scale)) /\ q \in Nat
      BY <1>1, <1>3, <1>5 DEF q
  <2>2. n = (SignOf(n) * q * k) * Scale
      BY <1>1, <2>1, ScaleType
  <2> QED
      BY <2>2 DEF q
<1>7. SignOf(n) * (m \div t) * k \in Int
    BY <1>1, <1>5
<1> QED
    BY <1>6, <1>7 DEF OnScale

LEMMA StoredFits ==
    ASSUME NEW n \in Int, n > 0, ~Overflows(n)
    PROVE  Fits(Stored(n)) /\ Fits(Stored(-n))
<1>1. Stored(n) \in Nat /\ Stored(-n) = -Stored(n) /\ OnScale(Stored(n))
    BY StoredOnScale
<1>2. Magnitude(Stored(n)) = Stored(n) /\ Magnitude(Stored(-n)) = Stored(n)
    BY <1>1 DEF Magnitude
<1>3. Decimals(Stored(n)) <= Places
  <2>1. PICK m \in Nat : Stored(n) = m * Scale
      BY <1>1, <1>2, MagnitudeOnScale
  <2>2. Stored(n) % Ten[Fine - Places] = 0
      BY <2>1, ScaleType, DivisionOfMultiple DEF Scale
  <2> QED
      BY <1>1, <2>2, DecimalsType, AmountsAssumption
<1>4. Whole(Stored(n)) <= MaxDigits - Places
  <2>1. Stored(n) \div Ten[Fine] \in Nat
    <3>1. Fine \in Nat
        BY AmountsAssumption
    <3>2. Ten[Fine] \in Nat \ {0}
        BY <3>1, TenType
    <3>3. \A k \in Nat, t \in Nat \ {0} : k \div t \in Nat
        OBVIOUS
    <3> QED
        BY <1>1, <3>2, <3>3
  <2>2. Whole(Stored(n)) \in Nat
      BY <2>1, LengthType DEF Whole
  <2> QED
      BY <1>2, <2>2, AmountsAssumption DEF Overflows
<1> QED
    BY <1>2, <1>3, <1>4 DEF Fits

-----------------------------------------------------------------------------
(* Sums over finite sets.                                                   *)
Summable(f, S) == IsFiniteSet(S) /\ \A x \in S : f[x] \in Int

Next1(T) == CHOOSE x \in T : TRUE

IsFold(e, f, S) ==
    e = [T \in SUBSET S |->
           IF T = {} THEN 0 ELSE f[Next1(T)] + e[T \ {Next1(T)}]]
Fold(f, S) == CHOOSE e : IsFold(e, f, S)

LEMMA SumIsFold == ASSUME NEW f, NEW S PROVE SumFunctionOnSet(f, S) = Fold(f, S)[S]
    BY DEF SumFunctionOnSet, FoldFunctionOnSet, MapThenFoldSet, Fold, IsFold, Next1

LEMMA FoldExists == ASSUME NEW f, NEW S, Summable(f, S) PROVE IsFold(Fold(f, S), f, S)
<1> DEFINE R == StrictSubsetOrdering(S)
           h == [T \in SUBSET S |-> T \ {Next1(T)}]
           g == [p \in (SUBSET S) \X Int |->
                   IF p[1] = {} THEN 0 ELSE f[Next1(p[1])] + p[2]]
<1>1. \A T \in SUBSET S : T # {} => Next1(T) \in T
    BY DEF Next1
<1>2. PICK e \in [SUBSET S -> Int] : Recursion(e, SUBSET S, {{}}, 0, g, h)
  <2>1. IsWellFoundedOn(R, SUBSET S)
    <3>1. FiniteSubsetsOf(S) = SUBSET S
        BY FS_FiniteSubsetsOfFinite DEF Summable
    <3> QED
        BY <3>1, FS_StrictSubsetOrderingWellFounded
  <2>2. Descends(h, SUBSET S, {{}}, R)
    <3>1. ASSUME NEW T \in SUBSET S, T # {}
          PROVE  h[T] \in SUBSET S /\ <<h[T], T>> \in R
        BY <1>1, <3>1 DEF StrictSubsetOrdering
    <3> HIDE DEF h, R
    <3> QED
        BY <3>1 DEF Descends
  <2> DEFINE V == Int
             zero == 0
  <2>3. zero \in V /\ Steps(g, SUBSET S, V)
    <3>1. ASSUME NEW T \in SUBSET S, NEW v \in Int PROVE g[<<T, v>>] \in Int
        BY <1>1 DEF Summable
    <3> HIDE DEF g
    <3> QED
        BY <3>1 DEF Steps
  <2>4. \E e \in [SUBSET S -> V] : Recursion(e, SUBSET S, {{}}, zero, g, h)
    <3> HIDE DEF h, g, R, V, zero
    <3> QED
        BY <2>1, <2>2, <2>3, RecursionExists
  <2> QED
      BY <2>4
<1>3. IsFold(e, f, S)
  <2>1. ASSUME NEW T \in SUBSET S
        PROVE  e[T] = IF T = {} THEN 0 ELSE f[Next1(T)] + e[T \ {Next1(T)}]
    <3>1. e[T] = IF T = {} THEN 0 ELSE g[<<T, e[h[T]]>>]
        BY <1>2 DEF Recursion
    <3>2. h[T] = T \ {Next1(T)} /\ e[h[T]] \in Int
        OBVIOUS
    <3> QED
        BY <3>1, <3>2
  <2> QED
      BY <2>1 DEF IsFold
<1> QED
    BY <1>3 DEF Fold

(* A sum takes out one element, and what is left is summed.                 *)
LEMMA SumUnfolds ==
    ASSUME NEW f, NEW S, Summable(f, S)
    PROVE  /\ S = {} => SumFunctionOnSet(f, S) = 0
           /\ S # {} => /\ Next1(S) \in S
                        /\ SumFunctionOnSet(f, S)
                             = f[Next1(S)] + SumFunctionOnSet(f, S \ {Next1(S)})
<1>1. IsFold(Fold(f, S), f, S)
    BY FoldExists
<1>2. CASE S = {}
    BY <1>1, <1>2, SumIsFold DEF IsFold
<1>3. CASE S # {}
  <2> DEFINE U == S \ {Next1(S)}
             P == {T \in SUBSET U : Fold(f, S)[T] = Fold(f, U)[T]}
  <2>1. Next1(S) \in S
      BY <1>3 DEF Next1
  <2>2. Summable(f, U)
      BY FS_Subset DEF Summable
  <2>3. IsFold(Fold(f, U), f, U)
      BY <2>2, FoldExists
  <2>4. ASSUME NEW T \in SUBSET U, \A x \in T : T \ {x} \in P
        PROVE  T \in P
    <3>1. CASE T = {}
        BY <1>1, <2>3, <3>1 DEF IsFold
    <3>2. CASE T # {}
      <4>1. Next1(T) \in T
          BY <3>2 DEF Next1
      <4>2. T \ {Next1(T)} \in P
          BY <2>4, <4>1
      <4>3. Fold(f, S)[T] = f[Next1(T)] + Fold(f, S)[T \ {Next1(T)}]
          BY <1>1, <3>2 DEF IsFold
      <4>4. Fold(f, U)[T] = f[Next1(T)] + Fold(f, U)[T \ {Next1(T)}]
          BY <2>3, <3>2 DEF IsFold
      <4> QED
          BY <4>2, <4>3, <4>4
    <3> QED
        BY <3>1, <3>2
  <2>5. U \in P
    <3>1. IsFiniteSet(U)
        BY <2>2 DEF Summable
    <3> HIDE DEF P, U
    <3> QED
        BY <2>4, <3>1, SetInduction
  <2>6. Fold(f, S)[S] = f[Next1(S)] + Fold(f, S)[U]
      BY <1>1, <1>3 DEF IsFold
  <2> QED
      BY <1>3, <2>1, <2>5, <2>6, SumIsFold
<1> QED
    BY <1>2, <1>3

LEMMA SumType ==
    ASSUME NEW f, NEW S, Summable(f, S)
    PROVE  SumFunctionOnSet(f, S) \in Int
<1> DEFINE P == {T \in SUBSET S : SumFunctionOnSet(f, T) \in Int}
<1>1. ASSUME NEW T \in SUBSET S, \A x \in T : T \ {x} \in P
      PROVE  T \in P
  <2>1. Summable(f, T)
      BY FS_Subset DEF Summable
  <2>2. CASE T = {}
    <3>1. SumFunctionOnSet(f, T) = 0
        BY <2>1, <2>2, SumUnfolds
    <3> QED
        BY <3>1
  <2>3. CASE T # {}
    <3>1. Next1(T) \in T
        BY <2>3 DEF Next1
    <3>2. SumFunctionOnSet(f, T) = f[Next1(T)] + SumFunctionOnSet(f, T \ {Next1(T)})
        BY <2>1, <2>3, SumUnfolds
    <3>3. SumFunctionOnSet(f, T \ {Next1(T)}) \in Int
        BY <1>1, <3>1
    <3> QED
        BY <3>1, <3>2, <3>3 DEF Summable
  <2> QED
      BY <2>2, <2>3
<1>2. S \in P
  <2>1. IsFiniteSet(S)
      BY DEF Summable
  <2> HIDE DEF P
  <2> QED
      BY <1>1, <2>1, SetInduction
<1> QED
    BY <1>2

(* Any element can be the one that is taken out.                            *)
LEMMA SumRemovesElement ==
    ASSUME NEW f, NEW S, Summable(f, S), NEW x \in S
    PROVE  SumFunctionOnSet(f, S) = f[x] + SumFunctionOnSet(f, S \ {x})
<1> DEFINE sum(T) == SumFunctionOnSet(f, T)
           P == {T \in SUBSET S : \A y \in T : sum(T) = f[y] + sum(T \ {y})}
<1>1. \A T \in SUBSET S : Summable(f, T) /\ sum(T) \in Int
    BY FS_Subset, SumType DEF Summable
<1>2. ASSUME NEW T \in SUBSET S, \A y \in T : T \ {y} \in P
      PROVE  T \in P
  <2>1. ASSUME NEW y \in T PROVE sum(T) = f[y] + sum(T \ {y})
    <3> DEFINE c == Next1(T)
    <3>1. c \in T /\ sum(T) = f[c] + sum(T \ {c})
        BY <1>1, SumUnfolds
    <3>2. CASE y = c
        BY <3>1, <3>2
    <3>3. CASE y # c
      <4> DEFINE rest == (T \ {c}) \ {y}
      <4> HIDE DEF c, sum
      <4>1. sum(T \ {c}) = f[y] + sum(rest)
          BY <1>2, <3>1, <3>3
      <4>2. sum(T \ {y}) = f[c] + sum(rest)
        <5>1. rest = (T \ {y}) \ {c}
            OBVIOUS
        <5> HIDE DEF rest
        <5> QED
            BY <1>2, <3>1, <3>3, <5>1
      <4>3. f[c] \in Int /\ f[y] \in Int /\ sum(rest) \in Int
          BY <1>1, <3>1 DEF Summable
      <4> HIDE DEF rest, P
      <4> QED
          BY <3>1, <4>1, <4>2, <4>3
    <3> QED
        BY <3>2, <3>3
  <2> QED
      BY <2>1
<1>3. S \in P
  <2>1. IsFiniteSet(S)
      BY DEF Summable
  <2> HIDE DEF P
  <2> QED
      BY <1>2, <2>1, SetInduction
<1> QED
    BY <1>3

LEMMA SumOfDisjoint ==
    ASSUME NEW f, NEW S, NEW T, Summable(f, S), Summable(f, T), S \cap T = {}
    PROVE  SumFunctionOnSet(f, S \cup T) = SumFunctionOnSet(f, S) + SumFunctionOnSet(f, T)
<1> DEFINE sum(U) == SumFunctionOnSet(f, U)
           P == {U \in SUBSET T : sum(S \cup U) = sum(S) + sum(U)}
<1>1. \A U \in SUBSET T : Summable(f, U) /\ Summable(f, S \cup U)
  <2> SUFFICES ASSUME NEW U \in SUBSET T PROVE Summable(f, U) /\ Summable(f, S \cup U)
      OBVIOUS
  <2>1. IsFiniteSet(U)
      BY FS_Subset DEF Summable
  <2>2. IsFiniteSet(S \cup U)
      BY <2>1, FS_Union DEF Summable
  <2> QED
      BY <2>1, <2>2 DEF Summable
<1>2. ASSUME NEW U \in SUBSET T, \A x \in U : U \ {x} \in P
      PROVE  U \in P
  <2>1. CASE U = {}
    <3>1. sum(U) = 0 /\ sum(S) \in Int
        BY <1>1, <2>1, SumUnfolds, SumType
    <3>2. S \cup U = S
        BY <2>1
    <3> HIDE DEF sum
    <3>3. sum(S \cup U) = sum(S) + sum(U)
        BY <3>1, <3>2
    <3> QED
        BY <3>3
  <2>2. CASE U # {}
    <3>1. PICK x \in U : TRUE
        BY <2>2
    <3>2. sum(U) = f[x] + sum(U \ {x})
      <4>1. Summable(f, U)
          BY <1>1
      <4> QED
          BY <4>1, SumRemovesElement
    <3>3. sum(S \cup U) = f[x] + sum((S \cup U) \ {x})
      <4>1. x \in S \cup U
          OBVIOUS
      <4> QED
          BY <1>1, <4>1, SumRemovesElement
    <3>4. (S \cup U) \ {x} = S \cup (U \ {x})
        OBVIOUS
    <3>5. sum(S \cup (U \ {x})) = sum(S) + sum(U \ {x})
        BY <1>2
    <3>6. sum(S) \in Int /\ sum(U \ {x}) \in Int /\ f[x] \in Int
      <4>1. Summable(f, U \ {x})
          BY <1>1
      <4> QED
          BY <4>1, SumType DEF Summable
    <3> HIDE DEF sum, P
    <3>7. sum(S \cup U) = f[x] + (sum(S) + sum(U \ {x}))
        BY <3>3, <3>4, <3>5
    <3>8. sum(S \cup U) = sum(S) + sum(U)
        BY <3>2, <3>6, <3>7
    <3> QED
        BY <3>8 DEF P
  <2> QED
      BY <2>1, <2>2
<1>3. T \in P
  <2>1. IsFiniteSet(T)
      BY DEF Summable
  <2> HIDE DEF P
  <2> QED
      BY <1>2, <2>1, SetInduction
<1> QED
    BY <1>3

LEMMA SumOnScale ==
    ASSUME NEW f, NEW S, IsFiniteSet(S), \A x \in S : OnScale(f[x])
    PROVE  OnScale(SumFunctionOnSet(f, S))
<1> DEFINE sum(T) == SumFunctionOnSet(f, T)
           P == {T \in SUBSET S : OnScale(sum(T))}
<1>1. \A T \in SUBSET S : Summable(f, T)
    BY FS_Subset, OnScaleFacts DEF Summable
<1>2. ASSUME NEW T \in SUBSET S, \A x \in T : T \ {x} \in P
      PROVE  T \in P
  <2>1. CASE T = {}
    <3>1. sum(T) = 0
        BY <1>1, <2>1, SumUnfolds
    <3> QED
        BY <3>1, OnScaleFacts
  <2>2. CASE T # {}
    <3>1. PICK x \in T : TRUE
        BY <2>2
    <3>2. sum(T) = f[x] + sum(T \ {x})
        BY <1>1, SumRemovesElement
    <3>3. OnScale(sum(T \ {x})) /\ OnScale(f[x])
        BY <1>2
    <3>4. OnScale(f[x] + sum(T \ {x}))
        BY <3>3, OnScaleFacts
    <3> QED
        BY <3>2, <3>4
  <2> QED
      BY <2>1, <2>2
<1>3. S \in P
  <2> HIDE DEF P
  <2> QED
      BY <1>2, SetInduction
<1> QED
    BY <1>3

(* A sum split by a key: e[g] is, but for the sign, the sum over the part S *)
(* of key g, so the e[g] add up to the sum over S.                          *)
LEMMA SumOfGroups ==
    ASSUME NEW f, NEW S, Summable(f, S), NEW key, NEW G, IsFiniteSet(G),
           \A i \in S : key[i] \in G,
           NEW e, \A g \in G : e[g] = -SumFunctionOnSet(f, {i \in S : key[i] = g})
    PROVE  SumFunctionOnSet(e, G) = -SumFunctionOnSet(f, S)
<1> DEFINE part(H) == {i \in S : key[i] \in H}
           P == {H \in SUBSET G :
                   SumFunctionOnSet(e, H) = -SumFunctionOnSet(f, part(H))}
<1>1. \A T \in SUBSET S : Summable(f, T) /\ SumFunctionOnSet(f, T) \in Int
    BY FS_Subset, SumType DEF Summable
<1>2. \A g \in G : {i \in S : key[i] = g} \in SUBSET S
    OBVIOUS
<1>3. \A H \in SUBSET G : Summable(e, H)
  <2>1. ASSUME NEW g \in G PROVE e[g] \in Int
    <3> DEFINE own == {i \in S : key[i] = g}
    <3>1. e[g] = -SumFunctionOnSet(f, own) /\ own \in SUBSET S
        OBVIOUS
    <3> HIDE DEF own
    <3> QED
        BY <1>1, <3>1
  <2> QED
      BY <2>1, FS_Subset DEF Summable
<1>4. ASSUME NEW H \in SUBSET G, \A g \in H : H \ {g} \in P
      PROVE  H \in P
  <2>1. CASE H = {}
    <3>1. SumFunctionOnSet(e, H) = 0
        BY <1>3, <2>1, SumUnfolds
    <3>2. part(H) = {}
        BY <2>1
    <3>3. SumFunctionOnSet(f, part(H)) = 0
        BY <1>1, <3>2, SumUnfolds
    <3>4. \A m, n \in Int : m + n = 0 => m = -n
        OBVIOUS
    <3>5. SumFunctionOnSet(f, part(H)) \in Int
        BY <1>1, <3>2
    <3> HIDE DEF part, P
    <3>6. SumFunctionOnSet(e, H) = -SumFunctionOnSet(f, part(H))
      <4> DEFINE m == SumFunctionOnSet(e, H)
                 n == SumFunctionOnSet(f, part(H))
      <4>1. m \in Int /\ n \in Int /\ m + n = 0
          BY <3>1, <3>3, <3>5
      <4> HIDE DEF m, n
      <4>2. m = -n
          BY <3>4, <4>1
      <4> QED
          BY <4>2 DEF m, n
    <3> QED
        BY <3>6 DEF P
  <2>2. CASE H # {}
    <3>1. PICK g \in H : TRUE
        BY <2>2
    <3> DEFINE own == {i \in S : key[i] = g}
               others == part(H \ {g})
    <3>2. SumFunctionOnSet(e, H) = e[g] + SumFunctionOnSet(e, H \ {g})
        BY <1>3, SumRemovesElement
    <3>3. e[g] = -SumFunctionOnSet(f, own)
        OBVIOUS
    <3>4. SumFunctionOnSet(e, H \ {g}) = -SumFunctionOnSet(f, others)
        BY <1>4
    <3>5. part(H) = own \cup others /\ own \cap others = {}
        OBVIOUS
    <3>6. own \in SUBSET S /\ others \in SUBSET S
        OBVIOUS
    <3> HIDE DEF part, own, others
    <3>7. SumFunctionOnSet(f, part(H))
            = SumFunctionOnSet(f, own) + SumFunctionOnSet(f, others)
        BY <1>1, <3>5, <3>6, SumOfDisjoint
    <3>8. SumFunctionOnSet(e, H) = -SumFunctionOnSet(f, part(H))
        BY <1>1, <3>2, <3>3, <3>4, <3>6, <3>7
    <3> QED
        BY <3>8
  <2> QED
      BY <2>1, <2>2
<1>5. G \in P
  <2> HIDE DEF P
  <2> QED
      BY <1>4, SetInduction
<1>6. part(G) = S
    OBVIOUS
<1> QED
    BY <1>5, <1>6

-----------------------------------------------------------------------------
(* The summary of one view of the ledger.                                   *)
Kind == {"income", "expense", "transfer"}

GoodView(v) ==
    /\ IsFiniteSet(DOMAIN v.rows)
    /\ \A i \in DOMAIN v.rows : /\ v.rows[i].account \in Accounts
                                /\ v.rows[i].kind \in Kind
                                /\ OnScale(v.rows[i].amount)
    /\ v.unit \in [Accounts -> Units]

LEMMA TotalType ==
    ASSUME NEW v, GoodView(v), NEW S \in SUBSET DOMAIN v.rows
    PROVE  /\ IsFiniteSet(S)
           /\ Summable([i \in DOMAIN v.rows |-> v.rows[i].amount], S)
           /\ Total(v, S) \in Int
           /\ OnScale(Total(v, S)) /\ OnScale(-Total(v, S))
           /\ S = {} => Total(v, S) = 0
<1> DEFINE f == [i \in DOMAIN v.rows |-> v.rows[i].amount]
<1>1. IsFiniteSet(S)
    BY FS_Subset DEF GoodView
<1>2. \A i \in S : OnScale(f[i]) /\ f[i] \in Int
    BY OnScaleFacts DEF GoodView
<1>3. Summable(f, S)
    BY <1>1, <1>2 DEF Summable
<1>4. OnScale(SumFunctionOnSet(f, S))
  <2> HIDE DEF f
  <2> QED
      BY <1>1, <1>2, SumOnScale
<1>5. S = {} => SumFunctionOnSet(f, S) = 0
    BY <1>3, SumUnfolds
<1> QED
    BY <1>1, <1>3, <1>4, <1>5, OnScaleFacts DEF Total

LEMMA TotalOfDisjoint ==
    ASSUME NEW v, GoodView(v),
           NEW S \in SUBSET DOMAIN v.rows, NEW T \in SUBSET DOMAIN v.rows, S \cap T = {}
    PROVE  Total(v, S \cup T) = Total(v, S) + Total(v, T)
    BY TotalType, SumOfDisjoint DEF Total

(* What the summary tells of a unit n, in terms of the rows behind it. *)
Counted(v, u, p, kind, n) ==
    {i \in _owned_and_within_period(v, u, p) :
        v.rows[i].kind = kind /\ UnitOf(v, i) = n}

LEMMA BalanceIsTotal ==
    ASSUME NEW v, GoodView(v), NEW u,
           NEW n \in DOMAIN get_balances_per_unit(v, u)
    PROVE  get_balances_per_unit(v, u)[n]
             = Total(v, {i \in Of(v, u) : UnitOf(v, i) = n})
<1> DEFINE S == {i \in Of(v, u) : UnitOf(v, i) = n}
<1>1. S \in SUBSET DOMAIN v.rows
    BY DEF Of
<1>2. Shown(Total(v, S)) = Total(v, S)
    BY <1>1, TotalType, ShownIsExact
<1> QED
    BY <1>2 DEF get_balances_per_unit

LEMMA FlowIsTotal ==
    ASSUME NEW v, GoodView(v), NEW u, NEW p, NEW kind \in {"income", "expense"},
           NEW n
    PROVE  LET flow == Flow(v, u, p, kind)
               S == Counted(v, u, p, kind, n)
           IN  /\ n \in DOMAIN flow => flow[n] = Signed(Total(v, S), kind)
               /\ n \notin DOMAIN flow => S = {}
<1> DEFINE S == {i \in _owned_and_within_period(v, u, p) : v.rows[i].kind = kind}
           flow == Flow(v, u, p, kind)
           C == Counted(v, u, p, kind, n)
<1>1. /\ DOMAIN flow = {UnitOf(v, i) : i \in S}
      /\ \A m \in DOMAIN flow :
            flow[m] = Shown(Signed(Total(v, {i \in S : UnitOf(v, i) = m}), kind))
    BY DEF Flow
<1>2. C = {i \in S : UnitOf(v, i) = n}
    BY DEF Counted
<1>3. n \notin DOMAIN flow => C = {}
    BY <1>1, <1>2
<1>4. ASSUME n \in DOMAIN flow PROVE flow[n] = Signed(Total(v, C), kind)
  <2>1. flow[n] = Shown(Signed(Total(v, C), kind))
      BY <1>1, <1>2, <1>4
  <2>2. C \in SUBSET DOMAIN v.rows
      BY DEF Counted, _owned_and_within_period, Of
  <2>3. OnScale(Signed(Total(v, C), kind))
      BY <2>2, TotalType DEF Signed
  <2> QED
      BY <2>1, <2>3, ShownIsExact
<1> QED
    BY <1>3, <1>4

LEMMA CategoriesAddUp ==
    ASSUME NEW v, GoodView(v), NEW u, NEW p, NEW n
    PROVE  LET by_category == get_expenses_by_category(v, u, p)
           IN  SumFunctionOnSet(by_category, {g \in DOMAIN by_category : g[2] = n})
                 = -Total(v, Counted(v, u, p, "expense", n))
<1> DEFINE e == get_expenses_by_category(v, u, p)
           f == [i \in DOMAIN v.rows |-> v.rows[i].amount]
           S == {i \in _owned_and_within_period(v, u, p) : v.rows[i].kind = "expense"}
           C == Counted(v, u, p, "expense", n)
           group(i) == <<v.rows[i].category, UnitOf(v, i)>>
           key == [i \in S |-> group(i)]
           G == {g \in DOMAIN e : g[2] = n}
<1>1. /\ DOMAIN e = {group(i) : i \in S}
      /\ \A g \in DOMAIN e : e[g] = Shown(-Total(v, {i \in S : group(i) = g}))
    BY DEF get_expenses_by_category
<1>2. S \in SUBSET DOMAIN v.rows /\ C \in SUBSET S
    BY DEF Counted, _owned_and_within_period, Of
<1>3. IsFiniteSet(G)
  <2>1. key \in Surjection(S, DOMAIN e)
      BY <1>1 DEF Surjection
  <2>2. IsFiniteSet(S)
      BY <1>2, TotalType
  <2>3. IsFiniteSet(DOMAIN e)
    <3> HIDE DEF S, e, key
    <3> QED
        BY <2>1, <2>2, FS_Surjection
  <2> QED
      BY <2>3, FS_Subset
<1>4. \A i \in C : key[i] \in G
    BY <1>1, <1>2 DEF Counted
<1>5. ASSUME NEW g \in G PROVE e[g] = -SumFunctionOnSet(f, {i \in C : key[i] = g})
  <2>1. {i \in C : key[i] = g} = {i \in S : group(i) = g}
      BY <1>2 DEF Counted
  <2>2. {i \in S : group(i) = g} \in SUBSET DOMAIN v.rows
      BY <1>2
  <2>3. e[g] = -Total(v, {i \in S : group(i) = g})
      BY <1>1, <2>2, TotalType, ShownIsExact
  <2> QED
      BY <2>1, <2>3 DEF Total
<1>6. Summable(f, C)
    BY <1>2, TotalType
<1>7. SumFunctionOnSet(e, G) = -SumFunctionOnSet(f, C)
  <2> HIDE DEF e, f, C, key, G
  <2> QED
      BY <1>3, <1>4, <1>5, <1>6, SumOfGroups
<1> QED
    BY <1>7 DEF Total

-----------------------------------------------------------------------------
(* The inductive invariant.  A row holds what the column made of the amount  *)
(* asked for, which the schema accepted.                                     *)
GoodRow(r) ==
    /\ r.account \in Accounts /\ r.kind \in Kind
    /\ r.at \in Int /\ r.asked \in Int /\ Writable(r.asked)
    /\ r.amount \in {Stored(r.asked), Stored(-r.asked)}
    /\ OnScale(r.amount) /\ Fits(r.amount)

RowsInv ==
    /\ DOMAIN rows \subseteq used /\ used \subseteq Ids
    /\ \A i \in DOMAIN rows : GoodRow(rows[i])
    /\ unit \in [Accounts -> Units]

(* What a summary has read so far is all of its snapshot, whose rows and     *)
(* units were once those of the ledger.                                      *)
SummaryFields == {"phase", "commits", "user", "period", "snapshot", "totals",
                  "income", "expenses", "by_category"}

Summing == reader.phase \in {"totals", "flows", "answered"}

SummaryInv ==
    Summing =>
       /\ SummaryFields \subseteq DOMAIN reader
       /\ GoodView(reader.snapshot)
       /\ reader.totals = get_balances_per_unit(reader.snapshot, reader.user)
       /\ reader.phase # "totals" =>
             /\ reader.income = Flow(reader.snapshot, reader.user, reader.period, "income")
             /\ reader.expenses = Flow(reader.snapshot, reader.user, reader.period, "expense")
       /\ reader.phase = "answered" =>
             reader.by_category
                = get_expenses_by_category(reader.snapshot, reader.user, reader.period)

(* The place of a row in the order of the pages: a commit that only adds     *)
(* rows never brings it forward.                                             *)
Matched == Matching(reader.user, reader.period)
Rank(i) == Cardinality({j \in Matched : Before(j, i)})

WalkFields == {"phase", "commits", "user", "period", "limit", "total", "seen",
               "steady", "lost"}

NoneMissed ==
    ~reader.lost =>
       /\ reader.steady \subseteq Matched
       /\ \A i \in reader.steady :
             i \in Range(reader.seen) \/ Rank(i) >= Len(reader.seen)

SeenInOrder ==
    reader.commits = 0 =>
       /\ ~reader.lost /\ reader.steady = Matched
       /\ \A a \in 1..Len(reader.seen) :
             reader.seen[a] \in Matched /\ Rank(reader.seen[a]) = a - 1
       /\ reader.phase = "counted" => reader.total = Cardinality(Matched)

WalkInv ==
    Walking =>
       /\ WalkFields \subseteq DOMAIN reader
       /\ reader.seen \in Seq(used)
       /\ reader.commits \in Nat /\ reader.lost \in BOOLEAN
       /\ reader.limit \in Nat \ {0}
       /\ NoneMissed
       /\ SeenInOrder

DoneInv == reader.phase = "done" => Range(reader.seen) \subseteq used

Phases == {"idle", "totals", "flows", "answered", "asking", "counted", "done"}

Inv ==
    /\ RowsInv
    /\ reader.phase \in Phases
    /\ SummaryInv
    /\ WalkInv
    /\ DoneInv
    /\ WalksMissOnlyWhatMoves

LEMMA GoodRows ==
    ASSUME NEW account \in Accounts, NEW kind \in Kind, NEW category, NEW at \in Int,
           NEW asked \in Int, Writable(asked), NEW amount \in {asked, -asked}, NEW group
    PROVE  GoodRow(Row(account, kind, category, at, amount, asked, group))
<1> DEFINE r == Row(account, kind, category, at, amount, asked, group)
<1>1. /\ r.account \in Accounts /\ r.kind \in Kind /\ r.at \in Int
      /\ r.asked = asked /\ r.amount = Stored(amount)
    BY DEF Row
<1>2. asked > 0 /\ ~Overflows(asked) /\ amount \in Int
    BY DEF Writable, Accepts
<1>3. Fits(Stored(amount))
    BY <1>2, StoredFits
<1>4. OnScale(Stored(amount))
    BY <1>2, StoredOnScale
<1>5. r.amount \in {Stored(r.asked), Stored(-r.asked)}
    BY <1>1
<1> HIDE DEF r
<1>6. Fits(r.amount) /\ OnScale(r.amount) /\ Writable(r.asked)
    BY <1>1, <1>3, <1>4
<1>7. GoodRow(r)
    BY <1>1, <1>5, <1>6 DEF GoodRow
<1> QED
    BY <1>7 DEF r

LEMMA GoodDrafts ==
    ASSUME NEW d \in Drafts, Writable(d.amount)
    PROVE  GoodRow(Drafted(d))
<1>1. /\ d.account \in Accounts /\ d.kind \in {"income", "expense"}
      /\ d.amount \in Int /\ d.at \in Int
    BY ReportsAssumption
<1>2. Signed(d.amount, d.kind) \in {d.amount, -d.amount} /\ d.kind \in Kind
    BY <1>1 DEF Signed, Kind
<1> QED
    BY <1>1, <1>2, GoodRows DEF Drafted

(* A row that takes an amount away, or adds one.                             *)
LEMMA GoodLeg ==
    ASSUME NEW account \in Accounts, NEW kind \in Kind, NEW category, NEW at \in Int,
           NEW asked \in Int, Writable(asked), NEW group
    PROVE  /\ GoodRow(Row(account, kind, category, at, asked, asked, group))
           /\ GoodRow(Row(account, kind, category, at, -asked, asked, group))
<1>1. asked \in {asked, -asked} /\ -asked \in {asked, -asked}
    OBVIOUS
<1>2. GoodRow(Row(account, kind, category, at, asked, asked, group))
    BY <1>1, GoodRows
<1> DEFINE minus == -asked
<1>3. minus \in {asked, -asked}
    OBVIOUS
<1> HIDE DEF minus
<1>4. GoodRow(Row(account, kind, category, at, minus, asked, group))
    BY <1>3, GoodRows
<1> QED
    BY <1>2, <1>4 DEF minus

LEMMA GoodLegs ==
    ASSUME NEW t \in Transfers, Writable(t.sent), Writable(t.received),
           t.fee # 0 => Writable(t.fee), NEW group
    PROVE  /\ DOMAIN Legs(t, group) = DOMAIN Legs(t, 0)
           /\ \A n \in DOMAIN Legs(t, group) : GoodRow(Legs(t, group)[n])
<1> DEFINE from == Row(t.from, "transfer", "none", t.at, -t.sent, t.sent, group)
           to == Row(t.to, "transfer", "none", t.at, t.received, t.received, group)
           fee == Row(t.payer, "expense", "fees", t.at, -t.fee, t.fee, group)
<1>1. /\ t.from \in Accounts /\ t.to \in Accounts
      /\ t.sent \in Int /\ t.received \in Int /\ t.fee \in Int /\ t.at \in Int
      /\ t.fee # 0 => t.payer \in Accounts
    BY ReportsAssumption
<1>2. "transfer" \in Kind /\ "expense" \in Kind
    BY DEF Kind
<1>3. GoodRow(from) /\ GoodRow(to)
    BY <1>1, <1>2, GoodLeg
<1>4. t.fee # 0 => GoodRow(fee)
    BY <1>1, <1>2, GoodLeg
<1>5. DOMAIN Legs(t, group) = DOMAIN Legs(t, 0)
    BY DEF Legs
<1>6. ASSUME NEW n \in DOMAIN Legs(t, group) PROVE GoodRow(Legs(t, group)[n])
  <2>1. CASE t.fee = 0
    <3>1. Legs(t, group) = <<from, to>>
        BY <2>1 DEF Legs
    <3> HIDE DEF from, to
    <3> QED
        BY <1>3, <1>6, <3>1
  <2>2. CASE t.fee # 0
    <3>1. Legs(t, group) = <<from, to>> \o <<fee>>
        BY <2>2 DEF Legs
    <3> HIDE DEF from, to, fee
    <3>2. <<from, to>> \o <<fee>> \in Seq({from, to, fee})
        OBVIOUS
    <3>3. Legs(t, group)[n] \in {from, to, fee}
        BY <1>6, <3>1, <3>2
    <3> QED
        BY <1>3, <1>4, <2>2, <3>3
  <2> QED
      BY <2>1, <2>2
<1> QED
    BY <1>5, <1>6

(* A commit adds rows, or touches some that were there.                      *)
Commits(touched) ==
    /\ touched \subseteq DOMAIN rows
    /\ used \subseteq used'
    /\ \A i \in DOMAIN rows \ touched : i \in DOMAIN rows' /\ rows'[i] = rows[i]
    /\ Disturb(touched)

LEMMA InsertStep ==
    ASSUME RowsInv, NEW new, DOMAIN new \subseteq Ids \ used,
           \A i \in DOMAIN new : GoodRow(new[i]), Insert(new)
    PROVE  RowsInv' /\ \E touched : Commits(touched)
<1>1. /\ DOMAIN rows' = DOMAIN rows \cup DOMAIN new
      /\ \A i \in DOMAIN rows' : rows'[i] = IF i \in DOMAIN new THEN new[i] ELSE rows[i]
      /\ used' = used \cup DOMAIN new /\ unit' = unit /\ Disturb({})
    BY DEF Insert
<1>2. DOMAIN rows' \subseteq used' /\ used' \subseteq Ids
    BY <1>1 DEF RowsInv
<1>3. \A i \in DOMAIN rows' : GoodRow(rows'[i])
    BY <1>1 DEF RowsInv
<1>4. RowsInv'
    BY <1>1, <1>2, <1>3 DEF RowsInv, GoodRow
<1>5. \A i \in DOMAIN rows : i \in DOMAIN rows' /\ rows'[i] = rows[i]
    BY <1>1 DEF RowsInv
<1>6. Commits({})
    BY <1>1, <1>5 DEF Commits
<1> QED
    BY <1>4, <1>6

LEMMA RecordTransactionStep ==
    ASSUME RowsInv, NEW d \in Drafts, RecordTransaction(d)
    PROVE  RowsInv' /\ \E touched : Commits(touched)
<1>1. PICK id \in Ids \ used : Insert([i \in {id} |-> Drafted(d)])
    BY DEF RecordTransaction
<1> DEFINE new == [i \in {id} |-> Drafted(d)]
<1>2. DOMAIN new = {id} /\ \A i \in DOMAIN new : new[i] = Drafted(d)
    OBVIOUS
<1>3. GoodRow(Drafted(d))
    BY GoodDrafts DEF RecordTransaction
<1>4. Insert(new)
    BY <1>1
<1> HIDE DEF new
<1> QED
    BY <1>2, <1>3, <1>4, InsertStep

LEMMA RecordTransferStep ==
    ASSUME RowsInv, NEW t \in Transfers, RecordTransfer(t)
    PROVE  RowsInv' /\ \E touched : Commits(touched)
<1>1. PICK ids \in [DOMAIN Legs(t, 0) -> Ids \ used] :
         LET legs == Legs(t, ids[1])
         IN  /\ Writable(t.sent) /\ Writable(t.received)
             /\ t.fee # 0 => Writable(t.fee)
             /\ Insert([i \in Range(ids) |-> legs[CHOOSE n \in DOMAIN ids : ids[n] = i]])
    BY DEF RecordTransfer
<1> DEFINE legs == Legs(t, ids[1])
           leg(i) == CHOOSE n \in DOMAIN ids : ids[n] = i
           new == [i \in Range(ids) |-> legs[leg(i)]]
<1>2. DOMAIN ids = DOMAIN legs /\ \A n \in DOMAIN legs : GoodRow(legs[n])
    BY <1>1, GoodLegs
<1>3. \A i \in Range(ids) : leg(i) \in DOMAIN ids
    BY DEF Range
<1>4. Range(ids) \subseteq Ids \ used
    BY DEF Range
<1>5. DOMAIN new = Range(ids) /\ \A i \in Range(ids) : GoodRow(new[i])
    BY <1>2, <1>3
<1>6. Insert(new)
    BY <1>1
<1> HIDE DEF new
<1> QED
    BY <1>4, <1>5, <1>6, InsertStep

LEMMA PatchTransactionStep ==
    ASSUME RowsInv, NEW d \in Drafts, NEW i \in Ids, PatchTransaction(i, d)
    PROVE  RowsInv' /\ \E touched : Commits(touched)
<1>1. /\ i \in DOMAIN rows /\ Writable(d.amount)
      /\ rows' = [rows EXCEPT ![i] = Drafted(d)]
      /\ Disturb({i}) /\ used' = used /\ unit' = unit
    BY DEF PatchTransaction
<1>2. /\ DOMAIN rows' = DOMAIN rows
      /\ \A j \in DOMAIN rows : rows'[j] = IF j = i THEN Drafted(d) ELSE rows[j]
    BY <1>1
<1>3. GoodRow(Drafted(d))
    BY <1>1, GoodDrafts
<1>4. \A j \in DOMAIN rows' : GoodRow(rows'[j])
    BY <1>2, <1>3 DEF RowsInv
<1>5. RowsInv'
    BY <1>1, <1>2, <1>4 DEF RowsInv, GoodRow
<1>6. Commits({i})
    BY <1>1, <1>2 DEF Commits
<1> QED
    BY <1>5, <1>6

LEMMA DeleteTransactionStep ==
    ASSUME RowsInv, NEW i \in Ids, DeleteTransaction(i)
    PROVE  RowsInv' /\ \E touched : Commits(touched)
<1> DEFINE gone == {j \in DOMAIN rows :
                      j = i \/ (rows[i].group # 0 /\ rows[j].group = rows[i].group)}
<1>1. /\ rows' = Restrict(rows, DOMAIN rows \ gone)
      /\ Disturb(gone) /\ used' = used /\ unit' = unit
    BY DEF DeleteTransaction
<1>2. gone \subseteq DOMAIN rows
    OBVIOUS
<1> HIDE DEF gone
<1>3. /\ DOMAIN rows' = DOMAIN rows \ gone
      /\ \A j \in DOMAIN rows' : rows'[j] = rows[j]
    BY <1>1 DEF Restrict
<1>4. \A j \in DOMAIN rows' : GoodRow(rows'[j])
    BY <1>3 DEF RowsInv
<1>5. RowsInv'
    BY <1>1, <1>3, <1>4 DEF RowsInv, GoodRow
<1>6. Commits(gone)
    BY <1>1, <1>2, <1>3 DEF Commits
<1> QED
    BY <1>5, <1>6

LEMMA PatchUnitStep ==
    ASSUME RowsInv, NEW a \in Accounts, NEW u \in Units, PatchUnit(a, u)
    PROVE  RowsInv' /\ \E touched : Commits(touched)
<1>1. /\ unit' = [unit EXCEPT ![a] = u] /\ rows' = rows /\ used' = used
      /\ Disturb({})
    BY DEF PatchUnit
<1>2. unit' \in [Accounts -> Units]
    BY <1>1 DEF RowsInv
<1>3. RowsInv'
    BY <1>1, <1>2 DEF RowsInv, GoodRow
<1>4. Commits({})
    BY <1>1 DEF Commits
<1> QED
    BY <1>3, <1>4

-----------------------------------------------------------------------------
(* The order of the pages.                                                   *)
LEMMA NowIsGood ==
    ASSUME RowsInv
    PROVE  GoodView(Now) /\ IsFiniteSet(DOMAIN rows) /\ DOMAIN rows \subseteq Nat
<1>1. IsFiniteSet(DOMAIN rows) /\ DOMAIN rows \subseteq Nat
    BY ReportsAssumption, FS_Subset DEF RowsInv
<1>2. Now.rows = rows /\ Now.unit = unit
    BY DEF Now
<1> QED
    BY <1>1, <1>2 DEF GoodView, RowsInv, GoodRow

LEMMA MatchedRows ==
    ASSUME RowsInv
    PROVE  /\ Matched = {i \in DOMAIN rows :
                           /\ Owner[rows[i].account] = reader.user
                           /\ reader.period.from <= rows[i].at
                           /\ rows[i].at < reader.period.to}
           /\ IsFiniteSet(Matched)
           /\ \A i : IsFiniteSet({j \in Matched : Before(j, i)}) /\ Rank(i) \in Nat
<1>1. Matched = {i \in DOMAIN rows :
                   /\ Owner[rows[i].account] = reader.user
                   /\ reader.period.from <= rows[i].at
                   /\ rows[i].at < reader.period.to}
    BY DEF Matched, Matching, _owned_and_within_period, Of, Now
<1>2. IsFiniteSet(Matched)
    BY <1>1, NowIsGood, FS_Subset
<1>3. ASSUME NEW i PROVE IsFiniteSet({j \in Matched : Before(j, i)}) /\ Rank(i) \in Nat
    BY <1>2, FS_Subset, FS_CardinalityType DEF Rank
<1> QED
    BY <1>1, <1>2, <1>3

(* The pages list every matching row once, each at its rank.                 *)
LEMMA PageOrder ==
    ASSUME RowsInv, NEW order \in SetToSeqs(Matched),
           \A a, b \in DOMAIN order : a < b => Before(order[a], order[b])
    PROVE  /\ order \in Seq(Matched) /\ Len(order) = Cardinality(Matched)
           /\ \A i \in Matched : \E b \in 1..Len(order) : order[b] = i
           /\ \A b \in 1..Len(order) : order[b] \in Matched /\ Rank(order[b]) = b - 1
<1> DEFINE n == Cardinality(Matched)
<1>1. n \in Nat /\ IsFiniteSet(Matched)
    BY MatchedRows, FS_CardinalityType
<1>2. order \in [1..n -> Matched] /\ \A a, b \in 1..n : a # b => order[a] # order[b]
    BY DEF SetToSeqs
<1>3. order \in Seq(Matched) /\ Len(order) = n
    BY <1>1, <1>2
<1>4. \A i \in Matched : \E b \in 1..n : order[b] = i
  <2>1. order \in Injection(1..n, Matched)
      BY <1>2 DEF Injection, IsInjective
  <2>2. Cardinality(1..n) = n
      BY <1>1, FS_Interval
  <2>3. order \in Surjection(1..n, Matched)
    <3> HIDE DEF n
    <3> QED
        BY <1>1, <2>1, <2>2, FS_Injection DEF n
  <2> QED
      BY <2>3 DEF Surjection
<1>5. ASSUME NEW b \in 1..n PROVE Rank(order[b]) = b - 1
  <2> DEFINE first == {j \in Matched : Before(j, order[b])}
             front == [a \in 1..(b - 1) |-> order[a]]
  <2>1. \A i, j \in Matched : ~(Before(i, j) /\ Before(j, i)) /\ ~Before(i, i)
    <3>1. \A i \in Matched : i \in Nat /\ rows[i].at \in Int
        BY MatchedRows, NowIsGood DEF RowsInv, GoodRow
    <3> QED
        BY <3>1 DEF Before
  <2>2. ASSUME NEW a \in 1..n PROVE a < b <=> order[a] \in first
    <3>1. a < b => Before(order[a], order[b])
        BY <1>2
    <3>2. a > b => Before(order[b], order[a])
        BY <1>2
    <3>3. order[a] \in Matched /\ order[b] \in Matched
        BY <1>2
    <3>4. a < b \/ a = b \/ a > b
        OBVIOUS
    <3> QED
        BY <2>1, <3>1, <3>2, <3>3, <3>4
  <2>3. front \in Surjection(1..(b - 1), first)
    <3>1. \A a \in 1..(b - 1) : a \in 1..n /\ a < b
        BY <1>1
    <3>2. front \in [1..(b - 1) -> first]
        BY <2>2, <3>1
    <3>3. ASSUME NEW i \in first PROVE \E a \in 1..(b - 1) : front[a] = i
      <4>1. PICK a \in 1..n : order[a] = i
          BY <1>4
      <4>2. a < b
          BY <2>2, <4>1
      <4>3. a \in 1..(b - 1)
          BY <4>2
      <4> QED
          BY <4>1, <4>3
    <3> QED
        BY <3>2, <3>3 DEF Surjection
  <2>4. front \in Injection(1..(b - 1), first)
    <3>1. \A a \in 1..(b - 1) : a \in 1..n
        BY <1>1
    <3>2. \A a, c \in 1..(b - 1) : front[a] = front[c] => a = c
        BY <1>2, <3>1
    <3> QED
        BY <2>3, <3>2 DEF Surjection, Injection, IsInjective
  <2>5. IsFiniteSet(1..(b - 1)) /\ Cardinality(1..(b - 1)) = b - 1
      BY FS_Interval
  <2>6. Cardinality(first) = b - 1
    <3> HIDE DEF first, front
    <3> QED
        BY <2>3, <2>4, <2>5, FS_Surjection
  <2> QED
      BY <2>6 DEF Rank
<1> QED
    BY <1>2, <1>3, <1>4, <1>5

(* A commit leaves a summary what it has read, and only counts itself.       *)
LEMMA CommitWhileSumming ==
    ASSUME SummaryInv, reader.phase \in Phases, Summing, NEW touched, Disturb(touched)
    PROVE  reader'.phase \in Phases /\ ~Walking' /\ reader'.phase # "done" /\ SummaryInv'
<1>1. CASE Resting
  <2>1. reader' = Idle
      BY <1>1 DEF Disturb
  <2>2. reader'.phase = "idle"
      BY <2>1 DEF Idle
  <2> QED
      BY <2>2 DEF Phases, Walking, Summing, SummaryInv
<1>2. CASE ~Resting
  <2>1. reader' = [reader EXCEPT !.commits = @ + 1]
      BY <1>2 DEF Disturb, Walking, Summing
  <2>2. SummaryFields \subseteq DOMAIN reader
      BY DEF SummaryInv
  <2>3. /\ DOMAIN reader' = DOMAIN reader
        /\ \A field \in SummaryFields \ {"commits"} : reader'[field] = reader[field]
      BY <2>1, <2>2
  <2>4. /\ reader'.phase = reader.phase /\ reader'.user = reader.user
        /\ reader'.period = reader.period /\ reader'.snapshot = reader.snapshot
        /\ reader'.totals = reader.totals /\ reader'.income = reader.income
        /\ reader'.expenses = reader.expenses
        /\ reader'.by_category = reader.by_category
      BY <2>3 DEF SummaryFields
  <2>5. reader'.phase \in Phases /\ ~Walking' /\ reader'.phase # "done"
      BY <2>4 DEF Summing, Walking
  <2>6. SummaryInv'
      BY <2>2, <2>3, <2>4 DEF SummaryInv, Summing
  <2> QED
      BY <2>5, <2>6
<1> QED
    BY <1>1, <1>2

(* A commit that only adds rows brings no row of a walk forward.             *)
LEMMA RanksGrow ==
    ASSUME RowsInv, RowsInv', Commits({}),
           reader'.user = reader.user, reader'.period = reader.period,
           NEW i \in Matched
    PROVE  i \in Matched' /\ Rank(i) <= Rank(i)' /\ Rank(i)' \in Nat
<1>1. \A j \in DOMAIN rows : j \in DOMAIN rows' /\ rows'[j] = rows[j]
    BY DEF Commits
<1>2. \A j \in Matched : j \in DOMAIN rows
    BY MatchedRows
<1>3. Matched' = {j \in DOMAIN rows' :
                    /\ Owner[rows'[j].account] = reader'.user
                    /\ reader'.period.from <= rows'[j].at
                    /\ rows'[j].at < reader'.period.to}
    BY DEF Matched, Matching, _owned_and_within_period, Of, Now
<1>4. ASSUME NEW j \in Matched PROVE j \in Matched'
    BY <1>1, <1>2, <1>3, MatchedRows
<1>5. \A j \in Matched : Before(j, i) => Before(j, i)'
    BY <1>1, <1>2 DEF Before
<1>6. IsFiniteSet(Matched')
  <2>1. Matched' \subseteq Ids
      BY <1>3 DEF RowsInv
  <2> QED
      BY <2>1, ReportsAssumption, FS_Subset
<1> DEFINE before == {j \in Matched : Before(j, i)}
           after == {j \in Matched' : Before(j, i)'}
<1>7. before \subseteq after
    BY <1>4, <1>5
<1>8. IsFiniteSet(after)
    BY <1>6, FS_Subset
<1>9. Cardinality(before) <= Cardinality(after) /\ Cardinality(after) \in Nat
  <2> HIDE DEF before, after
  <2> QED
      BY <1>7, <1>8, FS_Subset, FS_CardinalityType
<1> QED
    BY <1>4, <1>9 DEF Rank

LEMMA CommitWhileWalking ==
    ASSUME RowsInv, RowsInv', WalkInv, Walking, NEW touched, Commits(touched)
    PROVE  reader'.phase \in Phases /\ ~Summing' /\ reader'.phase # "done" /\ WalkInv'
<1>1. reader' = [reader EXCEPT !.commits = @ + 1, !.steady = @ \ touched,
                               !.lost = @ \/ touched # {}]
    BY DEF Commits, Disturb, Walking, Resting
<1>2. /\ WalkFields \subseteq DOMAIN reader /\ reader.seen \in Seq(used)
      /\ reader.commits \in Nat /\ reader.lost \in BOOLEAN /\ reader.limit \in Nat \ {0}
      /\ NoneMissed
    BY DEF WalkInv
<1>3. /\ DOMAIN reader' = DOMAIN reader
      /\ reader'.phase = reader.phase /\ reader'.user = reader.user
      /\ reader'.period = reader.period /\ reader'.limit = reader.limit
      /\ reader'.seen = reader.seen
      /\ reader'.commits = reader.commits + 1
      /\ reader'.steady = reader.steady \ touched
      /\ reader'.lost = (reader.lost \/ touched # {})
    BY <1>1, <1>2 DEF WalkFields
<1>4. reader'.seen \in Seq(used')
  <2>1. used \subseteq used'
      BY DEF Commits
  <2> QED
      BY <1>2, <1>3, <2>1
<1>5. NoneMissed'
  <2> SUFFICES ASSUME ~reader'.lost
               PROVE  /\ reader'.steady \subseteq Matched'
                      /\ \A i \in reader'.steady :
                            i \in Range(reader'.seen) \/ Rank(i)' >= Len(reader'.seen)
      BY DEF NoneMissed
  <2>1. ~reader.lost /\ touched = {}
      BY <1>2, <1>3
  <2>2. Commits({})
      BY <2>1
  <2>3. /\ reader.steady \subseteq Matched
        /\ \A i \in reader.steady :
              i \in Range(reader.seen) \/ Rank(i) >= Len(reader.seen)
      BY <1>2, <2>1 DEF NoneMissed
  <2>4. \A i \in Matched : i \in Matched' /\ Rank(i) <= Rank(i)' /\ Rank(i)' \in Nat
      BY <1>3, <2>2, RanksGrow
  <2>5. \A i : Rank(i) \in Nat
      BY MatchedRows
  <2> QED
      BY <1>2, <1>3, <2>3, <2>4, <2>5
<1>6. SeenInOrder'
    BY <1>2, <1>3 DEF SeenInOrder
<1>7. WalkInv'
    BY <1>2, <1>3, <1>4, <1>5, <1>6 DEF WalkInv
<1> QED
    BY <1>3, <1>7 DEF Walking, Summing, Phases

LEMMA SameOrder ==
    ASSUME rows' = rows, reader'.user = reader.user, reader'.period = reader.period
    PROVE  Matched' = Matched /\ \A i : Rank(i)' = Rank(i)
<1>1. Matched' = Matched
    BY DEF Matched, Matching, _owned_and_within_period, Of, Now
<1>2. \A i, j : Before(j, i)' = Before(j, i)
    BY DEF Before
<1>3. \A i : {j \in Matched' : Before(j, i)'} = {j \in Matched : Before(j, i)}
    BY <1>1, <1>2
<1> QED
    BY <1>1, <1>3 DEF Rank

(* A page continues the list where the rows seen so far end.                 *)
LEMMA NextPage ==
    ASSUME NEW S, NEW seen \in Seq(S), NEW order \in Seq(S), NEW limit \in Nat \ {0}
    PROVE  LET page == SubSeq(order, Len(seen) + 1, Min({Len(seen) + limit, Len(order)}))
               now == seen \o page
           IN  /\ now \in Seq(S)
               /\ \A a \in 1..Len(seen) : a \in 1..Len(now) /\ now[a] = seen[a]
               /\ \A a \in 1..Len(now) :
                     a > Len(seen) => a \in 1..Len(order) /\ now[a] = order[a]
               /\ Len(page) < limit => Len(order) <= Len(now)
<1> DEFINE offset == Len(seen)
           last == Min({offset + limit, Len(order)})
           page == SubSeq(order, offset + 1, last)
           now == seen \o page
<1>1. offset \in Nat /\ Len(order) \in Nat
    OBVIOUS
<1>2. /\ last \in Nat /\ last <= Len(order) /\ last <= offset + limit
      /\ last = offset + limit \/ last = Len(order)
  <2>1. {offset + limit, Len(order)} \in SUBSET Nat
      BY <1>1
  <2> QED
      BY <2>1, MinOfNats
<1> HIDE DEF last
<1>3. \A a \in (offset + 1)..last : order[a] \in S
    BY <1>1, <1>2
<1>4. /\ page \in Seq(S)
      /\ Len(page) = IF offset + 1 <= last THEN last - offset ELSE 0
      /\ \A k \in 1..(last - offset) : page[k] = order[offset + k]
  <2> DEFINE m == offset + 1
  <2>1. m \in Int /\ last \in Int /\ last - m + 1 = last - offset
      BY <1>1, <1>2
  <2>2. \A k \in 1..(last - m + 1) : m + k - 1 = offset + k
      BY <1>1, <1>2
  <2>3. \A a \in m..last : order[a] \in S
      BY <1>3
  <2>4. /\ SubSeq(order, m, last) \in Seq(S)
        /\ Len(SubSeq(order, m, last)) = IF m <= last THEN last - m + 1 ELSE 0
        /\ \A k \in 1..(last - m + 1) : SubSeq(order, m, last)[k] = order[m + k - 1]
    <3> HIDE DEF m
    <3> QED
        BY <2>1, <2>3, SubSeqProperties
  <2> QED
      BY <2>1, <2>2, <2>4
<1> HIDE DEF page
<1>5. /\ now \in Seq(S) /\ Len(now) = offset + Len(page)
      /\ \A a \in 1..(offset + Len(page)) :
            now[a] = IF a <= offset THEN seen[a] ELSE page[a - offset]
    BY <1>4, ConcatProperties
<1> HIDE DEF now
<1>6. ASSUME NEW a \in 1..Len(now), a > offset
      PROVE  a \in 1..Len(order) /\ now[a] = order[a]
  <2>1. a - offset \in 1..(last - offset) /\ a \in 1..last
      BY <1>1, <1>2, <1>4, <1>5, <1>6
  <2>2. offset + (a - offset) = a
      BY <1>1
  <2>3. now[a] = page[a - offset]
      BY <1>1, <1>5, <1>6
  <2>4. page[a - offset] = order[offset + (a - offset)]
      BY <1>4, <2>1
  <2> QED
      BY <1>1, <1>2, <2>1, <2>2, <2>3, <2>4
<1>7. Len(page) < limit => Len(order) <= Len(now)
    BY <1>1, <1>2, <1>4, <1>5
<1>8. \A a \in 1..offset : a \in 1..Len(now) /\ now[a] = seen[a]
    BY <1>1, <1>4, <1>5
<1> QED
    BY <1>5, <1>6, <1>7, <1>8 DEF page, last, now

LEMMA BeginWalkStep ==
    ASSUME RowsInv, NEW u \in Readers, NEW p \in Periods, NEW limit \in Limits,
           BeginWalk(u, p, limit)
    PROVE  Walking' /\ WalkInv'
<1>1. reader' = [phase |-> "asking", commits |-> 0, user |-> u, period |-> p,
                 limit |-> limit, total |-> 0, seen |-> <<>>,
                 steady |-> Matching(u, p), lost |-> FALSE]
      /\ rows' = rows /\ used' = used
    BY DEF BeginWalk, table
<1>2. /\ WalkFields \subseteq DOMAIN reader'
      /\ reader'.phase = "asking" /\ reader'.commits = 0 /\ reader'.user = u
      /\ reader'.period = p /\ reader'.limit = limit /\ reader'.seen = <<>>
      /\ reader'.steady = Matching(u, p) /\ reader'.lost = FALSE
    BY <1>1 DEF WalkFields
<1>3. Matched' = Matching(u, p)
    BY <1>1, <1>2 DEF Matched, Matching, _owned_and_within_period, Of, Now
<1>4. \A i : Rank(i)' \in Nat
  <2>1. IsFiniteSet(Matched')
    <3>1. Matched' \subseteq DOMAIN rows
        BY <1>3 DEF Matching, _owned_and_within_period, Of, Now
    <3> QED
        BY <3>1, NowIsGood, FS_Subset
  <2>2. \A i : IsFiniteSet({j \in Matched' : Before(j, i)'})
      BY <2>1, FS_Subset
  <2> QED
      BY <2>2, FS_CardinalityType DEF Rank
<1>5. NoneMissed'
    BY <1>2, <1>3, <1>4 DEF NoneMissed
<1>6. SeenInOrder'
    BY <1>2, <1>3 DEF SeenInOrder
<1>7. limit \in Nat \ {0}
    BY ReportsAssumption
<1>8. reader'.seen \in Seq(used')
    BY <1>2
<1>9. reader'.commits \in Nat /\ reader'.limit \in Nat \ {0}
    BY <1>2, <1>7
<1>10. reader'.lost \in BOOLEAN
    BY <1>2, Zenon
<1>11. Walking'
    BY <1>2 DEF Walking
<1>12. WalkInv'
    BY <1>2, <1>5, <1>6, <1>8, <1>9, <1>10 DEF WalkInv
<1> QED
    BY <1>11, <1>12

LEMMA CountMatchesStep ==
    ASSUME RowsInv, WalkInv, CountMatches
    PROVE  Walking' /\ WalkInv'
<1>1. /\ reader.phase = "asking"
      /\ reader' = [reader EXCEPT !.phase = "counted", !.total = Cardinality(Matched)]
      /\ rows' = rows /\ used' = used
    BY DEF CountMatches, Matched, table
<1>2. /\ WalkFields \subseteq DOMAIN reader /\ reader.seen \in Seq(used)
      /\ reader.commits \in Nat /\ reader.lost \in BOOLEAN /\ reader.limit \in Nat \ {0}
      /\ NoneMissed /\ SeenInOrder
    BY <1>1 DEF WalkInv, Walking
<1>3. /\ DOMAIN reader' = DOMAIN reader
      /\ reader'.phase = "counted" /\ reader'.user = reader.user
      /\ reader'.period = reader.period /\ reader'.limit = reader.limit
      /\ reader'.seen = reader.seen /\ reader'.commits = reader.commits
      /\ reader'.steady = reader.steady /\ reader'.lost = reader.lost
      /\ reader'.total = Cardinality(Matched)
    BY <1>1, <1>2 DEF WalkFields
<1>4. Matched' = Matched /\ \A i : Rank(i)' = Rank(i)
    BY <1>1, <1>3, SameOrder
<1>5. NoneMissed'
    BY <1>2, <1>3, <1>4 DEF NoneMissed
<1>6. SeenInOrder'
    BY <1>2, <1>3, <1>4 DEF SeenInOrder
<1> QED
    BY <1>1, <1>2, <1>3, <1>5, <1>6 DEF WalkInv, Walking

LEMMA ReadPageStep ==
    ASSUME RowsInv, WalkInv, ReadPage
    PROVE  /\ reader'.phase \in {"asking", "done"} /\ WalkInv' /\ DoneInv'
           /\ WalksMissOnlyWhatMoves'
<1>1. PICK order \in SetToSeqs(Matched) :
         LET page == SubSeq(order, Len(reader.seen) + 1,
                            Min({Len(reader.seen) + reader.limit, Len(order)}))
         IN  /\ \A a, b \in DOMAIN order : a < b => Before(order[a], order[b])
             /\ reader' = [reader EXCEPT
                              !.seen = @ \o page,
                              !.phase = IF Len(page) < reader.limit THEN "done" ELSE "asking"]
    BY DEF ReadPage, Matched
<1>2. reader.phase = "counted" /\ rows' = rows /\ used' = used
    BY DEF ReadPage, table
<1>3. /\ WalkFields \subseteq DOMAIN reader /\ reader.seen \in Seq(used)
      /\ reader.commits \in Nat /\ reader.lost \in BOOLEAN /\ reader.limit \in Nat \ {0}
      /\ NoneMissed /\ SeenInOrder
    BY <1>2 DEF WalkInv, Walking
<1> DEFINE old == reader.seen
           page == SubSeq(order, Len(old) + 1, Min({Len(old) + reader.limit, Len(order)}))
           now == old \o page
<1>4. /\ DOMAIN reader' = DOMAIN reader
      /\ reader'.phase = IF Len(page) < reader.limit THEN "done" ELSE "asking"
      /\ reader'.user = reader.user
      /\ reader'.period = reader.period /\ reader'.limit = reader.limit
      /\ reader'.seen = now /\ reader'.commits = reader.commits
      /\ reader'.steady = reader.steady /\ reader'.lost = reader.lost
      /\ reader'.total = reader.total
    BY <1>1, <1>3 DEF WalkFields
<1>5. Matched' = Matched /\ \A i : Rank(i)' = Rank(i) /\ Rank(i) \in Nat
    BY <1>2, <1>4, SameOrder, MatchedRows
<1>6. Matched \subseteq used
    BY MatchedRows DEF RowsInv
<1>7. /\ order \in Seq(Matched) /\ Len(order) = Cardinality(Matched)
      /\ \A i \in Matched : \E b \in 1..Len(order) : order[b] = i
      /\ \A b \in 1..Len(order) : order[b] \in Matched /\ Rank(order[b]) = b - 1
    BY <1>1, PageOrder
<1>8. /\ now \in Seq(used)
      /\ \A a \in 1..Len(old) : a \in 1..Len(now) /\ now[a] = old[a]
      /\ \A a \in 1..Len(now) :
            a > Len(old) => a \in 1..Len(order) /\ now[a] = order[a]
      /\ Len(page) < reader.limit => Len(order) <= Len(now)
  <2>1. order \in Seq(used)
      BY <1>6, <1>7
  <2> QED
      BY <1>3, <2>1, NextPage
<1>9. Len(old) \in Nat /\ Len(now) \in Nat /\ Len(order) \in Nat
    BY <1>3, <1>7, <1>8
<1>10. DOMAIN old = 1..Len(old) /\ DOMAIN now = 1..Len(now)
    BY <1>3, <1>8
<1> HIDE DEF old, page, now
<1>11. ASSUME ~reader.lost, NEW i \in reader.steady
       PROVE  /\ i \in Matched
              /\ i \in Range(now) \/ (Rank(i) >= Len(now) /\ Rank(i) < Len(order))
  <2>1. i \in Matched /\ (i \in Range(old) \/ Rank(i) >= Len(old))
      BY <1>3, <1>11 DEF NoneMissed, old
  <2>2. CASE i \in Range(old)
    <3>1. PICK a \in 1..Len(old) : old[a] = i
        BY <1>10, <2>2 DEF Range
    <3>2. a \in 1..Len(now) /\ now[a] = i
        BY <1>8, <3>1
    <3> QED
        BY <1>10, <2>1, <3>2 DEF Range
  <2>3. CASE Rank(i) >= Len(old)
    <3>1. PICK b \in 1..Len(order) : order[b] = i
        BY <1>7, <2>1
    <3>2. Rank(i) = b - 1
        BY <1>7, <3>1
    <3>3. b <= Len(now) => i \in Range(now)
      <4>1. b <= Len(now) => b \in 1..Len(now) /\ b > Len(old)
          BY <1>9, <2>3, <3>2
      <4>2. b <= Len(now) => now[b] = i
          BY <1>8, <3>1, <4>1
      <4> QED
          BY <1>10, <4>1, <4>2 DEF Range
    <3> QED
        BY <1>9, <2>1, <3>2, <3>3
  <2> QED
      BY <2>1, <2>2, <2>3
<1>12. NoneMissed'
    BY <1>4, <1>5, <1>11 DEF NoneMissed
<1>13. ASSUME reader.commits = 0
       PROVE  /\ ~reader.lost /\ reader.steady = Matched
              /\ reader.total = Cardinality(Matched)
              /\ \A a \in 1..Len(now) : now[a] \in Matched /\ Rank(now[a]) = a - 1
  <2>1. /\ ~reader.lost /\ reader.steady = Matched
        /\ \A a \in 1..Len(old) : old[a] \in Matched /\ Rank(old[a]) = a - 1
        /\ reader.total = Cardinality(Matched)
      BY <1>2, <1>3, <1>13 DEF SeenInOrder, old
  <2>2. ASSUME NEW a \in 1..Len(now)
        PROVE  now[a] \in Matched /\ Rank(now[a]) = a - 1
    <3>1. CASE a <= Len(old)
      <4>1. a \in 1..Len(old)
          BY <1>9, <3>1
      <4> QED
          BY <1>8, <2>1, <4>1
    <3>2. CASE a > Len(old)
        BY <1>7, <1>8, <3>2
    <3> QED
        BY <1>9, <3>1, <3>2
  <2> QED
      BY <2>1, <2>2
<1>14. SeenInOrder'
    BY <1>4, <1>5, <1>13 DEF SeenInOrder
<1>15. WalkInv'
    BY <1>2, <1>3, <1>4, <1>8, <1>12, <1>14 DEF WalkInv
<1>16. Range(now) \subseteq used
    BY <1>8, <1>10 DEF Range
<1>17. DoneInv'
    BY <1>2, <1>4, <1>16 DEF DoneInv
<1>18. WalksMissOnlyWhatMoves'
  <2> SUFFICES ASSUME Len(page) < reader.limit
               PROVE  /\ ~reader.lost => reader.steady \subseteq Range(now)
                      /\ reader.commits = 0 => /\ IsInjective(now)
                                               /\ reader.total = Len(now)
                                               /\ Range(now) = reader.steady
      BY <1>4 DEF WalksMissOnlyWhatMoves
  <2>1. Len(order) <= Len(now)
      BY <1>8
  <2>2. ~reader.lost => reader.steady \subseteq Range(now)
      BY <1>5, <1>9, <1>11, <2>1
  <2>3. ASSUME reader.commits = 0
        PROVE  IsInjective(now) /\ reader.total = Len(now) /\ Range(now) = reader.steady
    <3>1. IsInjective(now)
      <4>1. \A a, b \in 1..Len(now) : now[a] = now[b] => a - 1 = b - 1
          BY <1>13, <2>3
      <4> QED
          BY <1>10, <4>1 DEF IsInjective
    <3>2. Len(now) <= Len(order)
      <4>1. CASE Len(now) > 0
        <5> DEFINE z == Len(now)
        <5>1. z \in 1..Len(now)
            BY <1>9, <4>1
        <5>2. now[z] \in Matched /\ Rank(now[z]) = z - 1
            BY <1>13, <2>3, <5>1
        <5>3. PICK b \in 1..Len(order) : order[b] = now[z]
            BY <1>7, <5>2
        <5>4. b - 1 = z - 1
            BY <1>7, <5>2, <5>3
        <5> QED
            BY <1>9, <5>4
      <4> QED
          BY <1>9, <4>1
    <3>3. reader.total = Len(now)
        BY <1>7, <1>9, <1>13, <2>1, <2>3, <3>2
    <3>4. Range(now) \subseteq Matched
        BY <1>10, <1>13, <2>3 DEF Range
    <3> QED
        BY <1>13, <2>2, <2>3, <3>1, <3>3, <3>4
  <2> QED
      BY <2>2, <2>3
<1> QED
    BY <1>4, <1>15, <1>17, <1>18

-----------------------------------------------------------------------------
(* The statements of a summary.                                              *)
LEMMA ReadBalancesStep ==
    ASSUME RowsInv, NEW u \in Readers, NEW p \in Periods, ReadBalances(u, p)
    PROVE  Summing' /\ SummaryInv'
<1>1. reader' = [phase |-> "totals", commits |-> 0, user |-> u, period |-> p,
                 snapshot |-> Now, totals |-> get_balances_per_unit(Now, u),
                 income |-> NotRead, expenses |-> NotRead, by_category |-> NotRead]
    BY DEF ReadBalances
<1>2. GoodView(Now)
    BY NowIsGood
<1> DEFINE now == Now
           totals == get_balances_per_unit(Now, u)
<1> HIDE DEF now, totals
<1>3. /\ SummaryFields \subseteq DOMAIN reader'
      /\ reader'.phase = "totals" /\ reader'.user = u
      /\ reader'.snapshot = now /\ reader'.totals = totals
    BY <1>1 DEF SummaryFields, now, totals
<1>4. GoodView(reader'.snapshot)
    BY <1>2, <1>3 DEF now
<1>5. reader'.totals = get_balances_per_unit(reader'.snapshot, reader'.user)
    BY <1>3 DEF now, totals
<1> QED
    BY <1>3, <1>4, <1>5 DEF SummaryInv, Summing

LEMMA ReadIncomeAndExpensesStep ==
    ASSUME SummaryInv, ReadIncomeAndExpenses
    PROVE  Summing' /\ SummaryInv'
<1> DEFINE income == Flow(reader.snapshot, reader.user, reader.period, "income")
           expenses == Flow(reader.snapshot, reader.user, reader.period, "expense")
<1>1. /\ reader.phase = "totals"
      /\ reader' = [reader EXCEPT !.phase = "flows", !.income = income,
                                  !.expenses = expenses]
    BY DEF ReadIncomeAndExpenses, View
<1>2. /\ SummaryFields \subseteq DOMAIN reader
      /\ GoodView(reader.snapshot)
      /\ reader.totals = get_balances_per_unit(reader.snapshot, reader.user)
    BY <1>1 DEF SummaryInv, Summing
<1> HIDE DEF income, expenses
<1>3. /\ DOMAIN reader' = DOMAIN reader
      /\ reader'.phase = "flows" /\ reader'.user = reader.user
      /\ reader'.period = reader.period /\ reader'.snapshot = reader.snapshot
      /\ reader'.totals = reader.totals
      /\ reader'.income = income /\ reader'.expenses = expenses
    BY <1>1, <1>2 DEF SummaryFields
<1>4. /\ reader'.income = Flow(reader'.snapshot, reader'.user, reader'.period, "income")
      /\ reader'.expenses = Flow(reader'.snapshot, reader'.user, reader'.period, "expense")
    BY <1>3 DEF income, expenses
<1> QED
    BY <1>2, <1>3, <1>4 DEF SummaryInv, Summing

LEMMA ReadCategoriesStep ==
    ASSUME SummaryInv, ReadCategories
    PROVE  Summing' /\ SummaryInv'
<1> DEFINE by_category ==
             get_expenses_by_category(reader.snapshot, reader.user, reader.period)
<1>1. /\ reader.phase = "flows"
      /\ reader' = [reader EXCEPT !.phase = "answered", !.by_category = by_category]
    BY DEF ReadCategories, View
<1>2. /\ SummaryFields \subseteq DOMAIN reader
      /\ GoodView(reader.snapshot)
      /\ reader.totals = get_balances_per_unit(reader.snapshot, reader.user)
      /\ reader.income = Flow(reader.snapshot, reader.user, reader.period, "income")
      /\ reader.expenses = Flow(reader.snapshot, reader.user, reader.period, "expense")
    BY <1>1 DEF SummaryInv, Summing
<1> HIDE DEF by_category
<1>3. /\ DOMAIN reader' = DOMAIN reader
      /\ reader'.phase = "answered" /\ reader'.user = reader.user
      /\ reader'.period = reader.period /\ reader'.snapshot = reader.snapshot
      /\ reader'.totals = reader.totals /\ reader'.income = reader.income
      /\ reader'.expenses = reader.expenses /\ reader'.by_category = by_category
    BY <1>1, <1>2 DEF SummaryFields
<1>4. reader'.by_category
        = get_expenses_by_category(reader'.snapshot, reader'.user, reader'.period)
    BY <1>3 DEF by_category
<1> QED
    BY <1>2, <1>3, <1>4 DEF SummaryInv, Summing

-----------------------------------------------------------------------------
(* Every step keeps the invariant.                                           *)
LEMMA CommitStep ==
    ASSUME Inv, RowsInv', NEW touched, Commits(touched)
    PROVE  Inv'
<1>1. RowsInv /\ reader.phase \in Phases /\ SummaryInv /\ WalkInv
    BY DEF Inv
<1>2. Disturb(touched)
    BY DEF Commits
<1>3. CASE Resting /\ reader' = Idle
  <2>1. reader'.phase = "idle"
      BY <1>3 DEF Idle
  <2> QED
      BY <2>1 DEF Inv, Phases, SummaryInv, Summing, WalkInv, Walking, DoneInv,
                  WalksMissOnlyWhatMoves
<1>4. CASE Walking
  <2>1. reader'.phase \in Phases /\ ~Summing' /\ reader'.phase # "done" /\ WalkInv'
      BY <1>1, <1>4, CommitWhileWalking
  <2> QED
      BY <2>1 DEF Inv, SummaryInv, DoneInv, WalksMissOnlyWhatMoves
<1>5. CASE Summing
  <2>1. reader'.phase \in Phases /\ ~Walking' /\ reader'.phase # "done" /\ SummaryInv'
      BY <1>1, <1>2, <1>5, CommitWhileSumming
  <2> QED
      BY <2>1 DEF Inv, WalkInv, DoneInv, WalksMissOnlyWhatMoves
<1>6. (Resting /\ reader' = Idle) \/ Walking \/ Summing
    BY <1>1, <1>2 DEF Disturb, Resting, Walking, Summing, Phases
<1> QED
    BY <1>3, <1>4, <1>5, <1>6

LEMMA ReadStep ==
    ASSUME Inv, UNCHANGED table, reader'.phase \in Phases,
           Summing' => SummaryInv', Walking' => WalkInv',
           reader'.phase = "done" => DoneInv' /\ WalksMissOnlyWhatMoves'
    PROVE  Inv'
<1>1. RowsInv'
    BY DEF Inv, RowsInv, GoodRow, table
<1>2. SummaryInv' /\ WalkInv' /\ DoneInv' /\ WalksMissOnlyWhatMoves'
    BY DEF SummaryInv, WalkInv, DoneInv, WalksMissOnlyWhatMoves
<1> QED
    BY <1>1, <1>2 DEF Inv

LEMMA NextKeepsInv == ASSUME Inv, [Next]_vars PROVE Inv'
<1>0. RowsInv /\ SummaryInv /\ WalkInv
    BY DEF Inv
<1>1. ASSUME RowsInv' /\ \E touched : Commits(touched) PROVE Inv'
    BY <1>1, CommitStep
<1>2. CASE \E d \in Drafts : RecordTransaction(d)
    BY <1>0, <1>1, <1>2, RecordTransactionStep
<1>3. CASE \E d \in Drafts, i \in Ids : PatchTransaction(i, d)
    BY <1>0, <1>1, <1>3, PatchTransactionStep
<1>4. CASE \E t \in Transfers : RecordTransfer(t)
    BY <1>0, <1>1, <1>4, RecordTransferStep
<1>5. CASE \E i \in Ids : DeleteTransaction(i)
    BY <1>0, <1>1, <1>5, DeleteTransactionStep
<1>6. CASE \E a \in Accounts, u \in Units : PatchUnit(a, u)
    BY <1>0, <1>1, <1>6, PatchUnitStep
<1>7. CASE \E u \in Readers, p \in Periods : ReadBalances(u, p)
  <2>1. Summing' /\ SummaryInv' /\ UNCHANGED table
      BY <1>0, <1>7, ReadBalancesStep DEF ReadBalances
  <2> QED
      BY <2>1, ReadStep DEF Summing, Walking, Phases
<1>8. CASE \E u \in Readers, p \in Periods, limit \in Limits : BeginWalk(u, p, limit)
  <2>1. Walking' /\ WalkInv' /\ UNCHANGED table
      BY <1>0, <1>8, BeginWalkStep DEF BeginWalk
  <2> QED
      BY <2>1, ReadStep DEF Summing, Walking, Phases
<1>9. CASE ReadIncomeAndExpenses
  <2>1. Summing' /\ SummaryInv' /\ UNCHANGED table
      BY <1>0, <1>9, ReadIncomeAndExpensesStep DEF ReadIncomeAndExpenses
  <2> QED
      BY <2>1, ReadStep DEF Summing, Walking, Phases
<1>10. CASE ReadCategories
  <2>1. Summing' /\ SummaryInv' /\ UNCHANGED table
      BY <1>0, <1>10, ReadCategoriesStep DEF ReadCategories
  <2> QED
      BY <2>1, ReadStep DEF Summing, Walking, Phases
<1>11. CASE CountMatches
  <2>1. Walking' /\ WalkInv' /\ UNCHANGED table
      BY <1>0, <1>11, CountMatchesStep DEF CountMatches
  <2> QED
      BY <2>1, ReadStep DEF Summing, Walking, Phases
<1>12. CASE ReadPage
  <2>1. /\ reader'.phase \in {"asking", "done"} /\ WalkInv' /\ DoneInv'
        /\ WalksMissOnlyWhatMoves' /\ UNCHANGED table
      BY <1>0, <1>12, ReadPageStep DEF ReadPage
  <2> QED
      BY <2>1, ReadStep DEF Summing, Walking, Phases
<1>13. CASE UNCHANGED vars
  <2>1. UNCHANGED table /\ reader' = reader
      BY <1>13 DEF vars
  <2>2. rows' = rows /\ used' = used /\ unit' = unit
      BY <2>1 DEF table
  <2>3. Summing' => SummaryInv'
      BY <1>0, <2>1 DEF SummaryInv, Summing
  <2>4. Matched' = Matched /\ \A i : Rank(i)' = Rank(i)
      BY <2>1, <2>2, SameOrder
  <2>5. Walking' => WalkInv'
      BY <1>0, <2>1, <2>2, <2>4 DEF WalkInv, Walking, NoneMissed, SeenInOrder
  <2>6. DoneInv' /\ WalksMissOnlyWhatMoves' /\ reader'.phase \in Phases
      BY <2>1, <2>2 DEF Inv, DoneInv, WalksMissOnlyWhatMoves
  <2> QED
      BY <2>1, <2>3, <2>5, <2>6, ReadStep
<1> QED
    BY <1>2, <1>3, <1>4, <1>5, <1>6, <1>7, <1>8, <1>9, <1>10, <1>11, <1>12, <1>13
       DEF Next

(* From the empty table, every reachable state has the invariant.            *)
THEOREM InvHolds == Spec => []Inv
<1>1. Init => Inv
  <2> SUFFICES ASSUME Init PROVE Inv
      OBVIOUS
  <2>1. reader.phase = "idle" /\ DOMAIN rows = {} /\ used = {} /\ unit = Unit
      BY DEF Init, Idle
  <2>2. RowsInv
      BY <2>1, ReportsAssumption DEF RowsInv
  <2> QED
      BY <2>1, <2>2 DEF Inv, Phases, SummaryInv, Summing, WalkInv, Walking, DoneInv,
                        WalksMissOnlyWhatMoves
<1>2. Inv /\ [Next]_vars => Inv'
    BY NextKeepsInv
<1> QED
    BY <1>1, <1>2, PTL DEF Spec

-----------------------------------------------------------------------------
(* What the invariant says to a client.                                      *)
LEMMA MinusNothing == ASSUME NEW m \in Int, m = 0 PROVE 0 = -m
<1>1. \A x, y \in Int : x + y = 0 => x = -y
    OBVIOUS
<1> DEFINE zero == 0
<1>2. zero \in Int /\ zero + m = 0
    OBVIOUS
<1> HIDE DEF zero
<1>3. zero = -m
    BY <1>1, <1>2
<1> QED
    BY <1>3 DEF zero

(* A summary of one good view.                                               *)
Read(s) ==
    /\ GoodView(s.snapshot)
    /\ s.totals = get_balances_per_unit(s.snapshot, s.user)
    /\ s.income = Flow(s.snapshot, s.user, s.period, "income")
    /\ s.expenses = Flow(s.snapshot, s.user, s.period, "expense")
    /\ s.by_category = get_expenses_by_category(s.snapshot, s.user, s.period)

(* Its columns in one unit, row by row.                                      *)
LEMMA UnitAddsUp ==
    ASSUME NEW s, Read(s), NEW n
    PROVE  LET counted(kind) == Counted(s.snapshot, s.user, s.period, kind, n)
           IN  /\ \A S \in {counted("income"), counted("expense"), Uncounted(s, n)} :
                     S \in SUBSET DOMAIN s.snapshot.rows
               /\ Total(s.snapshot, {i \in Of(s.snapshot, s.user) :
                                       UnitOf(s.snapshot, i) = n})
                    = Total(s.snapshot, counted("income"))
                        + Total(s.snapshot, counted("expense"))
                        + Total(s.snapshot, Uncounted(s, n))
<1> DEFINE v == s.snapshot
           all == {i \in Of(v, s.user) : UnitOf(v, i) = n}
           within == _owned_and_within_period(v, s.user, s.period)
           uncounted == Uncounted(s, n)
           income == Counted(v, s.user, s.period, "income", n)
           expense == Counted(v, s.user, s.period, "expense", n)
           both == income \cup expense
<1>1. within \subseteq Of(v, s.user) /\ Of(v, s.user) \subseteq DOMAIN v.rows
    BY DEF _owned_and_within_period, Of
<1>2. \A i \in Of(v, s.user) : v.rows[i].kind \in {"income", "expense", "transfer"}
    BY <1>1 DEF Read, GoodView, Kind
<1>3. /\ income = {i \in within : v.rows[i].kind = "income" /\ UnitOf(v, i) = n}
      /\ expense = {i \in within : v.rows[i].kind = "expense" /\ UnitOf(v, i) = n}
      /\ uncounted = {i \in Of(v, s.user) :
                        /\ UnitOf(v, i) = n
                        /\ v.rows[i].kind = "transfer" \/ i \notin within}
    BY DEF Counted, Uncounted
<1>4. all = both \cup uncounted
    BY <1>1, <1>2, <1>3
<1>5. income \cap expense = {} /\ both \cap uncounted = {}
    BY <1>3
<1>6. /\ income \in SUBSET DOMAIN v.rows /\ expense \in SUBSET DOMAIN v.rows
      /\ both \in SUBSET DOMAIN v.rows /\ uncounted \in SUBSET DOMAIN v.rows
    BY <1>1, <1>3
<1>7. GoodView(v)
    BY DEF Read
<1> HIDE DEF v, income, expense, uncounted, all
<1>8. Total(v, both) = Total(v, income) + Total(v, expense)
    BY <1>5, <1>6, <1>7, TotalOfDisjoint
<1> HIDE DEF both
<1>9. Total(v, all) = Total(v, both) + Total(v, uncounted)
    BY <1>4, <1>5, <1>6, <1>7, TotalOfDisjoint
<1> QED
    BY <1>6, <1>8, <1>9 DEF v, all, income, expense, uncounted

LEMMA ReadAgrees == ASSUME NEW s, Read(s) PROVE Agrees(s)
<1> DEFINE v == s.snapshot
           at(f, n) == IF n \in DOMAIN f THEN f[n] ELSE 0
           categories(n) == {g \in DOMAIN s.by_category : g[2] = n}
           within == _owned_and_within_period(v, s.user, s.period)
           in(n) == Total(v, Counted(v, s.user, s.period, "income", n))
           out(n) == Total(v, Counted(v, s.user, s.period, "expense", n))
<1>1. DOMAIN s.expenses = {g[2] : g \in DOMAIN s.by_category}
  <2> DEFINE S == {i \in within : v.rows[i].kind = "expense"}
             group(i) == <<v.rows[i].category, UnitOf(v, i)>>
  <2>1. DOMAIN s.expenses = {UnitOf(v, i) : i \in S}
      BY DEF Flow, Read
  <2>2. DOMAIN s.by_category = {group(i) : i \in S}
      BY DEF get_expenses_by_category, Read
  <2>3. \A i \in S : group(i)[2] = UnitOf(v, i)
      OBVIOUS
  <2> HIDE DEF S, group
  <2> QED
      BY <2>1, <2>2, <2>3
<1>2. DOMAIN s.expenses \cup DOMAIN s.income \subseteq DOMAIN s.totals
  <2>1. DOMAIN s.totals = {v.unit[a] : a \in {b \in Accounts : Owner[b] = s.user}}
      BY DEF get_balances_per_unit, Read
  <2>2. ASSUME NEW i \in within PROVE UnitOf(v, i) \in DOMAIN s.totals
    <3>1. v.rows[i].account \in Accounts /\ Owner[v.rows[i].account] = s.user
        BY DEF Read, GoodView, _owned_and_within_period, Of
    <3> QED
        BY <2>1, <3>1 DEF UnitOf
  <2>3. DOMAIN s.expenses \subseteq {UnitOf(v, i) : i \in within}
      BY DEF Flow, Read
  <2>4. DOMAIN s.income \subseteq {UnitOf(v, i) : i \in within}
      BY DEF Flow, Read
  <2> QED
      BY <2>2, <2>3, <2>4
<1>3. ASSUME NEW n \in DOMAIN s.totals
      PROVE  /\ at(s.expenses, n) = SumFunctionOnSet(s.by_category, categories(n))
             /\ s.totals[n] = at(s.income, n) - at(s.expenses, n)
                                 + Total(v, Uncounted(s, n))
  <2> DEFINE rest == Total(v, Uncounted(s, n))
             income == Counted(v, s.user, s.period, "income", n)
             expense == Counted(v, s.user, s.period, "expense", n)
  <2>1. /\ income \in SUBSET DOMAIN v.rows /\ expense \in SUBSET DOMAIN v.rows
        /\ Uncounted(s, n) \in SUBSET DOMAIN v.rows
        /\ Total(v, {i \in Of(v, s.user) : UnitOf(v, i) = n}) = in(n) + out(n) + rest
      BY UnitAddsUp
  <2>2. in(n) \in Int /\ out(n) \in Int /\ rest \in Int
      BY <2>1, TotalType DEF Read
  <2>3. at(s.income, n) = in(n)
    <3>1. /\ n \in DOMAIN s.income => s.income[n] = Signed(in(n), "income")
          /\ n \notin DOMAIN s.income => income = {}
        BY FlowIsTotal DEF Read
    <3>2. n \notin DOMAIN s.income => in(n) = 0
        BY <2>1, <3>1, TotalType DEF Read
    <3>3. Signed(in(n), "income") = in(n)
        BY DEF Signed
    <3> HIDE DEF in
    <3> QED
        BY <3>1, <3>2, <3>3
  <2>4. at(s.expenses, n) = -out(n)
    <3>1. /\ n \in DOMAIN s.expenses => s.expenses[n] = Signed(out(n), "expense")
          /\ n \notin DOMAIN s.expenses => expense = {}
        BY FlowIsTotal DEF Read
    <3>2. n \notin DOMAIN s.expenses => out(n) = 0
        BY <2>1, <3>1, TotalType DEF Read
    <3>3. Signed(out(n), "expense") = -out(n)
        BY DEF Signed
    <3> HIDE DEF out
    <3>4. out(n) = 0 => 0 = -out(n)
        BY <2>2, MinusNothing
    <3> QED
        BY <3>1, <3>2, <3>3, <3>4
  <2>5. SumFunctionOnSet(s.by_category, categories(n)) = -out(n)
      BY CategoriesAddUp DEF Read
  <2>6. s.totals[n] = in(n) + out(n) + rest
    <3>1. s.totals[n] = Total(v, {i \in Of(v, s.user) : UnitOf(v, i) = n})
        BY BalanceIsTotal DEF Read
    <3> QED
        BY <2>1, <3>1
  <2> HIDE DEF in, out, at, categories, rest
  <2>7. s.totals[n] = in(n) - (-out(n)) + rest
      BY <2>2, <2>6
  <2>8. s.totals[n] = at(s.income, n) - at(s.expenses, n) + rest
      BY <2>3, <2>4, <2>7
  <2> QED
      BY <2>4, <2>5, <2>8 DEF rest
<1> QED
    BY <1>1, <1>2, <1>3 DEF Agrees

(* Every row is a row of an account, holds an amount that fits the column,   *)
(* and every row a walk has shown had an id that was given out.              *)
THEOREM TypeOKHolds == Spec => []TypeOK
<1>1. Inv => TypeOK
  <2> SUFFICES ASSUME Inv PROVE TypeOK
      OBVIOUS
  <2>1. RowsInv /\ reader.phase \in Phases /\ WalkInv /\ DoneInv
      BY DEF Inv
  <2>2. Walking => Range(reader.seen) \subseteq used
      BY <2>1 DEF WalkInv, Range
  <2> QED
      BY <2>1, <2>2 DEF RowsInv, GoodRow, Phases, DoneInv, TypeOK
<1> QED
    BY <1>1, InvHolds, PTL

(* Through the schema, the sign, the column and the text of a response, an   *)
(* amount that the column can hold keeps its digits, all MaxDigits of them,  *)
(* though arithmetic keeps but Precision.                                    *)
THEOREM FittingAmountsAreExactHolds == Spec => []FittingAmountsAreExact
<1>1. Inv => FittingAmountsAreExact
  <2> SUFFICES ASSUME Inv, NEW i \in DOMAIN rows, Fits(rows[i].asked)
               PROVE  rows[i].asked \in {Shown(rows[i].amount), -Shown(rows[i].amount)}
      BY DEF FittingAmountsAreExact
  <2> DEFINE asked == rows[i].asked
             amount == rows[i].amount
  <2>1. asked \in Int /\ amount \in {Stored(asked), Stored(-asked)} /\ OnScale(amount)
      BY DEF Inv, RowsInv, GoodRow
  <2> HIDE DEF asked, amount
  <2>2. OnScale(asked) /\ OnScale(-asked)
      BY <2>1, FittingIsOnScale, OnScaleFacts DEF asked
  <2>3. Stored(asked) = asked /\ Stored(-asked) = -asked
      BY <2>2, StoredIsExact
  <2>4. asked \in {amount, -amount}
      BY <2>1, <2>3
  <2>5. Shown(amount) = amount
      BY <2>1, ShownIsExact
  <2> QED
      BY <2>4, <2>5 DEF asked, amount
<1> QED
    BY <1>1, InvHolds, PTL

(* AcceptedAmountsAreExact does not hold, since the schema decides on an     *)
(* amount that normalize() may have rounded (ledger/schemas/transactions.py: *)
(* 39).  Nothing else is amiss: an amount that normalize() leaves as it is   *)
(* is in the column as it was sent, but for the sign.                        *)
UnroundedAmountsAreExact ==
    \A i \in DOMAIN rows :
       RoundedTo(Precision, rows[i].asked) = rows[i].asked
          => rows[i].asked \in {rows[i].amount, -rows[i].amount}

THEOREM OnlyRoundedAmountsChange == Spec => []UnroundedAmountsAreExact
<1>1. Inv => UnroundedAmountsAreExact
  <2> SUFFICES ASSUME Inv, NEW i \in DOMAIN rows,
                      RoundedTo(Precision, rows[i].asked) = rows[i].asked
               PROVE  rows[i].asked \in {rows[i].amount, -rows[i].amount}
      BY DEF UnroundedAmountsAreExact
  <2> DEFINE asked == rows[i].asked
             amount == rows[i].amount
  <2>1. asked \in Int /\ amount \in {Stored(asked), Stored(-asked)} /\ Writable(asked)
      BY DEF Inv, RowsInv, GoodRow
  <2>2. RoundedTo(Precision, asked) = asked
      OBVIOUS
  <2> HIDE DEF asked, amount
  <2>3. /\ asked > 0 /\ Decimals(asked) <= Places
        /\ Whole(asked) <= MaxDigits - Places
      BY <2>1, <2>2 DEF Writable, Accepts
  <2>4. Fits(asked)
    <3>1. Magnitude(asked) = asked
        BY <2>1, <2>3 DEF Magnitude
    <3> QED
        BY <2>3, <3>1 DEF Fits
  <2>5. OnScale(asked) /\ OnScale(-asked)
      BY <2>1, <2>4, FittingIsOnScale, OnScaleFacts
  <2>6. Stored(asked) = asked /\ Stored(-asked) = -asked
      BY <2>5, StoredIsExact
  <2>7. asked \in {amount, -amount}
      BY <2>1, <2>6
  <2> QED
      BY <2>7 DEF asked, amount
<1> QED
    BY <1>1, InvHolds, PTL

(* Whatever commits while a summary is read, its expenses are the sum of     *)
(* their categories, and its balances what the income, the expenses and the  *)
(* rows neither counts add up to, in every unit.                             *)
THEOREM SummaryAgreesHolds == Spec => []SummaryAgrees
<1>1. Inv => SummaryAgrees
  <2> SUFFICES ASSUME Inv, reader.phase = "answered" PROVE Agrees(reader)
      BY DEF SummaryAgrees
  <2>1. Read(reader)
      BY DEF Inv, SummaryInv, Summing, Read
  <2> QED
      BY <2>1, ReadAgrees
<1> QED
    BY <1>1, InvHolds, PTL

(* A walk that no commit interrupted shows each matching row once; one that  *)
(* only additions interrupted misses none of those that were there.          *)
THEOREM WalksMissOnlyWhatMovesHolds == Spec => []WalksMissOnlyWhatMoves
<1>1. Inv => WalksMissOnlyWhatMoves
    BY DEF Inv
<1> QED
    BY <1>1, InvHolds, PTL
=============================================================================
