--------------------------- MODULE RateLimitProofs ---------------------------
(***************************************************************************)
(* The limiter holds bursts: for any number of requests in flight, any     *)
(* limits and any clients.                                                 *)
(*                                                                         *)
(* An attempt that Redis has answered below the limit, but that is not yet *)
(* let through, waits.  Those already let through and those that wait have *)
(* each been given a count of their own, so together they are no more than *)
(* the counter, nor than the limit.                                        *)
(***************************************************************************)
EXTENDS RateLimit, FiniteSetTheorems, TLAPS

(* The requests that k would let through in the window it counts now. *)
Waiting(k) == {r \in Requests : k \in current[r] /\ replies[r][k] <= Limit(k)}

(* A request counts against keys of its own only until it is judged. *)
KeysAreCounted ==
    \A r \in Requests : /\ current[r] \subseteq keys[r]
                        /\ phase[r] = "idle" => keys[r] = {}

(* Each reply that lets a request through was a count of its own. *)
CountsAreShared ==
    \A k \in Key : admitted[k] + Cardinality(Waiting(k)) <= count[k]

RoomIsLeft ==
    \A k \in Key : admitted[k] + Cardinality(Waiting(k)) <= Limit(k)

Inv == TypeOK /\ KeysAreCounted /\ CountsAreShared /\ RoomIsLeft
-----------------------------------------------------------------------------
LEMMA LimitIsNat == \A k \in Key : Limit(k) \in Nat \ {0}
    BY RateLimitAssumption DEF Limit, Key

LEMMA KeysAreKeys ==
    ASSUME NEW K \in {LoginKeys(e, i) : e \in Emails, i \in IPs}
                     \cup {RegistrationKeys(i) : i \in IPs}
    PROVE  K \subseteq Key
<1>1. ASSUME NEW e \in Emails, NEW i \in IPs PROVE LoginKeys(e, i) \subseteq Key
    BY RateLimitAssumption DEF LoginKeys, Key
<1>2. ASSUME NEW i \in IPs PROVE RegistrationKeys(i) \subseteq Key
    BY DEF RegistrationKeys, Key
<1> QED
    BY <1>1, <1>2

LEMMA WaitingIsFinite ==
    \A k \in Key : IsFiniteSet(Waiting(k)) /\ Cardinality(Waiting(k)) \in Nat
<1> SUFFICES ASSUME NEW k \in Key
             PROVE  IsFiniteSet(Waiting(k)) /\ Cardinality(Waiting(k)) \in Nat
    OBVIOUS
<1>1. Waiting(k) \subseteq Requests
    BY DEF Waiting
<1> QED
    BY <1>1, RateLimitAssumption, FS_Subset, FS_CardinalityType

LEMMA WaitingIsFiniteNext ==
    \A k \in Key : IsFiniteSet(Waiting(k)') /\ Cardinality(Waiting(k)') \in Nat
<1> SUFFICES ASSUME NEW k \in Key
             PROVE  IsFiniteSet(Waiting(k)') /\ Cardinality(Waiting(k)') \in Nat
    OBVIOUS
<1>1. Waiting(k)' \subseteq Requests
    BY DEF Waiting
<1> QED
    BY <1>1, RateLimitAssumption, FS_Subset, FS_CardinalityType

(* INCR and EXPIRE keep the counters in bounds and take nothing away.       *)
LEMMA CountKeysType ==
    ASSUME TypeOK, NEW K \in SUBSET Key, CountKeys(K)
    PROVE  /\ count' \in [Key -> Nat]
           /\ \A k \in Key : count[k] <= count'[k] /\ count'[k] <= Limit(k) + 1
           /\ ttl' \in [Key -> 0..RateWindow]
<1> USE LimitIsNat DEF TypeOK, CountKeys
<1>1. \A k \in Key : /\ Incremented(k) \in Nat
                     /\ count[k] <= Incremented(k) /\ Incremented(k) <= Limit(k) + 1
    BY DEF Incremented
<1>2. \A k \in Key : Expiring(k) \in 0..RateWindow
    BY RateLimitAssumption DEF Expiring
<1> QED
    BY <1>1, <1>2

-----------------------------------------------------------------------------
LEMMA InitInv == Init => Inv
<1> SUFFICES ASSUME Init PROVE Inv
    OBVIOUS
<1>1. TypeOK
    BY LimitIsNat, RateLimitAssumption DEF Init, TypeOK, Phase, NoCount
<1>2. KeysAreCounted
    BY DEF Init, KeysAreCounted
<1>3. \A k \in Key : Cardinality(Waiting(k)) = 0
    BY FS_EmptySet DEF Init, Waiting
<1>4. CountsAreShared /\ RoomIsLeft
    BY <1>3, LimitIsNat DEF CountsAreShared, RoomIsLeft, Init, NoCount
<1> QED
    BY <1>1, <1>2, <1>4 DEF Inv

(* An answered count: r waits with a count of its own for each of its keys. *)
LEMMA CountStep ==
    ASSUME Inv, NEW r \in Requests,
           NEW K \in {LoginKeys(e, i) : e \in Emails, i \in IPs}
                     \cup {RegistrationKeys(i) : i \in IPs},
           Count(r, K)
    PROVE  Inv'
<1> USE DEF Inv
<1>1. K \in SUBSET Key
    BY KeysAreKeys
<1>2. /\ count' \in [Key -> Nat]
      /\ \A k \in Key : count[k] <= count'[k] /\ count'[k] <= Limit(k) + 1
      /\ ttl' \in [Key -> 0..RateWindow]
    BY <1>1, CountKeysType DEF Count
<1>3. \A k \in Key : /\ Incremented(k) \in Nat
                     /\ Incremented(k) <= Limit(k) + 1
                     /\ Incremented(k) <= Limit(k) => Incremented(k) = count[k] + 1
    BY LimitIsNat DEF Incremented, TypeOK
<1>4. TypeOK'
  <2>1. replies' \in [Requests -> [Key -> Nat]]
      BY <1>3 DEF TypeOK, Count
  <2>2. \A q \in Requests, k \in Key : replies'[q][k] <= Limit(k) + 1
      BY <1>3, LimitIsNat DEF TypeOK, Count
  <2> QED
      BY <1>1, <1>2, <2>1, <2>2 DEF TypeOK, Count, Phase
<1>5. KeysAreCounted'
    BY <1>1 DEF KeysAreCounted, Count, TypeOK, Phase
<1>6. ASSUME NEW k \in Key
      PROVE  /\ (admitted[k] + Cardinality(Waiting(k)) <= count[k])'
             /\ (admitted[k] + Cardinality(Waiting(k)) <= Limit(k))'
  <2>1. r \notin Waiting(k)
      BY DEF Waiting, KeysAreCounted, Count
  <2>2. CASE k \in K /\ Incremented(k) <= Limit(k)
    <3>1. Waiting(k)' = Waiting(k) \cup {r}
        BY <2>2 DEF Waiting, Count, TypeOK
    <3>2. Cardinality(Waiting(k)') = Cardinality(Waiting(k)) + 1
      <4>1. IsFiniteSet(Waiting(k))
          BY WaitingIsFinite
      <4> QED
          BY <2>1, <3>1, <4>1, FS_AddElement
    <3>3. count'[k] = count[k] + 1 /\ admitted'[k] = admitted[k]
        BY <1>3, <2>2 DEF Count, CountKeys
    <3> QED
        BY <1>3, <2>2, <3>2, <3>3, WaitingIsFinite, LimitIsNat
           DEF CountsAreShared, RoomIsLeft, TypeOK
  <2>3. CASE ~(k \in K /\ Incremented(k) <= Limit(k))
    <3>1. Waiting(k)' = Waiting(k)
        BY <2>1, <2>3 DEF Waiting, Count, TypeOK
    <3> QED
        BY <1>2, <3>1, WaitingIsFinite DEF CountsAreShared, RoomIsLeft, TypeOK, Count
  <2> QED
      BY <2>2, <2>3
<1> QED
    BY <1>4, <1>5, <1>6 DEF CountsAreShared, RoomIsLeft

(* A count whose answer is lost only leaves less room.                      *)
LEMMA CountUnansweredStep ==
    ASSUME Inv, NEW r \in Requests,
           NEW K \in {LoginKeys(e, i) : e \in Emails, i \in IPs}
                     \cup {RegistrationKeys(i) : i \in IPs},
           CountUnanswered(r, K)
    PROVE  Inv'
<1> USE DEF Inv
<1>1. /\ count' \in [Key -> Nat]
      /\ \A k \in Key : count[k] <= count'[k] /\ count'[k] <= Limit(k) + 1
      /\ ttl' \in [Key -> 0..RateWindow]
  <2>1. CASE CountKeys(K)
      BY <2>1, KeysAreKeys, CountKeysType
  <2>2. CASE UNCHANGED <<count, ttl>>
      BY <2>2 DEF TypeOK
  <2> QED
      BY <2>1, <2>2 DEF CountUnanswered
<1>2. \A k \in Key : Waiting(k)' = Waiting(k)
    BY DEF Waiting, CountUnanswered
<1>3. TypeOK' /\ KeysAreCounted'
    BY <1>1 DEF CountUnanswered, TypeOK, KeysAreCounted
<1>4. CountsAreShared' /\ RoomIsLeft'
    BY <1>1, <1>2, WaitingIsFinite
       DEF CountsAreShared, RoomIsLeft, CountUnanswered, TypeOK
<1> QED
    BY <1>3, <1>4

(* Let through, r no longer waits: what it had room for, it has used.       *)
LEMMA AdmitStep ==
    ASSUME Inv, NEW r \in Requests, Admit(r)
    PROVE  Inv'
<1> USE DEF Inv, Admit, Leave
<1>1. TypeOK'
    BY LimitIsNat DEF TypeOK, Phase, NoCount
<1>2. KeysAreCounted'
    BY DEF KeysAreCounted, TypeOK
<1>3. ASSUME NEW k \in Key
      PROVE  /\ (admitted[k] + Cardinality(Waiting(k)) <= count[k])'
             /\ (admitted[k] + Cardinality(Waiting(k)) <= Limit(k))'
  <2>1. Waiting(k)' = Waiting(k) \ {r}
      BY DEF Waiting, TypeOK
  <2>2. CASE k \in current[r]
    <3>1. r \in Waiting(k)
      <4>1. k \in keys[r]
          BY <2>2 DEF KeysAreCounted
      <4>2. ~(replies[r][k] > Limit(k))
          BY <4>1 DEF OverLimit
      <4>3. replies[r][k] \in Nat /\ Limit(k) \in Nat
          BY LimitIsNat DEF TypeOK
      <4> QED
          BY <2>2, <4>2, <4>3 DEF Waiting
    <3>2. Cardinality(Waiting(k)') = Cardinality(Waiting(k)) - 1
        BY <2>1, <3>1, WaitingIsFinite, FS_RemoveElement
    <3> QED
        BY <2>2, <3>2, WaitingIsFinite, LimitIsNat DEF CountsAreShared, RoomIsLeft, TypeOK
  <2>3. CASE k \notin current[r]
    <3>1. Waiting(k)' = Waiting(k)
        BY <2>1, <2>3 DEF Waiting
    <3> QED
        BY <2>3, <3>1 DEF CountsAreShared, RoomIsLeft, TypeOK
  <2> QED
      BY <2>2, <2>3
<1> QED
    BY <1>1, <1>2, <1>3 DEF CountsAreShared, RoomIsLeft

(* Refused, or lost with its worker, r only frees room.                     *)
LEMMA LeaveStep ==
    ASSUME Inv, NEW r \in Requests, Leave(r), UNCHANGED admitted
    PROVE  Inv'
<1> USE DEF Inv, Leave
<1>1. TypeOK'
    BY LimitIsNat DEF TypeOK, Phase, NoCount
<1>2. KeysAreCounted'
    BY DEF KeysAreCounted, TypeOK
<1>3. ASSUME NEW k \in Key
      PROVE  /\ Cardinality(Waiting(k)') \in Nat
             /\ Cardinality(Waiting(k)') <= Cardinality(Waiting(k))
  <2>1. Waiting(k)' \subseteq Waiting(k)
      BY DEF Waiting, TypeOK
  <2> QED
      BY <2>1, WaitingIsFinite, WaitingIsFiniteNext, FS_Subset
<1>4. CountsAreShared' /\ RoomIsLeft'
    BY <1>3, WaitingIsFinite, LimitIsNat DEF CountsAreShared, RoomIsLeft, TypeOK
<1> QED
    BY <1>1, <1>2, <1>4

(* With the counts go the attempts they let through and those they would    *)
(* have.                                                                    *)
LEMMA LoseStep ==
    ASSUME Inv, NEW K \in SUBSET Key, Lose(K),
           count' \in [Key -> Nat], \A k \in Key : count'[k] <= count[k],
           \A k \in Key \ K : count'[k] = count[k],
           ttl' \in [Key -> 0..RateWindow]
    PROVE  Inv'
<1> USE DEF Inv, Lose
<1>1. TypeOK'
    BY LimitIsNat DEF TypeOK
<1>2. KeysAreCounted'
    BY DEF KeysAreCounted, TypeOK
<1>3. ASSUME NEW k \in Key
      PROVE  /\ (admitted[k] + Cardinality(Waiting(k)) <= count[k])'
             /\ (admitted[k] + Cardinality(Waiting(k)) <= Limit(k))'
  <2>1. CASE k \in K
    <3>1. Waiting(k)' = {}
        BY <2>1 DEF Waiting, TypeOK
    <3> QED
        BY <2>1, <3>1, FS_EmptySet, LimitIsNat
  <2>2. CASE k \notin K
    <3>1. Waiting(k)' = Waiting(k)
        BY <2>2 DEF Waiting, TypeOK
    <3> QED
        BY <2>2, <3>1 DEF CountsAreShared, RoomIsLeft
  <2> QED
      BY <2>1, <2>2
<1> QED
    BY <1>1, <1>2, <1>3 DEF CountsAreShared, RoomIsLeft

LEMMA InvStep == Inv /\ [Next]_vars => Inv'
<1> SUFFICES ASSUME Inv, [Next]_vars PROVE Inv'
    OBVIOUS
<1>1. ASSUME NEW r \in Requests, Attempt(r) PROVE Inv'
    BY <1>1, CountStep, CountUnansweredStep DEF Attempt
<1>2. ASSUME NEW r \in Requests, Judge(r) PROVE Inv'
    BY <1>2, AdmitStep, LeaveStep DEF Judge, Refuse
<1>3. ASSUME NEW r \in Requests, Abandon(r) PROVE Inv'
    BY <1>3, LeaveStep DEF Abandon
<1>4. CASE Tick
  <2>1. ttl' \in [Key -> 0..RateWindow]
    <3>1. ASSUME NEW k \in Key
          PROVE  (IF ttl[k] = 0 THEN 0 ELSE ttl[k] - 1) \in 0..RateWindow
      <4>1. ttl[k] \in 0..RateWindow /\ RateWindow \in Nat
          BY RateLimitAssumption DEF Inv, TypeOK
      <4> QED
          BY <4>1
    <3> QED
        BY <1>4, <3>1 DEF Tick
  <2> DEFINE ended == {k \in Key : ttl[k] = 1}
  <2>2. /\ count' = [k \in Key |-> IF ttl[k] = 1 THEN 0 ELSE count[k]]
        /\ Lose(ended)
      BY <1>4 DEF Tick
  <2>3. /\ count' \in [Key -> Nat]
        /\ \A k \in Key : count'[k] <= count[k]
        /\ \A k \in Key \ ended : count'[k] = count[k]
      BY <2>2 DEF Inv, TypeOK
  <2> QED
      BY <2>1, <2>2, <2>3, LoseStep
<1>5. CASE RestartRedis
  <2>1. PICK saved \in [Live -> UNION {0..count[k] : k \in Live}] :
          /\ \A k \in Live : saved[k] <= count[k]
          /\ count' = [k \in Key |-> IF k \in Live THEN saved[k] ELSE 0]
          /\ Lose({k \in Live : saved[k] < count[k]})
      BY <1>5 DEF RestartRedis
  <2> DEFINE lost == {k \in Live : saved[k] < count[k]}
  <2>2. \A k \in Live : k \in Key /\ saved[k] \in Nat /\ saved[k] <= count[k]
      BY <2>1 DEF Live, Inv, TypeOK
  <2>3. lost \in SUBSET Key
      BY <2>2
  <2>4. /\ count' \in [Key -> Nat]
        /\ \A k \in Key : count'[k] <= count[k]
        /\ \A k \in Key \ lost : count'[k] = count[k]
    <3>1. ASSUME NEW k \in Key, k \in Live
          PROVE  /\ count'[k] \in Nat /\ count'[k] <= count[k]
                 /\ k \notin lost => count'[k] = count[k]
      <4>1. count'[k] = saved[k] /\ saved[k] \in Nat /\ saved[k] <= count[k]
          BY <2>1, <2>2, <3>1
      <4>2. count[k] \in Nat
          BY DEF Inv, TypeOK
      <4>3. k \notin lost => ~(saved[k] < count[k])
          BY <3>1
      <4> QED
          BY <4>1, <4>2, <4>3
    <3>2. ASSUME NEW k \in Key, k \notin Live
          PROVE  count'[k] = 0 /\ count[k] = 0
      <4>1. count'[k] = 0
          BY <2>1, <3>2
      <4>2. count[k] \in Nat /\ ~(count[k] > 0)
          BY <3>2 DEF Live, Inv, TypeOK
      <4> QED
          BY <4>1, <4>2
    <3>3. count' = [k \in Key |-> count'[k]]
        BY <2>1
    <3> QED
        BY <3>1, <3>2, <3>3
  <2>5. ttl' \in [Key -> 0..RateWindow]
      BY <1>5, RateLimitAssumption DEF RestartRedis, Inv, TypeOK
  <2> QED
      BY <2>1, <2>3, <2>4, <2>5, LoseStep
<1>6. CASE UNCHANGED vars
  <2>1. \A k \in Key : Waiting(k)' = Waiting(k)
      BY <1>6 DEF vars, Waiting
  <2> QED
      BY <1>6, <2>1 DEF vars, Inv, TypeOK, KeysAreCounted, CountsAreShared, RoomIsLeft
<1> QED
    BY <1>1, <1>2, <1>3, <1>4, <1>5, <1>6 DEF Next

THEOREM InvHolds == Spec => []Inv
    BY InitInv, InvStep, PTL DEF Spec

(* For any number of requests, addresses and limits, the state stays        *)
(* well-typed; in particular no counter is given longer than a window.      *)
THEOREM TypeOKHolds == Spec => []TypeOK
<1>1. Inv => TypeOK
    BY DEF Inv
<1> QED
    BY <1>1, InvHolds, PTL

(* Of the attempts that Redis answered in one window no more are let        *)
(* through than the limit of each key, however many were in flight at once. *)
THEOREM BurstsAreLimitedHolds == Spec => []BurstsAreLimited
<1>1. Inv => BurstsAreLimited
    BY WaitingIsFinite, LimitIsNat DEF Inv, RoomIsLeft, TypeOK, BurstsAreLimited
<1> QED
    BY <1>1, InvHolds, PTL
=============================================================================
