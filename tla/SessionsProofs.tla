--------------------------- MODULE SessionsProofs ---------------------------
(***************************************************************************)
(* Proofs about Sessions, for any set of requests: type correctness, the   *)
(* inductive invariant Inv with the safety properties it contains, and the *)
(* refinement of TokenChain.                                               *)
(***************************************************************************)
EXTENDS Sessions, TLAPS

-----------------------------------------------------------------------------
(* Every step keeps each variable in its type.  A rotation reads the family *)
(* of the token it presented, so that token must be one with a row.         *)
LEMMA TypeStep == TypeOK /\ WorkersHoldTheirRow /\ [Next]_vars => TypeOK'
<1> SUFFICES ASSUME TypeOK, WorkersHoldTheirRow, [Next]_vars PROVE TypeOK'
    OBVIOUS
<1> USE DEF TypeOK, Phase, Open, Answered, Op, Row
<1>1. ASSUME NEW r \in Requests, StartSession(r) PROVE TypeOK'
    BY <1>1 DEF StartSession
<1>2. ASSUME NEW r \in Requests, NEW o \in Op,
             NEW t \in Requests \cup {Unknown}, Present(r, o, t)
      PROVE TypeOK'
    BY <1>2 DEF Present
<1>3. ASSUME NEW r \in Requests, LockRow(r) PROVE TypeOK'
    BY <1>3 DEF LockRow, Stored
<1>4. ASSUME NEW r \in Requests, FindNothing(r) PROVE TypeOK'
    BY <1>4 DEF FindNothing, RollBack, Released
<1>5. ASSUME NEW r \in Requests, Rotate(r) PROVE TypeOK'
  <2>1. family[token[r]] \in Requests
      BY <1>5 DEF Rotate, WorkersHoldTheirRow, HoldsItsRow, Stored
  <2> QED
      BY <1>5, <2>1 DEF Rotate
<1>6. ASSUME NEW r \in Requests, RefuseExpired(r) PROVE TypeOK'
    BY <1>6 DEF RefuseExpired, RollBack, Released
<1>7. ASSUME NEW r \in Requests, BeginRevoke(r) PROVE TypeOK'
    BY <1>7 DEF BeginRevoke, Visible
<1>8. ASSUME NEW r \in Requests, NEW t \in Requests, DeleteRow(r, t)
      PROVE TypeOK'
    BY <1>8 DEF DeleteRow
<1>9. ASSUME NEW r \in Requests, CommitPair(r) PROVE TypeOK'
    BY <1>9 DEF CommitPair, Released
<1>10. ASSUME NEW r \in Requests, CommitRevoke(r) PROVE TypeOK'
    BY <1>10 DEF CommitRevoke, Released
<1>11. ASSUME NEW r \in Requests, AbortDeadlock(r) PROVE TypeOK'
    BY <1>11 DEF AbortDeadlock, RollBack, Released
<1>12. ASSUME NEW r \in Requests, Fail(r) PROVE TypeOK'
    BY <1>12 DEF Fail, RollBack, Released
<1>13. ASSUME NEW r \in Requests, Expire(r) PROVE TypeOK'
    BY <1>13 DEF Expire
<1>14. CASE UNCHANGED vars
    BY <1>14 DEF vars
<1> QED
    BY <1>1, <1>2, <1>3, <1>4, <1>5, <1>6, <1>7, <1>8, <1>9, <1>10, <1>11,
       <1>12, <1>13, <1>14 DEF Next, Serve

-----------------------------------------------------------------------------
(* The empty table satisfies the inductive invariant. *)
LEMMA InvInit == Init => Inv
<1> SUFFICES ASSUME Init PROVE Inv
    OBVIOUS
<1>1. TypeOK
    BY DEF Init, TypeOK, Phase, Op, Row
<1>2. WorkersHoldTheirRow /\ RotationsSpendUnused /\ LoginsNameTheirFamily
    BY DEF Init, WorkersHoldTheirRow, HoldsItsRow, RotationsSpendUnused,
           LoginsNameTheirFamily
<1>3. TokensAreAnswered /\ SpentStaysSpent /\ SweepsOneFamily
    BY DEF Init, TokensAreAnswered, Stored, SpentStaysSpent, SweepsOneFamily
<1>4. OneLivePerFamily /\ SpentOnce /\ SweptStaysGone
    BY DEF Init, OneLivePerFamily, SpentOnce, SweptStaysGone
<1> QED
    BY <1>1, <1>2, <1>3, <1>4 DEF Inv

(* The two ways CommitPair writes: a sign-in adds a row, a rotation marks   *)
(* the row it locked and adds its successor.                                *)
SignInCommits(r) ==
    /\ op[r] = "login"
    /\ family[r] = r
    /\ sessions' = [sessions EXCEPT ![r] = "unused"]

RotationCommits(r) ==
    /\ op[r] = "refresh"
    /\ token[r] \in Requests \ {r}
    /\ lock[token[r]] = r
    /\ sessions[token[r]] = "unused"
    /\ phase[token[r]] = "issued"
    /\ family[r] = family[token[r]]
    /\ sessions' = [sessions EXCEPT ![token[r]] = "used", ![r] = "unused"]

LEMMA PairWrites ==
    ASSUME Inv, NEW r \in Requests, CommitPair(r)
    PROVE  sessions[r] = "none" /\ (SignInCommits(r) \/ RotationCommits(r))
<1>1. sessions[r] = "none" /\ phase[r] = "writing"
    BY DEF Inv, CommitPair, TokensAreAnswered, Stored
<1>2. CASE op[r] = "login"
    BY <1>1, <1>2 DEF Inv, CommitPair, LoginsNameTheirFamily, SignInCommits
<1>3. CASE op[r] # "login"
  <2>1. op[r] = "refresh"
      BY <1>1, <1>3 DEF Inv, TypeOK, Op, LoginsNameTheirFamily
  <2>2. /\ Stored(token[r])
        /\ lock[token[r]] = r
        /\ sessions[token[r]] = "unused"
        /\ family[r] = family[token[r]]
      BY <1>1, <2>1 DEF Inv, WorkersHoldTheirRow, HoldsItsRow,
                        RotationsSpendUnused
  <2>3. phase[token[r]] = "issued"
      BY <2>2 DEF Inv, TokensAreAnswered, Stored
  <2> QED
      BY <1>1, <2>1, <2>2, <2>3 DEF CommitPair, Stored, RotationCommits
<1> QED
    BY <1>2, <1>3

(* Every step keeps the inductive invariant.  Only the two commits write    *)
(* rows; the steps before them move locks and phases.                       *)
LEMMA InvStep == Inv /\ [Next]_vars => Inv'
<1> SUFFICES ASSUME Inv, [Next]_vars PROVE Inv'
    OBVIOUS
<1>0. TypeOK /\ TypeOK'
    BY TypeStep DEF Inv
<1> USE DEF Inv, TypeOK, WorkersHoldTheirRow, HoldsItsRow,
            RotationsSpendUnused, TokensAreAnswered, LoginsNameTheirFamily,
            SpentStaysSpent, SweepsOneFamily, OneLivePerFamily, SpentOnce,
            SweptStaysGone, Stored
<1>1. ASSUME NEW r \in Requests, StartSession(r) PROVE Inv'
    BY <1>0, <1>1, DistinctValues DEF StartSession
<1>2. ASSUME NEW r \in Requests, NEW o \in Op,
             NEW t \in Requests \cup {Unknown}, Present(r, o, t)
      PROVE Inv'
    BY <1>0, <1>2, DistinctValues DEF Present
<1>3. ASSUME NEW r \in Requests, LockRow(r) PROVE Inv'
    BY <1>0, <1>3, DistinctValues DEF LockRow, LockFree
<1>4. ASSUME NEW r \in Requests, FindNothing(r) PROVE Inv'
    BY <1>0, <1>4, DistinctValues DEF FindNothing, RollBack, Released
<1>5. ASSUME NEW r \in Requests, Rotate(r) PROVE Inv'
    BY <1>0, <1>5, DistinctValues DEF Rotate
<1>6. ASSUME NEW r \in Requests, RefuseExpired(r) PROVE Inv'
    BY <1>0, <1>6, DistinctValues DEF RefuseExpired, RollBack, Released
<1>7. ASSUME NEW r \in Requests, BeginRevoke(r) PROVE Inv'
    BY <1>0, <1>7, DistinctValues DEF BeginRevoke, Visible
<1>8. ASSUME NEW r \in Requests, NEW t \in Requests, DeleteRow(r, t)
      PROVE Inv'
    BY <1>0, <1>8, DistinctValues DEF DeleteRow, LockFree, Remaining
<1>9. ASSUME NEW r \in Requests, CommitPair(r) PROVE Inv'
  <2>1. SignInCommits(r) \/ RotationCommits(r)
      BY <1>9, PairWrites
  <2>2. /\ phase[r] = "writing"
        /\ phase' = [phase EXCEPT ![r] = "issued"]
        /\ lock' = Released(r)
        /\ UNCHANGED <<op, token, family, targets, expired>>
      BY <1>9 DEF CommitPair
  <2>3. CASE SignInCommits(r)
      BY <1>0, <2>2, <2>3, DistinctValues DEF SignInCommits, Released
  <2>4. CASE RotationCommits(r)
    <3> USE DEF RotationCommits
    <3>1. WorkersHoldTheirRow' /\ RotationsSpendUnused'
        BY <1>0, <2>2, <2>4, DistinctValues DEF Released
    <3>2. TokensAreAnswered' /\ LoginsNameTheirFamily'
        BY <1>0, <2>2, <2>4
    <3>3. SpentStaysSpent' /\ SpentOnce'
        BY <1>0, <2>2, <2>4, DistinctValues
    <3>4. SweepsOneFamily' /\ SweptStaysGone'
        BY <1>0, <2>2, <2>4
    <3>5. OneLivePerFamily'
        BY <1>0, <2>2, <2>4
    <3> QED
        BY <1>0, <3>1, <3>2, <3>3, <3>4, <3>5
  <2> QED
      BY <2>1, <2>3, <2>4
<1>10. ASSUME NEW r \in Requests, CommitRevoke(r) PROVE Inv'
  <2> USE DEF CommitRevoke
  <2>1. WorkersHoldTheirRow' /\ RotationsSpendUnused'
      BY <1>0, <1>10, DistinctValues DEF Released, Remaining
  <2>2. TokensAreAnswered' /\ LoginsNameTheirFamily'
      BY <1>0, <1>10
  <2>3. SpentStaysSpent' /\ SpentOnce'
      BY <1>0, <1>10
  <2>4. SweepsOneFamily' /\ SweptStaysGone'
      BY <1>0, <1>10
  <2>5. OneLivePerFamily'
      BY <1>0, <1>10
  <2> QED
      BY <1>0, <2>1, <2>2, <2>3, <2>4, <2>5
<1>11. ASSUME NEW r \in Requests, AbortDeadlock(r) PROVE Inv'
    BY <1>0, <1>11, DistinctValues DEF AbortDeadlock, RollBack, Released
<1>12. ASSUME NEW r \in Requests, Fail(r) PROVE Inv'
    BY <1>0, <1>12, DistinctValues DEF Fail, RollBack, Released, Open
<1>13. ASSUME NEW r \in Requests, Expire(r) PROVE Inv'
    BY <1>0, <1>13 DEF Expire
<1>14. CASE UNCHANGED vars
    BY <1>14 DEF vars
<1> QED
    BY <1>1, <1>2, <1>3, <1>4, <1>5, <1>6, <1>7, <1>8, <1>9, <1>10, <1>11,
       <1>12, <1>13, <1>14 DEF Next, Serve

(* The inductive invariant holds in every reachable state. *)
THEOREM InvHolds == Spec => []Inv
    BY InvInit, InvStep, PTL DEF Spec

(* Type correctness: every reachable state gives each variable a value of   *)
(* its type.  The locked and revoking phases presuppose a stored row, which *)
(* is why it needs the inductive invariant.                                 *)
THEOREM TypeCorrect == Spec => []TypeOK
<1>1. Inv => TypeOK
    BY DEF Inv
<1> QED
    BY <1>1, InvHolds, PTL

(* Whatever races on however many tokens, a login chain has at most one     *)
(* unspent token: the guarantee of the row lock in refresh_session.         *)
THEOREM ChainHasOneLiveToken == Spec => []OneLivePerFamily
<1>1. Inv => OneLivePerFamily
    BY DEF Inv
<1> QED
    BY <1>1, InvHolds, PTL

(* Two requests racing one token cannot both rotate it.                     *)
THEOREM NoTokenRotatesTwice == Spec => []SpentOnce
<1>1. Inv => SpentOnce
    BY DEF Inv
<1> QED
    BY <1>1, InvHolds, PTL

(* What an answered revocation deleted stays deleted.                       *)
THEOREM RevocationsLast == Spec => []SweptStaysGone
<1>1. Inv => SweptStaysGone
    BY DEF Inv
<1> QED
    BY <1>1, InvHolds, PTL

-----------------------------------------------------------------------------
(* The refinement.  A token has a status of its own only once its request   *)
(* was answered; until then it is unissued and its own kin.                 *)
LEMMA StatusCases ==
    ASSUME Inv, NEW t \in Requests
    PROVE  /\ sessions[t] = "unused" <=> StatusOf(t) = "live"
           /\ sessions[t] = "used" <=> StatusOf(t) = "burnt"
           /\ sessions[t] = "none" /\ phase[t] = "issued"
                <=> StatusOf(t) = "gone"
           /\ phase[t] # "issued" <=> StatusOf(t) = "unissued"
    BY DEF Inv, TypeOK, Row, TokensAreAnswered, Stored, StatusOf

(* A step that leaves rows, answers and families of issued tokens alone is  *)
(* a stutter of the abstract store.                                         *)
LEMMA QuietSteps ==
    ASSUME Inv, Inv', UNCHANGED sessions,
           \A t \in Requests : (phase[t] = "issued") <=> (phase'[t] = "issued"),
           \A t \in Requests : phase[t] = "issued" => family'[t] = family[t]
    PROVE  UNCHANGED <<StatusMap, KinMap>>
<1>1. ASSUME NEW t \in Requests PROVE StatusOf(t)' = StatusOf(t)
    BY <1>1 DEF StatusOf
<1>2. ASSUME NEW t \in Requests, StatusOf(t) # "unissued"
      PROVE  family'[t] = family[t]
    BY <1>2, StatusCases
<1> QED
    BY <1>1, <1>2 DEF StatusMap, KinMap

(* The empty table is the empty abstract store. *)
LEMMA ChainInitHolds == Init => Chain!ChainInit
<1> SUFFICES ASSUME Init PROVE Chain!ChainInit
    OBVIOUS
<1>1. ASSUME NEW t \in Requests PROVE StatusOf(t) = "unissued"
    BY DEF Init, StatusOf
<1> QED
    BY <1>1 DEF Chain!ChainInit, StatusMap, KinMap

(* The commit of a sign-in starts a family. *)
LEMMA SignInStartsFamily ==
    ASSUME Inv, Inv', NEW r \in Requests, CommitPair(r), SignInCommits(r)
    PROVE  Chain!StartFamily(r)
<1>1. phase[r] = "writing" /\ phase' = [phase EXCEPT ![r] = "issued"]
      /\ UNCHANGED family
    BY DEF CommitPair
<1>2. StatusOf(r) = "unissued"
    BY <1>1, StatusCases
<1>3. ASSUME NEW s \in Requests \ {r} PROVE KinMap[s] # r
  <2>1. CASE StatusOf(s) = "unissued"
      BY <2>1 DEF KinMap
  <2>2. CASE StatusOf(s) # "unissued"
    <3>1. phase[family[s]] = "issued"
        BY <2>2, StatusCases DEF Inv, TokensAreAnswered
    <3> QED
        BY <1>1, <2>2, <3>1 DEF KinMap
  <2> QED
      BY <2>1, <2>2
<1>4. StatusOf(r)' = "live" /\ KinMap'[r] = r
    BY <1>1 DEF Inv, TypeOK, SignInCommits, StatusOf, KinMap
<1>5. ASSUME NEW s \in Requests \ {r}
      PROVE  StatusOf(s)' = StatusOf(s) /\ KinMap'[s] = KinMap[s]
    BY <1>1 DEF Inv, TypeOK, SignInCommits, StatusOf, KinMap
<1>6. StatusMap' = [StatusMap EXCEPT ![r] = "live"]
    BY <1>4, <1>5 DEF StatusMap
<1>7. KinMap' = [KinMap EXCEPT ![r] = r]
    BY <1>4, <1>5 DEF KinMap
<1> QED
    BY <1>2, <1>3, <1>6, <1>7 DEF Chain!StartFamily, StatusMap

(* The commit of a rotation spends the presented token. *)
LEMMA RotationSpends ==
    ASSUME Inv, Inv', NEW r \in Requests, CommitPair(r), RotationCommits(r)
    PROVE  token[r] \in Requests /\ Chain!Spend(token[r], r)
<1>0. PICK t \in Requests : t = token[r]
    BY DEF RotationCommits
<1>1. phase[r] = "writing" /\ phase' = [phase EXCEPT ![r] = "issued"]
      /\ UNCHANGED family
    BY DEF CommitPair
<1>2. t \in Requests \ {r} /\ sessions[t] = "unused"
      /\ phase[t] = "issued" /\ family[r] = family[t]
      /\ sessions' = [sessions EXCEPT ![t] = "used", ![r] = "unused"]
    BY <1>0 DEF RotationCommits
<1>3. StatusOf(t) = "live" /\ StatusOf(r) = "unissued"
    BY <1>1, <1>2, StatusCases
<1>4. StatusOf(t)' = "burnt" /\ StatusOf(r)' = "live"
    BY <1>1, <1>2 DEF Inv, TypeOK, StatusOf
<1>5. ASSUME NEW s \in Requests \ {r, t} PROVE StatusOf(s)' = StatusOf(s)
    BY <1>1, <1>2 DEF Inv, TypeOK, StatusOf
<1>6. StatusMap' = [StatusMap EXCEPT ![t] = "burnt", ![r] = "live"]
    BY <1>2, <1>4, <1>5 DEF StatusMap
<1>7. KinMap' = [KinMap EXCEPT ![r] = KinMap[t]]
    BY <1>1, <1>2, <1>3, <1>4, <1>5 DEF KinMap
<1> QED
    BY <1>0, <1>2, <1>3, <1>6, <1>7 DEF Chain!Spend, StatusMap

(* The commit of a revocation removes the rows it swept, all of one family. *)
LEMMA RevocationRevokes ==
    ASSUME Inv, Inv', NEW r \in Requests, CommitRevoke(r)
    PROVE  \/ \E f \in Requests, S \in SUBSET Requests : Chain!Revoke(f, S)
           \/ UNCHANGED <<StatusMap, KinMap>>
<1> DEFINE S == {t \in targets[r] : Stored(t)}
           f == family[token[r]]
<1>1. /\ phase[r] = "revoking"
      /\ phase' = [phase EXCEPT ![r] =
                     IF op[r] = "refresh" THEN "reused" ELSE "loggedOut"]
      /\ sessions' = [t \in Requests |->
                        IF t \in targets[r] THEN "none" ELSE sessions[t]]
      /\ UNCHANGED family
    BY DEF CommitRevoke
<1>2. token[r] \in Requests /\ f \in Requests /\ S \in SUBSET Requests
    BY <1>1 DEF Inv, TypeOK, WorkersHoldTheirRow, HoldsItsRow, Stored
<1>3. ASSUME NEW t \in S
      PROVE  family[t] = f /\ StatusOf(t) \in {"live", "burnt"}
             /\ phase[t] = "issued"
    BY DEF Inv, TypeOK, Row, SweepsOneFamily, TokensAreAnswered, Stored,
           StatusOf
<1>4. ASSUME NEW t \in S PROVE StatusOf(t)' = "gone"
    BY <1>1, <1>2, <1>3 DEF Inv, TypeOK, StatusOf
<1>5. ASSUME NEW t \in Requests \ S PROVE StatusOf(t)' = StatusOf(t)
    BY <1>1 DEF Inv, TypeOK, Stored, StatusOf
<1>6. StatusMap' = [t \in Requests |-> IF t \in S THEN "gone" ELSE StatusMap[t]]
    BY <1>4, <1>5 DEF StatusMap
<1>7. KinMap' = KinMap
    BY <1>1, <1>3, <1>4, <1>5 DEF KinMap
<1>8. CASE S = {}
    BY <1>5, <1>7, <1>8 DEF StatusMap
<1>9. CASE S # {}
  <2>1. ASSUME NEW t \in S
        PROVE  KinMap[t] = f /\ StatusMap[t] \in {"live", "burnt"}
      BY <1>2, <1>3 DEF KinMap, StatusMap
  <2>2. Chain!Revoke(f, S)
      BY <1>6, <1>7, <1>9, <2>1 DEF Chain!Revoke
  <2> QED
      BY <1>2, <2>2
<1> QED
    BY <1>8, <1>9

(* Every other step is a stutter of the abstract store. *)
LEMMA ChainStep ==
    Inv /\ Inv' /\ [Next]_vars => [Chain!ChainNext]_(Chain!chainVars)
<1> SUFFICES ASSUME Inv, Inv', [Next]_vars
             PROVE  Chain!ChainNext \/ UNCHANGED <<StatusMap, KinMap>>
    BY DEF Chain!chainVars
<1>1. ASSUME NEW r \in Requests, CommitPair(r) PROVE Chain!ChainNext
  <2>1. SignInCommits(r) \/ RotationCommits(r)
      BY <1>1, PairWrites
  <2> QED
      BY <1>1, <2>1, SignInStartsFamily, RotationSpends DEF Chain!ChainNext
<1>2. ASSUME NEW r \in Requests, CommitRevoke(r)
      PROVE  Chain!ChainNext \/ UNCHANGED <<StatusMap, KinMap>>
    BY <1>2, RevocationRevokes DEF Chain!ChainNext
<1>3. ASSUME NEW r \in Requests, Rotate(r)
      PROVE  UNCHANGED <<StatusMap, KinMap>>
    BY <1>3, QuietSteps DEF Rotate, Inv, TypeOK
<1>4. ASSUME NEW r \in Requests,
             \/ StartSession(r)
             \/ \E o \in Op, t \in Requests \cup {Unknown} : Present(r, o, t)
             \/ LockRow(r) \/ FindNothing(r) \/ RefuseExpired(r)
             \/ BeginRevoke(r)
             \/ \E t \in Requests : DeleteRow(r, t)
             \/ AbortDeadlock(r) \/ Fail(r) \/ Expire(r)
      PROVE  UNCHANGED <<StatusMap, KinMap>>
    BY <1>4, QuietSteps
       DEF Inv, TypeOK, StartSession, Present, LockRow, FindNothing,
           RefuseExpired, BeginRevoke, DeleteRow, AbortDeadlock, Fail, Open,
           Expire, RollBack
<1>5. CASE UNCHANGED vars
    BY <1>5, QuietSteps DEF vars
<1> QED
    BY <1>1, <1>2, <1>3, <1>4, <1>5 DEF Next, Serve

(* The transactions on the sessions table implement the abstract store: to  *)
(* its callers every step is a sign-in, one rotation, a removal or nothing. *)
THEOREM ImplementsTokenChain == Spec => KeepsTokenChain
<1>1. Init => Chain!ChainInit
    BY ChainInitHolds
<1>2. Inv /\ Inv' /\ [Next]_vars => [Chain!ChainNext]_(Chain!chainVars)
    BY ChainStep
<1> QED
    BY <1>1, <1>2, InvHolds, PTL DEF Spec, KeepsTokenChain, Chain!ChainSpec
=============================================================================
