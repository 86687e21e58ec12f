---------------------------- MODULE SignInProofs ----------------------------
(***************************************************************************)
(* Proofs about SignIn, for any sets of requests, addresses and passwords: *)
(* type correctness, one user per address, and that answers agree with     *)
(* what was stored although a COMMIT may go unconfirmed.                   *)
(***************************************************************************)
EXTENDS SignIn, TLAPS

(* An INSERT that was flushed holds its address, which no user has: the     *)
(* unique index makes every other registration of it wait or fail.          *)
InsertsHoldTheirAddress ==
    \A r \in Requests : phase[r] = "flushed" /\ op[r] = "register" =>
        /\ inserting[address[r]] = r
        /\ UsersOf(address[r]) = {}

(* Only a login looks a subject up: a registration signs its own user in,   *)
(* and it alone hashes a password.                                          *)
RegistrationsNameThemselves ==
    \A r \in Requests : /\ op[r] = "register" => subject[r] = r
                        /\ phase[r] = "hashing" => op[r] = "register"

(* A flushed request has inserted itself or found a user who matches it.    *)
FlushedHasSubject ==
    \A r \in Requests : phase[r] = "flushed" /\ op[r] = "login" =>
        /\ subject[r] \in users
        /\ address[subject[r]] = address[r] /\ password[subject[r]] = password[r]

(* What is stored was committed by its request, and a commit stores.        *)
CommitsStore ==
    \A r \in Requests :
        /\ phase[r] \in {"committed", "signedIn"} => <<r, subject[r]>> \in chains
        /\ r \in users => phase[r] \in {"committed", "signedIn", "failed"}
        /\ op[r] = "login" => r \notin users

Inv ==
    /\ TypeOK
    /\ InsertsHoldTheirAddress
    /\ RegistrationsNameThemselves
    /\ FlushedHasSubject
    /\ CommitsStore
    /\ OneUserPerAddress
    /\ SignedInMeansStored

-----------------------------------------------------------------------------
LEMMA InvInit == Init => Inv
<1> SUFFICES ASSUME Init PROVE Inv
    OBVIOUS
<1>1. TypeOK
    BY DEF Init, TypeOK, Phase, Underway, Open, Answered
<1>2. InsertsHoldTheirAddress /\ RegistrationsNameThemselves
    BY DEF Init, InsertsHoldTheirAddress, RegistrationsNameThemselves
<1>3. OneUserPerAddress /\ SignedInMeansStored
    BY DEF Init, OneUserPerAddress, SignedInMeansStored
<1>4. FlushedHasSubject /\ CommitsStore
    BY DEF Init, FlushedHasSubject, CommitsStore
<1> QED
    BY <1>1, <1>2, <1>3, <1>4 DEF Inv

(* The property of what is stored, one request at a time.                   *)
StoredRight(r) ==
    /\ phase[r] = "signedIn" => <<r, subject[r]>> \in chains
    /\ op[r] = "register" => (r \in users <=> <<r, r>> \in chains)
    /\ \A u \in Requests : <<r, u>> \in chains =>
          /\ u \in users
          /\ address[u] = address[r] /\ password[u] = password[r]
          /\ phase[r] \in {"committed", "signedIn", "failed"}

LEMMA StoredRightForAll ==
    /\ SignedInMeansStored <=> \A r \in Requests : StoredRight(r)
    /\ SignedInMeansStored' <=> \A r \in Requests : StoredRight(r)'
BY DEF SignedInMeansStored, StoredRight

(* A request that stores nothing and has stored nothing, and is not told    *)
(* that it did, changes nothing about what is stored.                       *)
LEMMA QuietKeepsStored ==
    ASSUME TypeOK, SignedInMeansStored, NEW r \in Requests, NEW next,
           phase[r] \in Open, next # "signedIn", phase' = [phase EXCEPT ![r] = next],
           UNCHANGED <<op, address, password, subject, users, chains>>
    PROVE  SignedInMeansStored'
<1> SUFFICES ASSUME NEW q \in Requests PROVE StoredRight(q)'
    BY StoredRightForAll
<1>1. StoredRight(q)
    BY StoredRightForAll
<1>2. CASE q = r
    BY <1>1, <1>2 DEF StoredRight, TypeOK, Open
<1>3. CASE q # r
    BY <1>1, <1>3 DEF StoredRight, TypeOK
<1> QED
    BY <1>2, <1>3

(* A rollback forgets what the request was inserting, and stores nothing.   *)
LEMMA RollBackKeepsInv ==
    ASSUME Inv, NEW r \in Requests, phase[r] \in Open,
           NEW answer \in {"taken", "wrong", "failed"}, RollBack(r, answer)
    PROVE  Inv'
<1>5. SignedInMeansStored'
    BY QuietKeepsStored DEF Inv, RollBack, EndTransaction
<1> USE DEF Inv, RollBack, EndTransaction, TypeOK, Phase, Underway, Open, Answered
<1>1. TypeOK'
    OBVIOUS
<1>2. InsertsHoldTheirAddress'
    BY DEF InsertsHoldTheirAddress, UsersOf
<1>3. RegistrationsNameThemselves' /\ OneUserPerAddress'
    BY DEF RegistrationsNameThemselves, OneUserPerAddress
<1>4. FlushedHasSubject' /\ CommitsStore'
    BY DEF FlushedHasSubject, CommitsStore
<1> QED
    BY <1>1, <1>2, <1>3, <1>4, <1>5

(* A commit of a registration adds the one user of an address that had none.*)
LEMMA CommitKeepsInv ==
    ASSUME Inv, NEW r \in Requests, Commit(r)
    PROVE  Inv'
<1> USE DEF Inv, Commit, EndTransaction, Store, TypeOK
<1>1. TypeOK'
    BY DEF Phase, Underway, Open, Answered
<1>2. InsertsHoldTheirAddress'
    BY DEF InsertsHoldTheirAddress, UsersOf
<1>3. RegistrationsNameThemselves'
    BY DEF RegistrationsNameThemselves
<1>4. OneUserPerAddress'
    BY DEF OneUserPerAddress, InsertsHoldTheirAddress, UsersOf
<1>5. FlushedHasSubject'
    BY DEF FlushedHasSubject
<1>6. CommitsStore'
    BY DEF CommitsStore
<1>7. /\ subject[r] \in users'
      /\ address[subject[r]] = address[r] /\ password[subject[r]] = password[r]
  <2>1. CASE op[r] = "register"
      BY <2>1 DEF RegistrationsNameThemselves
  <2>2. CASE op[r] = "login"
      BY <2>2 DEF FlushedHasSubject
  <2> QED
      BY <2>1, <2>2 DEF Op
<1>8. SignedInMeansStored'
  <2> SUFFICES ASSUME NEW q \in Requests PROVE StoredRight(q)'
      BY StoredRightForAll
  <2>3. StoredRight(q) /\ StoredRight(r)
      BY StoredRightForAll
  <2>1. CASE q = r
    <3>1. \A u \in Requests : <<r, u>> \notin chains
        BY <2>3 DEF StoredRight
    <3>2. \A u \in Requests : <<r, u>> \in chains' <=> u = subject[r]
        BY <3>1
    <3>3. phase'[r] = "committed"
        OBVIOUS
    <3> QED
        BY <1>7, <2>1, <3>2, <3>3 DEF RegistrationsNameThemselves, StoredRight
  <2>2. CASE q # r
    <3>1. \A u \in Requests : <<q, u>> \in chains' <=> <<q, u>> \in chains
        BY <2>2
    <3>2. (q \in users' <=> q \in users) /\ users \subseteq users'
        BY <2>2
    <3>3. phase'[q] = phase[q]
        BY <2>2
    <3>4. subject[q] \in Requests
        OBVIOUS
    <3> QED
        BY <2>3, <3>1, <3>2, <3>3, <3>4 DEF StoredRight
  <2> QED
      BY <2>1, <2>2
<1> QED
    BY <1>1, <1>2, <1>3, <1>4, <1>5, <1>6, <1>8

LEMMA InvStep == Inv /\ [Next]_vars => Inv'
<1> SUFFICES ASSUME Inv, [Next]_vars PROVE Inv'
    OBVIOUS
<1> USE DEF Inv, TypeOK, Phase, Underway, Open, Answered, InsertsHoldTheirAddress,
            RegistrationsNameThemselves, FlushedHasSubject, CommitsStore,
            OneUserPerAddress, SignedInMeansStored, UsersOf
<1>1. ASSUME NEW r \in Requests, Arrive(r) PROVE Inv'
    BY <1>1 DEF Arrive
<1>2. ASSUME NEW r \in Requests, RefuseKnown(r) PROVE Inv'
    BY <1>2, RollBackKeepsInv DEF RefuseKnown
<1>3. ASSUME NEW r \in Requests, LookUpUnknown(r) PROVE Inv'
    BY <1>3 DEF LookUpUnknown
<1>4. ASSUME NEW r \in Requests, InsertUser(r) PROVE Inv'
  <2>1. TypeOK'
      BY <1>4 DEF InsertUser
  <2>2. InsertsHoldTheirAddress'
      BY <1>4, SignInAssumption DEF InsertUser
  <2>3. RegistrationsNameThemselves' /\ OneUserPerAddress'
      BY <1>4 DEF InsertUser
  <2>4. FlushedHasSubject' /\ CommitsStore'
      BY <1>4 DEF InsertUser
  <2>5. SignedInMeansStored'
      BY <1>4, QuietKeepsStored DEF InsertUser
  <2> QED
      BY <2>1, <2>2, <2>3, <2>4, <2>5
<1>5. ASSUME NEW r \in Requests, LoseRace(r) PROVE Inv'
    BY <1>5, RollBackKeepsInv DEF LoseRace
<1>6. ASSUME NEW r \in Requests, RefuseCredentials(r) PROVE Inv'
    BY <1>6, RollBackKeepsInv DEF RefuseCredentials
<1>7. ASSUME NEW r \in Requests, AcceptCredentials(r) PROVE Inv'
    BY <1>7 DEF AcceptCredentials, Matches
<1>8. ASSUME NEW r \in Requests, Commit(r) PROVE Inv'
    BY <1>8, CommitKeepsInv
<1>9. ASSUME NEW r \in Requests, Answer(r) PROVE Inv'
    BY <1>9 DEF Answer
<1>10. ASSUME NEW r \in Requests, LoseAnswer(r) PROVE Inv'
    BY <1>10 DEF LoseAnswer
<1>11. ASSUME NEW r \in Requests, Fail(r) PROVE Inv'
    BY <1>11, RollBackKeepsInv DEF Fail
<1>12. CASE UNCHANGED vars
    BY <1>12 DEF vars
<1> QED
    BY <1>1, <1>2, <1>3, <1>4, <1>5, <1>6, <1>7, <1>8, <1>9, <1>10, <1>11, <1>12
       DEF Next, Serve

-----------------------------------------------------------------------------
(* The inductive invariant of the users table.                              *)
THEOREM InvHolds == Spec => []Inv
<1> QED
    BY InvInit, InvStep, PTL DEF Spec

(* Every variable keeps its type.                                           *)
THEOREM TypeCorrect == Spec => []TypeOK
<1>1. Inv => TypeOK
    BY DEF Inv
<1> QED
    BY <1>1, InvHolds, PTL

(* No address ever has two users, whatever registrations race between their *)
(* lookup and their INSERT (services/auth.py:71).                           *)
THEOREM AddressHasOneUser == Spec => []OneUserPerAddress
<1>1. Inv => OneUserPerAddress
    BY DEF Inv
<1> QED
    BY <1>1, InvHolds, PTL

(* Who is told of a session has it, a user is stored with its first session *)
(* or not at all, a session is only of the user who was asked for, and a    *)
(* refused request left nothing; only a failed one may have been committed  *)
(* (core/database.py:42, 66).                                               *)
THEOREM AnswersAgreeWithTheStore == Spec => []SignedInMeansStored
<1>1. Inv => SignedInMeansStored
    BY DEF Inv
<1> QED
    BY <1>1, InvHolds, PTL
=============================================================================
