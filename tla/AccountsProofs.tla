--------------------------- MODULE AccountsProofs ---------------------------
(***************************************************************************)
(* Proofs about Accounts, for any sets of requests, users and names: type  *)
(* correctness, that a user's accounts have different names, that a patch  *)
(* changes no field it was not sent, and that it does what it was asked if *)
(* the row is still the one it read.                                       *)
(***************************************************************************)
EXTENDS Accounts, TLAPS

(* Nothing is known of a request that has not arrived.                      *)
IdleIsBlank ==
    \A r \in Requests : phase[r] = "idle" =>
        target[r] = r /\ asked[r] = NoFields /\ sets[r] = NoColumns

(* An open request either opens the account it is named by, which is not    *)
(* stored yet, or patches a stored one of its user.                         *)
Opening(r) ==
    /\ target[r] = r /\ r \in Creators /\ ~Stored(r)
    /\ phase[r] # "locking" /\ sets[r].name # Unset
    /\ sets[r].archived_at = "keep"

Patching(r) == target[r] # r /\ Found(target[r], user[r])

OpenOrPatch == \A r \in Requests : phase[r] \in Open => Opening(r) \/ Patching(r)

StoredWereCreated == \A a \in Creators : Stored(a) => phase[a] = "created"

(* What is written comes from what was asked.                               *)
SetsAsAsked ==
    \A r \in Requests :
        /\ sets[r].name \in {Unset, asked[r].name}
        /\ asked[r].archived = "leave" => sets[r].archived_at = "keep"

(* A patch leaves out what the row it read has already.                     *)
AsRead(r) ==
    /\ sets[r].name = Unset => asked[r].name \in {Unset, read[r].name}
    /\ sets[r].archived_at = NewStamp(read[r], asked[r].archived)

PatchesAsRead == \A r \in Requests : phase[r] \in Open /\ target[r] # r => AsRead(r)

ClaimsAreOfNames == \A r \in Requests : phase[r] = "claiming" => sets[r].name # Unset

(* The names of flushed requests are claimed: nobody else has or claims one.*)
ClaimedIsFree ==
    \A r \in Requests : phase[r] = "flushed" /\ sets[r].name # Unset => Namesakes(r) = {}

ClaimedOnce ==
    \A q, r \in Requests :
        /\ phase[q] = "flushed" /\ phase[r] = "flushed"
        /\ user[q] = user[r]
        /\ sets[q].name = sets[r].name /\ sets[r].name # Unset
        => q = r

RequestInv == IdleIsBlank /\ OpenOrPatch /\ StoredWereCreated
SetsInv == SetsAsAsked /\ PatchesAsRead /\ ClaimsAreOfNames
NameInv == ClaimedIsFree /\ ClaimedOnce /\ OneAccountPerName

Inv == TypeOK /\ RequestInv /\ SetsInv /\ NameInv

-----------------------------------------------------------------------------
LEMMA NoAccountIsNone == NoAccount \notin Account /\ NoAccount.archived_at = Never
BY AccountsAssumption DEF NoAccount, Account

LEMMA CreatorsAreRequests == \A a \in Creators : a \in Requests
BY AccountsAssumption

LEMMA ChangesType ==
    ASSUME NEW row \in Account, NEW fields \in Fields, NEW respelled
    PROVE  LET c == Changes(row, fields, respelled)
           IN  /\ c \in Columns
               /\ c.name \in {Unset, fields.name}
               /\ c.name = Unset => fields.name \in {Unset, row.name}
               /\ c.archived_at = NewStamp(row, fields.archived)
               /\ fields.archived = "leave" => c.archived_at = "keep"
<1>1. NewStamp(row, fields.archived) \in Stamp
    BY DEF NewStamp, Stamp
<1>2. fields.archived = "leave" => NewStamp(row, fields.archived) = "keep"
    BY DEF NewStamp
<1>3. fields.name \in Names \cup {Unset}
    BY DEF Fields
<1> QED
    BY <1>1, <1>2, <1>3 DEF Changes, Columns

(* What a commit writes: an account of r's user, under the name asked for   *)
(* if there is one.                                                         *)
LEMMA WrittenFacts ==
    ASSUME NEW r \in Requests, NEW row \in Account \cup {NoAccount}, TypeOK,
           row = NoAccount => sets[r].name # Unset
    PROVE  /\ Written(r, row) \in Account
           /\ Written(r, row).user = user[r]
           /\ Written(r, row).name = IF sets[r].name = Unset THEN row.name ELSE sets[r].name
           /\ sets[r].archived_at = "keep" => Written(r, row).archived_at = row.archived_at
           /\ sets[r].archived_at = "now" => Written(r, row).archived_at = r
           /\ sets[r].archived_at = "null" => Written(r, row).archived_at = Never
<1>1. /\ user[r] \in Users
      /\ sets[r].name \in Names \cup {Unset}
      /\ sets[r].archived_at \in {"keep", "now", "null"}
    BY DEF TypeOK, Columns, Stamp
<1>2. /\ row.archived_at \in Requests \cup {Never}
      /\ row # NoAccount => row.name \in Names
    BY NoAccountIsNone DEF Account
<1> DEFINE name == IF sets[r].name = Unset THEN row.name ELSE sets[r].name
           archived_at == CASE sets[r].archived_at = "keep" -> row.archived_at
                            [] sets[r].archived_at = "now" -> r
                            [] sets[r].archived_at = "null" -> Never
<1>3. name \in Names
    BY <1>1, <1>2
<1>4. archived_at \in Requests \cup {Never}
    BY <1>1, <1>2
<1>5. Written(r, row) = [user |-> user[r], name |-> name, archived_at |-> archived_at]
    BY DEF Written
<1>6. /\ sets[r].archived_at = "keep" => archived_at = row.archived_at
      /\ sets[r].archived_at = "now" => archived_at = r
      /\ sets[r].archived_at = "null" => archived_at = Never
    OBVIOUS
<1> HIDE DEF name, archived_at
<1>7. /\ Written(r, row) \in Account
      /\ Written(r, row).user = user[r] /\ Written(r, row).name = name
      /\ Written(r, row).archived_at = archived_at
    BY <1>1, <1>3, <1>4, <1>5 DEF Account
<1> QED
    BY <1>6, <1>7 DEF name

(* A request answered when it arrives changes nothing else.                 *)
AnswersAtOnce(r) ==
    /\ \E answer \in {"notFound", "patched"} : Arrive(r, answer)
    /\ UNCHANGED <<user, target, asked, read, sets, rows, lock>>

LEMMA AskCases ==
    ASSUME NEW r \in Requests, Ask(r)
    PROVE  \/ AnswersAtOnce(r)
           \/ r \in Creators /\ \E n \in Names : CreateAccount(r, n)
           \/ \E a \in Creators, fields \in Fields, respelled, other \in BOOLEAN :
                 ReadForPatch(r, a, fields, respelled, other)
BY DEF Ask, AnswersAtOnce, MissAccount, PatchNothing

(* A rollback leaves the request answered and blank.                        *)
LEMMA RollBacks ==
    ASSUME NEW r \in Requests, RefuseName(r) \/ AbortDeadlock(r) \/ Fail(r)
    PROVE  /\ phase[r] \in Open
           /\ \E answer \in {"taken", "deadlock", "failed"} : RollBack(r, answer)
BY DEF RefuseName, AbortDeadlock, Fail, Open

-----------------------------------------------------------------------------
LEMMA TypeStep == TypeOK /\ OpenOrPatch /\ [Next]_vars => TypeOK'
<1> SUFFICES ASSUME TypeOK, OpenOrPatch, [Next]_vars PROVE TypeOK'
    OBVIOUS
<1> USE DEF TypeOK, Phase, Open, Answered
<1>1. ASSUME NEW r \in Requests, AnswersAtOnce(r) PROVE TypeOK'
    BY <1>1 DEF AnswersAtOnce, Arrive
<1>2. ASSUME NEW r \in Creators, NEW n \in Names, CreateAccount(r, n) PROVE TypeOK'
  <2>1. r \in Requests /\ asked[r] \in Fields /\ sets[r] \in Columns
      BY CreatorsAreRequests
  <2>2. [asked[r] EXCEPT !.name = n] \in Fields /\ [sets[r] EXCEPT !.name = n] \in Columns
      BY <2>1 DEF Fields, Columns
  <2>3. /\ asked' = [asked EXCEPT ![r] = [asked[r] EXCEPT !.name = n]]
        /\ sets' = [sets EXCEPT ![r] = [sets[r] EXCEPT !.name = n]]
      BY <1>2, <2>1 DEF CreateAccount
  <2>4. asked' \in [Requests -> Fields] /\ sets' \in [Requests -> Columns]
      BY <2>1, <2>2, <2>3
  <2> QED
      BY <1>2, <2>1, <2>4 DEF CreateAccount, Arrive
<1>3. ASSUME NEW r \in Requests, NEW a \in Creators, NEW fields \in Fields,
             NEW respelled, NEW other, ReadForPatch(r, a, fields, respelled, other)
      PROVE  TypeOK'
  <2>1. rows[a] \in Account
      BY <1>3 DEF ReadForPatch, Found, Stored
  <2> QED
      BY <1>3, <2>1, ChangesType, AccountsAssumption DEF ReadForPatch, Arrive
<1>4. ASSUME NEW r \in Requests, LockRow(r) PROVE TypeOK'
    BY <1>4 DEF LockRow
<1>5. ASSUME NEW r \in Requests, ClaimName(r) PROVE TypeOK'
    BY <1>5 DEF ClaimName
<1>6. ASSUME NEW r \in Requests, Commit(r) PROVE TypeOK'
  <2>1. target[r] \in Creators /\ (rows[target[r]] = NoAccount => sets[r].name # Unset)
      BY <1>6 DEF Commit, OpenOrPatch, Opening, Patching, Found, Stored
  <2>2. Written(r, rows[target[r]]) \in Account
      BY <2>1, WrittenFacts
  <2>3. rows' \in [Creators -> Account \cup {NoAccount}]
      BY <1>6, <2>1, <2>2 DEF Commit
  <2> QED
      BY <1>6, <2>3 DEF Commit, Released, Forget, NoFields, NoColumns, Fields, Columns,
         Wish, Stamp
<1>7. ASSUME NEW r \in Requests, NEW answer \in {"taken", "deadlock", "failed"},
             RollBack(r, answer)
      PROVE  TypeOK'
    BY <1>7
       DEF RollBack, Released, Forget, NoFields, NoColumns, Fields, Columns, Wish, Stamp
<1>8. CASE UNCHANGED vars
    BY <1>8 DEF vars
<1> HIDE DEF TypeOK, Phase, Open, Answered
<1>9. ASSUME NEW r \in Requests, Ask(r) PROVE TypeOK'
    BY <1>1, <1>2, <1>3, <1>9, AskCases
<1> QED
    BY <1>4, <1>5, <1>6, <1>7, <1>8, <1>9, RollBacks DEF Next, Serve

-----------------------------------------------------------------------------
(* r goes on, and the others do not.                                        *)
Others(r) ==
    \A q \in Requests \ {r} :
        /\ phase'[q] = phase[q] /\ target'[q] = target[q]
        /\ asked'[q] = asked[q] /\ read'[q] = read[q] /\ sets'[q] = sets[q]

(* A step that writes no row and claims no name.                            *)
LEMMA QuietStep ==
    ASSUME Inv, TypeOK', NEW r \in Requests, Others(r), UNCHANGED <<user, rows>>,
           phase[r] # "created", phase'[r] \notin {"idle", "flushed"},
           phase'[r] \in Open => Opening(r)' \/ Patching(r)',
           sets'[r].name \in {Unset, asked'[r].name},
           asked'[r].archived = "leave" => sets'[r].archived_at = "keep",
           phase'[r] \in Open /\ target'[r] # r => AsRead(r)',
           phase'[r] = "claiming" => sets'[r].name # Unset
    PROVE  Inv'
<1> USE DEF Inv, RequestInv, SetsInv, NameInv, Others
<1>1. IdleIsBlank'
    BY DEF IdleIsBlank
<1>2. OpenOrPatch'
  <2> SUFFICES ASSUME NEW q \in Requests, phase'[q] \in Open
               PROVE  Opening(q)' \/ Patching(q)'
      BY DEF OpenOrPatch
  <2>1. CASE q = r
      BY <2>1
  <2>2. CASE q # r
      BY <2>2 DEF OpenOrPatch, Opening, Patching, Found, Stored
  <2> QED
      BY <2>1, <2>2
<1>3. StoredWereCreated'
    BY CreatorsAreRequests DEF StoredWereCreated, Stored
<1>4. SetsAsAsked' /\ PatchesAsRead' /\ ClaimsAreOfNames'
    BY DEF SetsAsAsked, PatchesAsRead, AsRead, ClaimsAreOfNames
<1>5. ClaimedIsFree'
    BY DEF ClaimedIsFree, Namesakes, Found, Stored
<1>6. ClaimedOnce'
    BY DEF ClaimedOnce
<1>7. OneAccountPerName'
    BY DEF OneAccountPerName, Stored
<1> QED
    BY <1>1, <1>2, <1>3, <1>4, <1>5, <1>6, <1>7

LEMMA AnswersStep ==
    ASSUME Inv, TypeOK', NEW r \in Requests, AnswersAtOnce(r)
    PROVE  Inv'
<1>1. /\ phase[r] = "idle" /\ phase'[r] \in {"notFound", "patched"}
      /\ UNCHANGED <<user, target, asked, read, sets, rows, lock>>
    BY DEF AnswersAtOnce, Arrive, Inv, TypeOK
<1>2. Others(r)
    BY DEF Others, AnswersAtOnce, Arrive, Inv, TypeOK
<1>3. /\ sets'[r].name \in {Unset, asked'[r].name}
      /\ asked'[r].archived = "leave" => sets'[r].archived_at = "keep"
    BY <1>1 DEF Inv, SetsInv, SetsAsAsked
<1>4. phase'[r] \notin Open /\ phase'[r] \notin {"idle", "flushed"}
    BY <1>1 DEF Open
<1> QED
    BY <1>1, <1>2, <1>3, <1>4, QuietStep DEF Open

LEMMA CreateStep ==
    ASSUME Inv, TypeOK', NEW r \in Creators, NEW n \in Names, CreateAccount(r, n)
    PROVE  Inv'
<1>1. r \in Requests
    BY CreatorsAreRequests
<1>2. /\ phase[r] = "idle" /\ phase'[r] = "claiming"
      /\ UNCHANGED <<user, target, rows, lock>>
    BY <1>1 DEF CreateAccount, Arrive, Inv, TypeOK
<1>3. target[r] = r /\ asked[r] = NoFields /\ sets[r] = NoColumns /\ ~Stored(r)
    BY <1>1, <1>2 DEF Inv, RequestInv, IdleIsBlank, StoredWereCreated
<1>4. /\ sets'[r].name = n /\ sets'[r].archived_at = "keep" /\ asked'[r].name = n
      /\ n # Unset
    BY <1>1, <1>3, AccountsAssumption
       DEF CreateAccount, NoColumns, NoFields, Columns, Fields, Inv, TypeOK
<1>5. Others(r)
    BY DEF Others, CreateAccount, Arrive, Inv, TypeOK
<1>6. Opening(r)'
    BY <1>2, <1>3, <1>4 DEF Opening, Stored
<1>7. target'[r] = r /\ sets'[r].name \in {Unset, asked'[r].name}
    BY <1>2, <1>3, <1>4
<1> QED
    BY <1>1, <1>2, <1>4, <1>5, <1>6, <1>7, QuietStep

LEMMA ReadStep ==
    ASSUME Inv, TypeOK', NEW r \in Requests, NEW a \in Creators, NEW fields \in Fields,
           NEW respelled, NEW other, ReadForPatch(r, a, fields, respelled, other)
    PROVE  Inv'
<1>1. /\ phase[r] = "idle" /\ phase'[r] = "locking" /\ Found(a, user[r])
      /\ target'[r] = a /\ asked'[r] = fields /\ read'[r] = rows[a]
      /\ sets'[r] = Changes(rows[a], fields, respelled)
      /\ UNCHANGED <<user, rows, lock>>
    BY DEF ReadForPatch, Arrive, Inv, TypeOK
<1>2. a # r
    BY <1>1 DEF Inv, RequestInv, StoredWereCreated, Found
<1>3. rows[a] \in Account
    BY <1>1 DEF Found, Stored, Inv, TypeOK
<1>4. Others(r)
    BY DEF Others, ReadForPatch, Arrive, Inv, TypeOK
<1>5. Patching(r)'
    BY <1>1, <1>2 DEF Patching, Found, Stored
<1>6. /\ sets'[r].name \in {Unset, asked'[r].name}
      /\ asked'[r].archived = "leave" => sets'[r].archived_at = "keep"
      /\ AsRead(r)'
    BY <1>1, <1>3, ChangesType DEF AsRead
<1> QED
    BY <1>1, <1>4, <1>5, <1>6, QuietStep

LEMMA RollBackStep ==
    ASSUME Inv, TypeOK', NEW r \in Requests, phase[r] \in Open,
           NEW answer \in {"taken", "deadlock", "failed"}, RollBack(r, answer)
    PROVE  Inv'
<1>1. /\ phase[r] # "created" /\ phase'[r] = answer /\ UNCHANGED <<user, rows>>
      /\ asked'[r] = NoFields /\ sets'[r] = NoColumns
    BY DEF RollBack, Forget, Open, Inv, TypeOK
<1>2. Others(r)
    BY DEF Others, RollBack, Forget, Inv, TypeOK
<1>3. sets'[r].name = Unset /\ sets'[r].archived_at = "keep"
    BY <1>1 DEF NoColumns
<1>4. answer \notin Open
    BY DEF Open
<1> QED
    BY <1>1, <1>2, <1>3, <1>4, QuietStep

(* A lock that is granted, and the name that is then claimed or not needed. *)
LEMMA LockStep ==
    ASSUME Inv, TypeOK', NEW r \in Requests, LockRow(r)
    PROVE  Inv'
<1> USE DEF Inv, RequestInv, SetsInv, NameInv, TypeOK
<1>1. /\ phase[r] = "locking"
      /\ phase' = [phase EXCEPT ![r] =
                     IF sets[r].name = Unset THEN "flushed" ELSE "claiming"]
      /\ UNCHANGED <<user, target, asked, read, sets, rows>>
    BY DEF LockRow
<1>2. Patching(r)
    BY <1>1 DEF OpenOrPatch, Opening, Open
<1>3. IdleIsBlank' /\ StoredWereCreated'
    BY <1>1, CreatorsAreRequests DEF IdleIsBlank, StoredWereCreated, Stored
<1>4. OpenOrPatch'
    BY <1>1, <1>2 DEF OpenOrPatch, Opening, Patching, Found, Stored, Open
<1>5. SetsAsAsked' /\ PatchesAsRead' /\ ClaimsAreOfNames'
    BY <1>1 DEF SetsAsAsked, PatchesAsRead, AsRead, ClaimsAreOfNames, Open
<1>6. ClaimedIsFree' /\ ClaimedOnce'
    BY <1>1 DEF ClaimedIsFree, ClaimedOnce, Namesakes, Found, Stored
<1>7. OneAccountPerName'
    BY <1>1 DEF OneAccountPerName, Stored
<1> QED
    BY <1>3, <1>4, <1>5, <1>6, <1>7

LEMMA ClaimStep ==
    ASSUME Inv, TypeOK', NEW r \in Requests, ClaimName(r)
    PROVE  Inv'
<1> USE DEF Inv, RequestInv, SetsInv, NameInv, TypeOK
<1>1. /\ phase[r] = "claiming" /\ Undecided(r) = {} /\ Namesakes(r) = {}
      /\ phase' = [phase EXCEPT ![r] = "flushed"]
      /\ UNCHANGED <<user, target, asked, read, sets, rows, lock>>
    BY DEF ClaimName
<1>2. \A q \in Requests \ {r} :
         phase[q] = "flushed" /\ user[q] = user[r] => sets[q].name # sets[r].name
    BY <1>1 DEF Undecided
<1>3. IdleIsBlank' /\ StoredWereCreated'
    BY <1>1, CreatorsAreRequests DEF IdleIsBlank, StoredWereCreated, Stored
<1>4. OpenOrPatch'
    BY <1>1 DEF OpenOrPatch, Opening, Patching, Found, Stored, Open
<1>5. SetsAsAsked' /\ PatchesAsRead' /\ ClaimsAreOfNames'
    BY <1>1 DEF SetsAsAsked, PatchesAsRead, AsRead, ClaimsAreOfNames, Open
<1>6. ClaimedIsFree'
    BY <1>1 DEF ClaimedIsFree, Namesakes, Found, Stored
<1>7. ClaimedOnce'
    BY <1>1, <1>2 DEF ClaimedOnce
<1>8. OneAccountPerName'
    BY <1>1 DEF OneAccountPerName, Stored
<1> QED
    BY <1>3, <1>4, <1>5, <1>6, <1>7, <1>8

(* A commit writes one account, of r's user; its name is the one that r has *)
(* claimed, or the one it had.                                              *)
LEMMA CommitFacts ==
    ASSUME Inv, NEW r \in Requests, Commit(r)
    PROVE  /\ phase[r] = "flushed"
           /\ target[r] \in Creators
           /\ \A a \in Creators \ {target[r]} : rows'[a] = rows[a]
           /\ rows'[target[r]] # NoAccount
           /\ rows'[target[r]].user = user[r]
           /\ IF sets[r].name # Unset
              THEN /\ rows'[target[r]].name = sets[r].name
                   /\ Namesakes(r) = {}
              ELSE /\ Found(target[r], user[r])
                   /\ rows'[target[r]].name = rows[target[r]].name
           /\ Stored(target[r]) => Found(target[r], user[r])
           /\ ~Stored(target[r]) => target[r] = r
           /\ sets[r].archived_at = "keep"
                => rows'[target[r]].archived_at = rows[target[r]].archived_at
           /\ sets[r].archived_at = "now" => rows'[target[r]].archived_at = r
           /\ sets[r].archived_at = "null" => rows'[target[r]].archived_at = Never
<1>1. phase[r] = "flushed" /\ phase[r] \in Open
    BY DEF Commit, Open
<1>2. \/ target[r] = r /\ r \in Creators /\ ~Stored(r) /\ sets[r].name # Unset
      \/ Found(target[r], user[r])
    BY <1>1 DEF Inv, RequestInv, OpenOrPatch, Opening, Patching
<1>3. target[r] \in Creators /\ rows[target[r]] \in Account \cup {NoAccount}
    BY <1>2 DEF Found, Stored, Inv, TypeOK
<1>4. rows[target[r]] = NoAccount => sets[r].name # Unset
    BY <1>2 DEF Found, Stored
<1>5. rows' = [rows EXCEPT ![target[r]] = Written(r, rows[target[r]])]
    BY DEF Commit
<1>6. /\ rows'[target[r]] = Written(r, rows[target[r]])
      /\ \A a \in Creators \ {target[r]} : rows'[a] = rows[a]
    BY <1>3, <1>5 DEF Inv, TypeOK
<1>7. sets[r].name # Unset => Namesakes(r) = {}
    BY <1>1 DEF Inv, NameInv, ClaimedIsFree
<1>8. TypeOK
    BY DEF Inv
<1> DEFINE row == rows[target[r]]
<1>9. /\ Written(r, row) \in Account
      /\ Written(r, row).user = user[r]
      /\ Written(r, row).name = IF sets[r].name = Unset THEN row.name ELSE sets[r].name
      /\ sets[r].archived_at = "keep" => Written(r, row).archived_at = row.archived_at
      /\ sets[r].archived_at = "now" => Written(r, row).archived_at = r
      /\ sets[r].archived_at = "null" => Written(r, row).archived_at = Never
    BY <1>3, <1>4, <1>8, WrittenFacts
<1>10. rows'[target[r]] # NoAccount
    BY <1>6, <1>9, NoAccountIsNone
<1> QED
    BY <1>1, <1>2, <1>3, <1>6, <1>7, <1>9, <1>10 DEF Found

LEMMA CommitStep ==
    ASSUME Inv, TypeOK', NEW r \in Requests, Commit(r)
    PROVE  Inv'
<1>1. /\ phase' = [phase EXCEPT ![r] = IF Stored(target[r]) THEN "patched" ELSE "created"]
      /\ target' = [target EXCEPT ![r] = r]
      /\ asked' = [asked EXCEPT ![r] = NoFields]
      /\ read' = [read EXCEPT ![r] = NoAccount]
      /\ sets' = [sets EXCEPT ![r] = NoColumns]
      /\ UNCHANGED user
    BY DEF Commit, Forget
<1>2. Others(r) /\ phase'[r] \in {"patched", "created"}
    BY <1>1 DEF Others, Inv, TypeOK
<1> DEFINE t == target[r]
<1>3. /\ phase[r] = "flushed" /\ t \in Creators
      /\ \A a \in Creators \ {t} : rows'[a] = rows[a]
      /\ rows'[t] # NoAccount /\ rows'[t].user = user[r]
      /\ Stored(t) => Found(t, user[r])
      /\ ~Stored(t) => t = r
    BY CommitFacts
<1>4. IF sets[r].name # Unset
      THEN rows'[t].name = sets[r].name /\ Namesakes(r) = {}
      ELSE Found(t, user[r]) /\ rows'[t].name = rows[t].name
    BY CommitFacts
<1> HIDE DEF t
<1> USE DEF Inv, RequestInv, SetsInv, NameInv
<1>5. \A a \in Creators : Stored(a) => Stored(a)' /\ rows'[a].user = rows[a].user
    BY <1>3 DEF Stored, Found
<1>6. IdleIsBlank'
    BY <1>2 DEF IdleIsBlank, Others
<1>7. OpenOrPatch'
  <2> SUFFICES ASSUME NEW q \in Requests, phase'[q] \in Open
               PROVE  Opening(q)' \/ Patching(q)'
      BY DEF OpenOrPatch
  <2>1. q # r /\ phase[q] \in Open
      BY <1>2 DEF Others, Open
  <2>2. CASE Opening(q)
    <3>1. q # t
        BY <1>3, <2>1, <2>2 DEF Opening
    <3>2. ~Stored(q)'
        BY <1>3, <2>2, <3>1 DEF Opening, Stored
    <3> QED
        BY <1>2, <2>1, <2>2, <3>2 DEF Opening, Others
  <2>3. CASE Patching(q)
      BY <1>1, <1>2, <1>5, <2>1, <2>3 DEF Patching, Others, Found, Stored
  <2> QED
      BY <2>1, <2>2, <2>3 DEF OpenOrPatch
<1>8. StoredWereCreated'
  <2> SUFFICES ASSUME NEW a \in Creators, Stored(a)' PROVE phase'[a] = "created"
      BY DEF StoredWereCreated
  <2>1. CASE Stored(a)
      BY <1>2, <1>3, <2>1, CreatorsAreRequests DEF StoredWereCreated, Others
  <2>2. CASE ~Stored(a)
    <3>1. a = t /\ a = r
        BY <1>3, <2>2 DEF Stored
    <3> QED
        BY <1>1, <2>2, <3>1 DEF t, TypeOK
  <2> QED
      BY <2>1, <2>2
<1>9. SetsAsAsked'
  <2>1. sets'[r].name = Unset /\ sets'[r].archived_at = "keep"
      BY <1>1 DEF NoColumns, TypeOK
  <2> QED
      BY <1>2, <2>1 DEF SetsAsAsked, Others
<1>10. PatchesAsRead' /\ ClaimsAreOfNames' /\ ClaimedOnce'
    BY <1>1, <1>2 DEF PatchesAsRead, AsRead, ClaimsAreOfNames, ClaimedOnce, Others, Open
<1>11. ClaimedIsFree'
  <2> SUFFICES ASSUME NEW q \in Requests, phase'[q] = "flushed", sets'[q].name # Unset,
                      NEW a \in Creators, a # target'[q], Found(a, user[q])',
                      rows'[a].name = sets'[q].name
               PROVE  FALSE
      BY <1>1 DEF ClaimedIsFree, Namesakes
  <2>1. q # r /\ phase[q] = "flushed" /\ target'[q] = target[q] /\ sets'[q] = sets[q]
      BY <1>2 DEF Others
  <2>2. a \notin Namesakes(q)
      BY <2>1 DEF ClaimedIsFree
  <2>3. a = t
      BY <1>1, <1>3, <2>1, <2>2 DEF Namesakes, Found, Stored
  <2>4. user[q] = user[r]
      BY <1>1, <1>3, <2>3 DEF Found
  <2>5. CASE sets[r].name # Unset
      BY <1>3, <1>4, <2>1, <2>3, <2>4, <2>5 DEF ClaimedOnce
  <2>6. CASE sets[r].name = Unset
      BY <1>4, <2>1, <2>2, <2>3, <2>4, <2>6 DEF Namesakes
  <2> QED
      BY <2>5, <2>6
<1>12. OneAccountPerName'
  <2>1. ASSUME NEW b \in Creators, b # t, Stored(b)', rows'[b].user = rows'[t].user,
               rows'[b].name = rows'[t].name
        PROVE  FALSE
    <3>1. Found(b, user[r]) /\ rows[b].name = rows'[t].name
        BY <1>3, <2>1 DEF Found, Stored
    <3>2. CASE sets[r].name # Unset
        BY <1>4, <2>1, <3>1, <3>2 DEF Namesakes, t
    <3>3. CASE sets[r].name = Unset
        BY <1>3, <1>4, <2>1, <3>1, <3>3 DEF OneAccountPerName, Found
    <3> QED
        BY <3>2, <3>3
  <2> QED
      BY <1>3, <2>1 DEF OneAccountPerName, Stored
<1> QED
    BY <1>6, <1>7, <1>8, <1>9, <1>10, <1>11, <1>12

-----------------------------------------------------------------------------
LEMMA InvInit == Init => Inv
<1> SUFFICES ASSUME Init PROVE Inv
    OBVIOUS
<1> USE DEF Init
<1>1. TypeOK
    BY AccountsAssumption
       DEF TypeOK, Phase, NoFields, NoColumns, Fields, Columns, Wish, Stamp
<1>2. RequestInv
    BY DEF RequestInv, IdleIsBlank, OpenOrPatch, StoredWereCreated, Stored, Open
<1>3. SetsInv
    BY DEF SetsInv, SetsAsAsked, PatchesAsRead, ClaimsAreOfNames, NoColumns, Open
<1>4. NameInv
    BY DEF NameInv, ClaimedIsFree, ClaimedOnce, OneAccountPerName, Stored
<1> QED
    BY <1>1, <1>2, <1>3, <1>4 DEF Inv

LEMMA InvStep == Inv /\ [Next]_vars => Inv'
<1> SUFFICES ASSUME Inv, [Next]_vars PROVE Inv'
    OBVIOUS
<1>1. TypeOK'
    BY TypeStep DEF Inv, RequestInv
<1>2. ASSUME NEW r \in Requests, Ask(r) PROVE Inv'
    BY <1>1, <1>2, AnswersStep, CreateStep, ReadStep, AskCases
<1>3. ASSUME NEW r \in Requests, RefuseName(r) \/ AbortDeadlock(r) \/ Fail(r) PROVE Inv'
    BY <1>1, <1>3, RollBacks, RollBackStep
<1>4. ASSUME NEW r \in Requests, Serve(r) PROVE Inv'
    BY <1>1, <1>3, <1>4, LockStep, ClaimStep, CommitStep DEF Serve
<1>5. CASE UNCHANGED vars
  <2> USE <1>5 DEF vars, Inv, Stored, Found
  <2>1. RequestInv'
      BY DEF RequestInv, IdleIsBlank, OpenOrPatch, StoredWereCreated, Opening, Patching
  <2>2. SetsInv'
      BY DEF SetsInv, SetsAsAsked, PatchesAsRead, AsRead, ClaimsAreOfNames
  <2>3. NameInv'
      BY DEF NameInv, ClaimedIsFree, ClaimedOnce, OneAccountPerName, Namesakes
  <2> QED
      BY <1>1, <2>1, <2>2, <2>3
<1> QED
    BY <1>2, <1>3, <1>4, <1>5 DEF Next

(* The invariant, which the theorems below draw on.                         *)
THEOREM InvHolds == Spec => []Inv
BY InvInit, InvStep, PTL DEF Spec

(* Every variable stays in its type: whatever is patched or fails, what is  *)
(* stored is an account (ledger/models/account.py:31).                      *)
THEOREM TypeCorrect == Spec => []TypeOK
<1>1. Inv => TypeOK
    BY DEF Inv
<1> QED
    BY <1>1, InvHolds, PTL

(* No user has two accounts by one name, whichever requests open and rename *)
(* them at once.                                                            *)
THEOREM NamesAreUnique == Spec => []OneAccountPerName
<1>1. Inv => OneAccountPerName
    BY DEF Inv, NameInv
<1> QED
    BY <1>1, InvHolds, PTL

-----------------------------------------------------------------------------
(* Only a commit answers a flushed request with success.                    *)
LEMMA CommitsPatch ==
    ASSUME Inv, [Next]_vars, NEW r \in Requests,
           phase[r] = "flushed", phase'[r] = "patched"
    PROVE  Commit(r) /\ Patching(r)
<1> USE DEF Inv, TypeOK
<1>1. ASSUME NEW q \in Requests, Ask(q) PROVE phase'[r] = phase[r] \/ phase[r] = "idle"
  <2>1. PICK next \in {"notFound", "patched", "claiming", "locking"} : Arrive(q, next)
      BY <1>1, AskCases DEF AnswersAtOnce, CreateAccount, ReadForPatch
  <2> QED
      BY <2>1 DEF Arrive
<1>2. ASSUME NEW q \in Requests, Serve(q) \/ Fail(q)
      PROVE  phase'[r] = phase[r] \/ Commit(r) \/ phase'[r] # "patched"
  <2>1. CASE LockRow(q) \/ ClaimName(q)
      BY <2>1 DEF LockRow, ClaimName
  <2>2. CASE RefuseName(q)
      BY <2>2 DEF RefuseName, RollBack
  <2>3. CASE Commit(q)
      BY <2>3 DEF Commit
  <2>4. CASE AbortDeadlock(q) \/ Fail(q)
      BY <2>4 DEF AbortDeadlock, Fail, RollBack
  <2> QED
      BY <1>2, <2>1, <2>2, <2>3, <2>4 DEF Serve
<1>3. Commit(r)
    BY <1>1, <1>2 DEF Next, vars
<1>4. Stored(target[r])
    BY <1>3 DEF Commit
<1>5. Opening(r) \/ Patching(r)
    BY DEF RequestInv, OpenOrPatch, Open
<1> QED
    BY <1>3, <1>4, <1>5 DEF Opening

(* A patch leaves alone what it was not sent, whatever was committed since  *)
(* it read the account.                                                     *)
THEOREM PatchesAreNarrow == Spec => OnlySentFieldsChange
<1> DEFINE Narrow(r) ==
       LET before == rows[target[r]]
           after == rows'[target[r]]
       IN  /\ after.user = before.user
           /\ asked[r].name = Unset => after.name = before.name
           /\ asked[r].archived = "leave" => after.archived_at = before.archived_at
<1>1. ASSUME Inv, [Next]_vars, NEW r \in Requests,
             phase[r] = "flushed", phase'[r] = "patched"
      PROVE  Narrow(r)
  <2>1. Commit(r)
      BY <1>1, CommitsPatch
  <2>3. Found(target[r], user[r])
      BY <1>1, CommitsPatch DEF Patching
  <2>4. /\ asked[r].name = Unset => sets[r].name = Unset
        /\ asked[r].archived = "leave" => sets[r].archived_at = "keep"
      BY <1>1 DEF Inv, SetsInv, SetsAsAsked
  <2> QED
      BY <1>1, <2>1, <2>3, <2>4, CommitFacts DEF Found
<1>2. Inv /\ [Next]_vars
        => [\A r \in Requests :
              phase[r] = "flushed" /\ phase'[r] = "patched" => Narrow(r)]_vars
    BY <1>1, Zenon
<1> QED
    BY <1>2, InvHolds, PTL DEF Spec, OnlySentFieldsChange

(* A patch that works on the row it read does all it was asked: whatever    *)
(* it leaves out of its UPDATE is as asked already.                         *)
THEOREM PatchesDoAsAsked == Spec => UnracedPatchesDoAsAsked
<1> DEFINE Done(r) ==
       LET after == rows'[target[r]]
       IN  /\ asked[r].name # Unset => after.name = asked[r].name
           /\ asked[r].archived = "restore" => after.archived_at = Never
           /\ asked[r].archived = "archive" =>
                 after.archived_at = IF read[r].archived_at = Never
                                     THEN r ELSE read[r].archived_at
<1>1. ASSUME Inv, [Next]_vars, NEW r \in Requests,
             phase[r] = "flushed", phase'[r] = "patched", rows[target[r]] = read[r]
      PROVE  Done(r)
  <2>1. Commit(r) /\ target[r] # r
      BY <1>1, CommitsPatch DEF Patching
  <2>2. /\ sets[r].name \in {Unset, asked[r].name}
        /\ sets[r].name = Unset => asked[r].name \in {Unset, read[r].name}
        /\ sets[r].archived_at = NewStamp(read[r], asked[r].archived)
      BY <1>1, <2>1 DEF Inv, SetsInv, SetsAsAsked, PatchesAsRead, AsRead, Open
  <2>3. asked[r].name # Unset => rows'[target[r]].name = asked[r].name
      BY <1>1, <2>1, <2>2, CommitFacts
  <2>4. /\ asked[r].archived = "restore" => rows'[target[r]].archived_at = Never
        /\ asked[r].archived = "archive" =>
              rows'[target[r]].archived_at = IF read[r].archived_at = Never
                                             THEN r ELSE read[r].archived_at
    <3>1. /\ sets[r].archived_at = "keep"
               => rows'[target[r]].archived_at = read[r].archived_at
          /\ sets[r].archived_at = "now" => rows'[target[r]].archived_at = r
          /\ sets[r].archived_at = "null" => rows'[target[r]].archived_at = Never
        BY <1>1, <2>1, CommitFacts
    <3> QED
        BY <2>2, <3>1 DEF NewStamp
  <2> QED
      BY <2>3, <2>4
<1>2. Inv /\ [Next]_vars
        => [\A r \in Requests :
              /\ phase[r] = "flushed" /\ phase'[r] = "patched"
              /\ rows[target[r]] = read[r]
              => Done(r)]_vars
    BY <1>1, Zenon
<1> QED
    BY <1>2, InvHolds, PTL DEF Spec, UnracedPatchesDoAsAsked
=============================================================================
