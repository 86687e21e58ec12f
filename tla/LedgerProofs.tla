---------------------------- MODULE LedgerProofs ----------------------------
(***************************************************************************)
(* Proofs about Ledger, for any sets of requests, users, accounts, units   *)
(* and amounts: type correctness, that transfers stay whole, balanced and  *)
(* unedited, that a deletion is reported once, that rows are written by    *)
(* their owners only, and that patches keep signs right unless raced.      *)
(***************************************************************************)
EXTENDS Ledger, TLAPS

(* The row a request was to insert under an id. *)
Drafted(id) == draft[id[1]][id[2]]

-----------------------------------------------------------------------------
(* What an insert may write: rows of the user's own accounts, a single one  *)
(* or those of a transfer, which cancel if its accounts shared a unit.      *)
DraftsAreOwned ==
    \A id \in RowId : Drafted(id) # NoRow =>
        Owner[Drafted(id).account] = user[id[1]]

DraftsAreOneKind ==
    \A id, o \in RowId :
        /\ id[1] = o[1] /\ InTransfer(id) /\ ~InTransfer(o)
        /\ Drafted(id) # NoRow
        => Drafted(o) = NoRow

IdleHasNoDraft ==
    \A r \in Requests : phase[r] = "idle" => draft[r] = NoDraft /\ ~same_unit[r]

DraftsCancel ==
    \A r \in Requests : same_unit[r] =>
        /\ draft[r]["sent"] # NoRow /\ draft[r]["received"] # NoRow
        /\ draft[r]["sent"].amount + draft[r]["received"].amount = 0

(* Stored rows were committed by their request, all of them, and those of a *)
(* transfer are still what it drafted.                                      *)
StoredWereCreated ==
    \A id \in RowId : Stored(id) => phase[id[1]] = "created"

TransferRowsAsDrafted ==
    \A id \in RowId : InTransfer(id) /\ Stored(id) => rows[id] = Drafted(id)

TransfersAreWhole ==
    \A id, o \in RowId :
        /\ id[1] = o[1] /\ InTransfer(id) /\ Stored(id)
        /\ Drafted(o) # NoRow
        => Stored(o)

(* A patch works on a stored row outside transfers, of its user, and holds  *)
(* it once its UPDATE was flushed.                                          *)
PatchesAreSole == \A r \in Requests : ~InTransfer(target[r])

PatchesHaveTargets ==
    \A r \in Requests : phase[r] \in {"flushing", "flushed"} => target[r] \in RowId

PatchedWereCreated ==
    \A r \in Requests : phase[r] \in {"flushing", "flushed"} =>
        phase[target[r][1]] = "created"

PatchesHold ==
    \A r \in Requests : phase[r] = "flushed" =>
        Stored(target[r]) /\ lock[target[r]] = r

PatchesAreOwned ==
    \A r \in Requests :
        /\ phase[r] \in {"flushing", "flushed"}
        /\ Stored(target[r])
        => Owner[rows[target[r]].account] = user[r]

(* A delete works on one row or on all the rows of one transfer, of its     *)
(* user, holds what is left of them once it has locked, and leaves none.    *)
TargetsWereCreated ==
    \A r \in Requests : \A id \in targets[r] : phase[id[1]] = "created"

TargetsAreOwned ==
    \A r \in Requests : \A id \in targets[r] :
        Stored(id) => Owner[rows[id].account] = user[r]

TargetsAreWhole ==
    \A r \in Requests : \A id \in targets[r], o \in RowId :
        /\ id[1] = o[1] /\ InTransfer(id) /\ InTransfer(o)
        /\ Drafted(o) # NoRow
        => o \in targets[r]

TargetsAreOne ==
    \A r \in Requests : \A id, o \in targets[r] :
        id = o \/ (InTransfer(id) /\ InTransfer(o) /\ id[1] = o[1])

SweepsHold ==
    \A r \in Requests : phase[r] = "swept" =>
        /\ \A id \in targets[r] : Stored(id) => lock[id] = r
        /\ \E id \in targets[r] : Stored(id)

DeletedAreGone ==
    \A r \in Requests : phase[r] = "deleted" =>
        \A id \in targets[r] : ~Stored(id)

(* Only a flushed patch and a delete hold rows, and only stored ones.       *)
LocksAreHeld ==
    \A id \in RowId : lock[id] # NoOne =>
        /\ Stored(id)
        /\ \/ phase[lock[id]] = "flushed" /\ id = target[lock[id]]
           \/ phase[lock[id]] = "swept" /\ id \in targets[lock[id]]

DraftInv == IdleHasNoDraft /\ DraftsAreOwned /\ DraftsAreOneKind /\ DraftsCancel
RowInv == StoredWereCreated /\ TransferRowsAsDrafted /\ TransfersAreWhole
PatchInv ==
    /\ PatchesAreSole /\ PatchesHaveTargets /\ PatchedWereCreated
    /\ PatchesHold /\ PatchesAreOwned
SweepInv ==
    /\ TargetsWereCreated /\ TargetsAreOwned /\ TargetsAreWhole /\ TargetsAreOne
    /\ SweepsHold /\ DeletedAreGone

Inv ==
    /\ TypeOK
    /\ DraftInv /\ RowInv /\ PatchInv /\ SweepInv
    /\ LocksAreHeld
    /\ DeletedOnce
-----------------------------------------------------------------------------
LEMMA RowIdFacts ==
    /\ \A id \in RowId : /\ id = <<id[1], id[2]>>
                         /\ id[1] \in Creators /\ id[1] \in Requests
                         /\ id[2] \in Leg
    /\ \A r \in Creators, leg \in Leg :
          /\ <<r, leg>> \in RowId
          /\ <<r, leg>>[1] = r /\ <<r, leg>>[2] = leg
    /\ NoTarget[2] = "sole"
BY LedgerAssumption DEF RowId, NoTarget

LEMMA NoRowIsNoTransaction == NoRow \notin Transaction
BY LedgerAssumption DEF NoRow, Transaction

LEMMA NewRowType ==
    ASSUME NEW a \in Accounts, NEW n \in Int, NEW k \in Kind
    PROVE  NewRow(a, n, k) \in Transaction
BY DEF NewRow, Transaction, Amount

LEMMA ChangesType ==
    ASSUME NEW row \in Transaction, NEW n \in Amounts \cup {0},
           NEW k \in NonTransferKind \cup {"unset"}
    PROVE  Changes(row, n, k) \in SetClause
<1>1. n \in Int /\ row.amount \in Int /\ row.kind \in Kind
    BY LedgerAssumption DEF Transaction, Amount
<1>2. Magnitude(row, n) \in Int
    BY <1>1 DEF Magnitude
<1>3. PatchedAmount(row, n, k) \in Int
    BY <1>1, <1>2 DEF PatchedAmount, Signed
<1>4. PatchedKind(row, k) # row.kind => PatchedKind(row, k) \in NonTransferKind
    BY DEF PatchedKind
<1> QED
    BY <1>3, <1>4 DEF Changes, SetClause, Amount

LEMMA PatchedType ==
    ASSUME NEW row \in Transaction, NEW s \in SetClause
    PROVE  /\ Patched(row, s) \in Transaction
           /\ Patched(row, s).account = row.account
<1>1. /\ row.account \in Accounts /\ row.amount \in Int /\ row.kind \in Kind
      /\ s.amount \in Int /\ s.kind \in NonTransferKind \cup {"unset"}
    BY DEF Transaction, SetClause, Amount
<1>2. s.kind = "unset" \/ s.kind \in Kind
    BY <1>1 DEF NonTransferKind, Kind
<1> QED
    BY <1>1, <1>2 DEF Patched, Transaction, Amount

-----------------------------------------------------------------------------
(* A request that is answered when it arrives changes nothing else.         *)
AnswersAtOnce(r) ==
    /\ \E answer \in {"refused", "notFound", "notEditable", "patched"} : Arrive(r, answer)
    /\ UNCHANGED <<user, target, draft, same_unit, read, columns, targets, rows,
                   lock, unit>>

(* The arrivals, by what they change.                                       *)
LEMMA AskCases ==
    ASSUME NEW r \in Requests, Ask(r)
    PROVE  \/ AnswersAtOnce(r)
           \/ \E a \in Accounts, n \in Amounts, k \in NonTransferKind :
                 r \in Creators /\ RecordTransaction(r, a, n, k)
           \/ \E from, to \in Accounts, sent, received, fee \in Amounts,
                 feeFrom \in Accounts \cup {NoAccount} :
                 r \in Creators /\ CreateTransfer(r, from, to, sent, received, feeFrom, fee)
           \/ \E id \in RowId, n \in Amounts \cup {0},
                 k \in NonTransferKind \cup {"unset"}, other \in BOOLEAN :
                 ReadForPatch(r, id, n, k, other)
           \/ \E id \in RowId : BeginDelete(r, id)
<1>1. CASE r \in Creators /\ Create(r)
  <2>1. CASE \E from, to \in Accounts, sent, received \in Amounts,
               feeFrom \in Accounts \cup {NoAccount} :
               \/ RefuseTransfer(r, from, to, sent, received, feeFrom)
               \/ MissTransferAccount(r, from, to, feeFrom)
      BY <2>1 DEF RefuseTransfer, MissTransferAccount, AnswersAtOnce
  <2> QED
      BY <1>1, <2>1, Zenon DEF Create
<1>2. ASSUME NEW id \in RowId, MissPatched(r, id) \/ RefusePatch(r, id)
      PROVE  AnswersAtOnce(r)
    BY <1>2 DEF MissPatched, RefusePatch, AnswersAtOnce
<1>3. ASSUME NEW id \in RowId, NEW n \in Amounts \cup {0},
             NEW k \in NonTransferKind \cup {"unset"}, PatchNothing(r, id, n, k)
      PROVE  AnswersAtOnce(r)
    BY <1>3 DEF PatchNothing, AnswersAtOnce
<1> QED
    BY <1>1, <1>2, <1>3, Zenon DEF Ask

(* Every step keeps each variable in its type.                              *)
LEMMA RollBackType ==
    ASSUME TypeOK, NEW r \in Requests,
           NEW answer \in {"stale", "notFound", "failed"}, RollBack(r, answer)
    PROVE  TypeOK'
BY DEF TypeOK, RollBack, Released, ForgetPatch, NoDraft, Unset, SetClause, Amount,
       Phase, Answered, NonTransferKind

LEMMA TypeStep == TypeOK /\ PatchesHaveTargets /\ PatchesHold /\ [Next]_vars => TypeOK'
<1> SUFFICES ASSUME TypeOK, PatchesHaveTargets, PatchesHold, [Next]_vars PROVE TypeOK'
    OBVIOUS
<1> USE DEF TypeOK, Phase, Open, Answered
<1>1. ASSUME NEW r \in Requests, NEW a \in Accounts, NEW n \in Amounts,
             NEW k \in NonTransferKind, RecordTransaction(r, a, n, k)
      PROVE TypeOK'
  <2>1. NewRow(a, Signed(n, k), k) \in Transaction
      BY NewRowType, LedgerAssumption DEF Signed, Kind, NonTransferKind
  <2> QED
      BY <1>1, <2>1 DEF RecordTransaction, Arrive, Leg
<1>2. ASSUME NEW r \in Requests, NEW from \in Accounts, NEW to \in Accounts,
             NEW sent \in Amounts, NEW received \in Amounts,
             NEW feeFrom \in Accounts \cup {NoAccount}, NEW fee \in Amounts,
             CreateTransfer(r, from, to, sent, received, feeFrom, fee)
      PROVE TypeOK'
  <2>1. /\ NewRow(from, -sent, "transfer") \in Transaction
        /\ NewRow(to, received, "transfer") \in Transaction
        /\ feeFrom # NoAccount => NewRow(feeFrom, -fee, "expense") \in Transaction
      BY NewRowType, LedgerAssumption DEF Kind
  <2>2. draft' \in [Requests -> [Leg -> Transaction \cup {NoRow}]]
      BY <1>2, <2>1 DEF CreateTransfer, NoDraft, Leg
  <2> QED
      BY <1>2, <2>2 DEF CreateTransfer, Arrive
<1>3. ASSUME NEW r \in Requests, CommitInsert(r) PROVE TypeOK'
    BY <1>3, RowIdFacts DEF CommitInsert
<1>4. ASSUME NEW r \in Requests, NEW id \in RowId, NEW n \in Amounts \cup {0},
             NEW k \in NonTransferKind \cup {"unset"}, NEW other \in BOOLEAN,
             ReadForPatch(r, id, n, k, other)
      PROVE TypeOK'
  <2>1. rows[id] \in Transaction
      BY <1>4 DEF ReadForPatch, Found, Stored
  <2> QED
      BY <1>4, <2>1, ChangesType DEF ReadForPatch, Arrive
<1>5. ASSUME NEW r \in Requests, FlushPatch(r) PROVE TypeOK'
    BY <1>5 DEF FlushPatch
<1>6. ASSUME NEW r \in Requests, CommitPatch(r) PROVE TypeOK'
  <2>1. target[r] \in RowId /\ rows[target[r]] \in Transaction
      BY <1>6 DEF CommitPatch, PatchesHaveTargets, PatchesHold, Stored
  <2>2. Patched(rows[target[r]], columns[r]) \in Transaction
      BY <2>1, PatchedType
  <2>3. rows' \in [RowId -> Transaction \cup {NoRow}]
      BY <1>6, <2>1, <2>2 DEF CommitPatch
  <2> QED
      BY <1>6, <2>3 DEF CommitPatch, Released, ForgetPatch, Unset, SetClause, Amount
<1>7. ASSUME NEW r \in Requests, NEW id \in RowId, BeginDelete(r, id) PROVE TypeOK'
  <2>1. Swept(id, user[r]) \in SUBSET RowId
      BY DEF Swept, Group
  <2> QED
      BY <1>7, <2>1 DEF BeginDelete, Arrive
<1>8. ASSUME NEW r \in Requests, LockSwept(r) PROVE TypeOK'
    BY <1>8 DEF LockSwept
<1>9. ASSUME NEW r \in Requests, CommitDelete(r) PROVE TypeOK'
    BY <1>9 DEF CommitDelete, Released
<1>10. ASSUME NEW r \in Requests, FlushStale(r) \/ DeleteNothing(r) \/ Fail(r)
       PROVE TypeOK'
    BY <1>10, RollBackType DEF FlushStale, DeleteNothing, Fail
<1>11. ASSUME NEW r \in Requests, AnswersAtOnce(r) PROVE TypeOK'
    BY <1>11 DEF AnswersAtOnce, Arrive
<1>12. ASSUME NEW a \in Accounts, NEW u \in Units, ChangeUnit(a, u) PROVE TypeOK'
    BY <1>12 DEF ChangeUnit
<1>13. CASE UNCHANGED vars
    BY <1>13 DEF vars
<1> HIDE DEF TypeOK, Phase, Open, Answered
<1>14. ASSUME NEW r \in Requests, Ask(r) PROVE TypeOK'
  <2>1. CASE AnswersAtOnce(r)
      BY <2>1, <1>11
  <2>2. ASSUME NEW a \in Accounts, NEW n \in Amounts, NEW k \in NonTransferKind,
               RecordTransaction(r, a, n, k)
        PROVE TypeOK'
      BY <2>2, <1>1
  <2>3. ASSUME NEW from \in Accounts, NEW to \in Accounts, NEW sent \in Amounts,
               NEW received \in Amounts, NEW fee \in Amounts,
               NEW feeFrom \in Accounts \cup {NoAccount},
               CreateTransfer(r, from, to, sent, received, feeFrom, fee)
        PROVE TypeOK'
      BY <2>3, <1>2
  <2>4. ASSUME NEW id \in RowId, BeginDelete(r, id) PROVE TypeOK'
      BY <2>4, <1>7
  <2> QED
      BY <1>14, <2>1, <2>2, <2>3, <2>4, <1>4, AskCases, Zenon
<1> QED
    BY <1>3, <1>5, <1>6, <1>8, <1>9, <1>10, <1>12, <1>13, <1>14 DEF Next, Serve

-----------------------------------------------------------------------------
(* What r is doing changes, and nothing that the others do.                 *)
OthersGoOn(r) ==
    \A q \in Requests \ {r} :
        /\ phase'[q] = phase[q] /\ draft'[q] = draft[q]
        /\ same_unit'[q] = same_unit[q] /\ target'[q] = target[q]

LEMMA NoDraftIsEmpty == \A leg \in Leg : NoDraft[leg] = NoRow
BY DEF NoDraft

LEMMA DraftsUnchanged ==
    ASSUME DraftInv, UNCHANGED <<user, draft, same_unit>>,
           \A q \in Requests : phase'[q] = "idle" => phase[q] = "idle"
    PROVE  DraftInv'
<1> USE DEF DraftInv, Drafted
<1>1. IdleHasNoDraft'
    BY DEF IdleHasNoDraft
<1>2. DraftsAreOwned' /\ DraftsAreOneKind'
    BY DEF DraftsAreOwned, DraftsAreOneKind
<1>3. DraftsCancel'
    BY DEF DraftsCancel
<1> QED
    BY <1>1, <1>2, <1>3

(* A request answered at once drafts, holds and deletes nothing.            *)
LEMMA AnswersStep ==
    ASSUME Inv, TypeOK', NEW r \in Requests, AnswersAtOnce(r)
    PROVE  Inv'
<1> USE DEF Inv, DraftInv, RowInv, PatchInv, SweepInv, TypeOK, Drafted, Stored,
            AnswersAtOnce, Arrive
<1>1. DraftInv'
    BY DraftsUnchanged
<1>2. RowInv'
    BY RowIdFacts DEF StoredWereCreated, TransferRowsAsDrafted, TransfersAreWhole
<1>3. PatchInv'
    BY RowIdFacts
       DEF PatchesAreSole, PatchesHaveTargets, PatchedWereCreated, PatchesHold,
           PatchesAreOwned, InTransfer
<1>4. SweepInv'
    BY RowIdFacts
       DEF TargetsWereCreated, TargetsAreOwned, TargetsAreWhole, TargetsAreOne,
           SweepsHold, DeletedAreGone
<1>5. LocksAreHeld'
    BY DEF LocksAreHeld
<1>6. DeletedOnce'
    BY DEF DeletedOnce
<1> QED
    BY <1>1, <1>2, <1>3, <1>4, <1>5, <1>6

(* A request that drafts its rows: none of them is stored yet, so what is   *)
(* stored, patched or deleted is of others.                                 *)
LEMMA DraftStep ==
    ASSUME Inv, TypeOK', NEW r \in Creators, r \in Requests,
           phase[r] = "idle", phase'[r] \in {"inserting", "notFound"},
           OthersGoOn(r),
           UNCHANGED <<user, target, targets, rows, lock>>,
           \A leg \in Leg : draft'[r][leg] # NoRow =>
               Owner[draft'[r][leg].account] = user[r],
           \A leg \in Leg \ {"sole"} : draft'[r][leg] # NoRow =>
               draft'[r]["sole"] = NoRow,
           same_unit'[r] =>
               /\ draft'[r]["sent"] # NoRow /\ draft'[r]["received"] # NoRow
               /\ draft'[r]["sent"].amount + draft'[r]["received"].amount = 0
    PROVE  Inv'
<1> USE DEF Inv, DraftInv, RowInv, PatchInv, SweepInv, TypeOK, Drafted, Stored,
            OthersGoOn
<1>0. \A q \in Requests : phase'[q] = "deleted" => phase[q] = "deleted"
    OBVIOUS
<1>1. \A id \in RowId : Stored(id) => id[1] # r
    BY DEF StoredWereCreated
<1>2. \A id \in RowId : id[1] # r => Drafted(id)' = Drafted(id)
    BY RowIdFacts
<1>3. DraftInv'
  <2>1. IdleHasNoDraft'
      BY DEF IdleHasNoDraft
  <2>2. DraftsAreOwned'
    <3> SUFFICES ASSUME NEW id \in RowId, Drafted(id)' # NoRow
                 PROVE  Owner[Drafted(id)'.account] = user[id[1]]
        BY DEF DraftsAreOwned
    <3>1. CASE id[1] = r
        BY <3>1, RowIdFacts
    <3>2. CASE id[1] # r
        BY <1>2, <3>2 DEF DraftsAreOwned
    <3> QED
        BY <3>1, <3>2
  <2>3. DraftsAreOneKind'
    <3> SUFFICES ASSUME NEW id \in RowId, NEW o \in RowId, id[1] = o[1],
                        InTransfer(id), ~InTransfer(o), Drafted(id)' # NoRow
                 PROVE  Drafted(o)' = NoRow
        BY DEF DraftsAreOneKind, InTransfer
    <3>1. CASE id[1] = r
        BY <3>1, RowIdFacts DEF InTransfer
    <3>2. CASE id[1] # r
        BY <1>2, <3>2 DEF DraftsAreOneKind
    <3> QED
        BY <3>1, <3>2
  <2>4. ASSUME NEW q \in Requests, same_unit'[q], q # r
        PROVE  /\ draft'[q]["sent"] # NoRow /\ draft'[q]["received"] # NoRow
               /\ draft'[q]["sent"].amount + draft'[q]["received"].amount = 0
    <3>1. draft'[q] = draft[q] /\ same_unit[q]
        BY <2>4
    <3> QED
        BY <3>1 DEF DraftsCancel
  <2>5. DraftsCancel'
      BY <2>4, Zenon DEF DraftsCancel
  <2> QED
      BY <2>1, <2>2, <2>3, <2>5
<1>4. RowInv'
    BY <1>1, <1>2, RowIdFacts
       DEF StoredWereCreated, TransferRowsAsDrafted, TransfersAreWhole
<1>5. PatchInv'
    BY RowIdFacts
       DEF PatchesAreSole, PatchesHaveTargets, PatchedWereCreated, PatchesHold,
           PatchesAreOwned, InTransfer
<1>6. SweepInv'
  <2>1. \A q \in Requests : \A id \in targets[q] : id[1] # r
      BY DEF TargetsWereCreated
  <2>2. TargetsWereCreated' /\ TargetsAreOwned' /\ TargetsAreOne'
      BY <2>1, RowIdFacts DEF TargetsWereCreated, TargetsAreOwned, TargetsAreOne
  <2>3. TargetsAreWhole'
    <3> SUFFICES ASSUME NEW q \in Requests, NEW id \in targets[q], NEW o \in RowId,
                        id[1] = o[1], InTransfer(id), InTransfer(o), Drafted(o)' # NoRow
                 PROVE  o \in targets[q]
        BY DEF TargetsAreWhole, InTransfer
    <3>1. Drafted(o) # NoRow
        BY <1>2, <2>1
    <3> QED
        BY <3>1 DEF TargetsAreWhole
  <2>4. \A q \in Requests : phase'[q] = "swept" => phase[q] = "swept"
      OBVIOUS
  <2>5. SweepsHold'
      BY <2>4 DEF SweepsHold
  <2>6. DeletedAreGone'
      BY <1>0 DEF DeletedAreGone
  <2> QED
      BY <2>2, <2>3, <2>5, <2>6
<1>7. LocksAreHeld'
    BY DEF LocksAreHeld
<1>8. DeletedOnce'
    BY <1>0 DEF DeletedOnce
<1> QED
    BY <1>3, <1>4, <1>5, <1>6, <1>7, <1>8

LEMMA RecordTransactionStep ==
    ASSUME Inv, TypeOK', NEW r \in Creators, NEW a \in Accounts, NEW n \in Amounts,
           NEW k \in NonTransferKind, RecordTransaction(r, a, n, k)
    PROVE  Inv'
<1> USE DEF RecordTransaction, Arrive
<1>1. r \in Requests
    BY LedgerAssumption
<1>2. /\ phase[r] = "idle" /\ phase'[r] \in {"inserting", "notFound"}
      /\ UNCHANGED <<user, target, targets, rows, lock>>
    BY <1>1 DEF Inv, TypeOK
<1>3. OthersGoOn(r)
    BY DEF OthersGoOn, Inv, TypeOK
<1>4. draft[r] = NoDraft /\ ~same_unit'[r]
    BY <1>1 DEF Inv, DraftInv, IdleHasNoDraft
<1>5. \A leg \in Leg : draft'[r][leg] # NoRow =>
          /\ leg = "sole"
          /\ Owner[a] = user[r]
          /\ draft'[r][leg] = NewRow(a, Signed(n, k), k)
    BY <1>1, <1>4, NoDraftIsEmpty DEF Inv, TypeOK, Leg
<1>6. NewRow(a, Signed(n, k), k).account = a
    BY DEF NewRow
<1> HIDE DEF RecordTransaction, Arrive
<1> QED
    BY <1>1, <1>2, <1>3, <1>4, <1>5, <1>6, DraftStep

LEMMA CreateTransferStep ==
    ASSUME Inv, TypeOK', NEW r \in Creators, NEW from \in Accounts, NEW to \in Accounts,
           NEW sent \in Amounts, NEW received \in Amounts, NEW fee \in Amounts,
           NEW feeFrom \in Accounts \cup {NoAccount},
           CreateTransfer(r, from, to, sent, received, feeFrom, fee)
    PROVE  Inv'
<1> USE DEF CreateTransfer, Arrive
<1>1. r \in Requests
    BY LedgerAssumption
<1>2. /\ phase[r] = "idle" /\ phase'[r] \in {"inserting", "notFound"}
      /\ UNCHANGED <<user, target, targets, rows, lock>>
    BY <1>1 DEF Inv, TypeOK
<1>3. OthersGoOn(r)
    BY DEF OthersGoOn, Inv, TypeOK
<1>4. /\ draft'[r]["sole"] = NoRow
      /\ draft'[r]["sent"] = NewRow(from, -sent, "transfer")
      /\ draft'[r]["received"] = NewRow(to, received, "transfer")
      /\ draft'[r]["fee"] # NoRow =>
            draft'[r]["fee"] = NewRow(feeFrom, -fee, "expense") /\ feeFrom # NoAccount
    BY <1>1 DEF Inv, TypeOK, NoDraft, Leg
<1>5. \A b, n, k : NewRow(b, n, k).account = b /\ NewRow(b, n, k).amount = n
    BY DEF NewRow
<1>6. /\ Owner[from] = user[r] /\ Owner[to] = user[r]
      /\ feeFrom # NoAccount => Owner[feeFrom] = user[r]
    BY LedgerAssumption DEF TransferAccounts
<1>7. same_unit'[r] => sent = received
    BY <1>1 DEF Inv, TypeOK
<1> HIDE DEF CreateTransfer, Arrive
<1>8. \A leg \in Leg : draft'[r][leg] # NoRow => Owner[draft'[r][leg].account] = user[r]
    BY <1>4, <1>5, <1>6 DEF Leg
<1>9. /\ draft'[r]["sent"] # NoRow /\ draft'[r]["received"] # NoRow
      /\ draft'[r]["sent"].amount = -sent /\ draft'[r]["received"].amount = received
  <2>1. NoRow.account = NoAccount
      BY DEF NoRow
  <2> QED
      BY <1>4, <1>5, <2>1, LedgerAssumption
<1>10. sent \in Int /\ received \in Int
    BY LedgerAssumption
<1> QED
    BY <1>1, <1>2, <1>3, <1>4, <1>7, <1>8, <1>9, <1>10, DraftStep

(* The rows of r become what r drafted; they were not stored before.        *)
LEMMA CommitInsertStep ==
    ASSUME Inv, TypeOK', NEW r \in Requests, CommitInsert(r)
    PROVE  Inv'
<1> USE DEF Inv, DraftInv, RowInv, PatchInv, SweepInv, TypeOK, Drafted, Stored,
            CommitInsert
<1>1. \A id \in RowId : Stored(id) => id[1] # r
    BY DEF StoredWereCreated
<1>2. \A id \in RowId : id[1] # r => rows'[id] = rows[id]
    OBVIOUS
<1>3. \A id \in RowId : id[1] = r => rows'[id] = Drafted(id)
    OBVIOUS
<1>4. DraftInv'
    BY DraftsUnchanged
<1>5. RowInv'
    BY <1>1, <1>2, <1>3, RowIdFacts
       DEF StoredWereCreated, TransferRowsAsDrafted, TransfersAreWhole
<1>6. PatchInv'
  <2>1. PatchesAreSole' /\ PatchesHaveTargets' /\ PatchedWereCreated'
      BY RowIdFacts DEF PatchesAreSole, PatchesHaveTargets, PatchedWereCreated, InTransfer
  <2>2. \A q \in Requests : phase'[q] \in {"flushing", "flushed"} =>
           /\ target[q] \in RowId
           /\ phase'[q] = phase[q]
           /\ rows'[target[q]] = rows[target[q]]
      BY <1>2, RowIdFacts DEF PatchesHaveTargets, PatchedWereCreated
  <2>3. PatchesHold' /\ PatchesAreOwned'
    <3>1. PatchesHold /\ PatchesAreOwned
        OBVIOUS
    <3>2. UNCHANGED <<user, target, lock>>
        OBVIOUS
    <3>3. \A q \in Requests : phase'[q] = phase[q] \/ phase'[q] = "created"
        OBVIOUS
    <3> HIDE DEF Inv, DraftInv, RowInv, PatchInv, SweepInv, TypeOK, Drafted, CommitInsert
    <3> QED
        BY <2>2, <3>1, <3>2, <3>3 DEF PatchesHold, PatchesAreOwned
  <2> QED
      BY <2>1, <2>3
<1>7. SweepInv'
  <2>1. \A q \in Requests : \A id \in targets[q] : id[1] # r
      BY DEF TargetsWereCreated
  <2>2. TargetsWereCreated' /\ TargetsAreWhole' /\ TargetsAreOne'
      BY <2>1, RowIdFacts DEF TargetsWereCreated, TargetsAreWhole, TargetsAreOne
  <2>3. \A q \in Requests : \A id \in targets[q] : rows'[id] = rows[id]
      BY <1>2, <2>1
  <2>4. TargetsAreOwned' /\ SweepsHold' /\ DeletedAreGone'
    <3>1. TargetsAreOwned /\ SweepsHold /\ DeletedAreGone
        OBVIOUS
    <3>2. UNCHANGED <<user, targets, lock>>
        OBVIOUS
    <3>3. \A q \in Requests : phase'[q] = phase[q] \/ phase'[q] = "created"
        OBVIOUS
    <3> HIDE DEF Inv, DraftInv, RowInv, PatchInv, SweepInv, TypeOK, Drafted, CommitInsert
    <3> QED
        BY <2>3, <3>1, <3>2, <3>3 DEF TargetsAreOwned, SweepsHold, DeletedAreGone
  <2> QED
      BY <2>2, <2>4
<1>8. LocksAreHeld'
    BY <1>1, <1>2 DEF LocksAreHeld
<1>9. DeletedOnce'
    BY DEF DeletedOnce
<1> QED
    BY <1>4, <1>5, <1>6, <1>7, <1>8, <1>9

-----------------------------------------------------------------------------
(* A patch begins on a stored row that is in no transfer.                   *)
LEMMA ReadForPatchStep ==
    ASSUME Inv, TypeOK', NEW r \in Requests, NEW id \in RowId, NEW n, NEW k, NEW other,
           ReadForPatch(r, id, n, k, other)
    PROVE  Inv'
<1> USE DEF Inv, DraftInv, RowInv, PatchInv, SweepInv, TypeOK, Drafted, Stored,
            ReadForPatch, Arrive
<1>1. DraftInv'
    BY DraftsUnchanged
<1>2. RowInv'
    BY RowIdFacts DEF StoredWereCreated, TransferRowsAsDrafted, TransfersAreWhole
<1>3. PatchInv'
    BY RowIdFacts
       DEF PatchesAreSole, PatchesHaveTargets, PatchedWereCreated, PatchesHold,
           PatchesAreOwned, InTransfer, Found, StoredWereCreated
<1>4. SweepInv'
    BY RowIdFacts
       DEF TargetsWereCreated, TargetsAreOwned, TargetsAreWhole, TargetsAreOne,
           SweepsHold, DeletedAreGone
<1>5. LocksAreHeld'
    BY DEF LocksAreHeld
<1>6. DeletedOnce'
    BY DEF DeletedOnce
<1> QED
    BY <1>1, <1>2, <1>3, <1>4, <1>5, <1>6

LEMMA FlushPatchStep ==
    ASSUME Inv, TypeOK', NEW r \in Requests, FlushPatch(r)
    PROVE  Inv'
<1> USE DEF Inv, DraftInv, RowInv, PatchInv, SweepInv, TypeOK, Drafted, Stored,
            FlushPatch, LockFree
<1>1. DraftInv'
    BY DraftsUnchanged
<1>2. RowInv'
    BY RowIdFacts DEF StoredWereCreated, TransferRowsAsDrafted, TransfersAreWhole
<1>3. PatchInv'
    BY RowIdFacts, LedgerAssumption
       DEF PatchesAreSole, PatchesHaveTargets, PatchedWereCreated, PatchesHold,
           PatchesAreOwned, InTransfer
<1>4. SweepInv'
    BY RowIdFacts, LedgerAssumption
       DEF TargetsWereCreated, TargetsAreOwned, TargetsAreWhole, TargetsAreOne,
           SweepsHold, DeletedAreGone
<1>5. LocksAreHeld'
    BY LedgerAssumption DEF LocksAreHeld, PatchesHaveTargets
<1>6. DeletedOnce'
    BY DEF DeletedOnce
<1> QED
    BY <1>1, <1>2, <1>3, <1>4, <1>5, <1>6

(* The row changes but is still of its account, and no other request holds  *)
(* it.                                                                      *)
LEMMA CommitPatchStep ==
    ASSUME Inv, TypeOK', NEW r \in Requests, CommitPatch(r)
    PROVE  Inv'
<1> USE DEF Inv, DraftInv, RowInv, PatchInv, SweepInv, TypeOK, Drafted, Stored,
            CommitPatch, Released, ForgetPatch
<1>1. /\ target[r] \in RowId /\ ~InTransfer(target[r])
      /\ rows[target[r]] \in Transaction
    BY DEF PatchesHaveTargets, PatchesAreSole, PatchesHold
<1>2. /\ rows'[target[r]] # NoRow
      /\ rows'[target[r]].account = rows[target[r]].account
    BY <1>1, PatchedType, NoRowIsNoTransaction
<1>3. \A id \in RowId : id # target[r] => rows'[id] = rows[id]
    BY <1>1
<1>4. \A id \in RowId : /\ Stored(id)' = Stored(id)
                        /\ Stored(id) => rows'[id].account = rows[id].account
    BY <1>1, <1>2, <1>3, NoRowIsNoTransaction
<1>5. DraftInv'
    BY DraftsUnchanged
<1>6. RowInv'
    BY <1>1, <1>3, <1>4, RowIdFacts
       DEF StoredWereCreated, TransferRowsAsDrafted, TransfersAreWhole
<1>7. PatchInv'
  <2>1. PatchesAreSole' /\ PatchesHaveTargets' /\ PatchedWereCreated'
      BY RowIdFacts
         DEF PatchesAreSole, PatchesHaveTargets, PatchedWereCreated, InTransfer
  <2>2. PatchesHold'
      BY <1>4 DEF PatchesHold, PatchesHaveTargets
  <2>3. PatchesAreOwned'
      BY <1>4 DEF PatchesAreOwned, PatchesHaveTargets
  <2> QED
      BY <2>1, <2>2, <2>3
<1>8. SweepInv'
  <2>1. TargetsWereCreated' /\ TargetsAreWhole' /\ TargetsAreOne'
      BY RowIdFacts DEF TargetsWereCreated, TargetsAreWhole, TargetsAreOne
  <2>2. TargetsAreOwned'
      BY <1>4 DEF TargetsAreOwned
  <2>3. SweepsHold' /\ DeletedAreGone'
      BY <1>4 DEF SweepsHold, DeletedAreGone
  <2> QED
      BY <2>1, <2>2, <2>3
<1>9. LocksAreHeld'
    BY <1>4 DEF LocksAreHeld
<1>10. DeletedOnce'
    BY DEF DeletedOnce
<1> QED
    BY <1>5, <1>6, <1>7, <1>8, <1>9, <1>10

-----------------------------------------------------------------------------
(* A DELETE sees all of a transfer or none of it: the group is stored whole *)
(* and is all of one user.                                                  *)
LEMMA SweptFacts ==
    ASSUME Inv, NEW u \in Users, NEW id \in RowId
    PROVE  /\ Swept(id, u) \subseteq RowId
           /\ \A o \in Swept(id, u) :
                 /\ Stored(o) /\ Owner[rows[o].account] = u
                 /\ o = id \/ (InTransfer(id) /\ InTransfer(o) /\ o[1] = id[1])
           /\ \A o \in Swept(id, u), p \in RowId :
                 /\ o[1] = p[1] /\ InTransfer(o) /\ InTransfer(p)
                 /\ Drafted(p) # NoRow
                 => p \in Swept(id, u)
<1>1. Swept(id, u) \subseteq RowId
    BY DEF Swept, Group
<1>2. ASSUME NEW o \in Swept(id, u)
      PROVE  /\ Stored(o) /\ Owner[rows[o].account] = u
             /\ o = id \/ (InTransfer(id) /\ InTransfer(o) /\ o[1] = id[1])
             /\ o # id => Found(id, u)
    BY <1>2 DEF Swept, Group, Found
<1>3. ASSUME NEW o \in Swept(id, u), NEW p \in RowId,
             o[1] = p[1], InTransfer(o), InTransfer(p), Drafted(p) # NoRow
      PROVE  p \in Swept(id, u)
  <2>1. o \in RowId /\ Stored(o) /\ Owner[rows[o].account] = u
      BY <1>1, <1>2
  <2>2. Stored(p)
      BY <1>3, <2>1 DEF Inv, RowInv, TransfersAreWhole
  <2>3. rows[o] = Drafted(o) /\ rows[p] = Drafted(p)
      BY <1>3, <2>1, <2>2 DEF Inv, RowInv, TransferRowsAsDrafted
  <2>4. Owner[rows[p].account] = u
      BY <1>3, <2>1, <2>2, <2>3 DEF Inv, DraftInv, DraftsAreOwned, Stored
  <2>5. Found(p, u)
      BY <2>2, <2>4 DEF Found
  <2>6. InTransfer(id) /\ id[1] = p[1] /\ Found(id, u)
      BY <1>2, <1>3, <2>1 DEF Found
  <2> QED
      BY <1>3, <2>5, <2>6 DEF Swept, Group
<1> QED
    BY <1>1, <1>2, <1>3

LEMMA BeginDeleteStep ==
    ASSUME Inv, TypeOK', NEW r \in Requests, NEW id \in RowId, BeginDelete(r, id)
    PROVE  Inv'
<1> USE DEF Inv, DraftInv, RowInv, PatchInv, SweepInv, TypeOK, Drafted, Stored,
            BeginDelete, Arrive
<1>1. DraftInv'
    BY DraftsUnchanged
<1>2. RowInv'
    BY RowIdFacts DEF StoredWereCreated, TransferRowsAsDrafted, TransfersAreWhole
<1>3. PatchInv'
    BY RowIdFacts
       DEF PatchesAreSole, PatchesHaveTargets, PatchedWereCreated, PatchesHold,
           PatchesAreOwned, InTransfer
<1>4. user[r] \in Users /\ targets'[r] = Swept(id, user[r])
    OBVIOUS
<1>5. \A q \in Requests \ {r} : targets'[q] = targets[q]
    OBVIOUS
<1>6. SweepInv'
  <2>1. TargetsWereCreated'
      BY <1>4, <1>5, SweptFacts, RowIdFacts DEF TargetsWereCreated, StoredWereCreated
  <2>2. TargetsAreOwned'
      BY <1>4, <1>5, SweptFacts DEF TargetsAreOwned
  <2>3. TargetsAreWhole'
      BY <1>4, <1>5, SweptFacts DEF TargetsAreWhole
  <2>4. TargetsAreOne'
      BY <1>4, <1>5, SweptFacts DEF TargetsAreOne
  <2>5. SweepsHold' /\ DeletedAreGone'
      BY DEF SweepsHold, DeletedAreGone
  <2> QED
      BY <2>1, <2>2, <2>3, <2>4, <2>5
<1>7. LocksAreHeld'
    BY DEF LocksAreHeld
<1>8. DeletedOnce'
    BY DEF DeletedOnce
<1> QED
    BY <1>1, <1>2, <1>3, <1>6, <1>7, <1>8

LEMMA LockSweptStep ==
    ASSUME Inv, TypeOK', NEW r \in Requests, LockSwept(r)
    PROVE  Inv'
<1> USE DEF Inv, DraftInv, RowInv, PatchInv, SweepInv, TypeOK, Drafted, Stored,
            LockSwept, LockFree
<1>1. DraftInv'
    BY DraftsUnchanged
<1>2. RowInv'
    BY RowIdFacts DEF StoredWereCreated, TransferRowsAsDrafted, TransfersAreWhole
<1>3. PatchInv'
    BY RowIdFacts, LedgerAssumption
       DEF PatchesAreSole, PatchesHaveTargets, PatchedWereCreated, PatchesHold,
           PatchesAreOwned, InTransfer
<1>4. SweepInv'
    BY RowIdFacts, LedgerAssumption
       DEF TargetsWereCreated, TargetsAreOwned, TargetsAreWhole, TargetsAreOne,
           SweepsHold, DeletedAreGone
<1>5. LocksAreHeld'
    BY LedgerAssumption DEF LocksAreHeld
<1>6. DeletedOnce'
    BY DEF DeletedOnce
<1> QED
    BY <1>1, <1>2, <1>3, <1>4, <1>5, <1>6

(* What r holds is gone: with a row of a transfer the whole of it, and      *)
(* nothing that another request was told it deleted.                        *)
LEMMA CommitDeleteStep ==
    ASSUME Inv, TypeOK', NEW r \in Requests, CommitDelete(r)
    PROVE  Inv'
<1> USE DEF Inv, DraftInv, RowInv, PatchInv, SweepInv, TypeOK, Drafted, Stored,
            CommitDelete, Released
<1>1. \A id \in RowId : lock[id] = r <=> Stored(id) /\ id \in targets[r]
    BY LedgerAssumption DEF LocksAreHeld, SweepsHold
<1>2. \A id \in RowId : Stored(id)' <=> Stored(id) /\ id \notin targets[r]
    BY <1>1
<1>3. \A id \in RowId : Stored(id)' => rows'[id] = rows[id]
    OBVIOUS
<1>4. DraftInv'
    BY DraftsUnchanged
<1>5. RowInv'
  <2>1. StoredWereCreated' /\ TransferRowsAsDrafted'
      BY <1>2, <1>3, RowIdFacts DEF StoredWereCreated, TransferRowsAsDrafted
  <2>2. ASSUME NEW id \in RowId, NEW o \in RowId,
               id[1] = o[1], InTransfer(id), Stored(id)', Drafted(o) # NoRow
        PROVE  Stored(o)'
    <3>1. Stored(id) /\ id \notin targets[r] /\ Stored(o)
        BY <1>2, <2>2 DEF TransfersAreWhole
    <3>2. Drafted(id) # NoRow
        BY <2>2, <3>1 DEF TransferRowsAsDrafted
    <3>3. InTransfer(o)
        BY <2>2, <3>2 DEF DraftsAreOneKind
    <3>4. o \notin targets[r]
        BY <2>2, <3>1, <3>2, <3>3 DEF TargetsAreWhole
    <3> QED
        BY <1>2, <3>1, <3>4
  <2>3. TransfersAreWhole'
      BY <2>2 DEF TransfersAreWhole
  <2> QED
      BY <2>1, <2>3
<1>6. PatchInv'
    BY <1>1, <1>2, <1>3, RowIdFacts
       DEF PatchesAreSole, PatchesHaveTargets, PatchedWereCreated, PatchesHold,
           PatchesAreOwned, InTransfer
<1>7. SweepInv'
  <2>1. TargetsWereCreated' /\ TargetsAreWhole' /\ TargetsAreOne'
      BY RowIdFacts DEF TargetsWereCreated, TargetsAreWhole, TargetsAreOne
  <2>2. TargetsAreOwned'
      BY <1>2, <1>3 DEF TargetsAreOwned
  <2>3. SweepsHold'
      BY <1>2, <1>3 DEF SweepsHold
  <2>4. DeletedAreGone'
      BY <1>2 DEF DeletedAreGone
  <2> QED
      BY <2>1, <2>2, <2>3, <2>4
<1>8. LocksAreHeld'
    BY <1>2, <1>3 DEF LocksAreHeld
<1>9. DeletedOnce'
  <2>1. ASSUME NEW q \in Requests \ {r}, phase[q] = "deleted",
               targets[q] \cap targets[r] # {}
        PROVE  FALSE
    <3>1. PICK x \in RowId : x \in targets[q] /\ x \in targets[r]
        BY <2>1
    <3>2. PICK y \in targets[r] : Stored(y)
        BY DEF SweepsHold
    <3>3. y \in RowId /\ ~Stored(x)
        BY <2>1, <3>1 DEF DeletedAreGone
    <3>4. InTransfer(x) /\ InTransfer(y) /\ x[1] = y[1]
        BY <3>1, <3>2, <3>3 DEF TargetsAreOne
    <3>5. Drafted(y) # NoRow
        BY <3>2, <3>3, <3>4 DEF TransferRowsAsDrafted
    <3>6. y \in targets[q]
        BY <3>1, <3>3, <3>4, <3>5 DEF TargetsAreWhole
    <3> QED
        BY <2>1, <3>2, <3>6 DEF DeletedAreGone
  <2> QED
      BY <2>1 DEF DeletedOnce
<1> QED
    BY <1>4, <1>5, <1>6, <1>7, <1>8, <1>9

-----------------------------------------------------------------------------
(* A transaction rolled back before its commit had stored nothing.          *)
LEMMA RollBackStep ==
    ASSUME Inv, TypeOK', NEW r \in Requests, phase[r] \in Open,
           NEW answer \in {"stale", "notFound", "failed"}, RollBack(r, answer)
    PROVE  Inv'
<1>1. /\ phase' = [phase EXCEPT ![r] = answer]
      /\ lock' = Released(r)
      /\ draft' = [draft EXCEPT ![r] = NoDraft]
      /\ same_unit' = [same_unit EXCEPT ![r] = FALSE]
      /\ target' = [target EXCEPT ![r] = NoTarget]
      /\ UNCHANGED <<user, targets, rows>>
    BY DEF RollBack, ForgetPatch
<1>2. phase[r] # "created" /\ phase[r] # "idle" /\ phase[r] # "deleted"
    BY DEF Open
<1> USE DEF Inv, DraftInv, RowInv, PatchInv, SweepInv, TypeOK, Drafted, Stored
<1>3. OthersGoOn(r) /\ phase'[r] = answer
    BY <1>1 DEF OthersGoOn
<1>4. \A id \in RowId : id[1] # r => Drafted(id)' = Drafted(id)
    BY <1>3, RowIdFacts DEF OthersGoOn
<1>5. \A id \in RowId : id[1] = r => Drafted(id)' = NoRow
    BY <1>1, NoDraftIsEmpty, RowIdFacts
<1>6. \A id \in RowId : Stored(id) => id[1] # r
    BY <1>2 DEF StoredWereCreated
<1>7. DraftInv'
  <2>1. IdleHasNoDraft'
      BY <1>3 DEF IdleHasNoDraft, OthersGoOn
  <2>2. DraftsAreOwned'
      BY <1>1, <1>4, <1>5 DEF DraftsAreOwned
  <2>3. DraftsAreOneKind'
      BY <1>4, <1>5 DEF DraftsAreOneKind
  <2>4. DraftsCancel'
      BY <1>1 DEF DraftsCancel
  <2> QED
      BY <2>1, <2>2, <2>3, <2>4
<1>8. RowInv'
    BY <1>1, <1>3, <1>4, <1>5, <1>6, RowIdFacts
       DEF StoredWereCreated, TransferRowsAsDrafted, TransfersAreWhole, OthersGoOn
<1>9. PatchInv'
  <2>1. target'[r][2] = "sole"
      BY <1>1, RowIdFacts
  <2> QED
      BY <1>1, <1>2, <1>3, <2>1, RowIdFacts
         DEF PatchesAreSole, PatchesHaveTargets, PatchedWereCreated, PatchesHold,
             PatchesAreOwned, InTransfer, OthersGoOn, Released, InTransfer
<1>10. SweepInv'
  <2>1. \A q \in Requests : \A id \in targets[q] : id[1] # r
      BY <1>2 DEF TargetsWereCreated
  <2>2. TargetsWereCreated' /\ TargetsAreOwned' /\ TargetsAreOne'
      BY <1>1, <1>3, <2>1, RowIdFacts DEF TargetsWereCreated, TargetsAreOwned,
         TargetsAreOne, OthersGoOn
  <2>3. TargetsAreWhole'
      BY <1>1, <1>4, <2>1 DEF TargetsAreWhole
  <2>4. SweepsHold' /\ DeletedAreGone'
      BY <1>1, <1>3 DEF SweepsHold, DeletedAreGone, OthersGoOn, Released
  <2> QED
      BY <2>2, <2>3, <2>4
<1>11. LocksAreHeld'
    BY <1>1, <1>3 DEF LocksAreHeld, OthersGoOn, Released
<1>12. DeletedOnce'
    BY <1>1, <1>3 DEF DeletedOnce, OthersGoOn
<1> QED
    BY <1>7, <1>8, <1>9, <1>10, <1>11, <1>12

(* No invariant speaks of units, or of what a patch sets.                   *)
LEMMA OtherVariablesStep ==
    ASSUME Inv, TypeOK',
           UNCHANGED <<phase, user, target, draft, same_unit, targets, rows, lock>>
    PROVE  Inv'
<1> USE DEF Inv, Drafted, Stored
<1>1. DraftInv'
    BY DraftsUnchanged
<1>2. RowInv'
    BY DEF RowInv, StoredWereCreated, TransferRowsAsDrafted, TransfersAreWhole
<1>3. PatchInv'
    BY DEF PatchInv, PatchesAreSole, PatchesHaveTargets, PatchedWereCreated,
           PatchesHold, PatchesAreOwned, InTransfer
<1>4. SweepInv'
    BY DEF SweepInv, TargetsWereCreated, TargetsAreOwned, TargetsAreWhole,
           TargetsAreOne, SweepsHold, DeletedAreGone
<1>5. LocksAreHeld' /\ DeletedOnce'
    BY DEF LocksAreHeld, DeletedOnce
<1> QED
    BY <1>1, <1>2, <1>3, <1>4, <1>5

LEMMA InvInit == Init => Inv
<1> SUFFICES ASSUME Init PROVE Inv
    OBVIOUS
<1> USE DEF Init, Drafted, Stored
<1>1. TypeOK
    BY LedgerAssumption DEF TypeOK, Phase, NoDraft, Unset, SetClause, Amount,
       NonTransferKind
<1>2. DraftInv
    BY NoDraftIsEmpty, RowIdFacts
       DEF DraftInv, IdleHasNoDraft, DraftsAreOwned, DraftsAreOneKind, DraftsCancel
<1>3. RowInv
    BY DEF RowInv, StoredWereCreated, TransferRowsAsDrafted, TransfersAreWhole
<1>4. PatchInv
    BY RowIdFacts
       DEF PatchInv, PatchesAreSole, PatchesHaveTargets, PatchedWereCreated,
           PatchesHold, PatchesAreOwned, InTransfer
<1>5. SweepInv
    BY DEF SweepInv, TargetsWereCreated, TargetsAreOwned, TargetsAreWhole,
           TargetsAreOne, SweepsHold, DeletedAreGone
<1>6. LocksAreHeld /\ DeletedOnce
    BY DEF LocksAreHeld, DeletedOnce
<1> QED
    BY <1>1, <1>2, <1>3, <1>4, <1>5, <1>6 DEF Inv

LEMMA InvStep == Inv /\ [Next]_vars => Inv'
<1> SUFFICES ASSUME Inv, [Next]_vars PROVE Inv'
    OBVIOUS
<1>1. TypeOK'
    BY TypeStep DEF Inv, PatchInv
<1>2. ASSUME NEW r \in Requests, Ask(r) PROVE Inv'
  <2>1. CASE AnswersAtOnce(r)
      BY <1>1, <2>1, AnswersStep
  <2>2. ASSUME NEW a \in Accounts, NEW n \in Amounts, NEW k \in NonTransferKind,
               r \in Creators, RecordTransaction(r, a, n, k)
        PROVE  Inv'
      BY <1>1, <2>2, RecordTransactionStep
  <2>3. ASSUME NEW from \in Accounts, NEW to \in Accounts, NEW sent \in Amounts,
               NEW received \in Amounts, NEW fee \in Amounts,
               NEW feeFrom \in Accounts \cup {NoAccount}, r \in Creators,
               CreateTransfer(r, from, to, sent, received, feeFrom, fee)
        PROVE  Inv'
      BY <1>1, <2>3, CreateTransferStep
  <2>4. ASSUME NEW id \in RowId, NEW n, NEW k, NEW other, ReadForPatch(r, id, n, k, other)
        PROVE  Inv'
      BY <1>1, <2>4, ReadForPatchStep
  <2>5. ASSUME NEW id \in RowId, BeginDelete(r, id) PROVE Inv'
      BY <1>1, <2>5, BeginDeleteStep
  <2> QED
      BY <1>2, <2>1, <2>2, <2>3, <2>4, <2>5, AskCases, Zenon
<1>3. ASSUME NEW r \in Requests, FlushStale(r) \/ DeleteNothing(r) \/ Fail(r) PROVE Inv'
  <2>1. phase[r] \in Open
      BY <1>3 DEF FlushStale, DeleteNothing, Fail, Open
  <2>2. PICK answer \in {"stale", "notFound", "failed"} : RollBack(r, answer)
      BY <1>3 DEF FlushStale, DeleteNothing, Fail
  <2> QED
      BY <1>1, <2>1, <2>2, RollBackStep
<1>4. ASSUME NEW r \in Requests, Serve(r) PROVE Inv'
    BY <1>1, <1>3, <1>4, CommitInsertStep, FlushPatchStep, CommitPatchStep,
       LockSweptStep, CommitDeleteStep DEF Serve
<1>5. ASSUME NEW a \in Accounts, NEW u \in Units, ChangeUnit(a, u) PROVE Inv'
    BY <1>1, <1>5, OtherVariablesStep DEF ChangeUnit
<1>6. CASE UNCHANGED vars
    BY <1>1, <1>6, OtherVariablesStep DEF vars
<1> QED
    BY <1>2, <1>3, <1>4, <1>5, <1>6 DEF Next

-----------------------------------------------------------------------------
(* The invariant, which the theorems below draw on.                         *)
THEOREM InvHolds == Spec => []Inv
BY InvInit, InvStep, PTL DEF Spec

(* Every variable stays in its type: in particular a patch and a transfer   *)
(* only ever store transactions (ledger/models/transaction.py:35).          *)
THEOREM TypeCorrect == Spec => []TypeOK
<1>1. Inv => TypeOK
    BY DEF Inv
<1> QED
    BY <1>1, InvHolds, PTL

(* A transfer is stored with every row it was recorded with or with none,   *)
(* however many deletes of its rows race and wherever they fail.            *)
THEOREM TransfersStayWhole == Spec => []WholeTransfers
<1>1. Inv => WholeTransfers
    BY RowIdFacts
       DEF Inv, RowInv, TransfersAreWhole, WholeTransfers, InTransfer, Drafted
<1> QED
    BY <1>1, InvHolds, PTL

(* The rows of a transfer between accounts of one unit add up to nothing.   *)
THEOREM TransfersBalance == Spec => []TransfersCancel
<1>1. Inv => TransfersCancel
  <2> SUFFICES ASSUME Inv, NEW r \in Creators, same_unit[r]
               PROVE  rows[<<r, "sent">>].amount + rows[<<r, "received">>].amount = 0
      BY DEF TransfersCancel
  <2> DEFINE sent == <<r, "sent">>
             received == <<r, "received">>
  <2>1. /\ sent \in RowId /\ received \in RowId
        /\ InTransfer(sent) /\ InTransfer(received) /\ sent[1] = received[1]
      BY RowIdFacts DEF Leg, InTransfer
  <2>2. /\ Drafted(sent) # NoRow /\ Drafted(received) # NoRow
        /\ Drafted(sent).amount + Drafted(received).amount = 0
      BY LedgerAssumption, RowIdFacts
         DEF Inv, DraftInv, DraftsCancel, Drafted, Leg
  <2>3. Stored(sent) <=> Stored(received)
      BY <2>1, <2>2 DEF Inv, RowInv, TransfersAreWhole
  <2>4. CASE Stored(sent)
    <3>1. rows[sent] = Drafted(sent) /\ rows[received] = Drafted(received)
        BY <2>1, <2>3, <2>4 DEF Inv, RowInv, TransferRowsAsDrafted
    <3> QED
        BY <2>2, <3>1
  <2>5. CASE ~Stored(sent)
      BY <2>3, <2>5 DEF Stored, NoRow
  <2> QED
      BY <2>4, <2>5
<1> QED
    BY <1>1, InvHolds, PTL

(* Of the requests that race to delete one transaction or one transfer, one *)
(* is told that it did.                                                     *)
THEOREM OneDeleteSucceeds == Spec => []DeletedOnce
<1>1. Inv => DeletedOnce
    BY DEF Inv
<1> QED
    BY <1>1, InvHolds, PTL

-----------------------------------------------------------------------------
(* Only three steps write rows.                                             *)
LEMMA RowSteps ==
    ASSUME [Next]_vars
    PROVE  \/ UNCHANGED rows
           \/ \E r \in Requests : CommitInsert(r) \/ CommitPatch(r) \/ CommitDelete(r)
<1>1. ASSUME NEW r \in Requests, Ask(r) PROVE UNCHANGED rows
    BY <1>1, AskCases DEF AnswersAtOnce, RecordTransaction, CreateTransfer,
       ReadForPatch, BeginDelete
<1>2. ASSUME NEW r \in Requests, Serve(r) \/ Fail(r)
      PROVE  UNCHANGED rows \/ CommitInsert(r) \/ CommitPatch(r) \/ CommitDelete(r)
    BY <1>2 DEF Serve, FlushPatch, FlushStale, LockSwept, DeleteNothing, Fail, RollBack
<1> QED
    BY <1>1, <1>2 DEF Next, ChangeUnit, vars

(* No row of a transfer is ever edited: a patch never has one as target,    *)
(* and no row is inserted twice.                                            *)
THEOREM TransfersAreNeverEdited == Spec => TransferRowsAreFinal
<1>1. ASSUME Inv, [Next]_vars, NEW id \in RowId, InTransfer(id), Stored(id)
      PROVE  rows'[id] \in {rows[id], NoRow}
  <2> USE DEF Inv, TypeOK
  <2>1. ASSUME NEW r \in Requests, CommitInsert(r) PROVE rows'[id] = rows[id]
      BY <1>1, <2>1 DEF RowInv, StoredWereCreated, CommitInsert
  <2>2. ASSUME NEW r \in Requests, CommitPatch(r) PROVE rows'[id] = rows[id]
      BY <1>1, <2>2 DEF PatchInv, PatchesAreSole, CommitPatch
  <2>3. ASSUME NEW r \in Requests, CommitDelete(r) PROVE rows'[id] \in {rows[id], NoRow}
      BY <2>3 DEF CommitDelete
  <2> QED
      BY <1>1, <2>1, <2>2, <2>3, RowSteps
<1>2. Inv /\ [Next]_vars
        => [\A id \in RowId :
              InTransfer(id) /\ Stored(id) => rows'[id] \in {rows[id], NoRow}]_vars
    BY <1>1
<1> QED
    BY <1>2, InvHolds, PTL DEF Spec, TransferRowsAreFinal

(* A row is only written by a request of the user its account belongs to.   *)
THEOREM OwnersWrite == Spec => OnlyOwnersWrite
<1>1. ASSUME Inv, [Next]_vars, NEW id \in RowId, rows'[id] # rows[id]
      PROVE  \E r \in Requests :
                /\ phase'[r] # phase[r]
                /\ \A row \in {rows[id], rows'[id]} \ {NoRow} :
                      Owner[row.account] = user[r]
  <2>1. ASSUME NEW r \in Requests, CommitInsert(r)
        PROVE  /\ phase'[r] # phase[r]
               /\ rows[id] = NoRow
               /\ rows'[id] # NoRow => Owner[rows'[id].account] = user[r]
    <3>1. phase[r] = "inserting" /\ phase'[r] = "created"
        BY <1>1, <2>1 DEF CommitInsert, Inv, TypeOK
    <3>2. id[1] = r /\ rows'[id] = Drafted(id)
        BY <1>1, <2>1 DEF CommitInsert, Drafted
    <3>3. rows[id] = NoRow
        BY <1>1, <3>1, <3>2 DEF Inv, RowInv, StoredWereCreated, Stored
    <3> QED
        BY <1>1, <3>1, <3>2, <3>3 DEF Inv, DraftInv, DraftsAreOwned
  <2>2. ASSUME NEW r \in Requests, CommitPatch(r)
        PROVE  /\ phase'[r] # phase[r]
               /\ Owner[rows[id].account] = user[r]
               /\ Owner[rows'[id].account] = user[r]
    <3>1. phase[r] = "flushed" /\ phase'[r] = "patched" /\ id = target[r]
        BY <1>1, <2>2 DEF CommitPatch, Inv, TypeOK
    <3>2. rows[id] \in Transaction /\ Owner[rows[id].account] = user[r]
        BY <1>1, <3>1 DEF Inv, TypeOK, PatchInv, PatchesHold, PatchesAreOwned, Stored
    <3>3. rows'[id] = Patched(rows[id], columns[r]) /\ columns[r] \in SetClause
        BY <1>1, <2>2, <3>1 DEF CommitPatch, Inv, TypeOK
    <3> QED
        BY <3>1, <3>2, <3>3, PatchedType
  <2>3. ASSUME NEW r \in Requests, CommitDelete(r)
        PROVE  /\ phase'[r] # phase[r]
               /\ rows'[id] = NoRow
               /\ Owner[rows[id].account] = user[r]
    <3>1. phase[r] = "swept" /\ phase'[r] = "deleted" /\ lock[id] = r /\ rows'[id] = NoRow
        BY <1>1, <2>3 DEF CommitDelete, Inv, TypeOK
    <3>2. Stored(id) /\ id \in targets[r]
        BY <1>1, <3>1, LedgerAssumption DEF Inv, LocksAreHeld
    <3> QED
        BY <1>1, <3>1, <3>2 DEF Inv, SweepInv, TargetsAreOwned
  <2>4. PICK r \in Requests : CommitInsert(r) \/ CommitPatch(r) \/ CommitDelete(r)
      BY <1>1, RowSteps
  <2> QED
      BY <2>1, <2>2, <2>3, <2>4
<1>2. Inv /\ [Next]_vars
        => [\A id \in RowId : rows'[id] # rows[id] =>
              \E r \in Requests :
                 /\ phase'[r] # phase[r]
                 /\ \A row \in {rows[id], rows'[id]} \ {NoRow} :
                       Owner[row.account] = user[r]]_vars
    BY <1>1, Zenon
<1> QED
    BY <1>2, InvHolds, PTL DEF Spec, OnlyOwnersWrite

-----------------------------------------------------------------------------
(* For the signs: a row outside transfers is income or expense, and what a  *)
(* patch is to set are the changes that some request makes to what it read. *)
SoleKinds ==
    \A id \in RowId : ~InTransfer(id) =>
        /\ Drafted(id) # NoRow => Drafted(id).kind \in NonTransferKind
        /\ Stored(id) => rows[id].kind \in NonTransferKind

ColumnsAreChanges ==
    \A r \in Requests : phase[r] \in {"flushing", "flushed"} =>
        /\ read[r] \in Transaction /\ read[r].kind \in NonTransferKind
        /\ \E n \in Amounts \cup {0}, k \in NonTransferKind \cup {"unset"} :
              columns[r] = Changes(read[r], n, k)

LEMMA PatchKeepsSign ==
    ASSUME NEW row \in Transaction, row.kind \in NonTransferKind,
           NEW n \in Amounts \cup {0}, NEW k \in NonTransferKind \cup {"unset"},
           SignIsRight(row)
    PROVE  SignIsRight(Patched(row, Changes(row, n, k)))
<1>1. n \in Nat /\ row.amount \in Int
    BY LedgerAssumption DEF Transaction, Amount
<1> DEFINE kind == PatchedKind(row, k)
           amount == PatchedAmount(row, n, k)
           patched == Patched(row, Changes(row, n, k))
<1>2. kind \in NonTransferKind /\ kind # "unset"
    BY DEF PatchedKind, NonTransferKind
<1>3. patched.kind = kind
    BY <1>2 DEF Patched, Changes
<1>4. /\ row.kind = "income" => row.amount > 0
      /\ row.kind = "expense" => row.amount < 0
      /\ row.amount # 0
    BY <1>1 DEF SignIsRight, NonTransferKind
<1>5. Magnitude(row, n) \in Int /\ Magnitude(row, n) > 0
    BY <1>1, <1>4 DEF Magnitude
<1>6. /\ kind = "income" => amount > 0
      /\ kind = "expense" => amount < 0
      /\ amount \in Int /\ amount # 0
    BY <1>1, <1>2, <1>4, <1>5 DEF PatchedAmount, PatchedKind, Signed, NonTransferKind
<1>7. patched.amount = amount
    BY <1>6 DEF Patched, Changes
<1> HIDE DEF kind, amount
<1> QED
    BY <1>3, <1>6, <1>7 DEF SignIsRight

LEMMA SignInit == Init => SoleKinds /\ ColumnsAreChanges
BY NoDraftIsEmpty, RowIdFacts DEF Init, SoleKinds, ColumnsAreChanges, Drafted, Stored

LEMMA SoleKindsStep ==
    Inv /\ SoleKinds /\ [Next]_vars => SoleKinds'
<1> SUFFICES ASSUME Inv, SoleKinds, [Next]_vars, NEW id \in RowId, ~InTransfer(id)
             PROVE  /\ Drafted(id)' # NoRow => Drafted(id)'.kind \in NonTransferKind
                    /\ rows'[id] # NoRow => rows'[id].kind \in NonTransferKind
    BY DEF SoleKinds, Stored, InTransfer
<1>1. /\ Drafted(id) # NoRow => Drafted(id).kind \in NonTransferKind
      /\ rows[id] # NoRow => rows[id].kind \in NonTransferKind
    BY DEF SoleKinds, Stored
<1>2. /\ draft \in [Requests -> [Leg -> Transaction \cup {NoRow}]]
      /\ rows \in [RowId -> Transaction \cup {NoRow}]
      /\ id[1] \in Requests /\ id[2] = "sole" /\ id[2] \in Leg
    BY RowIdFacts DEF Inv, TypeOK, InTransfer
<1>3. rows'[id] # NoRow => rows'[id].kind \in NonTransferKind
  <2>1. ASSUME NEW r \in Requests, CommitInsert(r) PROVE rows'[id] \in {rows[id], Drafted(id)}
      BY <2>1 DEF CommitInsert, Drafted
  <2>2. ASSUME NEW r \in Requests, CommitPatch(r), id = target[r]
        PROVE  rows'[id].kind \in NonTransferKind
    <3>1. rows[id] # NoRow /\ columns[r] \in SetClause
        BY <2>2 DEF CommitPatch, Inv, PatchInv, PatchesHold, Stored, TypeOK
    <3>2. rows'[id] = Patched(rows[id], columns[r])
        BY <1>2, <2>2 DEF CommitPatch
    <3> QED
        BY <1>1, <3>1, <3>2 DEF Patched, SetClause
  <2>3. ASSUME NEW r \in Requests, CommitPatch(r), id # target[r] PROVE rows'[id] = rows[id]
      BY <1>2, <2>3 DEF CommitPatch
  <2>4. ASSUME NEW r \in Requests, CommitDelete(r) PROVE rows'[id] \in {rows[id], NoRow}
      BY <2>4 DEF CommitDelete
  <2> QED
      BY <1>1, <2>1, <2>2, <2>3, <2>4, RowSteps
<1>4. Drafted(id)' # NoRow => Drafted(id)'.kind \in NonTransferKind
  <2>1. ASSUME NEW r \in Requests, NEW a, NEW n, NEW k \in NonTransferKind,
               RecordTransaction(r, a, n, k)
        PROVE  Drafted(id)' = Drafted(id) \/ Drafted(id)'.kind = k
      BY <1>2, <2>1 DEF RecordTransaction, Drafted, NewRow
  <2>2. ASSUME NEW r \in Requests, NEW from, NEW to, NEW sent, NEW received, NEW feeFrom,
               NEW fee, CreateTransfer(r, from, to, sent, received, feeFrom, fee)
        PROVE  Drafted(id)' \in {Drafted(id), NoRow}
      BY <1>2, <2>2 DEF CreateTransfer, Drafted, NoDraft, Leg
  <2>3. ASSUME NEW r \in Requests, NEW answer, RollBack(r, answer)
        PROVE  Drafted(id)' \in {Drafted(id), NoRow}
      BY <1>2, <2>3, NoDraftIsEmpty DEF RollBack, Drafted
  <2>4. ASSUME NEW r \in Requests, Ask(r)
        PROVE  \/ Drafted(id)' \in {Drafted(id), NoRow}
               \/ Drafted(id)'.kind \in NonTransferKind
    <3>1. AnswersAtOnce(r) => Drafted(id)' = Drafted(id)
        BY DEF AnswersAtOnce, Drafted
    <3>2. \A i, n, k, o : ReadForPatch(r, i, n, k, o) => Drafted(id)' = Drafted(id)
        BY DEF ReadForPatch, Drafted
    <3>3. \A i : BeginDelete(r, i) => Drafted(id)' = Drafted(id)
        BY DEF BeginDelete, Drafted
    <3> QED
        BY <2>1, <2>2, <2>4, <3>1, <3>2, <3>3, AskCases
  <2>5. ASSUME NEW r \in Requests, Serve(r) \/ Fail(r)
        PROVE  draft' = draft \/ \E answer : RollBack(r, answer)
      BY <2>5 DEF Serve, Fail, CommitInsert, FlushPatch, FlushStale, CommitPatch,
         LockSwept, DeleteNothing, CommitDelete
  <2>6. ASSUME draft' = draft PROVE Drafted(id)' = Drafted(id)
      BY <2>6 DEF Drafted
  <2> QED
      BY <1>1, <2>3, <2>4, <2>5, <2>6 DEF Next, ChangeUnit, vars
<1> QED
    BY <1>3, <1>4

LEMMA ColumnsStep ==
    Inv /\ SoleKinds /\ ColumnsAreChanges /\ [Next]_vars => ColumnsAreChanges'
<1> SUFFICES ASSUME Inv, SoleKinds, ColumnsAreChanges, [Next]_vars, NEW q \in Requests,
                    phase'[q] \in {"flushing", "flushed"}
             PROVE  /\ read'[q] \in Transaction /\ read'[q].kind \in NonTransferKind
                    /\ \E n \in Amounts \cup {0}, k \in NonTransferKind \cup {"unset"} :
                          columns'[q] = Changes(read'[q], n, k)
    BY DEF ColumnsAreChanges, Changes, PatchedAmount, PatchedKind, Magnitude, Signed
<1>1. ASSUME NEW id \in RowId, NEW n \in Amounts \cup {0},
             NEW k \in NonTransferKind \cup {"unset"}, NEW other,
             ReadForPatch(q, id, n, k, other)
      PROVE  /\ read'[q] \in Transaction /\ read'[q].kind \in NonTransferKind
             /\ columns'[q] = Changes(read'[q], n, k)
  <2>1. rows[id] \in Transaction /\ rows[id].kind \in NonTransferKind
      BY <1>1 DEF ReadForPatch, Found, Stored, SoleKinds, Inv, TypeOK
  <2> QED
      BY <1>1, <2>1 DEF ReadForPatch, Inv, TypeOK
<1>2. ASSUME phase[q] \in {"flushing", "flushed"}, read'[q] = read[q], columns'[q] = columns[q]
      PROVE  /\ read'[q] \in Transaction /\ read'[q].kind \in NonTransferKind
             /\ \E n \in Amounts \cup {0}, k \in NonTransferKind \cup {"unset"} :
                   columns'[q] = Changes(read'[q], n, k)
    BY <1>2 DEF ColumnsAreChanges
<1> DEFINE Kept == /\ phase[q] \in {"flushing", "flushed"}
                   /\ read'[q] = read[q] /\ columns'[q] = columns[q]
<1>3. ASSUME NEW r \in Requests, Ask(r),
             ~ \E id \in RowId, n \in Amounts \cup {0},
                  k \in NonTransferKind \cup {"unset"}, other \in BOOLEAN :
                  ReadForPatch(q, id, n, k, other)
      PROVE  Kept
  <2> USE DEF Arrive, Inv, TypeOK
  <2>1. CASE AnswersAtOnce(r)
      BY <2>1 DEF AnswersAtOnce
  <2>2. ASSUME NEW a, NEW n, NEW k, RecordTransaction(r, a, n, k) PROVE Kept
      BY <2>2 DEF RecordTransaction
  <2>3. ASSUME NEW from, NEW to, NEW sent, NEW received, NEW feeFrom, NEW fee,
               CreateTransfer(r, from, to, sent, received, feeFrom, fee)
        PROVE  Kept
      BY <2>3 DEF CreateTransfer
  <2>4. ASSUME NEW id, NEW n, NEW k, NEW other, ReadForPatch(r, id, n, k, other), r # q
        PROVE  Kept
      BY <2>4 DEF ReadForPatch
  <2>5. ASSUME NEW id, BeginDelete(r, id) PROVE Kept
      BY <2>5 DEF BeginDelete
  <2> HIDE DEF Kept
  <2> QED
      BY <1>3, <2>1, <2>2, <2>3, <2>4, <2>5, AskCases
<1>4. ASSUME NEW r \in Requests, Serve(r) \/ Fail(r) PROVE Kept
  <2> USE DEF Inv, TypeOK
  <2>1. ASSUME NEW answer \in {"stale", "notFound", "failed"}, RollBack(r, answer) PROVE Kept
      BY <2>1 DEF RollBack, ForgetPatch
  <2>2. CASE CommitInsert(r) \/ FlushPatch(r) \/ LockSwept(r) \/ CommitDelete(r)
      BY <2>2 DEF CommitInsert, FlushPatch, LockSwept, CommitDelete
  <2>3. CASE CommitPatch(r)
      BY <2>3 DEF CommitPatch, ForgetPatch
  <2> HIDE DEF Kept
  <2> QED
      BY <1>4, <2>1, <2>2, <2>3 DEF Serve, Fail, FlushStale, DeleteNothing
<1>5. CASE \E a \in Accounts, u \in Units : ChangeUnit(a, u)
    BY <1>2, <1>5 DEF ChangeUnit
<1>6. CASE UNCHANGED vars
    BY <1>2, <1>6 DEF vars
<1>7. Kept => /\ read'[q] \in Transaction /\ read'[q].kind \in NonTransferKind
              /\ \E n \in Amounts \cup {0}, k \in NonTransferKind \cup {"unset"} :
                    columns'[q] = Changes(read'[q], n, k)
    BY <1>2
<1> HIDE DEF Kept
<1> QED
    BY <1>1, <1>3, <1>4, <1>5, <1>6, <1>7 DEF Next

(* Whatever amount and kind it was sent, a patch that nobody raced keeps    *)
(* the sign of an amount the one of its kind.                               *)
THEOREM UnracedPatchesAreRight == Spec => UnracedPatchesKeepSigns
<1> DEFINE SignInv == SoleKinds /\ ColumnsAreChanges
<1>1. Inv /\ SignInv /\ [Next]_vars => SignInv'
    BY SoleKindsStep, ColumnsStep
<1>2. ASSUME Inv, SignInv, [Next]_vars, NEW r \in Requests,
             phase[r] = "flushed", phase'[r] = "patched",
             rows[target[r]] = read[r], SignIsRight(read[r])
      PROVE  SignIsRight(rows'[target[r]])
  <2>1. CommitPatch(r)
    <3> USE DEF Inv, TypeOK
    <3>1. ASSUME NEW q \in Requests, Ask(q) PROVE FALSE
      <4>1. PICK next : Arrive(q, next)
          BY <3>1, AskCases DEF AnswersAtOnce, RecordTransaction, CreateTransfer,
             ReadForPatch, BeginDelete
      <4>2. q # r /\ phase'[r] = phase[r]
          BY <1>2, <4>1 DEF Arrive
      <4> QED
          BY <1>2, <4>2
    <3>2. ASSUME NEW q \in Requests, Serve(q) \/ Fail(q) PROVE CommitPatch(r)
        BY <1>2, <3>2 DEF Serve, CommitInsert, FlushPatch, FlushStale, CommitPatch,
           LockSwept, DeleteNothing, CommitDelete, Fail, RollBack
    <3> QED
        BY <1>2, <3>1, <3>2 DEF Next, ChangeUnit, vars
  <2>2. target[r] \in RowId
      BY <1>2 DEF Inv, PatchInv, PatchesHaveTargets
  <2>3. rows'[target[r]] = Patched(read[r], columns[r])
      BY <1>2, <2>1, <2>2 DEF CommitPatch, Inv, TypeOK
  <2> QED
      BY <1>2, <2>3, PatchKeepsSign DEF ColumnsAreChanges
<1>3. Inv /\ SignInv /\ [Next]_vars
        => [\A r \in Requests :
              /\ phase[r] = "flushed" /\ phase'[r] = "patched"
              /\ rows[target[r]] = read[r]
              /\ SignIsRight(read[r])
              => SignIsRight(rows'[target[r]])]_vars
    BY <1>2
<1>4. Init => SignInv
    BY SignInit
<1> HIDE DEF SignInv
<1> QED
    BY <1>1, <1>3, <1>4, InvHolds, PTL DEF Spec, UnracedPatchesKeepSigns
=============================================================================
