------------------------------- MODULE Ledger -------------------------------
(***************************************************************************)
(* The transactions table and the requests that write it: record, patch    *)
(* and delete a transaction, record a transfer (ledger/services/           *)
(* transactions.py, ledger/services/transfers.py), each one READ COMMITTED *)
(* transaction.  Accounts are never deleted, so they are constant here but *)
(* for the unit, which PATCH /accounts may change at any moment.           *)
(*                                                                         *)
(* A row is named by the request that inserted it and by its leg, so the   *)
(* transfer group of a row is the request in its name.                     *)
(***************************************************************************)
EXTENDS Integers

CONSTANTS Requests, Users, Accounts, Units,
          Creators,     \* the requests that may insert rows: all, but for bounds
          Owner,        \* Owner[a]: the user a belongs to
          Amounts,      \* the positive amounts a client may send
          NoAccount,    \* no fee account was sent
          NoOne         \* the holder of a row lock nobody holds

ASSUME LedgerAssumption ==
    /\ Creators \subseteq Requests
    /\ Owner \in [Accounts -> Users]
    /\ Amounts \subseteq Nat \ {0}
    /\ NoAccount \notin Accounts
    /\ NoOne \notin Requests

VARIABLES phase,     \* phase[r]: how far request r has come
          user,      \* user[r]: whom r acts for
          target,    \* target[r]: the row a patch is to update
          draft,     \* draft[r]: the rows an insert is to write, by leg
          same_unit, \* same_unit[r]: what a transfer found its accounts to be
          read,      \* read[r]: the row as a patch read it
          columns,   \* columns[r]: what a patch's UPDATE sets
          targets,   \* targets[r]: the rows a DELETE statement can see
          rows,      \* rows[id]: the committed row, or NoRow
          lock,      \* lock[id]: the request whose transaction locked the row
          unit       \* unit[a]: the unit of account a

vars == <<phase, user, target, draft, same_unit, read, columns, targets, rows,
          lock, unit>>

Leg == {"sole", "sent", "received", "fee"}
RowId == Creators \X Leg
NoTarget == <<NoOne, "sole">>
Kind == {"income", "expense", "transfer"}
NonTransferKind == {"income", "expense"}
Amount == Int

NoRow == [account |-> NoAccount, amount |-> 0, kind |-> "none"]
Transaction == [account : Accounts, amount : Amount, kind : Kind]
NoDraft == [leg \in Leg |-> NoRow]

(* A column missing from a request, or from an UPDATE: 0 is no amount. *)
Unset == [amount |-> 0, kind |-> "unset"]
SetClause == [amount : Amount, kind : NonTransferKind \cup {"unset"}]

Open == {"inserting", "flushing", "flushed", "deleting", "swept"}
Answered == {"created", "patched", "deleted", "notFound", "notEditable",
             "refused", "stale", "failed"}
Phase == {"idle"} \cup Open \cup Answered

TypeOK ==
    /\ phase \in [Requests -> Phase]
    /\ user \in [Requests -> Users]
    /\ target \in [Requests -> RowId \cup {NoTarget}]
    /\ draft \in [Requests -> [Leg -> Transaction \cup {NoRow}]]
    /\ same_unit \in [Requests -> BOOLEAN]
    /\ read \in [Requests -> Transaction \cup {NoRow}]
    /\ columns \in [Requests -> SetClause]
    /\ targets \in [Requests -> SUBSET RowId]
    /\ rows \in [RowId -> Transaction \cup {NoRow}]
    /\ lock \in [RowId -> Requests \cup {NoOne}]
    /\ unit \in [Accounts -> Units]

Stored(id) == rows[id] # NoRow
InTransfer(id) == id[2] # "sole"
Group(id) == {o \in RowId : InTransfer(o) /\ o[1] = id[1]}

(* Mutant: the query does not filter by user. *)
FoundForAnyone(id, u) == Stored(id)

(* The row is committed and belongs to user u: any other looks missing. *)
Found(id, u) == Stored(id) /\ Owner[rows[id].account] = u

-----------------------------------------------------------------------------
Init ==
    /\ phase = [r \in Requests |-> "idle"]
    /\ user \in [Requests -> Users]
    /\ target = [r \in Requests |-> NoTarget]
    /\ draft = [r \in Requests |-> NoDraft]
    /\ same_unit = [r \in Requests |-> FALSE]
    /\ read = [r \in Requests |-> NoRow]
    /\ columns = [r \in Requests |-> Unset]
    /\ targets = [r \in Requests |-> {}]
    /\ rows = [id \in RowId |-> NoRow]
    /\ lock = [id \in RowId |-> NoOne]
    /\ unit \in [Accounts -> Units]

Arrive(r, next) ==
    /\ phase[r] = "idle"
    /\ phase' = [phase EXCEPT ![r] = next]

Released(r) == [id \in RowId |-> IF lock[id] = r THEN NoOne ELSE lock[id]]

(* The locals of a patch, gone once it is answered. *)
ForgetPatch(r) ==
    /\ target' = [target EXCEPT ![r] = NoTarget]
    /\ read' = [read EXCEPT ![r] = NoRow]
    /\ columns' = [columns EXCEPT ![r] = Unset]

(* The transaction ends and nothing it wrote is kept. *)
RollBack(r, answer) ==
    /\ phase' = [phase EXCEPT ![r] = answer]
    /\ lock' = Released(r)
    /\ draft' = [draft EXCEPT ![r] = NoDraft]
    /\ same_unit' = [same_unit EXCEPT ![r] = FALSE]
    /\ ForgetPatch(r)
    /\ UNCHANGED <<user, targets, rows, unit>>

(* The sign convention: the API takes a positive amount and a kind. *)
Signed(n, k) == IF k = "expense" THEN -n ELSE n

NewRow(a, n, k) == [account |-> a, amount |-> n, kind |-> k]

-----------------------------------------------------------------------------
(* POST /transactions: the account is looked up, then the row inserted. *)
RecordTransaction(r, a, n, k) ==
    /\ Arrive(r, IF Owner[a] = user[r] THEN "inserting" ELSE "notFound")
    /\ draft' = IF Owner[a] = user[r]
                THEN [draft EXCEPT ![r]["sole"] = NewRow(a, Signed(n, k), k)]
                ELSE draft
    /\ UNCHANGED <<user, target, same_unit, read, columns, targets, rows, lock, unit>>

(* POST /transfers: the accounts of both sides and of the fee are read ...  *)
TransferAccounts(from, to, feeFrom) == {from, to, feeFrom} \ {NoAccount}

RefuseTransfer(r, from, to, sent, received, feeFrom) ==
    /\ \/ from = to
       \/ /\ \A a \in TransferAccounts(from, to, feeFrom) : Owner[a] = user[r]
          /\ unit[from] = unit[to] /\ sent # received
    /\ Arrive(r, "refused")
    /\ UNCHANGED <<user, target, draft, same_unit, read, columns, targets,
                   rows, lock, unit>>

MissTransferAccount(r, from, to, feeFrom) ==
    /\ from # to
    /\ \E a \in TransferAccounts(from, to, feeFrom) : Owner[a] # user[r]
    /\ Arrive(r, "notFound")
    /\ UNCHANGED <<user, target, draft, same_unit, read, columns, targets,
                   rows, lock, unit>>

(* ... and its two rows, three with a fee, are built under one group id.    *)
CreateTransfer(r, from, to, sent, received, feeFrom, fee) ==
    /\ from # to
    /\ \A a \in TransferAccounts(from, to, feeFrom) : Owner[a] = user[r]
    /\ unit[from] = unit[to] => sent = received
    /\ Arrive(r, "inserting")
    /\ same_unit' = [same_unit EXCEPT ![r] = unit[from] = unit[to]]
    /\ draft' = [draft EXCEPT ![r] =
         [NoDraft EXCEPT
            !["sent"] = NewRow(from, -sent, "transfer"),
            !["received"] = NewRow(to, received, "transfer"),
            !["fee"] = IF feeFrom = NoAccount THEN NoRow
                       ELSE NewRow(feeFrom, -fee, "expense")]]
    /\ UNCHANGED <<user, target, read, columns, targets, rows, lock, unit>>

(* The flush of an insert and its commit: all rows become visible at once. *)
CommitInsert(r) ==
    /\ phase[r] = "inserting"
    /\ phase' = [phase EXCEPT ![r] = "created"]
    /\ rows' = [id \in RowId |-> IF id[1] = r THEN draft[r][id[2]] ELSE rows[id]]
    /\ UNCHANGED <<user, target, draft, same_unit, read, columns, targets, lock,
                   unit>>

-----------------------------------------------------------------------------
(* PATCH /transactions/{id}: a plain SELECT finds nothing, finds a row of a *)
(* transfer, or finds a row to change.                                      *)
MissPatched(r, id) ==
    /\ ~Found(id, user[r])
    /\ Arrive(r, "notFound")
    /\ UNCHANGED <<user, target, draft, same_unit, read, columns, targets,
                   rows, lock, unit>>

RefusePatch(r, id) ==
    /\ Found(id, user[r])
    /\ InTransfer(id)
    /\ Arrive(r, "notEditable")
    /\ UNCHANGED <<user, target, draft, same_unit, read, columns, targets,
                   rows, lock, unit>>

(* What the attributes become, from the row as read; 0 and "unset" are      *)
(* fields that were not sent.                                               *)
PatchedKind(row, k) == IF k = "unset" THEN row.kind ELSE k
Magnitude(row, n) ==
    IF n # 0 THEN n ELSE IF row.amount < 0 THEN -row.amount ELSE row.amount

(* Mutant: the sign is recomputed only when an amount was sent. *)
PatchedAmountIfSent(row, n, k) ==
    IF n = 0 THEN row.amount ELSE Signed(n, PatchedKind(row, k))

PatchedAmount(row, n, k) ==
    IF n = 0 /\ k = "unset" THEN row.amount
    ELSE Signed(Magnitude(row, n), PatchedKind(row, k))

(* The UPDATE names the columns whose value differs from the one read.      *)
Changes(row, n, k) ==
    [amount |-> IF PatchedAmount(row, n, k) = row.amount THEN 0
                ELSE PatchedAmount(row, n, k),
     kind |-> IF PatchedKind(row, k) = row.kind THEN "unset"
              ELSE PatchedKind(row, k)]

(* Mutant: the kind is checked in place of the group, and no fee row has    *)
(* kind transfer.                                                           *)
ReadUnlessTransferKind(r, id, n, k, other) ==
    /\ Found(id, user[r])
    /\ rows[id].kind # "transfer"
    /\ Arrive(r, "flushing")
    /\ target' = [target EXCEPT ![r] = id]
    /\ read' = [read EXCEPT ![r] = rows[id]]
    /\ columns' = [columns EXCEPT ![r] = Changes(rows[id], n, k)]
    /\ UNCHANGED <<user, draft, same_unit, targets, rows, lock, unit>>

(* Mutant: the group is not checked at all. *)
ReadAnyRow(r, id, n, k, other) ==
    /\ Found(id, user[r])
    /\ Arrive(r, "flushing")
    /\ target' = [target EXCEPT ![r] = id]
    /\ read' = [read EXCEPT ![r] = rows[id]]
    /\ columns' = [columns EXCEPT ![r] = Changes(rows[id], n, k)]
    /\ UNCHANGED <<user, draft, same_unit, targets, rows, lock, unit>>

(* The flush is empty and the commit changes nothing.                       *)
PatchNothing(r, id, n, k) ==
    /\ Found(id, user[r])
    /\ ~InTransfer(id)
    /\ Changes(rows[id], n, k) = Unset
    /\ Arrive(r, "patched")
    /\ UNCHANGED <<user, target, draft, same_unit, read, columns, targets,
                   rows, lock, unit>>

(* other: a category, time or note that differs was sent too.               *)
ReadForPatch(r, id, n, k, other) ==
    /\ Found(id, user[r])
    /\ ~InTransfer(id)
    /\ Changes(rows[id], n, k) # Unset \/ other
    /\ Arrive(r, "flushing")
    /\ target' = [target EXCEPT ![r] = id]
    /\ read' = [read EXCEPT ![r] = rows[id]]
    /\ columns' = [columns EXCEPT ![r] = Changes(rows[id], n, k)]
    /\ UNCHANGED <<user, draft, same_unit, targets, rows, lock, unit>>

(* The UPDATE waits for the row lock, then finds the row or finds it gone.  *)
LockFree(id) == lock[id] = NoOne

FlushPatch(r) ==
    /\ phase[r] = "flushing"
    /\ LockFree(target[r])
    /\ Stored(target[r])
    /\ phase' = [phase EXCEPT ![r] = "flushed"]
    /\ lock' = [lock EXCEPT ![target[r]] = r]
    /\ UNCHANGED <<user, target, draft, same_unit, read, columns, targets, rows,
                   unit>>

(* No row matched the UPDATE: SQLAlchemy raises StaleDataError, a 500. *)
FlushStale(r) ==
    /\ phase[r] = "flushing"
    /\ ~Stored(target[r])
    /\ RollBack(r, "stale")

(* Mutant: every column of the patch is written, sent or not. *)
PatchedWhole(row, s) ==
    [account |-> row.account, amount |-> s.amount, kind |-> s.kind]

Patched(row, s) ==
    [account |-> row.account,
     amount |-> IF s.amount = 0 THEN row.amount ELSE s.amount,
     kind |-> IF s.kind = "unset" THEN row.kind ELSE s.kind]

CommitPatch(r) ==
    /\ phase[r] = "flushed"
    /\ phase' = [phase EXCEPT ![r] = "patched"]
    /\ rows' = [rows EXCEPT ![target[r]] = Patched(@, columns[r])]
    /\ lock' = Released(r)
    /\ ForgetPatch(r)
    /\ UNCHANGED <<user, draft, same_unit, targets, unit>>

-----------------------------------------------------------------------------
(* Mutant: only the row that was named goes. *)
SweptAlone(id, u) == {o \in {id} : Found(o, u)}

(* DELETE /transactions/{id}: one statement, which sees the row and, if it  *)
(* is of a transfer, the rest of its group.                                 *)
Swept(id, u) ==
    {o \in {id} \cup (IF InTransfer(id) /\ Found(id, u) THEN Group(id) ELSE {}) :
        Found(o, u)}

BeginDelete(r, id) ==
    /\ Arrive(r, "deleting")
    /\ targets' = [targets EXCEPT ![r] = Swept(id, user[r])]
    /\ UNCHANGED <<user, target, draft, same_unit, read, columns, rows, lock, unit>>

(* Every DELETE scans the table in one order, so the one that locks the     *)
(* first row it sees goes on to lock the others.  Rows deleted meanwhile    *)
(* are passed over.                                                         *)
LockSwept(r) ==
    /\ phase[r] = "deleting"
    /\ \A id \in targets[r] : LockFree(id)
    /\ \E id \in targets[r] : Stored(id)
    /\ phase' = [phase EXCEPT ![r] = "swept"]
    /\ lock' = [id \in RowId |->
                  IF id \in targets[r] /\ Stored(id) THEN r ELSE lock[id]]
    /\ UNCHANGED <<user, target, draft, same_unit, read, columns, targets, rows,
                   unit>>

(* Mutant: the ids the DELETE returned are not looked at. *)
DeleteNothingQuietly(r) ==
    /\ phase[r] = "deleting"
    /\ \A id \in targets[r] : ~Stored(id)
    /\ RollBack(r, "deleted")

(* Mutant: a DELETE that matched nothing is tried again. *)
DeleteNothingAgain(r) ==
    /\ phase[r] = "deleting"
    /\ \A id \in targets[r] : ~Stored(id)
    /\ UNCHANGED vars

DeleteNothing(r) ==
    /\ phase[r] = "deleting"
    /\ \A id \in targets[r] : ~Stored(id)
    /\ RollBack(r, "notFound")

CommitDelete(r) ==
    /\ phase[r] = "swept"
    /\ phase' = [phase EXCEPT ![r] = "deleted"]
    /\ rows' = [id \in RowId |-> IF lock[id] = r THEN NoRow ELSE rows[id]]
    /\ lock' = Released(r)
    /\ UNCHANGED <<user, target, draft, same_unit, read, columns, targets, unit>>

-----------------------------------------------------------------------------
(* Any failure before the commit: a lost connection, a restart. *)
Fail(r) == phase[r] \in Open /\ RollBack(r, "failed")

(* PATCH /accounts/{id} with another unit, which converts nothing. *)
ChangeUnit(a, u) ==
    /\ unit[a] # u
    /\ unit' = [unit EXCEPT ![a] = u]
    /\ UNCHANGED <<phase, user, target, draft, same_unit, read, columns, targets,
                   rows, lock>>

Create(r) ==
    \/ \E a \in Accounts, n \in Amounts, k \in NonTransferKind :
          RecordTransaction(r, a, n, k)
    \/ \E from, to \in Accounts, sent, received \in Amounts,
          feeFrom \in Accounts \cup {NoAccount} :
          \/ RefuseTransfer(r, from, to, sent, received, feeFrom)
          \/ MissTransferAccount(r, from, to, feeFrom)
          \/ \E fee \in Amounts :
                CreateTransfer(r, from, to, sent, received, feeFrom, fee)

Ask(r) ==
    \/ r \in Creators /\ Create(r)
    \/ \E id \in RowId :
          \/ MissPatched(r, id)
          \/ RefusePatch(r, id)
          \/ \E n \in Amounts \cup {0}, k \in NonTransferKind \cup {"unset"} :
                \/ PatchNothing(r, id, n, k)
                \/ \E other \in BOOLEAN : ReadForPatch(r, id, n, k, other)
          \/ BeginDelete(r, id)

Serve(r) ==
    \/ CommitInsert(r)
    \/ FlushPatch(r) \/ FlushStale(r) \/ CommitPatch(r)
    \/ LockSwept(r) \/ DeleteNothing(r) \/ CommitDelete(r)

Next ==
    \/ \E r \in Requests : Ask(r) \/ Serve(r) \/ Fail(r)
    \/ \E a \in Accounts, u \in Units : ChangeUnit(a, u)

Spec == Init /\ [][Next]_vars

(* A request that has arrived keeps being served, and Postgres grants a row *)
(* lock that was freed.  Nothing makes a client call or a transaction fail. *)
FairSpec == Spec /\ \A r \in Requests : WF_vars(Serve(r))

-----------------------------------------------------------------------------
(* A transfer is stored with every row it was recorded with or with none,   *)
(* whichever of its rows deletes raced on ("a half-transfer with no partner *)
(* cannot exist", plans/2026-09-20/ledger/spec.md:182).                     *)
WholeTransfers ==
    \A r \in Creators : \A leg, other \in Leg :
        /\ leg # "sole" /\ Stored(<<r, leg>>)
        /\ draft[r][other] # NoRow
        => Stored(<<r, other>>)

(* "Between accounts of one unit, a transfer's two rows are equal and       *)
(* opposite" (models/transaction.py:25), whatever was patched, deleted or   *)
(* relabelled since.                                                        *)
TransfersCancel ==
    \A r \in Creators :
        same_unit[r] => rows[<<r, "sent">>].amount + rows[<<r, "received">>].amount = 0

(* No row of a transfer, the fee included, is ever edited: it is stored as  *)
(* recorded or it is gone (services/transactions.py:54).                    *)
TransferRowsAreFinal ==
    [][\A id \in RowId :
         InTransfer(id) /\ Stored(id) => rows'[id] \in {rows[id], NoRow}]_vars

(* Of the requests racing to delete one transaction, or any rows of one     *)
(* transfer, one is told that it did (crud/transactions.py:112).            *)
DeletedOnce ==
    \A q, r \in Requests :
        /\ phase[q] = "deleted" /\ phase[r] = "deleted"
        /\ targets[q] \cap targets[r] # {}
        => q = r

(* A row is inserted, changed or removed only by a request of the user its  *)
(* account belongs to.                                                      *)
OnlyOwnersWrite ==
    [][\A id \in RowId : rows'[id] # rows[id] =>
         \E r \in Requests :
            /\ phase'[r] # phase[r]
            /\ \A row \in {rows[id], rows'[id]} \ {NoRow} :
                  Owner[row.account] = user[r]]_vars

(* Every request is answered, waits for row locks notwithstanding.          *)
EveryRequestAnswered ==
    \A r \in Requests : phase[r] \in Open ~> phase[r] \in Answered

(* "amount ... Positive is money in, negative is money out" (spec.md:110):  *)
(* the sign of an amount is the one of its kind.                            *)
SignIsRight(row) ==
    /\ row.kind = "income" => row.amount > 0
    /\ row.kind = "expense" => row.amount < 0

(* A patch keeps a sign right if nobody changed the row since it read it,   *)
(* whichever of amount and kind it was sent (services/transactions.py:49).  *)
UnracedPatchesKeepSigns ==
    [][\A r \in Requests :
         /\ phase[r] = "flushed" /\ phase'[r] = "patched"
         /\ rows[target[r]] = read[r]
         /\ SignIsRight(read[r])
         => SignIsRight(rows'[target[r]])]_vars

(* Every stored amount has the sign of its kind, patches that overlap or no.*)
SignFollowsKind == \A id \in RowId : SignIsRight(rows[id])
=============================================================================
