------------------------------ MODULE Accounts ------------------------------
(***************************************************************************)
(* The accounts table and the requests that write it: open an account, and *)
(* rename, relabel, archive or restore one (ledger/services/accounts.py),  *)
(* each in one READ COMMITTED transaction.  No account is ever deleted.    *)
(*                                                                         *)
(* The unique constraint on (user_id, name) is where requests meet.  An    *)
(* account is named by the request that opened it, and the time at which a *)
(* request archived one by that request.  Names are compared as CITEXT     *)
(* does, so a name stands for all its spellings, and a rename may only     *)
(* spell it anew.                                                          *)
(***************************************************************************)
CONSTANTS Requests, Users, Names,
          Creators,    \* the requests that may open accounts, and
          Patchers,    \* those that may patch them: all, but for bounds
          Unset,       \* a name that was not sent, or is not written
          Never,       \* archived_at is null
          NoOne        \* the holder of a row lock nobody holds

ASSUME AccountsAssumption ==
    /\ Creators \subseteq Requests /\ Patchers \subseteq Requests
    /\ Unset \notin Names
    /\ {Never, NoOne} \cap Requests = {}

VARIABLES phase,   \* phase[r]: how far request r has come
          user,    \* user[r]: whom r acts for
          target,  \* target[r]: the account r opens or patches
          asked,   \* asked[r]: the fields r was sent
          read,    \* read[r]: the account as r read it to patch it
          sets,    \* sets[r]: what r's INSERT or UPDATE writes
          rows,    \* rows[a]: the committed account, or NoAccount
          lock     \* lock[a]: the request whose transaction updated the row

vars == <<phase, user, target, asked, read, sets, rows, lock>>

Open == {"locking", "claiming", "flushed"}
Answered == {"created", "patched", "notFound", "taken", "deadlock", "failed"}
Phase == {"idle"} \cup Open \cup Answered

(* The fields of AccountUpdate: archived is a wish, not a column. *)
Wish == {"leave", "archive", "restore"}
Fields == [name : Names \cup {Unset}, archived : Wish]
NoFields == [name |-> Unset, archived |-> "leave"]

(* The columns a flush writes: archived_at is kept, set to now or cleared. *)
Stamp == {"keep", "now", "null"}
Columns == [name : Names \cup {Unset}, archived_at : Stamp]
NoColumns == [name |-> Unset, archived_at |-> "keep"]

Account == [user : Users, name : Names, archived_at : Requests \cup {Never}]
NoAccount == [user |-> NoOne, name |-> Unset, archived_at |-> Never]

TypeOK ==
    /\ phase \in [Requests -> Phase]
    /\ user \in [Requests -> Users]
    /\ target \in [Requests -> Requests]
    /\ asked \in [Requests -> Fields]
    /\ read \in [Requests -> Account \cup {NoAccount}]
    /\ sets \in [Requests -> Columns]
    /\ rows \in [Creators -> Account \cup {NoAccount}]
    /\ lock \in [Creators -> Requests \cup {NoOne}]

Stored(a) == a \in Creators /\ rows[a] # NoAccount

(* The account exists and is the user's: any other looks missing. *)
Found(a, u) == Stored(a) /\ rows[a].user = u

-----------------------------------------------------------------------------
Init ==
    /\ phase = [r \in Requests |-> "idle"]
    /\ user \in [Requests -> Users]
    /\ target = [r \in Requests |-> r]
    /\ asked = [r \in Requests |-> NoFields]
    /\ read = [r \in Requests |-> NoAccount]
    /\ sets = [r \in Requests |-> NoColumns]
    /\ rows = [a \in Creators |-> NoAccount]
    /\ lock = [a \in Creators |-> NoOne]

Arrive(r, next) ==
    /\ phase[r] = "idle"
    /\ phase' = [phase EXCEPT ![r] = next]

(* Mutant: row locks outlive the transaction. *)
NothingReleased(r) == lock

Released(r) == [a \in Creators |-> IF lock[a] = r THEN NoOne ELSE lock[a]]

(* The locals of a request, gone once it is answered. *)
Forget(r) ==
    /\ target' = [target EXCEPT ![r] = r]
    /\ asked' = [asked EXCEPT ![r] = NoFields]
    /\ read' = [read EXCEPT ![r] = NoAccount]
    /\ sets' = [sets EXCEPT ![r] = NoColumns]

RollBack(r, answer) ==
    /\ phase' = [phase EXCEPT ![r] = answer]
    /\ lock' = Released(r)
    /\ Forget(r)
    /\ UNCHANGED <<user, rows>>

(* POST /accounts: no lookup, the INSERT goes straight to the constraint. *)
CreateAccount(r, n) ==
    /\ Arrive(r, "claiming")
    /\ asked' = [asked EXCEPT ![r].name = n]
    /\ sets' = [sets EXCEPT ![r].name = n]
    /\ UNCHANGED <<user, target, read, rows, lock>>

(* PATCH /accounts/{id}: a plain SELECT finds the account or does not.      *)
MissAccount(r, a) ==
    /\ ~Found(a, user[r])
    /\ Arrive(r, "notFound")
    /\ UNCHANGED <<user, target, asked, read, sets, rows, lock>>

(* Mutant: archiving stamps the time whatever was read. *)
StampAlways(row, wish) ==
    CASE wish = "restore" -> "null" [] wish = "archive" -> "now" [] OTHER -> "keep"

(* archived FALSE clears archived_at; TRUE sets it if the row read has none. *)
NewStamp(row, wish) ==
    IF wish = "restore" /\ row.archived_at # Never THEN "null"
    ELSE IF wish = "archive" /\ row.archived_at = Never THEN "now"
    ELSE "keep"

(* Mutant: the name is written as it was read. *)
ChangesWhole(row, fields, respelled) ==
    [name |-> IF fields.name = Unset THEN row.name ELSE fields.name,
     archived_at |-> NewStamp(row, fields.archived)]

(* The UPDATE names the columns whose value differs from the one read, be   *)
(* it in the spelling of the name.                                          *)
Changes(row, fields, respelled) ==
    [name |-> IF fields.name = row.name /\ ~respelled THEN Unset ELSE fields.name,
     archived_at |-> NewStamp(row, fields.archived)]

(* Nothing differs: the flush is empty. *)
PatchNothing(r, a, fields) ==
    /\ Found(a, user[r])
    /\ Changes(rows[a], fields, FALSE) = NoColumns
    /\ Arrive(r, "patched")
    /\ UNCHANGED <<user, target, asked, read, sets, rows, lock>>

(* other: a unit or a type that differs was sent too. *)
ReadForPatch(r, a, fields, respelled, other) ==
    /\ Found(a, user[r])
    /\ respelled => fields.name = rows[a].name
    /\ Changes(rows[a], fields, respelled) # NoColumns \/ other
    /\ Arrive(r, "locking")
    /\ target' = [target EXCEPT ![r] = a]
    /\ asked' = [asked EXCEPT ![r] = fields]
    /\ read' = [read EXCEPT ![r] = rows[a]]
    /\ sets' = [sets EXCEPT ![r] = Changes(rows[a], fields, respelled)]
    /\ UNCHANGED <<user, rows, lock>>

(* The flush: the UPDATE locks the row, waiting while another holds it, and *)
(* then, if it renames, goes on to the unique index.                        *)
LockRow(r) ==
    /\ phase[r] = "locking"
    /\ lock[target[r]] = NoOne
    /\ phase' = [phase EXCEPT ![r] =
                   IF sets[r].name = Unset THEN "flushed" ELSE "claiming"]
    /\ lock' = [lock EXCEPT ![target[r]] = r]
    /\ UNCHANGED <<user, target, asked, read, sets, rows>>

(* The accounts of r's user, but for the one r updates, that are committed  *)
(* under the name r wants.                                                  *)
Namesakes(r) ==
    {a \in Creators \ {target[r]} : Found(a, user[r]) /\ rows[a].name = sets[r].name}

(* Mutant: a lookup of committed names in place of the constraint. *)
NobodyUndecided(r) == {}

(* Whoever may yet decide whether the name is free: open transactions that  *)
(* have put it in the index, and those that have updated a namesake.        *)
Undecided(r) ==
    {q \in Requests \ {r} :
        /\ phase[q] = "flushed"
        /\ user[q] = user[r]
        /\ sets[q].name = sets[r].name}
    \cup ({lock[a] : a \in Namesakes(r)} \ {NoOne})

ClaimName(r) ==
    /\ phase[r] = "claiming"
    /\ Undecided(r) = {}
    /\ Namesakes(r) = {}
    /\ phase' = [phase EXCEPT ![r] = "flushed"]
    /\ UNCHANGED <<user, target, asked, read, sets, rows, lock>>

(* IntegrityError, answered as AccountNameTakenError. *)
RefuseName(r) ==
    /\ phase[r] = "claiming"
    /\ Undecided(r) = {}
    /\ Namesakes(r) # {}
    /\ RollBack(r, "taken")

(* Mutant: the name is written, sent or not. *)
WrittenAsSent(r, row) ==
    [user |-> user[r], name |-> sets[r].name, archived_at |-> row.archived_at]

Written(r, row) ==
    [user |-> user[r],
     name |-> IF sets[r].name = Unset THEN row.name ELSE sets[r].name,
     archived_at |-> CASE sets[r].archived_at = "keep" -> row.archived_at
                       [] sets[r].archived_at = "now" -> r
                       [] sets[r].archived_at = "null" -> Never]

Commit(r) ==
    /\ phase[r] = "flushed"
    /\ phase' = [phase EXCEPT ![r] =
                   IF Stored(target[r]) THEN "patched" ELSE "created"]
    /\ rows' = [rows EXCEPT ![target[r]] = Written(r, @)]
    /\ lock' = Released(r)
    /\ Forget(r)
    /\ UNCHANGED user

(* Postgres fails a transaction that waits for itself through others. *)
WaitsFor(r) ==
    CASE phase[r] = "locking" -> {lock[target[r]]} \ {NoOne}
      [] phase[r] = "claiming" -> Undecided(r)
      [] OTHER -> {}

OnCycle(r) ==
    \A S \in SUBSET Requests :
        (WaitsFor(r) \subseteq S /\ \A p \in S : WaitsFor(p) \subseteq S)
            => r \in S

(* The error is no IntegrityError, so nothing answers for it but the 500.   *)
AbortDeadlock(r) ==
    /\ phase[r] \in {"locking", "claiming"}
    /\ OnCycle(r)
    /\ RollBack(r, "deadlock")

Fail(r) == phase[r] \in Open /\ RollBack(r, "failed")

Ask(r) ==
    \/ r \in Creators /\ \E n \in Names : CreateAccount(r, n)
    \/ r \in Patchers /\ \E a \in Creators :
          \/ MissAccount(r, a)
          \/ \E fields \in Fields :
                \/ PatchNothing(r, a, fields)
                \/ \E respelled, other \in BOOLEAN :
                      ReadForPatch(r, a, fields, respelled, other)

Serve(r) ==
    \/ LockRow(r) \/ ClaimName(r) \/ RefuseName(r)
    \/ Commit(r) \/ AbortDeadlock(r)

Next == \E r \in Requests : Ask(r) \/ Serve(r) \/ Fail(r)

Spec == Init /\ [][Next]_vars

(* As in the other stores: a request that arrived keeps being served, and   *)
(* Postgres wakes a waiter and looks for deadlocks.                         *)
FairSpec == Spec /\ \A r \in Requests : WF_vars(Serve(r))

-----------------------------------------------------------------------------
(* No user has two accounts by one name, whichever requests opened or       *)
(* renamed them at once (services/accounts.py:18).                          *)
OneAccountPerName ==
    \A a, b \in Creators :
        /\ Stored(a) /\ Stored(b)
        /\ rows[a].user = rows[b].user /\ rows[a].name = rows[b].name
        => a = b

(* A patch that no other committed before it since it read the row does     *)
(* what it was asked: the name is the one sent, restored means unarchived,  *)
(* and archiving keeps the first date (services/accounts.py:42, :45).       *)
UnracedPatchesDoAsAsked ==
    [][\A r \in Requests :
         /\ phase[r] = "flushed" /\ phase'[r] = "patched"
         /\ rows[target[r]] = read[r]
         => LET after == rows'[target[r]]
            IN  /\ asked[r].name # Unset => after.name = asked[r].name
                /\ asked[r].archived = "restore" => after.archived_at = Never
                /\ asked[r].archived = "archive" =>
                      after.archived_at = IF read[r].archived_at = Never
                                          THEN r ELSE read[r].archived_at
      ]_vars

(* A patch applies the fields it was sent and leaves the rest alone, what   *)
(* others committed since it read the row included (services/accounts.py:42)*)
OnlySentFieldsChange ==
    [][\A r \in Requests : phase[r] = "flushed" /\ phase'[r] = "patched" =>
         LET before == rows[target[r]]
             after == rows'[target[r]]
         IN  /\ after.user = before.user
             /\ asked[r].name = Unset => after.name = before.name
             /\ asked[r].archived = "leave" => after.archived_at = before.archived_at
      ]_vars

(* Every request is answered, though renames may wait for each other.       *)
EveryRequestAnswered ==
    \A r \in Requests : phase[r] \in Open ~> phase[r] \in Answered

(* "Archiving twice must not overwrite the first date" (spec.md:98): until  *)
(* it is restored, an archived account keeps its date.                      *)
FirstArchiveDateIsKept ==
    [][\A a \in Creators : Stored(a) /\ rows[a].archived_at # Never =>
         rows'[a].archived_at \in {rows[a].archived_at, Never}]_vars
=============================================================================
