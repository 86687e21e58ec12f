------------------------------- MODULE Reports -------------------------------
(***************************************************************************)
(* What a user is told of the ledger: the summary (ledger/crud/summary.py) *)
(* and the list of transactions, page by page (ledger/crud/transactions.py,*)
(* list_transactions), while requests go on writing.                       *)
(*                                                                         *)
(* A request that writes is one step here, its commit: Ledger has its      *)
(* statements and locks.  A statement that reads is a step of its own.  The*)
(* summary reads one REPEATABLE READ snapshot, the list is READ COMMITTED. *)
(***************************************************************************)
EXTENDS SequencesExt, Amounts

CONSTANTS Drafts,    \* the transactions that requests may record or patch in
          Transfers, \* the transfers that requests may record
          Ids,       \* the ids of the table: a bound
          Accounts,
          Owner,     \* Owner[a]: the user whose account a is
          Units,
          Unit,      \* Unit[a]: the unit of a at the start
          Readers,   \* the users that read: all, but for bounds
          Periods,   \* the periods asked for: the start included, not the end
          Limits,    \* the page sizes asked for
          Overlaps   \* the commits between the statements of one reader: a bound

ASSUME ReportsAssumption ==
    /\ IsFiniteSet(Ids) /\ Ids \subseteq Nat
    /\ Unit \in [Accounts -> Units]
    /\ DOMAIN Owner = Accounts
    /\ Readers \subseteq Range(Owner)
    /\ \A d \in Drafts : /\ d.account \in Accounts /\ d.kind \in {"income", "expense"}
                         /\ {d.amount, d.at} \subseteq Int
    /\ \A t \in Transfers : /\ {t.from, t.to} \subseteq Accounts /\ t.from # t.to
                            /\ {t.sent, t.received, t.fee, t.at} \subseteq Int
                            /\ Owner[t.from] = Owner[t.to]
                            /\ t.fee # 0 => t.payer \in Accounts /\ Owner[t.payer] = Owner[t.to]
    /\ \A p \in Periods : p.from < p.to
    /\ Limits \subseteq Nat \ {0} /\ Overlaps \in Nat

VARIABLES rows,    \* the committed transactions, by id
          used,    \* the ids that have been given out
          unit,    \* unit[a]: the unit of account a
          reader   \* a request for the summary, or a client that walks the list

table == <<rows, used, unit>>
vars == <<table, reader>>

Idle == [phase |-> "idle"]
NotRead == <<>>

Walking == reader.phase \in {"asking", "counted"}
Resting == reader.phase \in {"idle", "answered", "done"}

TypeOK ==
    /\ DOMAIN rows \subseteq used /\ used \subseteq Ids
    /\ \A i \in DOMAIN rows : /\ rows[i].account \in Accounts
                              /\ Fits(rows[i].amount)
    /\ unit \in [Accounts -> Units]
    /\ reader.phase \in {"idle", "totals", "flows", "answered",
                         "asking", "counted", "done"}
    /\ Walking \/ reader.phase = "done" => Range(reader.seen) \subseteq used

-----------------------------------------------------------------------------
Init ==
    /\ rows = <<>> /\ used = {}
    /\ unit = Unit
    /\ reader = Idle

(* A row as the column holds it, beside the amount the client wrote. *)
Row(account, kind, category, at, amount, asked, group) ==
    [account |-> account, kind |-> kind, category |-> category, at |-> at,
     amount |-> Stored(amount), asked |-> asked, group |-> group]

(* Mutant: a column without a precision. *)
WritableIfAccepted(amount) == Accepts(amount)

Writable(amount) == Accepts(amount) /\ ~Overflows(amount)

Drafted(d) == Row(d.account, d.kind, d.category, d.at, Signed(d.amount, d.kind),
                  d.amount, 0)

(* A commit.  For the properties, a walk keeps the rows that no commit has   *)
(* touched, and whether any was deleted or patched.  A reader that has its   *)
(* answer is forgotten.                                                      *)
Disturb(touched) ==
    \/ Resting /\ reader' = Idle
    \/ /\ ~Resting
       /\ reader.commits < Overlaps
       /\ reader' = IF Walking
                    THEN [reader EXCEPT !.commits = @ + 1, !.steady = @ \ touched,
                                        !.lost = @ \/ touched # {}]
                    ELSE [reader EXCEPT !.commits = @ + 1]

(* New rows, by their ids. *)
Insert(new) ==
    /\ rows' = [i \in DOMAIN rows \cup DOMAIN new |->
                   IF i \in DOMAIN new THEN new[i] ELSE rows[i]]
    /\ used' = used \cup DOMAIN new
    /\ Disturb({})
    /\ UNCHANGED unit

(* Requests that overlap commit in any order, whatever their ids. *)
RecordTransaction(d) ==
    /\ Writable(d.amount)
    /\ \E id \in Ids \ used : Insert([i \in {id} |-> Drafted(d)])

(* All fields at once. *)
PatchTransaction(i, d) ==
    /\ i \in DOMAIN rows
    /\ rows[i].group = 0 /\ rows[i].account = d.account
    /\ Writable(d.amount)
    /\ rows' = [rows EXCEPT ![i] = Drafted(d)]
    /\ Disturb({i})
    /\ UNCHANGED <<used, unit>>

(* The two or three rows of a transfer are inserted together; its fee is an  *)
(* expense.                                                                  *)
Legs(t, group) ==
    <<Row(t.from, "transfer", "none", t.at, -t.sent, t.sent, group),
      Row(t.to, "transfer", "none", t.at, t.received, t.received, group)>>
    \o IF t.fee = 0 THEN <<>>
       ELSE <<Row(t.payer, "expense", "fees", t.at, -t.fee, t.fee, group)>>

RecordTransfer(t) ==
    \E ids \in [DOMAIN Legs(t, 0) -> Ids \ used] :
       LET legs == Legs(t, ids[1])
       IN  /\ \A m, n \in DOMAIN ids : m < n => ids[m] < ids[n]
           /\ unit[t.from] = unit[t.to] => t.sent = t.received
           /\ Writable(t.sent) /\ Writable(t.received)
           /\ t.fee # 0 => Writable(t.fee)
           /\ Insert([i \in Range(ids) |-> legs[CHOOSE n \in DOMAIN ids : ids[n] = i]])

(* A row of a transfer takes the whole transfer with it. *)
DeleteTransaction(i) ==
    /\ i \in DOMAIN rows
    /\ LET gone == {j \in DOMAIN rows :
                       j = i \/ (rows[i].group # 0 /\ rows[j].group = rows[i].group)}
       IN  /\ rows' = Restrict(rows, DOMAIN rows \ gone)
           /\ Disturb(gone)
    /\ UNCHANGED <<used, unit>>

PatchUnit(a, u) ==
    /\ unit[a] # u
    /\ unit' = [unit EXCEPT ![a] = u]
    /\ Disturb({})
    /\ UNCHANGED <<rows, used>>

-----------------------------------------------------------------------------
(* A view v is what a statement reads: the rows and the units of one moment. *)
Now == [rows |-> rows, unit |-> unit]

Of(v, u) == {i \in DOMAIN v.rows : Owner[v.rows[i].account] = u}

_owned_and_within_period(v, u, p) ==
    {i \in Of(v, u) : p.from <= v.rows[i].at /\ v.rows[i].at < p.to}

UnitOf(v, i) == v.unit[v.rows[i].account]

Total(v, S) == SumFunctionOnSet([i \in DOMAIN v.rows |-> v.rows[i].amount], S)

(* An account without transactions still gives its unit a line. *)
get_balances_per_unit(v, u) ==
    [n \in {v.unit[a] : a \in {b \in Accounts : Owner[b] = u}} |->
        Shown(Total(v, {i \in Of(v, u) : UnitOf(v, i) = n}))]

(* A sum over no rows is NULL, and its unit is left out. *)
Flow(v, u, p, kind) ==
    LET S == {i \in _owned_and_within_period(v, u, p) : v.rows[i].kind = kind}
    IN  [n \in {UnitOf(v, i) : i \in S} |->
            Shown(Signed(Total(v, {i \in S : UnitOf(v, i) = n}), kind))]

get_expenses_by_category(v, u, p) ==
    LET S == {i \in _owned_and_within_period(v, u, p) : v.rows[i].kind = "expense"}
        group(i) == <<v.rows[i].category, UnitOf(v, i)>>
    IN  [g \in {group(i) : i \in S} |-> Shown(-Total(v, {i \in S : group(i) = g}))]

(* Mutant: the statements of a summary are READ COMMITTED. *)
ViewReadCommitted == Now

(* REPEATABLE READ: what the first statement saw. *)
View == reader.snapshot

ReadBalances(u, p) ==
    /\ Resting
    /\ reader' = [phase |-> "totals", commits |-> 0, user |-> u, period |-> p,
                  snapshot |-> Now, totals |-> get_balances_per_unit(Now, u),
                  income |-> NotRead, expenses |-> NotRead, by_category |-> NotRead]
    /\ UNCHANGED table

ReadIncomeAndExpenses ==
    /\ reader.phase = "totals"
    /\ reader' = [reader EXCEPT
                     !.phase = "flows",
                     !.income = Flow(View, reader.user, reader.period, "income"),
                     !.expenses = Flow(View, reader.user, reader.period, "expense")]
    /\ UNCHANGED table

ReadCategories ==
    /\ reader.phase = "flows"
    /\ reader' = [reader EXCEPT
                     !.phase = "answered",
                     !.by_category =
                        get_expenses_by_category(View, reader.user, reader.period)]
    /\ UNCHANGED table

-----------------------------------------------------------------------------
(* The rows a list request matches; its filters are those of the period. *)
Matching(u, p) == _owned_and_within_period(Now, u, p)

(* Mutant: rows of one time in any order. *)
BeforeByTime(i, j) == rows[i].at >= rows[j].at

Before(i, j) == rows[i].at > rows[j].at \/ (rows[i].at = rows[j].at /\ i > j)

BeginWalk(u, p, limit) ==
    /\ Resting
    /\ reader' = [phase |-> "asking", commits |-> 0, user |-> u, period |-> p, limit |-> limit,
                total |-> 0, seen |-> <<>>,
                steady |-> Matching(u, p), lost |-> FALSE]
    /\ UNCHANGED table

CountMatches ==
    /\ reader.phase = "asking"
    /\ reader' = [reader EXCEPT !.phase = "counted",
                            !.total = Cardinality(Matching(reader.user, reader.period))]
    /\ UNCHANGED table

(* One page, in an order of the statement; the client stops at a short one. *)
ReadPage ==
    /\ reader.phase = "counted"
    /\ \E order \in SetToSeqs(Matching(reader.user, reader.period)) :
          LET offset == Len(reader.seen)
              page == SubSeq(order, offset + 1, Min({offset + reader.limit, Len(order)}))
          IN  /\ \A a, b \in DOMAIN order : a < b => Before(order[a], order[b])
              /\ reader' = [reader EXCEPT
                            !.seen = @ \o page,
                            !.phase = IF Len(page) < reader.limit THEN "done" ELSE "asking"]
    /\ UNCHANGED table

Next ==
    \/ \E d \in Drafts : RecordTransaction(d) \/ \E i \in Ids : PatchTransaction(i, d)
    \/ \E t \in Transfers : RecordTransfer(t)
    \/ \E i \in Ids : DeleteTransaction(i)
    \/ \E a \in Accounts, u \in Units : PatchUnit(a, u)
    \/ \E u \in Readers, p \in Periods :
          ReadBalances(u, p) \/ \E limit \in Limits : BeginWalk(u, p, limit)
    \/ ReadIncomeAndExpenses \/ ReadCategories
    \/ CountMatches \/ ReadPage

Spec == Init /\ [][Next]_vars

-----------------------------------------------------------------------------
(* A summary s that adds up. *)
Uncounted(s, n) ==
    {i \in Of(s.snapshot, s.user) :
        /\ UnitOf(s.snapshot, i) = n
        /\ \/ s.snapshot.rows[i].kind = "transfer"
           \/ i \notin _owned_and_within_period(s.snapshot, s.user, s.period)}

Agrees(s) ==
    LET at(f, n) == IF n \in DOMAIN f THEN f[n] ELSE 0
        categories(n) == {g \in DOMAIN s.by_category : g[2] = n}
    IN  /\ DOMAIN s.expenses = {g[2] : g \in DOMAIN s.by_category}
        /\ DOMAIN s.expenses \cup DOMAIN s.income \subseteq DOMAIN s.totals
        /\ \A n \in DOMAIN s.totals :
              /\ at(s.expenses, n) = SumFunctionOnSet(s.by_category, categories(n))
              /\ s.totals[n] = at(s.income, n) - at(s.expenses, n)
                                  + Total(s.snapshot, Uncounted(s, n))

(* "A write landing between them cannot make the expense total disagree with *)
(* its categories" (ledger/routes.py:185), nor the balances with the income, *)
(* the expenses and what neither counts: to the last digit, in every unit.   *)
SummaryAgrees == reader.phase = "answered" => Agrees(reader)

(* "Paging through rows that share a time never shows one twice or skips     *)
(* one" (ledger/crud/transactions.py:27): if nothing was committed between   *)
(* the statements of the walk, it shows each matching row once and counts    *)
(* them.  If rows were only added, it may show one twice, but misses none of *)
(* those that were there; only a deleted or patched row can hide another.    *)
WalksMissOnlyWhatMoves ==
    reader.phase = "done" =>
       /\ ~reader.lost => reader.steady \subseteq Range(reader.seen)
       /\ reader.commits = 0 => /\ IsInjective(reader.seen)
                        /\ reader.total = Len(reader.seen)
                        /\ Range(reader.seen) = reader.steady

(* An amount that the column can hold is stored and shown as it was sent but *)
(* for the sign, though it has more digits than arithmetic keeps             *)
(* (ledger/services/transactions.py:83, core/schemas.py:34).                 *)
FittingAmountsAreExact ==
    \A i \in DOMAIN rows :
       Fits(rows[i].asked) => rows[i].asked \in {Shown(rows[i].amount), -Shown(rows[i].amount)}

(* "The digits match NUMERIC(36, 18), which would otherwise round extra      *)
(* decimals away without a word" (ledger/schemas/transactions.py:34): what   *)
(* the schema accepts, the column holds.                                     *)
AcceptedAmountsAreExact ==
    \A i \in DOMAIN rows : rows[i].asked \in {rows[i].amount, -rows[i].amount}
=============================================================================
