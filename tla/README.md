# Tradinghub in TLA+

Specifications of Tradinghub, a personal ledger with cookie authentication: a
FastAPI backend over Postgres and Redis (`src/backend/src/tradinghub`) and a
Next.js frontend (`src/frontend/src`). Paths below are relative to the backend
package unless they start with `fe:` (the frontend's `src`) or `plans/`.

A module is named after the part of the system it models. `MC*.tla` and the
`MC*.cfg` files instantiate it for TLC, `*Proofs.tla` holds its theorems.
`PROJECT.json` maps every definition to source lines, lists the runs, the
mutants that show each property can fail, the hazards and the theorems.

    tlc -config MCSessions.cfg MCSessions.tla
    tlapm SessionsProofs.tla

## 1. The system

| Component | State | Operations | What makes it correct | Status |
|---|---|---|---|---|
| sessions (`auth/services/auth.py`, `auth/crud/session.py`) | table `sessions`: one row per refresh token, `used_at`, `family_id`, `expires_at` | sign-in's insert, refresh, logout, reuse detection | one live token per login chain; no token rotated twice; a revocation is final and complete | modelled, proved |
| registration and login (`auth/services/auth.py`, `auth/crud/user.py`) | table `users`, unique email | register, login | one account per address; who is told of a session has it | modelled, proved |
| rate limiter (`auth/security/rate_limit.py`) | counters with expiry in Redis | count a login, count a registration | a window lets no more than its limit through, and ends | modelled, proved |
| transactions and transfers (`ledger/services/transactions.py`, `transfers.py`, `ledger/crud/transactions.py`) | table `transactions`, signed amount, kind, transfer group | record, patch, delete, transfer | transfers whole, balanced and unedited; a delete is reported once; only the owner writes; sign follows kind | modelled, proved |
| accounts (`ledger/services/accounts.py`, `ledger/crud/accounts.py`) | table `accounts`, unique (user, name), `archived_at` | open, patch | one account per name; only sent fields change; the first archive date stays | modelled, proved |
| reports (`ledger/crud/summary.py`, the lists) | none | summary, list | the figures of one answer agree; paging neither repeats nor skips | modelled, proved |
| access tokens (`auth/dependencies.py`, `auth/security/tokens.py`) | none (signed tokens) | check a cookie | an expired token is refused; a user id is never forged | lifetimes only, in `ApiClient` and `SessionView` |
| request lifecycle (`core/database.py`, `core/middleware.py`, `core/errors.py`) | one transaction per request, two context variables | begin, commit, roll back, render | answers go out after the commit; an error leaves nothing behind | commit and rollback in each store, snapshots in `Reports` |
| schemas (`core/schemas.py`, `*/schemas`) | none | validate, format | values fit their columns and survive the round trip | amounts only, in `Amounts` |
| password hashing, configuration, logging, migrations | none or constant | | | not modelled |
| API client (`fe:lib/api/client.ts`) | `refreshInFlight`, the cross-tab lock, the cookie jar | request, refresh once, replay once | two refreshes never carry one token; a request is replayed at most once | modelled, proved |
| session view (`fe:features/auth/hooks.ts`, the two layouts, the query provider) | the query cache's `me` | login, logout, refetch, redirect | a tab keeps no user of before its last sign-in or sign-out; no redirect loop; a chain that a sign-out ended loses its access | modelled, proved |
| screens, forms, ledger queries (`fe:features/ledger`, `fe:components`) | none of their own | | | not modelled |

How they interact: a request enters through the middleware, takes a database
session (`get_db`), reads the user from its access cookie and calls one service;
services call the CRUD modules, which run statements in the request's one
transaction; `get_db` commits before the answer goes out, or rolls back when
the service raised. Requests meet only in Postgres (row locks, unique indexes,
READ COMMITTED visibility) and Redis. `login` and `register` first pass the rate
limiter (`RateLimit`), then the users table (`SignIn`), and end with the insert
that is `Sessions!StartSession`. A transfer reads the units of accounts that
`PATCH /accounts` may change at the same time (`Ledger!ChangeUnit`). Reports read
what the commits of all of these leave (`Reports`). The frontend calls the API and
answers an `invalid_session` with one refresh (`ApiClient`); what its pages believe
of the session is the cached `me`, which the same answers fill and the two layouts
act on (`SessionView`).

What is hard: the await between a read and the write that depends on it, since
nothing but the refresh token's row is locked when it is read; statements that
see the rows committed when they start, not those of transactions in flight;
waiting for each other's row locks; a commit that must come before an error
answer; bursts of attempts judged by a counter; clients that time out on calls
that were served; reports made of several statements while others commit; cached
users, fetches and rotations in flight when somebody signs in or out; amounts with
more digits than arithmetic keeps. Section 7 says what the models show of each.

## 2. How the database is modelled

Each store module (`Sessions`, `Ledger`, `Accounts`, `SignIn`) models one table
and the requests that write it at the grain of SQL statements. A request is a
process with a `phase`; its local variables are what the service holds across an
`await`. The rules, all of Postgres at READ COMMITTED:

- A plain SELECT reads the committed rows and locks nothing. `SELECT ... FOR
  UPDATE`, an UPDATE and a DELETE lock the rows they write to, wait while another
  transaction has them and then act on the newest committed version, or pass a
  row over if it is gone.
- The rows a DELETE considers are those committed when the statement starts
  (`Visible`, `Swept`); rows another transaction commits later are not among them.
- An insertion into a unique index waits while an open transaction has the value
  or has updated the row that has it, and then goes in or fails.
- Nothing a transaction writes is visible before its commit, which writes all of
  it in one step: rows are therefore changed by commits only, and the flushes
  before them move locks. A rollback releases the locks.
- A cycle of waits is broken by failing one transaction on it (`AbortDeadlock`).
- Any open request may fail at any moment (`Fail`): lost connection, restart.
- A COMMIT and its confirmation are two steps in `SignIn` only: what was committed
  may be answered 500, or not at all (`LoseAnswer`). In the other stores the commit
  is the answer, and what their properties say of a request that failed is said of
  one that failed before its COMMIT.

These are assumptions about Postgres; the entries marked external in
`PROJECT.json` are the definitions that state them.
One more is made in `Ledger`: DELETEs of transactions meet the rows of one
transfer in one order, so the one that locks the first row goes on to lock the
others (`LockSwept` locks them in a step).

An answer is a phase. A request whose phase is in `Answered` is over, and what
it was answered stays readable, so properties can relate answers to rows.

## 3. Modules

**`TokenChain`** is the abstract refresh-token store: tokens that are unissued,
live, burnt or gone, and three steps (start a family, spend a token for its one
successor, remove tokens of one family).

**`Sessions`** (state: `sessions[t]` the row by `used_at`, `family`, `lock`,
`expired`; per request `phase`, `op`, `token`, `targets`). A request generates at
most one token, so the token is named by the request. `StartSession`, `Present`
are arrivals; `LockRow`, `FindNothing` the `SELECT ... FOR UPDATE` of
`lock_session_by_token_hash`; `Rotate`, `RefuseExpired`, `BeginRevoke` the three
ways on in `refresh_session` and the one of `logout_user`; `DeleteRow` the row
locks of `revoke_family`; `CommitPair`, `CommitRevoke` the commits, the latter
also for the explicit commit before the 401 of a reuse. `Expire` is time passing.

**`Ledger`** (state: `rows`, `lock`, `unit`; per request `phase`, `user`,
`target`, `draft`, `read`, `columns`, `targets`, `same_unit`). A row is named by the
request that inserted it and its leg (`sole`, or `sent`, `received`, `fee` of a
transfer). `RecordTransaction`, `RefuseTransfer`, `MissTransferAccount`,
`CreateTransfer`, `CommitInsert` are the two POSTs; `MissPatched`, `RefusePatch`,
`PatchNothing`, `ReadForPatch`, `FlushPatch`, `FlushStale`, `CommitPatch` PATCH, with
`Changes` the columns SQLAlchemy puts in the UPDATE (those whose value differs from
the one read); `BeginDelete`, `LockSwept`, `DeleteNothing`, `CommitDelete` DELETE.

**`Accounts`** (state: `rows`, `lock`; per request `phase`, `user`, `target`,
`asked`, `read`, `sets`). `CreateAccount`, `MissAccount`, `PatchNothing`, `ReadForPatch`,
`LockRow`, `ClaimName`, `RefuseName`, `Commit`. `Undecided` is the set of open transactions an insertion
into the index on (user_id, name) waits for. The date of an archive is named by
the request that archived. A name stands for all spellings CITEXT takes for it, so
a rename may write the name a row has (`respelled` in `Changes`); `other` is a
change of unit or type alone.

**`SignIn`** (state: `users`, `inserting`, `chains`; per request `phase`, `op`,
`address`, `password`, `subject`): what `register_user` and `login_user` do once the
limiter let them through. `LookUpUnknown` and `InsertUser` are apart because the password is hashed
between them. `Commit` stores the user and the session, `Answer` sends them, and
`LoseAnswer` is all that may come between: a confirmation of the COMMIT that never
arrives, an answer that is never sent.

**`RateLimit`** (state: `count`, `ttl`, `admitted`; per slot `phase`, `keys`,
`replies`, `current`). `Count` is the MULTI of `_count`, `Admit` and `Refuse` the
judgement of its reply, `CountUnanswered` an outage or a lost reply (fail open),
`Tick` and `RestartRedis` what Redis does by itself. `admitted` and `current` are
history: how many attempts of the present window were let through. Counts above
the limit are all judged alike and are kept as limit + 1. `Casefold` is any function
on spellings: the model counts what the code counts and claims nothing of which
spellings are one account (section 7). `RestartRedis` brings any counts back that are
no higher than before, each with the time it expires at: the image keeps snapshots
on a volume of its own, which lives as long as its container. What a restart has
forgotten is no longer in `admitted`: a burst that it splits in two is two.

**`ApiClient`** (state: per call `kind`, `phase`, `retried`, `bearer`, `post`,
`carried`; per tab `rotation`, which is `refreshInFlight`; `holder` of the browser
lock; the jar `access`, `refresh`; the server's `status`, `kin`, `expired`): the
interceptor of `fe:lib/api/client.ts` in the tabs of one browser. The server is the
abstract `TokenChain`, whose steps `StartFamily`, `Spend` and `Revoke` it takes;
since `Sessions` implements `TokenChain`, a refresh is one step here.
`RefuseQuery` joins or starts a rotation, `EnterLock` sends its POST with the
cookie of that moment, `Rotate`, `RevokeSpent`, `RefuseToken`, `ServeLogin`,
`ServeLogout` and `ServerFails` are the server, `ReplayCalls` and `GiveUpCalls`
the end of a rotation for the calls that wait for it. `TimeOutRotation`,
`TimeOut` and `Reload` leave requests behind that the server may serve later.
A rotation that overlaps a revocation may survive it (section 7), so `Revoke`
takes any part of the family that contains the token presented.

**`SessionView`** (state: per tab `page`, the query `me` and its `fetch`, `strays`,
`rotation`, `signing`; the jar `access`, `refresh`; the server's `issued`, `live`,
`signedOut`): `useSession` and the hooks that sign in and out, in the tabs of one
browser. `RedirectToLogin` and `RedirectToDashboard` are the effects of the two
layouts, `Fetching`, `Fetched` and `Cleared` what TanStack Query does with a query,
`RefuseFetch`, `EnterLock`, `ServeRotation`, `HearGranted`, `HearRefused` and
`RotationFails` the interceptor of `ApiClient` with a chain of tokens as one value,
`NetworkError` the retry of the query provider, `HearLogin` and `HearLogout` the two
`onSuccess`. `current` is history: whether the data, a fetch or a stray request was
asked for since its tab last heard of a sign-in or sign-out. `Aged` takes it from
everything the tab has at that moment, and only then does `Cleared` say what the
code drops; what it does not drop stays, aged. A dropped fetch leaves its request
behind (`Strand`): it stays in `strays`, and may still start a rotation
(`EndStray`). A logout ends its chain unless a rotation of it is in the middle of
the server (`Rotating`): then the DELETE may miss the successor, as in
`sessions_reuse`, and the chain lives on. That needs a logout with a token already
spent; chains do not tell their tokens apart, so here any logout may meet it.
`signedOut` is the chains that a sign-out did end.

**`Amounts`** (no state): an amount from the request to the column and back.
`Accepts` is pydantic's decision on `Field(gt=0, max_digits, decimal_places)`, which
tries the limits on the amount as written and on `normalize()` of it; `Signed` the
sign by `copy_negate`; `Stored` and `Overflows` the rounding and the range of
`NUMERIC(36, 18)`; `Shown` the exact string of a response. Powers of ten and the
digits of an integer are recursive functions (`Ten`, `Length`), without a bound.

**`Reports`** (state: `rows`, `used`, `unit`; `reader`, one summary or one walk
through a list): the writers are commits (`RecordTransaction`, `PatchTransaction`,
`RecordTransfer` with its `Legs`, `DeleteTransaction`, `PatchUnit`; `Ledger` has their
statements), which fall between the statements of the reader: `ReadBalances`,
`ReadIncomeAndExpenses`, `ReadCategories` over the snapshot of the first (`View`),
and `CountMatches`, `ReadPage` over what is committed at each (`Now`), page after page.
A row keeps the amount its client wrote (`asked`) next to the one stored.

Mutated definitions stand next to the ones they change, each under a comment that
begins with "Mutant"; nothing else uses them.

## 4. Runs

One passing run per module asks everything the module is asked, under its fair
specification and without symmetry, so that the liveness properties mean what
they say. Each violation run asks one promise of the documents that does not hold
(section 7).

| Run | Asks | Bounds |
|---|---|---|
| `sessions` | one live token per chain, single rotation, revocations final, the proofs' invariant, the refinement of `TokenChain`; every request answered | 4 requests, so up to 4 tokens |
| `sessions_reuse` | a promise of the token store: violated | 4 requests, symmetric |
| `ledger` | transfers whole, balanced, unedited; deletes reported once; signs kept by patches that were not raced; only owners write; every request answered | 1 creator and 2 racers, 2 users, 3 accounts, 2 units, amounts {1, 2} |
| `ledger_sign` | sign and kind agree: violated | 1 creator and 2 racers, 2 accounts |
| `accounts` | one account per name, no lost fields, patches that were not raced do as asked; every request answered | 2 requests that open and 2 that patch (`Creators`, `Patchers`), 2 users, 2 names |
| `accounts_archive` | the first archive date stays: violated | 1 request that opens and 2 that patch, symmetric, 1 user, 1 name |
| `sign_in` | one account per address, whoever is told of a session has it; every request answered | 3 requests, 2 addresses, 2 passwords |
| `rate_limit` | no window lets more through than its limit; every counter ends although clients keep trying | 2 attempts in flight, slots reused for ever; 1 account in 2 spellings, limits 1 and 2, a window of 2 ticks |
| `api_client` | only a refresh the browser gave up on looks like theft; only the server signs out; every call settles | 2 tabs, 3 calls, one of which may sign in or out (`Signers`) |
| `session_view` | no tab keeps a user of before its last sign-in or sign-out; the layouts stop redirecting; checking ends; a chain that a sign-out ended is gone in the end | 1 tab with a further sign-in, or 2 tabs of which one acts (`Busy`); 2 chains, 1 retry |
| `reports` | the parts of a summary agree; walks miss only what moves; fitting amounts are exact | 3 ids, 3 accounts of 2 users, pages of 2, one commit between the statements (`Overlaps`), 4 digits with 2 decimals |
| `reports_rounding` | accepted amounts are exact: violated | the same |

Why these bounds are enough. In the stores a hazard needs a row, a request that
holds or has read it, and one or two that race with it; a chain of three tokens
needs a sign-in and two rotations, which leaves one request for a replay or a
logout. `Creators` (the requests that may insert, a named bound of `Ledger` and
`Accounts`) keeps the number of rows at what the races need: in `Ledger` the
two or three of one transfer, in `Accounts` the two whose names can be exchanged,
which with two patches (`Patchers`) is the smallest circle of waits
(`AbortDeadlock`). In `RateLimit` slots are reused, so two of them make bursts of
any length; limits of 1 and 2 let every limit be reached (the email's with each
burst, the IP's when a restart forgets the email's count or the other way round),
and a window of two ticks lets the windows of two keys end at different times.
Several accounts behind one IP are left to the proof, which has any number. The limiter's counters are bounded by counting
everything over a limit as limit + 1 (`Incremented`).

That the violations come from overlap alone is stated by properties of the
passing runs: `UnracedPatchesKeepSigns` is `SignFollowsKind` for a patch whose row
nobody changed since it was read, and `UnracedPatchesDoAsAsked` says of accounts that
such a patch keeps the first archive date and writes every field it was sent.

Deadlock is not checked: requests are finitely many, and when all have been
answered the system rightly stops (in `RateLimit` clients may stop).

In `Reports` three rows make a full page and a short one, a single transaction beside
a transfer, or a transfer with its fee; one commit anywhere between the statements
is enough to make two of them differ. The decimal places are scaled down with their
order kept: the column has fewer places than arithmetic has digits, and arithmetic
fewer than the column (18 < 28 < 36 become 2 < 3 < 4), with one place more in a
request. The amounts include one as wide as the column, one with a decimal too
many, and one that rounding makes a digit too wide.

In `SessionView` one tab has what follows a second sign-in (a rotation of the old
chain, a stray request, a fetch in flight), two tabs have what one does to the
other; one retry has both its outcomes, to try again and to give up.

In `ApiClient` two tabs and three calls give a rotation shared by two calls, a
rotation of another tab at the same lock, and the replay of a token that was
spent for nobody; with a session at the start no call is needed for signing in.

## 5. Fairness

`FairSpec` in each store is weak fairness of `Serve(r)`, the steps of a request
that has arrived: the event loop resumes a task whose statement returned,
Postgres grants a freed lock to a waiter and runs its deadlock detector. Waiters
are finitely many in an instance, so weak fairness is enough: a lock cannot be
taken again and again by newcomers. No fairness is assumed of arrivals, failures,
expiry or unit changes. `ApiClient` assumes that a tab proceeds: axios gives up
after its ten seconds and the browser grants a free lock; the server may never
answer. `SessionView` assumes that a tab's effects run, that its fetches and
rotations end (answered, failed or timed out), that access tokens expire, and
strong fairness of `EnterLock(w)`: the browser grants its lock first come first
served, so a tab that keeps waiting is not passed over for ever. Nothing is
assumed of visitors, of sign-ins and sign-outs, or of the server's chains. In
`RateLimit` only the clock is fair: clients are free
to try at every moment, which is what could keep a sliding window open for ever.

## 6. Proofs

Each proof module shows `Spec => []Inv` (`InvHolds`) for any values of the
constants that meet the component's named assumptions, and draws its theorems from
`Inv`. Every safety property and every action property of the passing runs is the
statement of a theorem. What each `Inv` adds to the properties, and why they are
not inductive without it:

**`SessionsProofs`**: `TypeCorrect`, `ChainHasOneLiveToken` (`OneLivePerFamily`),
`NoTokenRotatesTwice` (`SpentOnce`), `RevocationsLast` (`SweptStaysGone`),
`ImplementsTokenChain` (`KeepsTokenChain`). That two requests cannot both rotate a
token rests on what each of them holds and has read:

- `WorkersHoldTheirRow`: past its `FOR UPDATE`, a request holds the row of the
  token it presented, and the row is there;
- `RotationsSpendUnused`: a rotation not yet committed still has an unspent row
  before it, so the commit moves one chain from one live token to one;
- `TokensAreAnswered`, `LoginsNameTheirFamily`, `SweepsOneFamily`: families and
  sweeps consist of tokens that were answered, which keeps chains apart;
- `SpentStaysSpent`: the token of a completed rotation is never unspent again,
  from which `SpentOnce` follows for a second rotation.

Only commits write rows. A rotation's commit needs the lock on its token's row,
which one request has at a time, and the row unspent since it was locked; a
revocation's commit needs the locks on all rows it saw. For the refinement a
token's abstract status is read off its row and its request's answer (`StatusMap`,
`KinMap`); sign-in commits map to `StartFamily`, rotation commits to `Spend`,
revocation commits to `Revoke` or, if all rows were gone, to a stutter, and every
other step leaves the mapped state as it is (`QuietSteps`).

**`SignInProofs`**: `TypeCorrect`, `AddressHasOneUser` (`OneUserPerAddress`),
`AnswersAgreeWithTheStore` (`SignedInMeansStored`). `InsertsHoldTheirAddress`: a
flushed INSERT holds its address in the unique index and no user has it, so its
commit adds the first. `FlushedHasSubject`: a login that was flushed found a user who
matches it, and a registration signs itself in (`RegistrationsNameThemselves`), so
the session a commit stores is of the right user. `CommitsStore`: a request that has
committed has its session, and only such a request, or one whose answer was lost
after it, is among the users.

**`LedgerProofs`**: `TypeCorrect`, `TransfersStayWhole`, `TransfersBalance`,
`OneDeleteSucceeds`, `TransfersAreNeverEdited`, `OwnersWrite`,
`UnracedPatchesAreRight`. The parts of `Inv`: what a creator drafted is of its user,
of one kind and cancels if its accounts shared a unit (`DraftInv`); stored rows were
committed by their request, and those of a transfer are still as drafted and all
there (`RowInv`); a patch works on a row outside transfers, of its user, which it
holds once flushed (`PatchInv`); what a DELETE sweeps is one row or a whole transfer
of its user, which it holds (`SweepInv`, `LocksAreHeld`); one request was told of
each deletion (`DeletedOnce`). A commit of a DELETE therefore removes transfers
entirely, and a patch never reaches one. For signs, single rows are an income or an
expense (`SoleKinds`) and a flushed UPDATE has the columns in which the row read
differs from the one wanted (`ColumnsAreChanges`); if the row is still the one read,
the commit leaves the wanted one.

**`AccountsProofs`**: `TypeCorrect`, `NamesAreUnique` (`OneAccountPerName`),
`PatchesAreNarrow` (`OnlySentFieldsChange`), `PatchesDoAsAsked`
(`UnracedPatchesDoAsAsked`).
An open request opens its own account or patches a stored one of its user
(`OpenOrPatch`); the name of a flushed one is nobody else's (`ClaimedIsFree`), nor
claimed by another (`ClaimedOnce`), so commits in any order keep names apart;
what is written comes from what was asked (`SetsAsAsked`), and what is left out is as
asked in the row that was read (`PatchesAsRead`).

**`ApiClientProofs`**: `TypeCorrect`, `TheftIsALostAnswer`
(`OnlyLostAnswersLookLikeTheft`), `SignedOutByTheServer` (`OnlyTheServerSignsOut`). The
lock is held by exactly the active rotation whose POST has gone out
(`OneHoldsTheLock`); a token is in the jar, in a request or spent only after the
answer that brought it was heard (`KnownWereHeard`), so answers bring fresh tokens;
hence a spent token in the jar is that of a rotation given up, or of the one at the
lock whose answer will replace it (`SpentInJar`), and what the holder of the lock
sent is not spent unless an abandoned request has it too (`SpentUnderway`). A token
that was refused stays useless (`RefusedAreUseless`).

**`SessionViewProofs`**: `TypeCorrect`, `DataIsOfThisAccount`
(`DataNeverOutlivesItsAccount`): a cache's data and its fetch are both of the present
sign-in (`NothingOlder`). A sign-in or sign-out ages both, so this rests on `Cleared`
dropping the one and the other (`ClearedIsOfNow`) and on the answers of strays not
reaching the cache. That a chain a sign-out ended is never live again is part of
`TypeCorrect`, and rests on logins starting new chains.

**`RateLimitProofs`**: `TypeOKHolds`, `BurstsAreLimitedHolds`. That `admitted` stays
within the limit is not inductive: several attempts may have been counted and wait
to be let through. Those waiting for a key (`Waiting`, a finite set because attempts
in flight are) were each given a count of their own, so with those admitted they are
at most the counter (`CountsAreShared`) and at most the limit (`RoomIsLeft`). A
counter that expires, or that a restart brings back lower, takes its window's waiting
with it (`LoseStep`); a reply lost after its count only leaves less room.

**`ReportsProofs`**: `TypeOKHolds`, `FittingAmountsAreExactHolds`,
`OnlyRoundedAmountsChange`, `SummaryAgreesHolds`, `WalksMissOnlyWhatMovesHolds`, in
four parts.

- *Induction.* `Ten`, `Length` and the sums are defined by recursion over numbers
  and finite sets. What the library offers for that takes an operator as a
  parameter, so the module derives a form with a set in its place from minimal
  elements of well-founded relations (`SetInduction`, `NatStrongInduction`), and
  shows that a recursive function exists and has its values (`RecursionExists`).
- *Amounts.* An amount without more decimals than the column (`OnScale`, a multiple
  of `Scale`) is stored and shown exactly (`StoredIsExact`, `ShownIsExact`), because
  `Shown` rounds to as many digits as the value has before its last decimal place
  (`LengthOfMultiple`), and not to `Precision`; what fits the column is on scale
  (`FittingIsOnScale`), and so is all that the column stores (`StoredOnScale`). An
  accepted amount that `normalize()` leaves alone fits, so it is stored as it was sent.
- *Sums.* A sum does not depend on the order of its terms (`SumRemovesElement`), so
  it splits over disjoint sets (`SumOfDisjoint`) and over groups (`SumOfGroups`);
  sums of amounts on scale are on scale, so that showing them changes nothing.
  `Inv` keeps what a summary has read equal to the queries over its snapshot, a good
  view of the ledger (`SummaryInv`); the rest is about one view (`ReadAgrees`).
- *Walks.* Pages list the matching rows by their `Rank`, the number of rows before
  them (`PageOrder`). A commit that only adds rows never lowers a rank (`RanksGrow`),
  so a steady row is among those seen or its rank is not yet reached (`NoneMissed`);
  with no commit the row seen at place n has rank n - 1 (`SeenInOrder`). A short page
  ends past the last rank.

TLC agreed with every `Inv` on the instances of section 4 before it was proved.

Model-checked only: the liveness properties (fairness and ENABLED are outside the
prover's reach), and the four disagreements of section 7, which are violations.

## 7. What the runs show

The token store does what it promises its callers at the level of single tokens
(`TokenChain`), and the following hold: a transfer is never split, unbalanced or
edited, whichever of its rows requests patch and delete at once; a deletion is
reported once; names of accounts and addresses of users are unique; whoever is told
of a session has it; a patch writes no field it was not sent; a burst of attempts is
judged by counts of its own, as far as Redis keeps them; the parts of a summary agree
to the last digit whatever commits between its statements; a walk through a list misses a row only if one was
deleted or patched meanwhile, though it may show a row twice when others are added;
no tab keeps a user that was asked for before the tab itself last signed in or out;
the two layouts do not redirect for ever; and a chain that a sign-out has ended loses
its access in the end. The last three have limits. Another tab's cache is not
cleared, and shows the earlier user until it asks again; a user asked for after a
sign-in may still be the earlier one if cookies of its chain arrive late (below); and
a sign-out does not always end its chain (below).

Disagreements between the code and its documents, each a run that TLC violates:

- **A detected reuse does not always end the family** (`sessions_reuse`). The
  DELETE of `revoke_family` sees the rows committed when it starts. A rotation of
  the family's live token that is in flight commits its successor after it.
- **Sign and kind can part** (`ledger_sign`): the sign is computed from the row as
  read, and only differing columns are written.
- **The first archive date can be overwritten** (`accounts_archive`).
- **An accepted amount can be rounded** (`reports_rounding`). pydantic refuses an
  amount only if a limit is exceeded both as written and after `normalize()`, which
  rounds to 28 digits: `1234567890.1111111111111111111` has 19 decimals, is
  accepted, and the column rounds it. Only amounts that `normalize()` rounds are
  concerned (`OnlyRoundedAmountsChange`). An amount that the rounding carries past the
  column's range is a 500 and stores nothing (`Writable`).

These follow from the same models and have no run of their own:

- A logout can be a 500: two revocations of one family that presented different
  tokens hold a row each and wait for the other's (`Sessions!AbortDeadlock`). One
  that presents a spent token may leave the chain alive, as in `sessions_reuse`:
  a rotation of the successor by another tab was in flight, its cookies may come
  after the logout has cleared the jar, and the chain is then rotated on and on
  (`SessionView!ServeLogout` with `Rotating`).
- A registration can be stored and not answered: the confirmation of its COMMIT is
  lost, the client is told 500 or nothing (`core/database.py:48-52`), and the address
  is taken when it tries again (`SignIn!LoseAnswer`).
- Two patches of one account can both be answered as applied though a field that the
  second was sent is not stored: sent `cash` and `archived`, it reads the name `cash`
  and leaves the name out; the first, a rename to `isa`, commits; the account is
  archived and called `isa`, where `ledger/services/accounts.py:42` has "Apply the
  fields the caller sent". `UnracedPatchesDoAsAsked` fails in TLC without its
  condition on the row read.
- One account can have two login counters. The limiter counts an address under
  Python's `casefold()`, CITEXT compares by the `lower()` of Postgres: U+0130 (a
  capital I with a dot) is `i` to the one in the default UTF-8 locale of
  `postgres:16`, and `i` with a combining dot to the other. The comment at
  `auth/security/rate_limit.py:74` has "one account and must share one counter".
- A patch can be a 500 when its row is deleted between its read and its UPDATE
  (`Ledger!FlushStale`), and so can one of two renames that exchange names
  (`Accounts!AbortDeadlock`), where `plans/2026-09-20/ledger/spec.md` lists 404, 409
  and 422.
- A tab can find the old cookie: the lock is released when a refresh times out, but
  the server may have served it or may yet; the next refresh replays the spent token
  and the family is revoked (`ApiClient!TimeOutRotation`, then `RevokeSpent`).
- Logins and logouts do not take the lock: a rotation's answer that comes after
  theirs sets its own cookies over theirs (`SessionView!HearGranted`). If its chain
  was ended by a sign-out they are good for an access token's life at most, which
  `SignOutBitesInTheEnd` states; if it is the earlier session of a browser that has
  just logged in again, the browser is back in that one.
- The README's "registration is not yet" rate limited (`README.md:94`) is out of
  date: `auth/security/rate_limit.py:43-51` limits it.

## 8. Plan

Done: every module of section 3, and the proofs of section 6.

What a next step would add, most useful first:

1. The context variables of `core/middleware.py` under interleaved requests
   (`RequestLifecycle`): request id and user in log lines and error envelopes.
2. `ApiClient` over `Sessions` itself rather than over `TokenChain`, to follow a
   refresh that overlaps a revocation from the browser to the rows.

## 9. Not modelled, and why

Argon2, JWT signatures, cookies' attributes, CORS and logging: they have no state
that requests share. Category, time and note of a transaction and the type of an
account: columns no rule of the writers relates to others; in `Ledger` they are one
flag of a patch, in `Reports` a category and a time. Migrations and configuration:
run once, by hand. User deletion, and with it the cascades: the application has no
operation for it. Screens, forms and the ledger's queries: they render, and hold no
state that a request does not bring again.

What `Reports` leaves out: a writer is one commit (its statements are in `Ledger`
and `Accounts`); one reader at a time, since readers do not meet; a patch sends all
its fields; the balances of `GET /accounts` and single rows are one statement each.
`Amounts` leaves out trailing zeros, which no step tells apart, and the answer of a
POST, which shows the amount before the column has rounded it.

What `SessionView` leaves out: reloads (`ApiClient` has them); a query observer that
stays mounted after `clear()` is taken to follow the cache; the register form is the
login form; chains stand for their tokens, so a token lost to a timeout is a chain
that may end (`RotationFails`); the token of a replay does not expire within the
replay's ten seconds; a query is retried once, not twice. Visitors that sign out
again and again may of course be redirected again and again (`TabsComeToRest`).
