------------------------------ MODULE Sessions ------------------------------
(***************************************************************************)
(* The refresh-token store: the sessions table and the requests that start *)
(* a session, rotate a token and end a login chain (auth/services/auth.py, *)
(* auth/crud/session.py), each in its own READ COMMITTED transaction       *)
(* (core/database.py, get_db).                                             *)
(*                                                                         *)
(* A request generates at most one refresh token and at most one family    *)
(* id, both random and therefore fresh, so each is named by the request    *)
(* that generated it.  A row is found by the hash of its token; hashes     *)
(* name tokens one to one, and rows are indexed by the token itself.       *)
(***************************************************************************)
CONSTANTS Requests,  \* HTTP requests to the auth endpoints
          Unknown,   \* a token this server never issued, or no cookie at all
          NoOne      \* the holder of a row lock nobody holds

ASSUME DistinctValues ==
    /\ Unknown \notin Requests
    /\ NoOne \notin Requests

VARIABLES phase,     \* phase[r]: how far request r has come
          op,        \* op[r]: the endpoint r called
          token,     \* token[r]: the refresh token r presented
          family,    \* family[r]: the family_id of the token r generates
          sessions,  \* sessions[t]: the committed row of token t, by used_at
          lock,      \* lock[t]: the request whose transaction locked t's row
          targets,   \* targets[r]: the rows r's DELETE statement can see
          expired    \* the tokens whose expires_at has passed

vars == <<phase, op, token, family, sessions, lock, targets, expired>>

(* No row, a row whose used_at is null, a row whose used_at is set. *)
Row == {"none", "unused", "used"}

(* The request's transaction is open in the phases of Open.  The answered   *)
(* phases: a token pair, a plain 401, the 401 of a detected reuse, the 204  *)
(* of a logout, and the 500 of a deadlock or of any other failure.          *)
Open == {"arrived", "locked", "writing", "revoking"}
Answered == {"issued", "invalid", "reused", "loggedOut", "deadlock", "failed"}
Phase == {"idle"} \cup Open \cup Answered
Op == {"login", "refresh", "logout"}

TypeOK ==
    /\ phase \in [Requests -> Phase]
    /\ op \in [Requests -> Op]
    /\ token \in [Requests -> Requests \cup {Unknown}]
    /\ family \in [Requests -> Requests]
    /\ sessions \in [Requests -> Row]
    /\ lock \in [Requests -> Requests \cup {NoOne}]
    /\ targets \in [Requests -> SUBSET Requests]
    /\ expired \in SUBSET Requests

Stored(t) == t \in Requests /\ sessions[t] # "none"

-----------------------------------------------------------------------------
Init ==
    /\ phase = [r \in Requests |-> "idle"]
    /\ op = [r \in Requests |-> "login"]
    /\ token = [r \in Requests |-> Unknown]
    /\ family = [r \in Requests |-> r]
    /\ sessions = [t \in Requests |-> "none"]
    /\ lock = [t \in Requests |-> NoOne]
    /\ targets = [r \in Requests |-> {}]
    /\ expired = {}

(* Ending a transaction releases every row lock it holds. *)
Released(r) == [t \in Requests |-> IF lock[t] = r THEN NoOne ELSE lock[t]]

(* Mutant: a failed request whose connection keeps its transaction open. *)
RollBackKeepingLocks(r, answer) ==
    /\ phase' = [phase EXCEPT ![r] = answer]
    /\ UNCHANGED <<op, token, family, sessions, lock, targets, expired>>

(* The request ends without a commit: its writes and locks are dropped. *)
RollBack(r, answer) ==
    /\ phase' = [phase EXCEPT ![r] = answer]
    /\ lock' = Released(r)
    /\ UNCHANGED <<op, token, family, sessions, targets, expired>>

(* A sign-in that passed its checks: an INSERT under a fresh family, named  *)
(* like the token by r, and no lock on any sessions row.                    *)
StartSession(r) ==
    /\ phase[r] = "idle"
    /\ phase' = [phase EXCEPT ![r] = "writing"]
    /\ op' = [op EXCEPT ![r] = "login"]
    /\ UNCHANGED <<token, family, sessions, lock, targets, expired>>

(* A refresh or a logout arrives with a token some earlier answer carried, *)
(* with one that was never issued, or with none.                           *)
Present(r, o, t) ==
    /\ phase[r] = "idle"
    /\ o \in {"refresh", "logout"}
    /\ t # Unknown => phase[t] = "issued"
    /\ phase' = [phase EXCEPT ![r] = "arrived"]
    /\ op' = [op EXCEPT ![r] = o]
    /\ token' = [token EXCEPT ![r] = t]
    /\ UNCHANGED <<family, sessions, lock, targets, expired>>

(* Mutant: a plain SELECT, which waits for nobody. *)
WithoutForUpdate(t) == TRUE

(* SELECT ... FOR UPDATE: waits while another transaction holds the row,   *)
(* then reads its newest committed version.                                *)
LockFree(t) == lock[t] = NoOne

LockRow(r) ==
    /\ phase[r] = "arrived"
    /\ Stored(token[r])
    /\ LockFree(token[r])
    /\ phase' = [phase EXCEPT ![r] = "locked"]
    /\ lock' = [lock EXCEPT ![token[r]] = r]
    /\ UNCHANGED <<op, token, family, sessions, targets, expired>>

(* The same statement when no such row is committed: a refresh is refused, *)
(* a logout has nothing to end and is not an error.                        *)
FindNothing(r) ==
    /\ phase[r] = "arrived"
    /\ ~Stored(token[r])
    /\ RollBack(r, IF op[r] = "refresh" THEN "invalid" ELSE "loggedOut")

(* Mutant: the successor gets the column default, a new family. *)
RotateIntoNewFamily(r) ==
    /\ phase[r] = "locked"
    /\ op[r] = "refresh"
    /\ sessions[token[r]] = "unused"
    /\ token[r] \notin expired
    /\ phase' = [phase EXCEPT ![r] = "writing"]
    /\ UNCHANGED <<op, token, family, sessions, lock, targets, expired>>

(* refresh_session on an unspent, unexpired row: used_at is set and the     *)
(* successor inserted in one flush, neither visible before the commit.      *)
Rotate(r) ==
    /\ phase[r] = "locked"
    /\ op[r] = "refresh"
    /\ sessions[token[r]] = "unused"
    /\ token[r] \notin expired
    /\ phase' = [phase EXCEPT ![r] = "writing"]
    /\ family' = [family EXCEPT ![r] = family[token[r]]]
    /\ UNCHANGED <<op, token, sessions, lock, targets, expired>>

(* refresh_session on an unspent row past its expiry. *)
RefuseExpired(r) ==
    /\ phase[r] = "locked"
    /\ op[r] = "refresh"
    /\ sessions[token[r]] = "unused"
    /\ token[r] \in expired
    /\ RollBack(r, "invalid")

(* Mutant: the DELETE filters on nothing but the rows being there. *)
VisibleOfAnyFamily(f) == {t \in Requests : Stored(t)}

(* revoke_family starts: by a refresh that found its token spent, and by    *)
(* every logout that found its token.  The DELETE statement sees the rows   *)
(* committed at this moment, not those of transactions still open.          *)
Visible(f) == {t \in Requests : Stored(t) /\ family[t] = f}

BeginRevoke(r) ==
    /\ phase[r] = "locked"
    /\ op[r] = "refresh" => sessions[token[r]] = "used"
    /\ phase' = [phase EXCEPT ![r] = "revoking"]
    /\ targets' = [targets EXCEPT ![r] = Visible(family[token[r]])]
    /\ UNCHANGED <<op, token, family, sessions, lock, expired>>

(* The rows the DELETE has yet to lock: a target another transaction has    *)
(* deleted meanwhile is passed over.                                        *)
Remaining(r) == {t \in targets[r] : Stored(t) /\ lock[t] # r}

DeleteRow(r, t) ==
    /\ phase[r] = "revoking"
    /\ t \in Remaining(r)
    /\ LockFree(t)
    /\ lock' = [lock EXCEPT ![t] = r]
    /\ UNCHANGED <<phase, op, token, family, sessions, targets, expired>>

(* Mutant: the presented token is not marked. *)
CommitPairUnmarked(r) ==
    /\ phase[r] = "writing"
    /\ phase' = [phase EXCEPT ![r] = "issued"]
    /\ sessions' = [sessions EXCEPT ![r] = "unused"]
    /\ lock' = Released(r)
    /\ UNCHANGED <<op, token, family, targets, expired>>

(* Commit of a sign-in or a rotation; the answer goes out after it. *)
CommitPair(r) ==
    /\ phase[r] = "writing"
    /\ phase' = [phase EXCEPT ![r] = "issued"]
    /\ sessions' =
         IF op[r] = "login"
         THEN [sessions EXCEPT ![r] = "unused"]
         ELSE [sessions EXCEPT ![token[r]] = "used", ![r] = "unused"]
    /\ lock' = Released(r)
    /\ UNCHANGED <<op, token, family, targets, expired>>

(* Mutant: no commit before the 401 of a reuse, whose rollback then undoes  *)
(* the DELETE.                                                              *)
CommitRevokeLogoutOnly(r) ==
    /\ phase[r] = "revoking"
    /\ Remaining(r) = {}
    /\ phase' = [phase EXCEPT ![r] =
                   IF op[r] = "refresh" THEN "reused" ELSE "loggedOut"]
    /\ sessions' = [t \in Requests |->
                      IF t \in targets[r] /\ op[r] = "logout" THEN "none"
                      ELSE sessions[t]]
    /\ lock' = Released(r)
    /\ UNCHANGED <<op, token, family, targets, expired>>

(* Commit of a revocation.  A reuse commits before its 401 is raised, so    *)
(* the rollback that follows the 401 has nothing to undo.                   *)
CommitRevoke(r) ==
    /\ phase[r] = "revoking"
    /\ Remaining(r) = {}
    /\ phase' = [phase EXCEPT ![r] =
                   IF op[r] = "refresh" THEN "reused" ELSE "loggedOut"]
    /\ sessions' = [t \in Requests |->
                      IF t \in targets[r] THEN "none" ELSE sessions[t]]
    /\ lock' = Released(r)
    /\ UNCHANGED <<op, token, family, targets, expired>>

(* The requests r's transaction is waiting for, and whether that wait leads *)
(* back to r: r is in every set that holds them and is closed under waiting.*)
WaitsFor(r) ==
    IF phase[r] = "revoking"
    THEN {lock[t] : t \in Remaining(r)} \ {NoOne}
    ELSE {}

OnCycle(r) ==
    \A S \in SUBSET Requests :
        (WaitsFor(r) \subseteq S /\ \A p \in S : WaitsFor(p) \subseteq S)
            => r \in S

(* Postgres breaks a cycle of waits by failing one transaction in it.  The  *)
(* error is no AppError, so get_db rolls back and the answer is a 500.      *)
AbortDeadlock(r) ==
    /\ phase[r] = "revoking"
    /\ OnCycle(r)
    /\ RollBack(r, "deadlock")

(* Any other failure before the commit: a lost connection, a restart. *)
Fail(r) ==
    /\ phase[r] \in Open
    /\ RollBack(r, "failed")

(* Mutant: the expiry is read off the token presented. *)
ExpirePresented(t) ==
    /\ phase[t] = "issued"
    /\ expired' = expired \cup {token[t]}
    /\ UNCHANGED <<phase, op, token, family, sessions, lock, targets>>

(* Time passes REFRESH_TOKEN_LIFETIME for a stored token.  Every token     *)
(* lives equally long, so one never expires before the one it succeeded.   *)
Expire(t) ==
    /\ phase[t] = "issued"
    /\ t \notin expired
    /\ op[t] = "refresh" => token[t] \in expired
    /\ expired' = expired \cup {t}
    /\ UNCHANGED <<phase, op, token, family, sessions, lock, targets>>

Serve(r) ==
    \/ LockRow(r) \/ FindNothing(r)
    \/ Rotate(r) \/ RefuseExpired(r) \/ BeginRevoke(r)
    \/ \E t \in Requests : DeleteRow(r, t)
    \/ CommitPair(r) \/ CommitRevoke(r)
    \/ AbortDeadlock(r)

Next ==
    \E r \in Requests :
        \/ StartSession(r)
        \/ \E o \in Op, t \in Requests \cup {Unknown} : Present(r, o, t)
        \/ Serve(r)
        \/ Fail(r)
        \/ Expire(r)

Spec == Init /\ [][Next]_vars

(* A request that has arrived keeps being served: the event loop resumes   *)
(* its task, Postgres grants a freed lock and looks for deadlocks.  Nothing *)
(* makes a client call, a transaction fail or a token expire.              *)
FairSpec == Spec /\ \A r \in Requests : WF_vars(Serve(r))

-----------------------------------------------------------------------------
(* At most one token of a login chain is unspent, whatever was raced        *)
(* against what (auth.py:137, the row lock of crud/session.py:18).          *)
OneLivePerFamily ==
    \A s, t \in Requests :
        /\ sessions[s] = "unused" /\ sessions[t] = "unused"
        /\ family[s] = family[t]
        => s = t

(* No token is rotated twice: two requests that were both answered with a   *)
(* pair never presented the same token, even after its row is gone          *)
(* (test_two_requests_racing_one_token_cannot_both_rotate).                 *)
SpentOnce ==
    \A q, r \in Requests :
        /\ phase[q] = "issued" /\ op[q] = "refresh"
        /\ phase[r] = "issued" /\ op[r] = "refresh"
        /\ token[q] = token[r]
        => q = r

(* A revocation that was answered is never undone: no row its DELETE saw is *)
(* stored, neither the rows a concurrent rotation was writing to nor, after *)
(* a reuse, those the 401's rollback could have brought back (auth.py:130). *)
SweptStaysGone ==
    \A r \in Requests :
        phase[r] \in {"reused", "loggedOut"} =>
            \A t \in targets[r] : ~Stored(t)

(* Why the two properties above hold, in the form the proofs carry from     *)
(* step to step.  A request past its SELECT ... FOR UPDATE holds the row of *)
(* the token it presented, and while it does the row is not deleted.        *)
HoldsItsRow(r) ==
    \/ phase[r] \in {"locked", "revoking"}
    \/ phase[r] = "writing" /\ op[r] = "refresh"

WorkersHoldTheirRow ==
    \A r \in Requests : HoldsItsRow(r) =>
        Stored(token[r]) /\ lock[token[r]] = r

(* A rotation still to be committed read a row that is unspent to this day. *)
RotationsSpendUnused ==
    \A r \in Requests : phase[r] = "writing" /\ op[r] = "refresh" =>
        sessions[token[r]] = "unused" /\ family[r] = family[token[r]]

(* Only answered tokens are presented, stored or swept, and the token that  *)
(* named their family was answered too.                                     *)
TokensAreAnswered ==
    /\ \A r \in Requests : token[r] # Unknown => phase[token[r]] = "issued"
    /\ \A t \in Requests : Stored(t) => phase[t] = "issued"
    /\ \A r \in Requests : \A t \in targets[r] : phase[t] = "issued"
    /\ \A t \in Requests : phase[t] = "issued" => phase[family[t]] = "issued"

(* A request that is no rotation keeps the family named by it, and only     *)
(* sign-ins and rotations come to write a row.                              *)
LoginsNameTheirFamily ==
    \A r \in Requests :
        /\ op[r] = "login" => family[r] = r
        /\ phase[r] = "idle" => op[r] = "login"
        /\ phase[r] = "writing" => op[r] # "logout"

(* The token of a completed rotation is never unspent again. *)
SpentStaysSpent ==
    \A r \in Requests : phase[r] = "issued" /\ op[r] = "refresh" =>
        token[r] # Unknown /\ sessions[token[r]] # "unused"

(* A DELETE sees rows of the family of the token presented, and nothing is  *)
(* swept before it starts.                                                  *)
SweepsOneFamily ==
    \A r \in Requests :
        /\ \A t \in targets[r] : token[r] # Unknown /\ family[t] = family[token[r]]
        /\ phase[r] \in {"idle", "arrived", "locked"} => targets[r] = {}

Inv ==
    /\ TypeOK
    /\ WorkersHoldTheirRow
    /\ RotationsSpendUnused
    /\ TokensAreAnswered
    /\ LoginsNameTheirFamily
    /\ SpentStaysSpent
    /\ SweepsOneFamily
    /\ OneLivePerFamily
    /\ SpentOnce
    /\ SweptStaysGone

(* Every request that arrived is answered, though revocations of one family *)
(* may wait for each other's rows in a circle.                              *)
EveryRequestAnswered ==
    \A r \in Requests : phase[r] \in Open ~> phase[r] \in Answered

(* "The whole family goes, so neither of them keeps a session"              *)
(* (auth.py:112): once a reuse was answered, no row of its family is stored.*)
ReuseEndsFamily ==
    \A r, t \in Requests :
        /\ phase[r] = "reused"
        /\ family[t] = family[token[r]]
        => ~Stored(t)

-----------------------------------------------------------------------------
(* The table seen from outside: a token is issued when its request was      *)
(* answered with it, and gone when its row no longer exists.                *)
StatusOf(t) ==
    CASE sessions[t] = "unused" -> "live"
      [] sessions[t] = "used" -> "burnt"
      [] sessions[t] = "none" /\ phase[t] = "issued" -> "gone"
      [] OTHER -> "unissued"

StatusMap == [t \in Requests |-> StatusOf(t)]

KinMap == [t \in Requests |->
             IF StatusOf(t) = "unissued" THEN t ELSE family[t]]

Chain == INSTANCE TokenChain
             WITH Token <- Requests, status <- StatusMap, kin <- KinMap

(* The store keeps the promise of TokenChain: the steps of all transactions *)
(* together amount to sign-ins, single rotations and removals.              *)
KeepsTokenChain == Chain!ChainSpec
=============================================================================
