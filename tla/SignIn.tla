------------------------------- MODULE SignIn -------------------------------
(***************************************************************************)
(* The users table and the requests that the limiter let through: register *)
(* and login (register_user and login_user of auth/services/auth.py), each *)
(* in one READ COMMITTED transaction that also stores the first row of a   *)
(* login chain (Sessions!StartSession).                                    *)
(*                                                                         *)
(* An address stands for all the spellings CITEXT compares equal; a user   *)
(* row is named by the request that inserted it, and so is a login chain.  *)
(***************************************************************************)
CONSTANTS Requests, Addresses, Passwords,
          NoOne    \* nobody is inserting the address

ASSUME SignInAssumption == NoOne \notin Requests

VARIABLES phase,     \* phase[r]: how far request r has come
          op,        \* op[r]: register or login
          address,   \* address[r]: the email r was sent
          password,  \* password[r]: the password r was sent
          subject,   \* subject[r]: the user r is to be signed in as
          users,     \* the committed users, by the request that inserted each
          inserting, \* inserting[a]: the open transaction with a row of a
          chains     \* the login chains started, as <<chain, user>>

vars == <<phase, op, address, password, subject, users, inserting, chains>>

Open == {"arrived", "hashing", "flushed"}
Underway == Open \cup {"committed"}   \* not yet answered
Answered == {"signedIn", "taken", "wrong", "failed"}
Phase == {"idle"} \cup Underway \cup Answered
Op == {"register", "login"}

TypeOK ==
    /\ phase \in [Requests -> Phase]
    /\ op \in [Requests -> Op]
    /\ address \in [Requests -> Addresses]
    /\ password \in [Requests -> Passwords]
    /\ subject \in [Requests -> Requests]
    /\ users \in SUBSET Requests
    /\ inserting \in [Addresses -> Requests \cup {NoOne}]
    /\ chains \in SUBSET (Requests \X Requests)

(* get_user_by_email: the committed users of an address. *)
UsersOf(a) == {u \in users : address[u] = a}

-----------------------------------------------------------------------------
Init ==
    /\ phase = [r \in Requests |-> "idle"]
    /\ op \in [Requests -> Op]
    /\ address \in [Requests -> Addresses]
    /\ password \in [Requests -> Passwords]
    /\ subject = [r \in Requests |-> r]
    /\ users = {}
    /\ inserting = [a \in Addresses |-> NoOne]
    /\ chains = {}

(* The request was counted and allowed. *)
Arrive(r) ==
    /\ phase[r] = "idle"
    /\ phase' = [phase EXCEPT ![r] = "arrived"]
    /\ UNCHANGED <<op, address, password, subject, users, inserting, chains>>

(* Mutant: a failed registration whose transaction stays open. *)
RollBackLater(r, answer) ==
    /\ phase' = [phase EXCEPT ![r] = answer]
    /\ UNCHANGED <<op, address, password, subject, users, inserting, chains>>

EndTransaction(r, next) ==
    /\ phase' = [phase EXCEPT ![r] = next]
    /\ inserting' = [a \in Addresses |->
                       IF inserting[a] = r THEN NoOne ELSE inserting[a]]
    /\ UNCHANGED <<op, address, password, subject>>

RollBack(r, answer) == EndTransaction(r, answer) /\ UNCHANGED <<users, chains>>

(* POST /register looks the email up, the fast path to EmailTakenError, and *)
(* otherwise hashes the password while others go on.                        *)
RefuseKnown(r) ==
    /\ phase[r] = "arrived" /\ op[r] = "register"
    /\ UsersOf(address[r]) # {}
    /\ RollBack(r, "taken")

LookUpUnknown(r) ==
    /\ phase[r] = "arrived" /\ op[r] = "register"
    /\ UsersOf(address[r]) = {}
    /\ phase' = [phase EXCEPT ![r] = "hashing"]
    /\ UNCHANGED <<op, address, password, subject, users, inserting, chains>>

(* Mutant: the lookup alone decides. *)
InsertUnchecked(r) ==
    /\ phase[r] = "hashing"
    /\ phase' = [phase EXCEPT ![r] = "flushed"]
    /\ inserting' = [inserting EXCEPT ![address[r]] = r]
    /\ UNCHANGED <<op, address, password, subject, users, chains>>

(* The unique email decides.  The INSERT waits for another open one of the  *)
(* same email, then goes in or fails with the IntegrityError that is        *)
(* answered as EmailTakenError.                                             *)
InsertUser(r) ==
    /\ phase[r] = "hashing"
    /\ inserting[address[r]] = NoOne
    /\ UsersOf(address[r]) = {}
    /\ phase' = [phase EXCEPT ![r] = "flushed"]
    /\ inserting' = [inserting EXCEPT ![address[r]] = r]
    /\ UNCHANGED <<op, address, password, subject, users, chains>>

LoseRace(r) ==
    /\ phase[r] = "hashing"
    /\ inserting[address[r]] = NoOne
    /\ UsersOf(address[r]) # {}
    /\ RollBack(r, "taken")

(* POST /login verifies the password against the user's hash, or against a  *)
(* dummy hash that nothing matches when there is no user.                   *)
Matches(r, u) == password[r] = password[u]

RefuseCredentials(r) ==
    /\ phase[r] = "arrived" /\ op[r] = "login"
    /\ \A u \in UsersOf(address[r]) : ~Matches(r, u)
    /\ RollBack(r, "wrong")

(* Mutant: only the outcome of the verify is looked at, not that there is a  *)
(* user, and the dummy hash matches.                                        *)
AcceptWithoutUser(r) ==
    /\ phase[r] = "arrived" /\ op[r] = "login"
    /\ \/ /\ UsersOf(address[r]) = {}
          /\ subject' = [subject EXCEPT ![r] = NoOne]
       \/ \E u \in UsersOf(address[r]) :
             Matches(r, u) /\ subject' = [subject EXCEPT ![r] = u]
    /\ phase' = [phase EXCEPT ![r] = "flushed"]
    /\ UNCHANGED <<op, address, password, users, inserting, chains>>

AcceptCredentials(r) ==
    /\ phase[r] = "arrived" /\ op[r] = "login"
    /\ \E u \in UsersOf(address[r]) :
          /\ Matches(r, u)
          /\ subject' = [subject EXCEPT ![r] = u]
    /\ phase' = [phase EXCEPT ![r] = "flushed"]
    /\ UNCHANGED <<op, address, password, users, inserting, chains>>

Store(r) ==
    /\ users' = IF op[r] = "register" THEN users \cup {r} ELSE users
    /\ chains' = chains \cup {<<r, subject[r]>>}

(* Mutant: the answer goes out before the COMMIT, which then fails or not.  *)
AnswerFirst(r) ==
    /\ phase[r] = "flushed"
    /\ EndTransaction(r, "signedIn")
    /\ Store(r) \/ UNCHANGED <<users, chains>>

(* start_session added the session; get_db commits it, with the user of a   *)
(* registration.                                                            *)
Commit(r) ==
    /\ phase[r] = "flushed"
    /\ EndTransaction(r, "committed")
    /\ Store(r)

(* Postgres has confirmed the COMMIT, and the answer goes out. *)
Answer(r) ==
    /\ phase[r] = "committed"
    /\ phase' = [phase EXCEPT ![r] = "signedIn"]
    /\ UNCHANGED <<op, address, password, subject, users, inserting, chains>>

(* The confirmation is lost, which is a 500, or the worker stops: what was  *)
(* committed stays, though the client is told that it failed, or nothing.   *)
LoseAnswer(r) ==
    /\ phase[r] = "committed"
    /\ phase' = [phase EXCEPT ![r] = "failed"]
    /\ UNCHANGED <<op, address, password, subject, users, inserting, chains>>

(* Any failure before that: nothing of the request is kept. *)
Fail(r) == phase[r] \in Open /\ RollBack(r, "failed")

Serve(r) ==
    \/ RefuseKnown(r) \/ LookUpUnknown(r) \/ InsertUser(r) \/ LoseRace(r)
    \/ RefuseCredentials(r) \/ AcceptCredentials(r)
    \/ Commit(r) \/ Answer(r)

Next == \E r \in Requests : Arrive(r) \/ Serve(r) \/ LoseAnswer(r) \/ Fail(r)

Spec == Init /\ [][Next]_vars

(* A request that arrived keeps being served, and Postgres wakes an INSERT  *)
(* that waited.                                                             *)
FairSpec == Spec /\ \A r \in Requests : WF_vars(Serve(r))

-----------------------------------------------------------------------------
(* No address gets a second account, whatever registrations raced between   *)
(* the lookup and the INSERT (services/auth.py:66).                         *)
OneUserPerAddress ==
    \A u, v \in users : address[u] = address[v] => u = v

(* Who is told of a session has it.  A user is stored together with its     *)
(* first session or not at all, and a session only for the user whose       *)
(* address and password were sent.  A request that was refused, for its     *)
(* email or its credentials, left nothing; one that failed may have been    *)
(* committed all the same (core/database.py:42, 66).                        *)
SignedInMeansStored ==
    \A r \in Requests :
        /\ phase[r] = "signedIn" => <<r, subject[r]>> \in chains
        /\ op[r] = "register" => (r \in users <=> <<r, r>> \in chains)
        /\ \A u \in Requests : <<r, u>> \in chains =>
              /\ u \in users
              /\ address[u] = address[r] /\ password[u] = password[r]
              /\ phase[r] \in {"committed", "signedIn", "failed"}

(* Every request is answered, waits for another's INSERT notwithstanding.   *)
EveryRequestAnswered ==
    \A r \in Requests : phase[r] \in Underway ~> phase[r] \in Answered
=============================================================================
