------------------------------ MODULE RateLimit ------------------------------
(***************************************************************************)
(* The limiter of login and registration attempts: counters in Redis, one  *)
(* per email and one per IP, that expire a fixed time after they were      *)
(* started (auth/security/rate_limit.py).                                  *)
(*                                                                         *)
(* An email is written in one of several spellings, and the limiter        *)
(* casefolds it for its key.  A request slot is used again once its        *)
(* attempt is decided, so clients may keep trying for ever.                *)
(***************************************************************************)
EXTENDS Integers, FiniteSets

CONSTANTS Requests,    \* the attempts that may be in flight at once
          Emails,      \* spellings of email addresses
          Casefold,    \* Casefold[e]: the address e is counted under
          IPs,         \* where attempts come from
          MaxLoginsPerEmail, MaxLoginsPerIP, MaxRegistrationsPerIP,
          RateWindow   \* the ticks of the clock a window lasts

ASSUME RateLimitAssumption ==
    /\ IsFiniteSet(Requests)
    /\ Casefold \in [Emails -> Emails]
    /\ {MaxLoginsPerEmail, MaxLoginsPerIP, MaxRegistrationsPerIP} \subseteq Nat \ {0}
    /\ RateWindow \in Nat \ {0}

VARIABLES phase,     \* phase[r]: whether r waits for its judgement
          keys,      \* keys[r]: the counters r counts against
          replies,   \* replies[r]: the counts Redis returned, 0 where none
          current,   \* current[r]: the keys still in the window r was counted in
          count,     \* count[k]: the counter of k, 0 if the key is gone
          ttl,       \* ttl[k]: the ticks until k expires, 0 if it never does
          admitted   \* admitted[k]: the attempts let through in k's window

vars == <<phase, keys, replies, current, count, ttl, admitted>>

Key == ({"login:email"} \X Emails) \cup ({"login:ip", "register:ip"} \X IPs)
Phase == {"idle", "counted"}

Limit(k) ==
    CASE k[1] = "login:email" -> MaxLoginsPerEmail
      [] k[1] = "login:ip" -> MaxLoginsPerIP
      [] k[1] = "register:ip" -> MaxRegistrationsPerIP

(* A count past the limit by one stands for all beyond it. *)
TypeOK ==
    /\ phase \in [Requests -> Phase]
    /\ keys \in [Requests -> SUBSET Key]
    /\ replies \in [Requests -> [Key -> Nat]]
    /\ \A r \in Requests, k \in Key : replies[r][k] <= Limit(k) + 1
    /\ current \in [Requests -> SUBSET Key]
    /\ count \in [Key -> Nat]
    /\ \A k \in Key : count[k] <= Limit(k) + 1
    /\ ttl \in [Key -> 0..RateWindow]
    /\ admitted \in [Key -> Nat]

NoCount == [k \in Key |-> 0]

-----------------------------------------------------------------------------
Init ==
    /\ phase = [r \in Requests |-> "idle"]
    /\ keys = [r \in Requests |-> {}]
    /\ replies = [r \in Requests |-> NoCount]
    /\ current = [r \in Requests |-> {}]
    /\ count = NoCount
    /\ ttl = NoCount
    /\ admitted = NoCount

LoginKeys(e, i) == {<<"login:email", Casefold[e]>>, <<"login:ip", i>>}
RegistrationKeys(i) == {<<"register:ip", i>>}

(* INCR. *)
Incremented(k) == IF count[k] > Limit(k) THEN count[k] ELSE count[k] + 1

(* Mutant: the window of the limiter is longer than Retry-After says. *)
ExpiringLate(k) == IF ttl[k] = 0 THEN RateWindow + 1 ELSE ttl[k]

(* Mutant: EXPIRE without NX. *)
ExpiringAnew(k) == RateWindow

(* EXPIRE with NX: the INCR that starts a window sets its end, no other.    *)
Expiring(k) == IF ttl[k] = 0 THEN RateWindow ELSE ttl[k]

(* One MULTI for all keys: nothing comes between its commands. *)
CountKeys(K) ==
    /\ count' = [k \in Key |-> IF k \in K THEN Incremented(k) ELSE count[k]]
    /\ ttl' = [k \in Key |-> IF k \in K THEN Expiring(k) ELSE ttl[k]]

Count(r, K) ==
    /\ phase[r] = "idle"
    /\ CountKeys(K)
    /\ phase' = [phase EXCEPT ![r] = "counted"]
    /\ keys' = [keys EXCEPT ![r] = K]
    /\ replies' = [replies EXCEPT ![r] =
                     [k \in Key |-> IF k \in K THEN Incremented(k) ELSE 0]]
    /\ current' = [current EXCEPT ![r] = K]
    /\ UNCHANGED admitted

(* Redis is unreachable, or its reply is lost after it has counted: either  *)
(* way the attempt is allowed.                                              *)
CountUnanswered(r, K) ==
    /\ phase[r] = "idle"
    /\ CountKeys(K) \/ UNCHANGED <<count, ttl>>
    /\ UNCHANGED <<phase, keys, replies, current, admitted>>

Attempt(r) ==
    \E K \in {LoginKeys(e, i) : e \in Emails, i \in IPs}
             \cup {RegistrationKeys(i) : i \in IPs} :
        Count(r, K) \/ CountUnanswered(r, K)

(* Mutant: an attempt is over the limit only when all its keys are. *)
OverEveryLimit(r) == \A k \in keys[r] : replies[r][k] > Limit(k)

OverLimit(r) == \E k \in keys[r] : replies[r][k] > Limit(k)

(* Let through to the service or answered with 429, the slot is free. *)
Leave(r) ==
    /\ phase' = [phase EXCEPT ![r] = "idle"]
    /\ keys' = [keys EXCEPT ![r] = {}]
    /\ replies' = [replies EXCEPT ![r] = NoCount]
    /\ current' = [current EXCEPT ![r] = {}]
    /\ UNCHANGED <<count, ttl>>

Admit(r) ==
    /\ phase[r] = "counted"
    /\ ~OverLimit(r)
    /\ Leave(r)
    /\ admitted' = [k \in Key |->
                      IF k \in current[r] THEN admitted[k] + 1 ELSE admitted[k]]

Refuse(r) ==
    /\ phase[r] = "counted"
    /\ OverLimit(r)
    /\ Leave(r)
    /\ UNCHANGED admitted

(* The worker stops between the reply and its judgement. *)
Abandon(r) ==
    /\ phase[r] = "counted"
    /\ Leave(r)
    /\ UNCHANGED admitted

-----------------------------------------------------------------------------
(* What was let through, or is about to be, is no longer counted by K. *)
Lose(K) ==
    /\ admitted' = [k \in Key |-> IF k \in K THEN 0 ELSE admitted[k]]
    /\ current' = [r \in Requests |-> current[r] \ K]
    /\ UNCHANGED <<phase, keys, replies>>

(* Time passes in Redis, and the keys whose time is up are gone. *)
Tick ==
    /\ \E k \in Key : ttl[k] > 0
    /\ ttl' = [k \in Key |-> IF ttl[k] = 0 THEN 0 ELSE ttl[k] - 1]
    /\ count' = [k \in Key |-> IF ttl[k] = 1 THEN 0 ELSE count[k]]
    /\ Lose({k \in Key : ttl[k] = 1})

Live == {k \in Key : count[k] > 0}

(* Redis restarts with the counters it last saved, or with none: the image  *)
(* keeps snapshots, and docker-compose.yml names no volume that would       *)
(* outlive the container.  A key is saved with the time it expires at.      *)
RestartRedis ==
    /\ Live # {}
    /\ \E saved \in [Live -> UNION {0..count[k] : k \in Live}] :
          /\ \A k \in Live : saved[k] <= count[k]
          /\ count' = [k \in Key |-> IF k \in Live THEN saved[k] ELSE 0]
          /\ Lose({k \in Live : saved[k] < count[k]})
    /\ ttl' = [k \in Key |-> IF count'[k] = 0 THEN 0 ELSE ttl[k]]

Judge(r) == Admit(r) \/ Refuse(r)

Next ==
    \/ \E r \in Requests : Attempt(r) \/ Judge(r) \/ Abandon(r)
    \/ Tick
    \/ RestartRedis

Spec == Init /\ [][Next]_vars

(* Time passes.  Nothing stops clients from trying again at every moment.   *)
FairSpec == Spec /\ WF_vars(Tick)

-----------------------------------------------------------------------------
(* Of the attempts that Redis answered in one window no more are let        *)
(* through than the limit of each key, however many were in flight at once, *)
(* unless Redis itself forgot them in a restart (rate_limit.py:25).         *)
BurstsAreLimited == \A k \in Key : admitted[k] <= Limit(k)

(* "The window is fixed rather than sliding" (rate_limit.py:58): a counter, *)
(* and with it a lockout, ends though clients keep trying all the while.    *)
CountersRunOut == \A k \in Key : count[k] > 0 ~> count[k] = 0
=============================================================================
