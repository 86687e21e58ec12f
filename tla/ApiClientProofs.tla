--------------------------- MODULE ApiClientProofs ---------------------------
(***************************************************************************)
(* Proofs about ApiClient, for any sets of calls and tabs: type            *)
(* correctness, that a refresh is taken for theft only if the browser gave *)
(* up on another with the same token, and that a page is told its session  *)
(* is gone only if the token that was sent for it is useless.              *)
(***************************************************************************)
EXTENDS ApiClient, TLAPS

Going == {"queued", "sent", "granted", "refused", "failed"}
Active(c) == rotation[Tab[c]] = c

(* A call has no business with tokens before it is refused, and none left   *)
(* when it is sent again.                                                   *)
UnsentArePlain ==
    \A c \in Calls :
        /\ phase[c] = "idle" => post[c] = "none" /\ kind[c] = "query"
        /\ phase[c] = "sent" /\ kind[c] = "query" =>
              post[c] = "none" \/ (post[c] = "done" /\ retried[c])
        /\ phase[c] = "waiting" =>
              kind[c] = "query" /\ (post[c] = "none" \/ Active(c))

(* The rotation of a tab is a call that waits; a queued one is of its tab.  *)
RotationsWait ==
    \A c \in Calls, w \in Tabs : rotation[w] = c =>
        /\ Tab[c] = w /\ kind[c] = "query" /\ phase[c] = "waiting"
        /\ post[c] \in Going

QueuedAreActive == \A c \in Calls : post[c] = "queued" => Active(c)

(* The lock is held by the active rotation whose request has gone out.      *)
OneHoldsTheLock ==
    /\ \A c \in Calls : Active(c) /\ post[c] # "queued" => holder = c
    /\ \A c \in Calls : holder = c => Active(c) /\ post[c] # "queued"

(* A token is known to the browser, or spent, only after its answer was     *)
(* heard; so an answer on its way brings one that is not spent.             *)
Known(t) == refresh = t \/ \E c \in Calls : carried[c] = t

KnownWereHeard ==
    \A c \in Calls : Known(c) \/ status[c] = "burnt" => post[c] = "done"

KnownWereIssued ==
    /\ \A t \in Token : Known(t) => status[t] # "unissued"
    /\ \A c \in Calls :
          post[c] = "granted" /\ kind[c] # "logout" => status[c] # "unissued"

(* A spent token in the jar is that of a rotation given up, or of the one   *)
(* at the lock, whose answer is on its way.                                 *)
SpentInJar ==
    \A t \in Token : status[t] = "burnt" /\ refresh = t =>
        \/ t \in Abandoned
        \/ \E c \in Calls : holder = c /\ post[c] = "granted" /\ carried[c] = t

SpentUnderway ==
    \A c \in Calls :
        /\ Active(c) /\ post[c] = "sent"
        /\ Spent(carried[c])
        => carried[c] \in Abandoned

RefusedAreUseless ==
    \A c \in Calls : kind[c] = "query" /\ post[c] = "refused" => ~Usable(carried[c])

CallInv == UnsentArePlain /\ RotationsWait /\ QueuedAreActive /\ OneHoldsTheLock
TokenInv == KnownWereHeard /\ KnownWereIssued
SpentInv == SpentInJar /\ SpentUnderway

Inv == TypeOK /\ CallInv /\ TokenInv /\ SpentInv /\ RefusedAreUseless

(* The request of a rotation that nobody waits for any more.               *)
GivenUp(d) == kind[d] = "query" /\ post[d] \in {"sent", "granted"} /\ ~Active(d)

(* A token is abandoned if a request that was given up carries it.          *)
LEMMA AbandonedMeans ==
   /\ \A t : t \in Abandoned <=> \E d \in Calls : GivenUp(d) /\ carried[d] = t
   /\ \A t : t \in Abandoned' <=> \E d \in Calls : GivenUp(d)' /\ carried'[d] = t
BY DEF Abandoned, GivenUp, Active

-----------------------------------------------------------------------------
(* A query has nothing to do with tokens yet.                               *)
LEMMA QueryStep ==
    ASSUME Inv, NEW c \in Calls, Query(c)
    PROVE  Inv'
<1> USE DEF Inv, Query
<1>1. TypeOK'
   BY DEF TypeOK, Phase, server, jar
<1>2. CallInv'
   BY DEF CallInv, UnsentArePlain, RotationsWait, QueuedAreActive,
          OneHoldsTheLock, Active
<1>3. TokenInv'
   BY DEF server, jar, TokenInv, KnownWereHeard, KnownWereIssued, Known
<1>4. SpentInv'
   BY AbandonedMeans
      DEF server, jar, SpentInv, SpentInJar, SpentUnderway, GivenUp, Spent,
          Active
<1>5. RefusedAreUseless'
   BY <1>1 DEF server, RefusedAreUseless, Usable
<1> QED BY <1>1, <1>2, <1>3, <1>4, <1>5

(* A login or a logout carries what the jar has, and holds no lock.         *)
LEMMA SignInOrOutStep ==
    ASSUME Inv, NEW c \in Calls, NEW k, SignInOrOut(c, k)
    PROVE  Inv'
<1> USE DEF Inv, SignInOrOut
<1>1. TypeOK'
   BY DEF TypeOK, Phase, Post, Kind, server, jar
<1>2. CallInv'
   BY DEF TypeOK, CallInv, UnsentArePlain, RotationsWait, QueuedAreActive,
          OneHoldsTheLock, Active
<1>3. TokenInv'
   <2>1. KnownWereHeard'
      BY ApiClientAssumption
         DEF server, jar, TokenInv, CallInv, KnownWereHeard, Known,
             UnsentArePlain
   <2>2. KnownWereIssued'
      BY ApiClientAssumption
         DEF Token, server, jar, TokenInv, CallInv, KnownWereIssued, Known,
             UnsentArePlain
   <2> QED BY <2>1, <2>2 DEF TokenInv
<1>4. SpentInv'
   <2>1. SpentInJar'
      BY AbandonedMeans
         DEF server, jar, SpentInv, CallInv, SpentInJar, GivenUp,
             UnsentArePlain, Active
   <2>2. SpentUnderway'
      BY AbandonedMeans
         DEF TypeOK, server, SpentInv, CallInv, SpentInJar, SpentUnderway,
             GivenUp, Spent, UnsentArePlain, OneHoldsTheLock, Active
   <2> QED BY <2>1, <2>2 DEF SpentInv
<1>5. RefusedAreUseless'
   BY <1>1 DEF server, CallInv, RefusedAreUseless, Usable, UnsentArePlain
<1> QED BY <1>1, <1>2, <1>3, <1>4, <1>5

(* The rotation that a refused query starts is queued and active; the call  *)
(* was plain.                                                               *)
LEMMA RefuseQueryStep ==
    ASSUME Inv, NEW c \in Calls, RefuseQuery(c)
    PROVE  Inv'
<1> USE DEF Inv, RefuseQuery
<1>1. TypeOK'
   BY DEF TypeOK, Phase, Post, server, jar
<1>2. CallInv'
   <2>1. UnsentArePlain'
      BY <1>1, ApiClientAssumption DEF TypeOK, CallInv, UnsentArePlain, Active
   <2>2. RotationsWait'
      BY DEF TypeOK, CallInv, RotationsWait, Going
   <2>3. QueuedAreActive'
      BY <1>1, ApiClientAssumption DEF TypeOK, CallInv, QueuedAreActive, Active
   <2>4. OneHoldsTheLock'
      BY <1>1, ApiClientAssumption DEF TypeOK, CallInv, OneHoldsTheLock, Active
   <2> QED BY <2>1, <2>2, <2>3, <2>4 DEF CallInv
<1>3. TokenInv'
   <2>1. KnownWereHeard'
      BY DEF TypeOK, server, jar, TokenInv, CallInv, KnownWereHeard, Known,
             UnsentArePlain
   <2>2. KnownWereIssued'
      BY DEF TypeOK, server, jar, TokenInv, KnownWereIssued, Known
   <2> QED BY <2>1, <2>2 DEF TokenInv
<1>4. SpentInv'
   <2>1. SpentInJar'
      BY AbandonedMeans, <1>1, ApiClientAssumption
         DEF TypeOK, server, jar, SpentInv, CallInv, SpentInJar, GivenUp,
             UnsentArePlain, Active
   <2>2. SpentUnderway'
      BY AbandonedMeans, <1>1, ApiClientAssumption
         DEF TypeOK, server, SpentInv, CallInv, SpentUnderway, GivenUp, Spent,
             UnsentArePlain, Active
   <2> QED BY <2>1, <2>2 DEF SpentInv
<1>5. RefusedAreUseless'
   BY <1>1 DEF TypeOK, server, RefusedAreUseless, Usable
<1> QED BY <1>1, <1>2, <1>3, <1>4, <1>5

(* A call that was out by itself ends: no rotation waited for it.           *)
LEMMA SettleStep ==
    ASSUME Inv, NEW c \in Calls, phase[c] = "sent",
           NEW outcome \in Settled, Settle({c}, outcome),
           UNCHANGED <<kind, post, carried, rotation, holder, jar, server>>
    PROVE  Inv'
<1> USE DEF Inv, Settle
<1>1. TypeOK'
   BY DEF TypeOK, Phase, Settled, server, jar
<1>2. CallInv'
   BY DEF TypeOK, Settled, CallInv, UnsentArePlain, RotationsWait,
          QueuedAreActive, OneHoldsTheLock, Active
<1>3. TokenInv'
   BY DEF server, jar, TokenInv, KnownWereHeard, KnownWereIssued, Known
<1>4. SpentInv'
   BY AbandonedMeans
      DEF server, jar, SpentInv, SpentInJar, SpentUnderway, GivenUp, Spent,
          Active
<1>5. RefusedAreUseless'
   BY <1>1 DEF server, RefusedAreUseless, Usable
<1> QED BY <1>1, <1>2, <1>3, <1>4, <1>5

LEMMA AnsweredStep ==
    ASSUME Inv, NEW c \in Calls, AnswerQuery(c) \/ RefuseReplay(c) \/ TimeOut(c)
    PROVE  Inv'
BY SettleStep DEF AnswerQuery, RefuseReplay, TimeOut, Settled

(* The POST carries the token of the jar. If that one is spent, nobody at   *)
(* the lock has it, for the lock is free: it was abandoned.                 *)
LEMMA EnterLockStep ==
    ASSUME Inv, NEW c \in Calls, EnterLock(c)
    PROVE  Inv'
<1> USE DEF Inv, EnterLock
<1>1. TypeOK'
   <2>1. c = rotation'[Tab[c]] /\ Tab[c] \in Tabs
      BY ApiClientAssumption
         DEF TypeOK, server, jar, CallInv, QueuedAreActive, Active
   <2> QED BY <2>1, ApiClientAssumption DEF TypeOK, Post, server, jar
<1>2. CallInv'
   BY ApiClientAssumption
      DEF TypeOK, CallInv, UnsentArePlain, RotationsWait, QueuedAreActive,
          OneHoldsTheLock, Active, Going
<1>3. TokenInv'
   BY DEF server, jar, TokenInv, KnownWereHeard, KnownWereIssued, Known
<1>4. SpentInv'
   BY AbandonedMeans, ApiClientAssumption
      DEF TypeOK, server, jar, SpentInv, SpentInJar, SpentUnderway, GivenUp,
          Spent, Active
<1>5. RefusedAreUseless'
   BY <1>1 DEF server, RefusedAreUseless, Usable
<1> QED BY <1>1, <1>2, <1>3, <1>4, <1>5

-----------------------------------------------------------------------------
(* The one spent is carried by the active rotation, which is at the lock, or *)
(* abandoned; the new one is in no jar yet.                                 *)
LEMMA RotateStep ==
    ASSUME Inv, NEW c \in Calls, Rotate(c)
    PROVE  Inv'
<1> USE DEF Inv, Rotate, Reply, Chain!Spend
<1>1. TypeOK'
   <2>1. kin' \in [Token -> Token] /\ status' \in [Token -> Chain!TokenStatus]
      BY DEF TypeOK, jar, Usable, Post, Chain!TokenStatus
   <2> QED BY <2>1 DEF TypeOK, Post, Chain!TokenStatus, jar
<1>2. CallInv'
   BY DEF CallInv, UnsentArePlain, RotationsWait, QueuedAreActive,
          OneHoldsTheLock, Active, Going
<1>3. TokenInv'
   BY DEF TypeOK, Token, jar, TokenInv, KnownWereHeard, KnownWereIssued, Known
<1>4. SpentInv'
   <2>1. SpentInJar'
      BY AbandonedMeans
         DEF TypeOK, jar, SpentInv, CallInv, SpentInJar, GivenUp,
             OneHoldsTheLock, Active
   <2>2. SpentUnderway'
      BY AbandonedMeans
         DEF TypeOK, SpentInv, CallInv, SpentUnderway, GivenUp, Spent,
             OneHoldsTheLock, Active
   <2> QED BY <2>1, <2>2 DEF SpentInv
<1>5. RefusedAreUseless'
   BY <1>1 DEF TypeOK, TokenInv, RefusedAreUseless, KnownWereIssued, Known, Usable
<1> QED BY <1>1, <1>2, <1>3, <1>4, <1>5

(* Tokens that go were issued, and those that stay keep their status.       *)
LEMMA RevokeSpentStep ==
    ASSUME Inv, NEW c \in Calls, RevokeSpent(c)
    PROVE  Inv'
<1> USE DEF Inv, RevokeSpent, Reply, Chain!Revoke
<1>1. TypeOK'
   BY DEF TypeOK, Post, Chain!TokenStatus, jar
<1>2. CallInv'
   BY DEF CallInv, UnsentArePlain, RotationsWait, QueuedAreActive,
          OneHoldsTheLock, Active, Going
<1>3. TokenInv'
   BY DEF Token, jar, TokenInv, KnownWereHeard, KnownWereIssued, Known
<1>4. SpentInv'
   BY AbandonedMeans
      DEF TypeOK, jar, SpentInv, SpentInJar, SpentUnderway, GivenUp, Spent,
          Active
<1>5. RefusedAreUseless'
   BY <1>1 DEF TypeOK, RefusedAreUseless, Usable
<1> QED BY <1>1, <1>2, <1>3, <1>4, <1>5

(* What is refused is not usable.                                           *)
LEMMA RefuseTokenStep ==
    ASSUME Inv, NEW c \in Calls, RefuseToken(c)
    PROVE  Inv'
<1> USE DEF Inv, RefuseToken, Reply
<1>1. TypeOK'
   BY DEF TypeOK, Post, jar
<1>2. CallInv'
   BY DEF CallInv, UnsentArePlain, RotationsWait, QueuedAreActive,
          OneHoldsTheLock, Active, Going
<1>3. TokenInv'
   BY DEF jar, TokenInv, KnownWereHeard, KnownWereIssued, Known
<1>4. SpentInv'
   BY AbandonedMeans, ApiClientAssumption
      DEF Token, jar, SpentInv, SpentInJar, SpentUnderway, GivenUp, Spent,
          Active
<1>5. RefusedAreUseless'
   BY <1>1 DEF RefusedAreUseless, Usable
<1> QED BY <1>1, <1>2, <1>3, <1>4, <1>5

(* The token of a login is new: nobody carries it.                          *)
LEMMA ServeLoginStep ==
    ASSUME Inv, NEW c \in Calls, ServeLogin(c)
    PROVE  Inv'
<1> USE DEF Inv, ServeLogin, Reply, Chain!StartFamily
<1>1. TypeOK'
   BY DEF TypeOK, Post, Chain!TokenStatus, jar
<1>2. CallInv'
   BY DEF TypeOK, CallInv, UnsentArePlain, RotationsWait, QueuedAreActive,
          OneHoldsTheLock, Active
<1>3. TokenInv'
   BY DEF TypeOK, Token, jar, TokenInv, KnownWereHeard, KnownWereIssued, Known
<1>4. SpentInv'
   BY AbandonedMeans
      DEF TypeOK, jar, SpentInv, SpentInJar, SpentUnderway, GivenUp, Spent,
          Active
<1>5. RefusedAreUseless'
   BY <1>1 DEF TypeOK, TokenInv, RefusedAreUseless, KnownWereIssued, Known, Usable
<1> QED BY <1>1, <1>2, <1>3, <1>4, <1>5

(* As for a reuse, with the token a logout carries.                         *)
LEMMA ServeLogoutStep ==
    ASSUME Inv, NEW c \in Calls, ServeLogout(c)
    PROVE  Inv'
<1> USE DEF Inv, ServeLogout, Reply, Chain!Revoke
<1>1. TypeOK'
   BY DEF TypeOK, Post, Chain!TokenStatus, jar
<1>2. CallInv'
   BY DEF CallInv, UnsentArePlain, RotationsWait, QueuedAreActive,
          OneHoldsTheLock, Active
<1>3. TokenInv'
   BY DEF Token, jar, TokenInv, KnownWereHeard, KnownWereIssued, Known
<1>4. SpentInv'
   BY AbandonedMeans
      DEF TypeOK, jar, SpentInv, SpentInJar, SpentUnderway, GivenUp, Spent,
          Active
<1>5. RefusedAreUseless'
   BY <1>1 DEF TypeOK, RefusedAreUseless, Usable
<1> QED BY <1>1, <1>2, <1>3, <1>4, <1>5

(* A failure leaves the tokens alone. The rotation that failed was active.  *)
LEMMA ServerFailsStep ==
    ASSUME Inv, NEW c \in Calls, ServerFails(c)
    PROVE  Inv'
<1> USE DEF Inv, ServerFails, Reply
<1>1. TypeOK'
   BY DEF TypeOK, Post, jar
<1>2. CallInv'
   BY DEF CallInv, UnsentArePlain, RotationsWait, QueuedAreActive,
          OneHoldsTheLock, Active, Going
<1>3. TokenInv'
   BY DEF jar, TokenInv, KnownWereHeard, KnownWereIssued, Known
<1>4. SpentInv'
   <2>1. SpentInJar'
      BY AbandonedMeans
         DEF jar, SpentInv, CallInv, SpentInJar, GivenUp, UnsentArePlain,
             Active
   <2>2. SpentUnderway'
      BY AbandonedMeans
         DEF SpentInv, CallInv, SpentUnderway, GivenUp, Spent, UnsentArePlain,
             Active
   <2> QED BY <2>1, <2>2 DEF SpentInv
<1>5. RefusedAreUseless'
   BY <1>1 DEF RefusedAreUseless, Usable
<1> QED BY <1>1, <1>2, <1>3, <1>4, <1>5

-----------------------------------------------------------------------------
(* The token heard replaces the one that was spent for it; it has not been  *)
(* spent, since only heard ones are.                                        *)
LEMMA ReplayCallsStep ==
    ASSUME Inv, NEW c \in Calls, ReplayCalls(c)
    PROVE  Inv'
<1> USE DEF Inv, ReplayCalls, EndRotation, Waiting
<1>1. TypeOK'
   BY DEF TypeOK, Phase, Post, Token, server
<1>2. CallInv'
   <2>1. UnsentArePlain'
      <3> SUFFICES ASSUME NEW d \in Calls
                   PROVE  /\ phase'[d] = "idle" => post'[d] = "none" /\ kind[d] = "query"
                          /\ phase'[d] = "sent" /\ kind[d] = "query" =>
                                post'[d] = "none" \/ (post'[d] = "done" /\ retried'[d])
                          /\ phase'[d] = "waiting" =>
                                /\ kind[d] = "query"
                                /\ post'[d] = "none" \/ rotation'[Tab'[d]] = d
         BY DEF UnsentArePlain, Active
      <3>1. c \in Waiting(Tab[c])
         BY ApiClientAssumption DEF CallInv, RotationsWait
      <3>2. d \in Waiting(Tab[c]) /\ d # c => post[d] = "none"
         BY DEF CallInv, UnsentArePlain, Active
      <3>3. Active(d) /\ d # c => Active(d)'
         BY DEF TypeOK, Active
      <3> QED BY <3>1, <3>2, <3>3 DEF TypeOK, CallInv, UnsentArePlain, Active
   <2>2. RotationsWait'
      BY ApiClientAssumption DEF TypeOK, CallInv, RotationsWait
   <2>3. QueuedAreActive'
      BY DEF CallInv, QueuedAreActive, Active
   <2>4. OneHoldsTheLock'
      BY ApiClientAssumption DEF TypeOK, CallInv, OneHoldsTheLock, Active
   <2> QED BY <2>1, <2>2, <2>3, <2>4 DEF CallInv
<1>3. TokenInv'
   <2>1. KnownWereHeard'
      BY ApiClientAssumption DEF TypeOK, server, TokenInv, KnownWereHeard, Known
   <2>2. KnownWereIssued'
      BY ApiClientAssumption
         DEF Token, server, TokenInv, CallInv, KnownWereIssued, Known,
             RotationsWait
   <2> QED BY <2>1, <2>2 DEF TokenInv
<1>4. SpentInv'
   <2>1. SpentInJar'
      BY DEF server, TokenInv, SpentInJar, KnownWereHeard
   <2>2. SpentUnderway'
      BY ApiClientAssumption
         DEF SpentInv, CallInv, SpentUnderway, OneHoldsTheLock, Active
   <2> QED BY <2>1, <2>2 DEF SpentInv
<1>5. RefusedAreUseless'
   BY <1>1 DEF server, RefusedAreUseless, Usable
<1> QED BY <1>1, <1>2, <1>3, <1>4, <1>5

(* The rotation that is given up was refused or has failed: its token is not *)
(* spent for an answer under way.                                           *)
LEMMA GiveUpCallsStep ==
    ASSUME Inv, NEW c \in Calls, GiveUpCalls(c)
    PROVE  Inv'
<1> USE DEF Inv, GiveUpCalls, EndRotation, Waiting, Settle, Outcome
<1>1. TypeOK'
   BY DEF TypeOK, Phase, Settled, Post, server, jar
<1>2. CallInv'
   BY ApiClientAssumption
      DEF TypeOK, CallInv, UnsentArePlain, RotationsWait, QueuedAreActive,
          OneHoldsTheLock, Active
<1>3. TokenInv'
   BY ApiClientAssumption
      DEF Token, server, jar, TokenInv, KnownWereHeard, KnownWereIssued, Known
<1>4. SpentInv'
   <2>1. SpentInJar'
      BY AbandonedMeans, ApiClientAssumption
         DEF server, jar, SpentInv, CallInv, SpentInJar, GivenUp,
             OneHoldsTheLock, Active
   <2>2. SpentUnderway'
      BY ApiClientAssumption
         DEF SpentInv, CallInv, SpentUnderway, OneHoldsTheLock, Active
   <2> QED BY <2>1, <2>2 DEF SpentInv
<1>5. RefusedAreUseless'
   BY <1>1 DEF server, RefusedAreUseless, Usable
<1> QED BY <1>1, <1>2, <1>3, <1>4, <1>5

(* The rotation that timed out is abandoned, with the token it may have     *)
(* spent.                                                                   *)
LEMMA TimeOutRotationStep ==
    ASSUME Inv, NEW c \in Calls, TimeOutRotation(c)
    PROVE  Inv'
<1> USE DEF Inv, TimeOutRotation, EndRotation, Waiting, Settle, Outcome
<1>1. TypeOK'
   BY DEF TypeOK, Phase, Settled, server, jar
<1>2. CallInv'
   BY ApiClientAssumption
      DEF TypeOK, CallInv, UnsentArePlain, RotationsWait, QueuedAreActive,
          OneHoldsTheLock, Active
<1>3. TokenInv'
   BY DEF server, jar, TokenInv, KnownWereHeard, KnownWereIssued, Known
<1>4. SpentInv'
   <2>1. SpentInJar'
      BY AbandonedMeans, ApiClientAssumption
         DEF TypeOK, server, jar, SpentInv, CallInv, SpentInJar, GivenUp,
             RotationsWait, Active
   <2>2. SpentUnderway'
      BY ApiClientAssumption
         DEF TypeOK, SpentInv, CallInv, SpentUnderway, OneHoldsTheLock, Active
   <2> QED BY <2>1, <2>2 DEF SpentInv
<1>5. RefusedAreUseless'
   BY <1>1 DEF server, RefusedAreUseless, Usable
<1> QED BY <1>1, <1>2, <1>3, <1>4, <1>5

(* A login brings a token that is not spent, a logout none; no rotation is  *)
(* disturbed.                                                               *)
LEMMA HearSignInOrOutStep ==
    ASSUME Inv, NEW c \in Calls, HearSignInOrOut(c)
    PROVE  Inv'
<1> USE DEF Inv, HearSignInOrOut, Settle
<1>1. TypeOK'
   <2>1. phase' \in [Calls -> Phase]
      BY DEF TypeOK, Settled, Phase
   <2>2. refresh' \in Token \cup {NoToken} /\ access' \in BOOLEAN
      BY DEF TypeOK, Token, jar
   <2>3. post' \in [Calls -> Post] /\ carried' \in [Calls -> Token \cup {NoToken}]
      BY DEF TypeOK, Post
   <2>4. retried' \in [Calls -> BOOLEAN] /\ bearer' \in [Calls -> BOOLEAN]
      BY DEF TypeOK, server
   <2> QED BY <2>1, <2>2, <2>3, <2>4 DEF TypeOK, server
<1>2. CallInv'
   BY DEF TypeOK, CallInv, UnsentArePlain, RotationsWait, QueuedAreActive,
          OneHoldsTheLock, Active
<1>3. TokenInv'
   BY ApiClientAssumption
      DEF TypeOK, Token, server, jar, TokenInv, KnownWereHeard,
          KnownWereIssued, Known
<1>4. SpentInv'
   <2>1. SpentInJar'
      BY AbandonedMeans, ApiClientAssumption
         DEF Token, server, jar, SpentInv, TokenInv, SpentInJar, GivenUp,
             KnownWereHeard, Active
   <2>2. SpentUnderway'
      <3>1. \A d \in Calls : Active(d)' => Active(d) /\ d # c
         BY ApiClientAssumption DEF CallInv, RotationsWait, Active
      <3>2. \A d \in Calls : d # c => carried'[d] = carried[d] /\ post'[d] = post[d]
         OBVIOUS
      <3>3. \A d \in Calls : GivenUp(d) => GivenUp(d)' /\ d # c
         BY DEF GivenUp, Active
      <3>4. \A d \in Calls : d # c => (Spent(carried[d])' <=> Spent(carried[d]))
         BY <3>2 DEF server, Spent
      <3> QED BY <3>1, <3>2, <3>3, <3>4, AbandonedMeans
                 DEF server, SpentInv, SpentUnderway
   <2> QED BY <2>1, <2>2 DEF SpentInv
<1>5. RefusedAreUseless'
   BY <1>1 DEF server, RefusedAreUseless, Usable
<1> QED BY <1>1, <1>2, <1>3, <1>4, <1>5

(* The rotation of a page that goes away is abandoned, or was never sent.   *)
LEMMA ReloadStep ==
    ASSUME Inv, NEW w \in Tabs, Reload(w)
    PROVE  Inv'
<1> USE DEF Inv, Reload, Unsettled, Settle
<1>1. TypeOK'
   BY DEF TypeOK, Phase, Settled, Post, server, jar
<1>2. CallInv'
   BY ApiClientAssumption
      DEF TypeOK, CallInv, UnsentArePlain, RotationsWait, QueuedAreActive,
          OneHoldsTheLock, Active
<1>3. TokenInv'
   BY DEF server, jar, TokenInv, KnownWereHeard, KnownWereIssued, Known
<1>4. SpentInv'
   <2>1. SpentInJar'
      BY AbandonedMeans, ApiClientAssumption
         DEF TypeOK, server, jar, SpentInv, CallInv, SpentInJar, GivenUp,
             RotationsWait, Active
   <2>2. SpentUnderway'
      BY AbandonedMeans, ApiClientAssumption
         DEF server, SpentInv, SpentUnderway, GivenUp, Spent, Active
   <2> QED BY <2>1, <2>2 DEF SpentInv
<1>5. RefusedAreUseless'
   BY <1>1 DEF server, RefusedAreUseless, Usable
<1> QED BY <1>1, <1>2, <1>3, <1>4, <1>5

-----------------------------------------------------------------------------
(* Access tokens are of no rotation.                                        *)
LEMMA ExpireAccessStep ==
    ASSUME Inv, ExpireAccess
    PROVE  Inv'
<1> USE DEF Inv, ExpireAccess
<1>1. TypeOK'
   <2>1. bearer' \in [Calls -> BOOLEAN]
      <3>1. CASE bearer' = bearer
         BY <3>1 DEF TypeOK
      <3>2. CASE bearer' = [c \in Calls |-> FALSE]
         BY <3>2
      <3> QED BY <3>1, <3>2
   <2>2. UNCHANGED <<kind, phase, retried, post, carried, rotation, holder, refresh,
                   status, kin, expired>>
      BY DEF server
   <2>3. access' \in BOOLEAN
      OBVIOUS
   <2> HIDE DEF ExpireAccess
   <2> QED BY <2>1, <2>2, <2>3 DEF TypeOK
<1>2. CallInv'
   BY DEF CallInv, UnsentArePlain, RotationsWait, QueuedAreActive,
          OneHoldsTheLock, Active
<1>3. TokenInv'
   BY DEF server, TokenInv, KnownWereHeard, KnownWereIssued, Known
<1>4. SpentInv'
   BY AbandonedMeans
      DEF server, SpentInv, SpentInJar, SpentUnderway, GivenUp, Spent, Active
<1>5. RefusedAreUseless'
   BY <1>1 DEF server, RefusedAreUseless, Usable
<1> QED BY <1>1, <1>2, <1>3, <1>4, <1>5

(* A token that expires was live, and the cookie of it goes.                *)
LEMMA ExpireRefreshStep ==
    ASSUME Inv, NEW t \in Token, ExpireRefresh(t)
    PROVE  Inv'
<1> USE DEF Inv, ExpireRefresh
<1>1. TypeOK'
   BY DEF TypeOK
<1>2. CallInv'
   BY DEF CallInv, UnsentArePlain, RotationsWait, QueuedAreActive,
          OneHoldsTheLock, Active
<1>3. TokenInv'
   BY ApiClientAssumption
      DEF Token, TokenInv, KnownWereHeard, KnownWereIssued, Known
<1>4. SpentInv'
   BY AbandonedMeans, ApiClientAssumption
      DEF Token, SpentInv, SpentInJar, SpentUnderway, GivenUp, Spent, Active
<1>5. RefusedAreUseless'
   BY <1>1 DEF RefusedAreUseless, Usable
<1> QED BY <1>1, <1>2, <1>3, <1>4, <1>5

-----------------------------------------------------------------------------
LEMMA InvInit == Init => Inv
<1> SUFFICES ASSUME Init PROVE Inv
    OBVIOUS
<1> USE ApiClientAssumption DEF Init, Token
<1>1. TypeOK
    BY DEF TypeOK, Kind, Phase, Settled, Post, Chain!TokenStatus
<1>2. CallInv
    BY DEF CallInv, UnsentArePlain, RotationsWait, QueuedAreActive,
           OneHoldsTheLock, Active
<1>3. TokenInv
    BY DEF TokenInv, KnownWereHeard, KnownWereIssued, Known
<1>4. SpentInv
    BY DEF SpentInv, SpentInJar, SpentUnderway
<1>5. RefusedAreUseless
    BY DEF RefusedAreUseless
<1> QED
    BY <1>1, <1>2, <1>3, <1>4, <1>5 DEF Inv

LEMMA StutterStep == ASSUME Inv, UNCHANGED vars PROVE Inv'
<1> USE DEF vars, server, jar
<1>1. TypeOK'
    BY DEF Inv, TypeOK
<1>2. CallInv'
    BY DEF Inv, CallInv, UnsentArePlain, RotationsWait, QueuedAreActive,
           OneHoldsTheLock, Active
<1>3. TokenInv'
    BY DEF Inv, TokenInv, KnownWereHeard, KnownWereIssued, Known
<1>4. SpentInv'
    BY DEF Inv, SpentInv, SpentInJar, SpentUnderway, Abandoned, Spent, Active
<1>5. RefusedAreUseless'
    BY DEF Inv, RefusedAreUseless, Usable
<1> QED
    BY <1>1, <1>2, <1>3, <1>4, <1>5 DEF Inv

LEMMA InvStep == Inv /\ [Next]_vars => Inv'
<1> SUFFICES ASSUME Inv, [Next]_vars PROVE Inv'
    OBVIOUS
<1>1. ASSUME NEW c \in Calls, Query(c) \/ \E k \in Kind : SignInOrOut(c, k)
      PROVE  Inv'
    BY <1>1, QueryStep, SignInOrOutStep
<1>2. ASSUME NEW c \in Calls, Proceed(c)
      PROVE  Inv'
    BY <1>2, AnsweredStep, RefuseQueryStep, EnterLockStep,
       ReplayCallsStep, GiveUpCallsStep, TimeOutRotationStep, HearSignInOrOutStep
       DEF Proceed
<1>3. ASSUME NEW c \in Calls, Serve(c)
      PROVE  Inv'
    BY <1>3, RotateStep, RevokeSpentStep, RefuseTokenStep, ServeLoginStep, ServeLogoutStep,
       ServerFailsStep DEF Serve
<1>4. CASE \/ \E w \in Tabs : Reload(w)
           \/ ExpireAccess
           \/ \E t \in Token : ExpireRefresh(t)
    BY <1>4, ReloadStep, ExpireAccessStep, ExpireRefreshStep
<1>5. CASE UNCHANGED vars
    BY <1>5, StutterStep
<1> QED
    BY <1>1, <1>2, <1>3, <1>4, <1>5 DEF Next

(* The invariant holds in every behaviour.                                  *)
THEOREM InvHolds == Spec => []Inv
<1>1. Inv /\ [Next]_vars => Inv'
    BY InvStep
<1> QED
    BY InvInit, <1>1, PTL DEF Spec

(* Every variable keeps its type; the lock is held by a rotation some tab   *)
(* is waiting for.                                                          *)
THEOREM TypeCorrect == Spec => []TypeOK
<1>1. Inv => TypeOK
    BY DEF Inv
<1> QED
    BY InvHolds, <1>1, PTL

(* A refresh is taken for theft (refresh_session's reuse) only if this      *)
(* browser gave up on another one with the same token.                      *)
THEOREM TheftIsALostAnswer == Spec => OnlyLostAnswersLookLikeTheft
<1>1. ASSUME Inv, NEW c \in Calls, TakenForTheft(c)
      PROVE  carried[c] \in Abandoned
    <2>1. CASE Active(c)
        BY <1>1, <2>1 DEF Inv, SpentInv, SpentUnderway, TakenForTheft
    <2>2. CASE ~Active(c)
        BY <1>1, <2>2 DEF Abandoned, Active, TakenForTheft
    <2> QED
        BY <2>1, <2>2
<1>2. Inv /\ [Next]_vars =>
         [\A c \in Calls : TakenForTheft(c) => carried[c] \in Abandoned]_vars
    BY <1>1
<1> QED
    BY InvHolds, <1>2, PTL DEF Spec, OnlyLostAnswersLookLikeTheft

(* The calls that one step ends as signed out waited for a rotation that    *)
(* the server refused.                                                      *)
LEMMA SignedOutWasRefused ==
    ASSUME Inv, Next, NEW c \in Calls, phase[c] = "waiting", phase'[c] = "anonymous"
    PROVE  LET r == rotation[Tab[c]]
           IN  r \in Calls /\ kind[r] = "query" /\ post[r] = "refused"
<1> USE DEF Inv, TypeOK
<1>1. ASSUME NEW d \in Calls, GiveUpCalls(d)
      PROVE  rotation[Tab[c]] = d /\ kind[d] = "query" /\ post[d] = "refused"
    <2>1. c \in Waiting(Tab[d]) /\ Outcome(post[d]) = "anonymous"
        BY <1>1 DEF GiveUpCalls, Settle
    <2>2. rotation[Tab[c]] = d /\ post[d] = "refused"
        BY <1>1, <2>1 DEF GiveUpCalls, Waiting, Outcome
    <2> QED
        BY <2>2, ApiClientAssumption DEF CallInv, RotationsWait
<1>2. ASSUME NEW d \in Calls, Proceed(d), ~GiveUpCalls(d)
      PROVE  FALSE
    <2> USE <1>2
    <2>1. ~AnswerQuery(d) /\ ~RefuseReplay(d) /\ ~TimeOut(d) /\ ~HearSignInOrOut(d)
        BY DEF AnswerQuery, RefuseReplay, TimeOut, HearSignInOrOut, Settle
    <2>2. ~RefuseQuery(d) /\ ~EnterLock(d) /\ ~ReplayCalls(d)
        BY DEF RefuseQuery, EnterLock, ReplayCalls
    <2>3. ~TimeOutRotation(d)
        BY DEF TimeOutRotation, Settle, Outcome
    <2> QED
        BY <2>1, <2>2, <2>3 DEF Proceed
<1>3. ASSUME NEW d \in Calls, Query(d) \/ \E k \in Kind : SignInOrOut(d, k)
      PROVE  FALSE
    BY <1>3 DEF Query, SignInOrOut
<1>4. ASSUME NEW d \in Calls, Serve(d)
      PROVE  FALSE
    BY <1>4 DEF Serve, Rotate, RevokeSpent, RefuseToken, ServeLogin, ServeLogout,
                ServerFails, Reply
<1>5. ASSUME \/ \E w \in Tabs : Reload(w)
             \/ ExpireAccess
             \/ \E t \in Token : ExpireRefresh(t)
      PROVE  FALSE
    BY <1>5 DEF Reload, Settle, ExpireAccess, ExpireRefresh
<1> QED
    BY <1>1, <1>2, <1>3, <1>4, <1>5 DEF Next

(* A page is told that its session is gone (rotateSessionOnce's refusal)    *)
(* only if the token that was sent for it is of no use any more.            *)
THEOREM SignedOutByTheServer == Spec => OnlyTheServerSignsOut
<1> DEFINE Told == \A c \in Calls : phase[c] = "waiting" /\ phase'[c] = "anonymous" =>
                      LET t == carried[rotation[Tab[c]]]
                      IN  ~Usable(t)
<1>1. Inv /\ [Next]_vars => [Told]_vars
    BY SignedOutWasRefused DEF Inv, RefusedAreUseless
<1> QED
    BY InvHolds, <1>1, PTL DEF Spec, OnlyTheServerSignsOut
=============================================================================
