------------------------------ MODULE ApiClient ------------------------------
(***************************************************************************)
(* The API client of the frontend (fe:lib/api/client.ts) in the tabs of    *)
(* one browser, which share a cookie jar, against the endpoints that set   *)
(* and clear the cookies (auth/routes.py).  A call refused with            *)
(* invalid_session waits for one rotation of its tab and is replayed;      *)
(* rotations of all tabs take turns at a browser lock.                     *)
(*                                                                         *)
(* The server is the abstract token store TokenChain, which Sessions       *)
(* implements.  A call starts at most one rotation, so the rotation, and   *)
(* the token that a rotation or a login is answered with, have its name.   *)
(***************************************************************************)
CONSTANTS Calls,    \* the calls that the pages of the browser make
          Signers,  \* the calls that may sign in or out: all, but for bounds
          Tabs,
          Tab,      \* Tab[c]: the tab that c is made in
          Held,     \* the refresh token that the browser starts with
          NoToken,  \* the jar has no refresh cookie
          NoCall    \* no rotation, or nobody at the lock

ASSUME ApiClientAssumption ==
    /\ Signers \subseteq Calls
    /\ Tab \in [Calls -> Tabs]
    /\ Held \notin Calls
    /\ NoToken \notin Calls \cup {Held}
    /\ NoCall \notin Calls

VARIABLES kind,      \* kind[c]: what the page asked for
          phase,     \* phase[c]: how far c has come, for the page
          retried,   \* retried[c]: c was sent a second time
          bearer,    \* bearer[c]: c was sent with a valid access token
          post,      \* post[c]: c's request to an endpoint that deals with tokens
          carried,   \* carried[c]: the refresh token that request carried
          rotation,  \* rotation[w]: refreshInFlight of tab w
          holder,    \* the rotation that holds the browser lock
          access,    \* the jar has an access token that has not expired
          refresh,   \* the refresh token in the jar
          status,    \* status[t], kin[t]: the tokens on the server
          kin,
          expired    \* the tokens whose expires_at has passed

server == <<status, kin, expired>>
jar == <<access, refresh>>
vars == <<kind, phase, retried, bearer, post, carried, rotation, holder,
          jar, server>>

Token == Calls \cup {Held}
Chain == INSTANCE TokenChain WITH Token <- Token

Kind == {"query", "login", "logout"}
Settled == {"ok", "rejected", "anonymous", "unreachable", "aborted"}
Phase == {"idle", "sent", "waiting"} \cup Settled
Post == {"none", "queued", "sent", "granted", "refused", "failed", "done"}

(* The lock is held by the rotation some tab is waiting for. *)
TypeOK ==
    /\ kind \in [Calls -> Kind]
    /\ phase \in [Calls -> Phase]
    /\ retried \in [Calls -> BOOLEAN]
    /\ bearer \in [Calls -> BOOLEAN]
    /\ post \in [Calls -> Post]
    /\ carried \in [Calls -> Token \cup {NoToken}]
    /\ rotation \in [Tabs -> Calls \cup {NoCall}]
    /\ holder \in {rotation[w] : w \in Tabs} \cup {NoCall}
    /\ access \in BOOLEAN
    /\ refresh \in Token \cup {NoToken}
    /\ status \in [Token -> Chain!TokenStatus]
    /\ kin \in [Token -> Token]
    /\ expired \subseteq Token

-----------------------------------------------------------------------------
(* The browser was closed with a session open, and is opened again. *)
Init ==
    /\ kind = [c \in Calls |-> "query"]
    /\ phase = [c \in Calls |-> "idle"]
    /\ retried = [c \in Calls |-> FALSE]
    /\ bearer = [c \in Calls |-> FALSE]
    /\ post = [c \in Calls |-> "none"]
    /\ carried = [c \in Calls |-> NoToken]
    /\ rotation = [w \in Tabs |-> NoCall]
    /\ holder = NoCall
    /\ access = TRUE
    /\ refresh = Held
    /\ status = [t \in Token |-> IF t = Held THEN "live" ELSE "unissued"]
    /\ kin = [t \in Token |-> t]
    /\ expired = {}

-----------------------------------------------------------------------------
(* A page calls the API; the browser attaches the cookies of the moment.    *)
(* The refresh cookie goes to /auth only, where logout reads it.            *)
Query(c) ==
    /\ phase[c] = "idle"
    /\ phase' = [phase EXCEPT ![c] = "sent"]
    /\ bearer' = [bearer EXCEPT ![c] = access]
    /\ UNCHANGED <<kind, retried, post, carried, rotation, holder, jar, server>>

SignInOrOut(c, k) ==
    /\ c \in Signers /\ k \in {"login", "logout"}
    /\ phase[c] = "idle"
    /\ kind' = [kind EXCEPT ![c] = k]
    /\ phase' = [phase EXCEPT ![c] = "sent"]
    /\ post' = [post EXCEPT ![c] = "sent"]
    /\ carried' = [carried EXCEPT ![c] = IF k = "logout" THEN refresh ELSE NoToken]
    /\ UNCHANGED <<retried, bearer, rotation, holder, jar, server>>

(* The page is told how the calls of C ended, and they are over. *)
Settle(C, outcome) ==
    /\ phase' = [c \in Calls |-> IF c \in C THEN outcome ELSE phase[c]]
    /\ retried' = [c \in Calls |-> retried[c] /\ c \notin C]
    /\ bearer' = [c \in Calls |-> bearer[c] /\ c \notin C]

(* A response other than invalid_session reaches the page. *)
AnswerQuery(c) ==
    /\ kind[c] = "query" /\ phase[c] = "sent"
    /\ bearer[c]
    /\ Settle({c}, "ok")
    /\ UNCHANGED <<kind, post, carried, rotation, holder, jar, server>>

(* shouldRotateAndReplay: invalid_session, on a call not yet replayed, joins *)
(* the rotation of the tab or starts one.                                    *)
RefuseQuery(c) ==
    /\ kind[c] = "query" /\ phase[c] = "sent"
    /\ ~bearer[c] /\ ~retried[c]
    /\ phase' = [phase EXCEPT ![c] = "waiting"]
    /\ IF rotation[Tab[c]] = NoCall
       THEN /\ rotation' = [rotation EXCEPT ![Tab[c]] = c]
            /\ post' = [post EXCEPT ![c] = "queued"]
       ELSE UNCHANGED <<rotation, post>>
    /\ UNCHANGED <<kind, retried, bearer, carried, holder, jar, server>>

RefuseReplay(c) ==
    /\ kind[c] = "query" /\ phase[c] = "sent"
    /\ ~bearer[c] /\ retried[c]
    /\ Settle({c}, "anonymous")
    /\ UNCHANGED <<kind, post, carried, rotation, holder, jar, server>>

(* Mutant: without navigator.locks. *)
EnterAtOnce(c) ==
    /\ post[c] = "queued"
    /\ holder' = c
    /\ post' = [post EXCEPT ![c] = "sent"]
    /\ carried' = [carried EXCEPT ![c] = refresh]
    /\ UNCHANGED <<kind, phase, retried, bearer, rotation, jar, server>>

(* navigator.locks.request: the POST goes out with the lock, and carries    *)
(* the refresh cookie of that moment.                                       *)
EnterLock(c) ==
    /\ post[c] = "queued"
    /\ holder = NoCall
    /\ holder' = c
    /\ post' = [post EXCEPT ![c] = "sent"]
    /\ carried' = [carried EXCEPT ![c] = refresh]
    /\ UNCHANGED <<kind, phase, retried, bearer, rotation, jar, server>>

-----------------------------------------------------------------------------
Reply(c, answer) ==
    /\ post[c] = "sent"
    /\ post' = [post EXCEPT ![c] = answer]
    /\ UNCHANGED <<kind, phase, retried, bearer, carried, rotation, holder,
                   jar, expired>>

Stored(t) == t # NoToken /\ status[t] \in {"live", "burnt"}
Spent(t) == t # NoToken /\ status[t] = "burnt"
Usable(t) == t # NoToken /\ status[t] = "live" /\ t \notin expired

(* refresh_session: a usable token is spent for its successor; a spent one   *)
(* takes its family with it; any other finds nothing or has expired.         *)
Rotate(c) ==
    /\ kind[c] = "query" /\ Reply(c, "granted")
    /\ Usable(carried[c])
    /\ Chain!Spend(carried[c], c)

RevokeSpent(c) ==
    /\ kind[c] = "query" /\ Reply(c, "refused")
    /\ Spent(carried[c])
    /\ \E S \in SUBSET Token :
          carried[c] \in S /\ Chain!Revoke(kin[carried[c]], S)

RefuseToken(c) ==
    /\ kind[c] = "query" /\ Reply(c, "refused")
    /\ ~Usable(carried[c]) /\ ~Spent(carried[c])
    /\ UNCHANGED <<status, kin>>

(* login_user: a token of a new family, or invalid_credentials. *)
ServeLogin(c) ==
    /\ kind[c] = "login"
    /\ \/ Reply(c, "granted") /\ Chain!StartFamily(c)
       \/ Reply(c, "refused") /\ UNCHANGED <<status, kin>>

(* logout_user: the family of the token goes, if it is found. *)
ServeLogout(c) ==
    /\ kind[c] = "logout" /\ Reply(c, "granted")
    /\ IF Stored(carried[c])
       THEN \E S \in SUBSET Token :
               carried[c] \in S /\ Chain!Revoke(kin[carried[c]], S)
       ELSE UNCHANGED <<status, kin>>

(* A 500, or an answer of a proxy: nothing was committed.  Where nobody      *)
(* listens any more it is as if the request had never arrived.               *)
ServerFails(c) ==
    /\ phase[c] = "sent" \/ rotation[Tab[c]] = c
    /\ Reply(c, "failed")
    /\ UNCHANGED <<status, kin>>

Serve(c) ==
    \/ Rotate(c) \/ RevokeSpent(c) \/ RefuseToken(c)
    \/ ServeLogin(c) \/ ServeLogout(c) \/ ServerFails(c)

-----------------------------------------------------------------------------
Waiting(w) == {c \in Calls : Tab[c] = w /\ phase[c] = "waiting"}

(* The promise of tab w settles: refreshInFlight is cleared and the lock     *)
(* released, before any call that awaits the promise goes on.                *)
EndRotation(w) ==
    /\ rotation' = [rotation EXCEPT ![w] = NoCall]
    /\ holder' = NoCall

(* The cookies of a granted rotation are set by the time its answer is       *)
(* heard, and every call that waited for it is sent again.                   *)
ReplayCalls(c) ==
    /\ rotation[Tab[c]] = c
    /\ post[c] = "granted"
    /\ EndRotation(Tab[c])
    /\ post' = [post EXCEPT ![c] = "done"]
    /\ carried' = [carried EXCEPT ![c] = NoToken]
    /\ access' = TRUE
    /\ refresh' = c
    /\ phase' = [d \in Calls |-> IF d \in Waiting(Tab[c]) THEN "sent" ELSE phase[d]]
    /\ retried' = [d \in Calls |-> retried[d] \/ d \in Waiting(Tab[c])]
    /\ bearer' = [d \in Calls |-> bearer[d] \/ d \in Waiting(Tab[c])]
    /\ UNCHANGED <<kind, server>>

(* Mutant: every failed rotation is taken for a refused one. *)
OutcomeOfAnyFailure(answer) == "anonymous"

(* After a refused rotation a call ends with the invalid_session it was      *)
(* refused with, after any other with the rotation's own error.              *)
Outcome(answer) == IF answer = "refused" THEN "anonymous" ELSE "unreachable"

GiveUpCalls(c) ==
    /\ rotation[Tab[c]] = c
    /\ post[c] \in {"refused", "failed"}
    /\ EndRotation(Tab[c])
    /\ post' = [post EXCEPT ![c] = "done"]
    /\ carried' = [carried EXCEPT ![c] = NoToken]
    /\ Settle(Waiting(Tab[c]), Outcome(post[c]))
    /\ UNCHANGED <<kind, jar, server>>

(* Mutant: the lock is not released when the call inside it fails. *)
TimeOutInsideLock(c) ==
    /\ rotation[Tab[c]] = c /\ holder = c
    /\ rotation' = [rotation EXCEPT ![Tab[c]] = NoCall]
    /\ Settle(Waiting(Tab[c]), "unreachable")
    /\ UNCHANGED <<kind, post, carried, holder, jar, server>>

(* No answer within the timeout, or none that can arrive.  The request may   *)
(* have been served, be served later, or never.                              *)
TimeOutRotation(c) ==
    /\ rotation[Tab[c]] = c /\ holder = c
    /\ EndRotation(Tab[c])
    /\ Settle(Waiting(Tab[c]), Outcome("failed"))
    /\ UNCHANGED <<kind, post, carried, jar, server>>

(* A login or a logout is answered: the cookies are set, or cleared. *)
HearSignInOrOut(c) ==
    /\ kind[c] \in {"login", "logout"} /\ phase[c] = "sent"
    /\ post[c] \in {"granted", "refused", "failed"}
    /\ post' = [post EXCEPT ![c] = "done"]
    /\ carried' = [carried EXCEPT ![c] = NoToken]
    /\ Settle({c}, CASE post[c] = "granted" -> "ok"
                     [] post[c] = "refused" -> "rejected"
                     [] post[c] = "failed" -> "unreachable")
    /\ IF post[c] = "granted"
       THEN /\ access' = (kind[c] = "login")
            /\ refresh' = IF kind[c] = "login" THEN c ELSE NoToken
       ELSE UNCHANGED jar
    /\ UNCHANGED <<kind, rotation, holder, server>>

TimeOut(c) ==
    /\ phase[c] = "sent"
    /\ Settle({c}, "unreachable")
    /\ UNCHANGED <<kind, post, carried, rotation, holder, jar, server>>

Unsettled(w) == {c \in Calls : Tab[c] = w /\ phase[c] \in {"sent", "waiting"}}

(* Mutant: a lock that outlives the page it was granted to. *)
ReloadKeepingLock(w) ==
    /\ Unsettled(w) # {}
    /\ Settle(Unsettled(w), "aborted")
    /\ rotation' = [rotation EXCEPT ![w] = NoCall]
    /\ post' = [c \in Calls |->
                  IF Tab[c] = w /\ post[c] = "queued" THEN "none" ELSE post[c]]
    /\ UNCHANGED <<kind, carried, holder, jar, server>>

(* The page is closed or reloaded: its calls are cut off, its module state   *)
(* and its hold on the lock are gone, its requests may be served all the same*)
Reload(w) ==
    /\ Unsettled(w) # {}
    /\ Settle(Unsettled(w), "aborted")
    /\ rotation' = [rotation EXCEPT ![w] = NoCall]
    /\ holder' = IF holder = rotation[w] THEN NoCall ELSE holder
    /\ post' = [c \in Calls |->
                  IF Tab[c] = w /\ post[c] = "queued" THEN "none" ELSE post[c]]
    /\ UNCHANGED <<kind, carried, jar, server>>

-----------------------------------------------------------------------------
(* Fifteen minutes, and seven days; the cookies last as long as the tokens. *)
(* An access token on its way may still be checked in time, or too late.    *)
ExpireAccess ==
    /\ access
    /\ access' = FALSE
    /\ bearer' \in {bearer, [c \in Calls |-> FALSE]}
    /\ UNCHANGED <<kind, phase, retried, post, carried, rotation,
                   holder, refresh, server>>

ExpireRefresh(t) ==
    /\ ~access
    /\ status[t] = "live" /\ t \notin expired
    /\ expired' = expired \cup {t}
    /\ refresh' = IF refresh = t THEN NoToken ELSE refresh
    /\ UNCHANGED <<kind, phase, retried, bearer, post, carried, rotation,
                   holder, access, status, kin>>

(* What the tab of c does next. *)
Proceed(c) ==
    \/ AnswerQuery(c) \/ RefuseQuery(c) \/ RefuseReplay(c) \/ TimeOut(c)
    \/ EnterLock(c) \/ ReplayCalls(c) \/ GiveUpCalls(c) \/ TimeOutRotation(c)
    \/ HearSignInOrOut(c)

Next ==
    \/ \E c \in Calls :
          \/ Query(c)
          \/ \E k \in Kind : SignInOrOut(c, k)
          \/ Proceed(c)
          \/ Serve(c)
    \/ \E w \in Tabs : Reload(w)
    \/ ExpireAccess
    \/ \E t \in Token : ExpireRefresh(t)

Spec == Init /\ [][Next]_vars

(* An open tab runs, axios gives up after its timeout, and the browser       *)
(* grants a free lock.  The server may never answer.                         *)
FairSpec == Spec /\ \A c \in Calls : WF_vars(Proceed(c))

-----------------------------------------------------------------------------
(* The refresh tokens of rotations nobody waits for any more, though the     *)
(* server may have served them or may yet.                                   *)
Abandoned ==
    {carried[c] : c \in {d \in Calls :
        /\ kind[d] = "query"
        /\ post[d] \in {"sent", "granted"}
        /\ rotation[Tab[d]] # d}}

TakenForTheft(c) ==
    /\ kind[c] = "query"
    /\ post[c] = "sent" /\ post'[c] = "refused"
    /\ Spent(carried[c])

(* The server takes a refresh of this browser for theft only if the browser  *)
(* gave up on a refresh with the same token: however the calls of all tabs,  *)
(* logins and logouts overlap, two refreshes never carry one token           *)
(* (fe:lib/api/client.ts:42).                                                *)
OnlyLostAnswersLookLikeTheft ==
    [][\A c \in Calls : TakenForTheft(c) => carried[c] \in Abandoned]_vars

(* A page is told that its session is gone only if the token that was sent   *)
(* for it is of no use any more: "A refresh that never arrived or failed on  *)
(* the server says nothing" (fe:lib/api/client.ts:52).                       *)
OnlyTheServerSignsOut ==
    [][\A c \in Calls : phase[c] = "waiting" /\ phase'[c] = "anonymous" =>
         LET t == carried[rotation[Tab[c]]]
         IN  ~Usable(t)]_vars

(* Every call ends for the page that made it, whatever the server and the    *)
(* other tabs do.                                                            *)
EveryCallSettles ==
    \A c \in Calls : phase[c] \in {"sent", "waiting"} ~> phase[c] \in Settled
=============================================================================
