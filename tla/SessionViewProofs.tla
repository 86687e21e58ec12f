-------------------------- MODULE SessionViewProofs --------------------------
(***************************************************************************)
(* Proofs about SessionView, for any number of tabs, sign-ins and retries: *)
(* type correctness, and that no cache keeps data of before its tab last   *)
(* signed in or out.                                                       *)
(***************************************************************************)
EXTENDS SessionView, TLAPS

(* What a cache has, and what a fetch will bring, was asked for since the   *)
(* last sign-in or sign-out: each of them ages all of it, and clear() drops *)
(* the one and the other together.                                          *)
NothingOlder ==
    \A w \in Tabs : me[w].current /\ fetch[w].current

(* The browser only ever holds and sends tokens of chains that were issued. *)
CookiesAreIssued ==
    /\ refresh \in issued \cup {NoChain}
    /\ \A w \in Tabs :
          /\ rotation[w].chain \in issued \cup {NoChain}
          /\ \A k \in SignKind : signing[w][k].chain \in issued \cup {NoChain}

Inv == TypeOK /\ NothingOlder /\ CookiesAreIssued

-----------------------------------------------------------------------------
LEMMA InvInit == Init => Inv
<1> SUFFICES ASSUME Init PROVE Inv
    OBVIOUS
<1> USE SessionViewAssumption DEF Init
<1>1. TypeOK
    BY DEF TypeOK, Cookie, SignKind, NoData, NoFetch, NoRotation, NoSigning, Request
<1>2. NothingOlder
    BY DEF NothingOlder, NoData, NoFetch, Request
<1>3. CookiesAreIssued
    BY DEF CookiesAreIssued, NoRotation, NoSigning
<1> QED
    BY <1>1, <1>2, <1>3 DEF Inv

(* The types of the cache that a fetch moves through.                       *)
Me == [status: {"pending", "success", "anonymous", "unreachable"},
       data: BOOLEAN, current: BOOLEAN]
FetchState == [phase: {"none", "sent", "waiting", "replayed"},
               bearer: BOOLEAN, tries: 0..MaxNetworkRetries, current: BOOLEAN]

(* The part of the invariant that is about the query in the caches.         *)
CacheInv ==
    /\ page \in [Tabs -> {"app", "auth", "closed"}]
    /\ me \in [Tabs -> Me]
    /\ fetch \in [Tabs -> FetchState]
    /\ strays \in [Tabs -> SUBSET Stray]
    /\ NothingOlder

(* A new request, with an empty count of retries or one that may go on.     *)
LEMMA RequestIsFetch ==
    ASSUME NEW cookie, NEW tries \in 0..MaxNetworkRetries
    PROVE  Request(cookie, tries) \in FetchState /\ Request(cookie, tries).current
BY DEF Request, FetchState

LEMMA NoFetchIsFetch == NoFetch \in FetchState /\ NoFetch.current
BY SessionViewAssumption DEF NoFetch, FetchState

LEMMA MountKeepsCache ==
    ASSUME CacheInv, NEW w \in Tabs, NEW p \in {"app", "auth"}, Mount(w, p)
    PROVE  CacheInv'
<1>1. CASE Fetching(w, access)
    BY <1>1, RequestIsFetch, SessionViewAssumption
       DEF Mount, Fetching, CacheInv, NothingOlder, Me
<1>2. CASE UNCHANGED <<me, fetch>>
    BY <1>2 DEF Mount, CacheInv, NothingOlder
<1> QED
    BY <1>1, <1>2 DEF Mount

LEMMA FetchedKeepsCache ==
    ASSUME CacheInv, NEW w \in Tabs, NEW result \in Me, result.current,
           Fetched(w, result)
    PROVE  CacheInv'
BY NoFetchIsFetch DEF Fetched, CacheInv, NothingOlder

LEMMA FailingIsMe ==
    ASSUME CacheInv, NEW w \in Tabs, NEW error \in {"anonymous", "unreachable"}
    PROVE  Failing(w, error) \in Me /\ Failing(w, error).current
BY DEF CacheInv, NothingOlder, Failing, Me

LEMMA NetworkErrorKeepsCache ==
    ASSUME CacheInv, NEW w \in Tabs, NetworkError(w)
    PROVE  CacheInv'
<1>1. CASE TriesAfter(w) <= MaxNetworkRetries
  <2>1. TriesAfter(w) \in 0..MaxNetworkRetries
      BY <1>1, SessionViewAssumption DEF TriesAfter, CacheInv, FetchState
  <2>2. /\ Request(access, TriesAfter(w)) \in FetchState
        /\ Request(access, TriesAfter(w)).current
      BY <2>1, RequestIsFetch
  <2>3. ~ TriesAfter(w) > MaxNetworkRetries
      BY <2>1, SessionViewAssumption
  <2> QED
      BY <2>2, <2>3 DEF NetworkError, CacheInv, NothingOlder
<1>2. CASE ~ TriesAfter(w) <= MaxNetworkRetries
    BY <1>2, FailingIsMe, FetchedKeepsCache DEF NetworkError
<1> QED
    BY <1>1, <1>2

(* What is left of a cache when it is cleared is of now, whatever it held.  *)
LEMMA ClearedIsOfNow ==
    ASSUME NEW held
    PROVE  /\ Cleared(held).me \in Me /\ Cleared(held).me.current
           /\ Cleared(held).fetch \in FetchState /\ Cleared(held).fetch.current
           /\ Cleared(held).fetch.phase = "none"
           /\ ~Cleared(held).me.data
BY NoFetchIsFetch DEF Cleared, NoData, NoFetch, Me

LEMMA ClearKeepsCache ==
    ASSUME CacheInv, NEW w \in Tabs, NEW rest, Strand(w, rest),
           NEW next \in FetchState, next.current, fetch' = [fetch EXCEPT ![w] = next],
           NEW user \in Me, user.current, me' = [me EXCEPT ![w] = user],
           NEW p \in {"app", "auth"}, page' = [page EXCEPT ![w] = p]
    PROVE  CacheInv'
<1>1. [bearer |-> fetch[w].bearer, current |-> Aged(w).fetch.current] \in Stray
  <2>1. fetch[w] \in FetchState
      BY DEF CacheInv
  <2>2. Aged(w).fetch.current = FALSE /\ fetch[w].bearer \in BOOLEAN
      BY <2>1 DEF Aged, FetchState
  <2> QED
      BY <2>2 DEF Stray
<1>2. strays' \in [Tabs -> SUBSET Stray]
    BY <1>1 DEF Strand, CacheInv
<1> QED
    BY <1>2 DEF CacheInv, NothingOlder

-----------------------------------------------------------------------------
(* The rest of the invariant: the server, the jar, rotations and sign-ins.  *)
RotationState == [phase: {"none", "queued", "sent", "granted", "refused"}, chain: Cookie]
SigningState == [SignKind -> [phase: {"none", "sent", "served"}, chain: Cookie]]

SharedInv ==
    /\ live \subseteq issued /\ issued \subseteq Chains
    /\ signedOut \subseteq issued \ live
    /\ access \in Cookie /\ refresh \in Cookie
    /\ rotation \in [Tabs -> RotationState]
    /\ signing \in [Tabs -> SigningState]
    /\ CookiesAreIssued

LEMMA JoinKeepsRotation ==
    ASSUME SharedInv, NEW w \in Tabs, JoinRotation(w)
    PROVE  /\ rotation' \in [Tabs -> RotationState]
           /\ \A v \in Tabs : rotation'[v].chain = rotation[v].chain
BY DEF SharedInv, JoinRotation, RotationState

(* Every step keeps the invariant; most touch one of its two parts.         *)
LEMMA PartsStep ==
    ASSUME CacheInv, SharedInv, [Next]_vars
    PROVE  CacheInv' /\ SharedInv'
<1> USE DEF server, jar
<1>1. ASSUME NEW w \in Tabs, Redirect(w) PROVE CacheInv' /\ SharedInv'
    BY <1>1, MountKeepsCache
       DEF Redirect, RedirectToLogin, RedirectToDashboard, SharedInv, CookiesAreIssued
<1>2. ASSUME NEW w \in Tabs, Refetch(w) PROVE CacheInv' /\ SharedInv'
    BY <1>2, RequestIsFetch, SessionViewAssumption
       DEF Refetch, Fetching, CacheInv, NothingOlder, SharedInv, CookiesAreIssued, Me
<1>3. ASSUME NEW w \in Tabs, AnswerFetch(w) PROVE CacheInv' /\ SharedInv'
  <2> DEFINE user == [status |-> "success", data |-> TRUE, current |-> fetch[w].current]
  <2>1. user \in Me /\ user.current
      BY DEF CacheInv, NothingOlder, FetchState, Me
  <2>2. Fetched(w, user)
      BY <1>3 DEF AnswerFetch
  <2> HIDE DEF user
  <2> QED
      BY <1>3, <2>1, <2>2, FetchedKeepsCache DEF AnswerFetch, SharedInv, CookiesAreIssued
<1>4. ASSUME NEW w \in Tabs, RefuseFetch(w) PROVE CacheInv' /\ SharedInv'
  <2>1. CacheInv'
      BY <1>4 DEF RefuseFetch, CacheInv, NothingOlder, FetchState
  <2>2. SharedInv'
      BY <1>4, JoinKeepsRotation DEF RefuseFetch, SharedInv, CookiesAreIssued
  <2> QED
      BY <2>1, <2>2
<1>5. ASSUME NEW w \in Tabs, FetchFails(w) PROVE CacheInv' /\ SharedInv'
    BY <1>5, NetworkErrorKeepsCache, FailingIsMe, FetchedKeepsCache
       DEF FetchFails, SharedInv, CookiesAreIssued
<1>6. ASSUME NEW w \in Tabs, NEW stray \in Stray, EndStray(w, stray)
      PROVE  CacheInv' /\ SharedInv'
  <2>1. CacheInv'
      BY <1>6 DEF EndStray, CacheInv, NothingOlder
  <2>2. SharedInv'
      BY <1>6, JoinKeepsRotation DEF EndStray, SharedInv, CookiesAreIssued
  <2> QED
      BY <2>1, <2>2
<1>7. ASSUME NEW w \in Tabs, EnterLock(w) PROVE CacheInv' /\ SharedInv'
    BY <1>7 DEF EnterLock, cache, CacheInv, NothingOlder, SharedInv, CookiesAreIssued, RotationState
<1>8. ASSUME NEW w \in Tabs, ServeRotation(w) PROVE CacheInv' /\ SharedInv'
    BY <1>8 DEF ServeRotation, cache, CacheInv, NothingOlder, SharedInv, CookiesAreIssued,
                RotationState, Cookie
<1>9. ASSUME NEW w \in Tabs, HearGranted(w) PROVE CacheInv' /\ SharedInv'
  <2>1. CacheInv'
    <3>1. CASE fetch[w].phase = "waiting"
      <4> DEFINE replay == [fetch[w] EXCEPT !.phase = "replayed", !.bearer = TRUE]
      <4>1. fetch[w] \in FetchState /\ fetch[w].current
          BY DEF CacheInv, NothingOlder
      <4>2. replay \in FetchState /\ replay.current
          BY <4>1 DEF FetchState
      <4>3. fetch' = [fetch EXCEPT ![w] = replay]
          BY <1>9, <3>1 DEF HearGranted
      <4> HIDE DEF replay
      <4> QED
          BY <1>9, <4>2, <4>3 DEF HearGranted, CacheInv, NothingOlder
    <3>2. CASE fetch[w].phase # "waiting"
        BY <1>9, <3>2 DEF HearGranted, CacheInv, NothingOlder, FetchState
    <3> QED
        BY <3>1, <3>2
  <2>2. SharedInv'
      BY <1>9 DEF HearGranted, SharedInv, CookiesAreIssued, RotationState, NoRotation, Cookie
  <2> QED
      BY <2>1, <2>2
<1>10. ASSUME NEW w \in Tabs, HearRefused(w) PROVE CacheInv' /\ SharedInv'
  <2>1. CacheInv'
      BY <1>10, FailingIsMe, FetchedKeepsCache
         DEF HearRefused, cache, CacheInv, NothingOlder
  <2>2. SharedInv'
      BY <1>10 DEF HearRefused, SharedInv, CookiesAreIssued, RotationState, NoRotation, Cookie
  <2> QED
      BY <2>1, <2>2
<1>11. ASSUME NEW w \in Tabs, RotationFails(w) PROVE CacheInv' /\ SharedInv'
  <2>1. CacheInv'
    <3>1. CASE fetch[w].phase = "waiting"
        BY <1>11, <3>1, NetworkErrorKeepsCache, FailingIsMe, FetchedKeepsCache
           DEF RotationFails
    <3>2. CASE fetch[w].phase # "waiting"
        BY <1>11, <3>2 DEF RotationFails, cache, CacheInv, NothingOlder
    <3> QED
        BY <3>1, <3>2
  <2>2. SharedInv'
      BY <1>11 DEF RotationFails, SharedInv, CookiesAreIssued, RotationState, NoRotation, Cookie
  <2> QED
      BY <2>1, <2>2
<1>12. ASSUME NEW w \in Tabs, Signing(w) PROVE CacheInv' /\ SharedInv'
  <2> USE DEF SigningState, SignKind
  <2>1. CASE SendLogin(w)
      BY <2>1 DEF SendLogin, cache, CacheInv, NothingOlder, SharedInv, CookiesAreIssued
  <2>2. CASE ServeLogin(w)
      BY <2>2 DEF ServeLogin, cache, CacheInv, NothingOlder, SharedInv, CookiesAreIssued, Cookie
  <2>3. CASE HearLogin(w)
    <3> DEFINE user == [status |-> "success", data |-> TRUE, current |-> TRUE]
    <3> DEFINE rest == Cleared(Aged(w))
    <3>1. user \in Me /\ user.current
        BY DEF Me
    <3>2. rest.fetch \in FetchState /\ rest.fetch.current
        BY ClearedIsOfNow
    <3>3. /\ Strand(w, rest.fetch)
          /\ fetch' = [fetch EXCEPT ![w] = rest.fetch]
          /\ me' = [me EXCEPT ![w] = user]
          /\ page' = [page EXCEPT ![w] = "app"]
        BY <2>3 DEF HearLogin
    <3> HIDE DEF user, rest
    <3>4. CacheInv'
        BY <3>1, <3>2, <3>3, ClearKeepsCache
    <3>5. SharedInv'
        BY <2>3 DEF HearLogin, SharedInv, CookiesAreIssued, NoSigning, Cookie
    <3> QED
        BY <3>4, <3>5
  <2>4. CASE SendLogout(w)
      BY <2>4 DEF SendLogout, cache, CacheInv, NothingOlder, SharedInv, CookiesAreIssued
  <2>5. CASE ServeLogout(w)
      BY <2>5 DEF ServeLogout, cache, CacheInv, NothingOlder, SharedInv, CookiesAreIssued, Cookie
  <2>6. CASE HearLogout(w)
    <3> DEFINE rest == Cleared(Aged(w))
               user == rest.me
    <3>1. /\ user \in Me /\ user.current
          /\ rest.fetch.phase = "none" /\ ~rest.me.data
        BY ClearedIsOfNow
    <3>2. /\ Strand(w, rest.fetch)
          /\ fetch' = [fetch EXCEPT ![w] = Request(NoChain, 0)]
          /\ me' = [me EXCEPT ![w] = user]
          /\ page' = [page EXCEPT ![w] = "auth"]
        BY <2>6, <3>1 DEF HearLogout
    <3> HIDE DEF user, rest
    <3>3. CacheInv'
      <4>1. 0 \in 0..MaxNetworkRetries
          BY SessionViewAssumption
      <4> QED
          BY <3>1, <3>2, <4>1, RequestIsFetch, ClearKeepsCache
    <3>4. SharedInv'
        BY <2>6 DEF HearLogout, SharedInv, CookiesAreIssued, NoSigning, Cookie
    <3> QED
        BY <3>3, <3>4
  <2>7. ASSUME NEW k \in SignKind, SigningFails(w, k) PROVE CacheInv' /\ SharedInv'
      BY <2>7 DEF SigningFails, cache, CacheInv, NothingOlder, SharedInv, CookiesAreIssued,
                  NoSigning, Cookie
  <2> QED
      BY <1>12, <2>1, <2>2, <2>3, <2>4, <2>5, <2>6, <2>7 DEF Signing
<1>13. CASE ExpireAccess
  <2>1. fetch' \in [Tabs -> FetchState] /\ \A w \in Tabs : fetch'[w].current
    <3>1. CASE UNCHANGED fetch
        BY <3>1 DEF CacheInv, NothingOlder
    <3>2. CASE fetch' = [w \in Tabs |-> IF fetch[w].phase = "replayed" THEN fetch[w]
                                        ELSE [fetch[w] EXCEPT !.bearer = FALSE]]
      <4>1. ASSUME NEW w \in Tabs
            PROVE  /\ fetch[w] \in FetchState /\ fetch[w].current
                   /\ [fetch[w] EXCEPT !.bearer = FALSE] \in FetchState
                   /\ [fetch[w] EXCEPT !.bearer = FALSE].current
        <5>1. fetch[w] \in FetchState /\ fetch[w].current
            BY DEF CacheInv, NothingOlder
        <5> QED
            BY <5>1 DEF FetchState
      <4>2. \A w \in Tabs : fetch'[w] \in FetchState /\ fetch'[w].current
          BY <3>2, <4>1
      <4> QED
          BY <3>2, <4>2
    <3> QED
        BY <1>13, <3>1, <3>2 DEF ExpireAccess
  <2>2. strays' \in [Tabs -> SUBSET Stray]
    <3>1. CASE UNCHANGED strays
        BY <3>1 DEF CacheInv
    <3>2. CASE strays' = [w \in Tabs |->
                            {[stray EXCEPT !.bearer = FALSE] : stray \in strays[w]}]
      <4>1. ASSUME NEW w \in Tabs
            PROVE  {[stray EXCEPT !.bearer = FALSE] : stray \in strays[w]} \in SUBSET Stray
        <5>1. \A stray \in Stray : [stray EXCEPT !.bearer = FALSE] \in Stray
            BY DEF Stray
        <5>2. strays[w] \subseteq Stray
            BY DEF CacheInv
        <5> QED
            BY <5>1, <5>2
      <4> QED
          BY <3>2, <4>1
    <3> QED
        BY <1>13, <3>1, <3>2 DEF ExpireAccess
  <2> QED
      BY <1>13, <2>1, <2>2
         DEF ExpireAccess, CacheInv, NothingOlder, SharedInv, CookiesAreIssued, Cookie
<1>14. ASSUME NEW c \in Chains, EndChain(c) PROVE CacheInv' /\ SharedInv'
    BY <1>14 DEF EndChain, cache, CacheInv, NothingOlder, SharedInv, CookiesAreIssued
<1>15. CASE UNCHANGED vars
    BY <1>15 DEF vars, cache, CacheInv, NothingOlder, SharedInv, CookiesAreIssued
<1> QED
    BY <1>1, <1>2, <1>3, <1>4, <1>5, <1>6, <1>7, <1>8, <1>9, <1>10, <1>11,
       <1>12, <1>13, <1>14, <1>15 DEF Next, Fetch, Rotation

-----------------------------------------------------------------------------
LEMMA InvStep == Inv /\ [Next]_vars => Inv'
<1> SUFFICES ASSUME Inv, [Next]_vars PROVE Inv'
    OBVIOUS
<1> USE DEF Inv, TypeOK, CacheInv, SharedInv, Me, FetchState, RotationState,
            SigningState
<1>1. CacheInv /\ SharedInv
    OBVIOUS
<1>2. CacheInv' /\ SharedInv'
    BY <1>1, PartsStep
<1> QED
    BY <1>2

(* The inductive invariant of the tabs.                                     *)
THEOREM InvHolds == Spec => []Inv
<1> QED
    BY InvInit, InvStep, PTL DEF Spec

(* Every variable keeps its type.                                           *)
THEOREM TypeCorrect == Spec => []TypeOK
<1>1. Inv => TypeOK
    BY DEF Inv
<1> QED
    BY <1>1, InvHolds, PTL

(* No data outlives the account that fetched it, in however many tabs and   *)
(* whatever is in flight (fe:features/auth/hooks.ts:18, 43).                *)
THEOREM DataIsOfThisAccount == Spec => []DataNeverOutlivesItsAccount
<1>1. Inv => DataNeverOutlivesItsAccount
    BY DEF Inv, NothingOlder, DataNeverOutlivesItsAccount
<1> QED
    BY <1>1, InvHolds, PTL
=============================================================================
