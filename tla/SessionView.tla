----------------------------- MODULE SessionView -----------------------------
(***************************************************************************)
(* What the tabs of one browser believe about the session: the cached user *)
(* of each tab (fe:features/auth/hooks.ts), the two layouts that send each *)
(* other's visitors away, the sign-ins and sign-outs, and the cookies that *)
(* all tabs share.                                                         *)
(*                                                                         *)
(* ApiClient follows single tokens; here a chain of them, from one sign-in *)
(* on, is one value, and a rotation keeps it.  Whose data a cache holds is *)
(* left out, but not when it was asked for.  TanStack Query is external: a *)
(* refetch keeps the data it has until the answer, a failed one keeps it   *)
(* beside the error, and clear() drops the data and the fetch in flight,   *)
(* whose request goes on unheard.  What a tab has and has asked for is     *)
(* marked as of before (current) when the tab hears of a sign-in or a      *)
(* sign-out, before anything is cleared.                                   *)
(***************************************************************************)
EXTENDS Naturals

CONSTANTS Tabs,
          Busy,              \* the tabs that visitors act in: all, but for bounds
          Chains,            \* the sign-ins, at most one each: a bound
          Held,              \* the chain the browser starts with
          NoChain,           \* no cookie
          MaxNetworkRetries  \* MAX_NETWORK_RETRIES

ASSUME SessionViewAssumption ==
    /\ Busy \subseteq Tabs
    /\ Held \in Chains
    /\ NoChain \notin Chains
    /\ MaxNetworkRetries \in Nat

VARIABLES issued,    \* the chains that sign-ins have started
          live,      \* those the server still rotates
          signedOut, \* those that a sign-out has ended
          access,    \* the jar's access token, by its chain
          refresh,   \* the jar's refresh token, by its chain
          page,      \* page[w]: which layout tab w is under
          me,        \* me[w]: the me() query in w's cache
          fetch,     \* fetch[w]: the fetch of that query
          strays,    \* strays[w]: the requests whose fetch was dropped
          rotation,  \* rotation[w]: refreshInFlight
          signing    \* signing[w][k]: the login, or the logout, of tab w

server == <<issued, live, signedOut>>
jar == <<access, refresh>>
cache == <<page, me, fetch, strays>>
vars == <<server, jar, cache, rotation, signing>>

Cookie == Chains \cup {NoChain}
SignKind == {"login", "logout"}

NoData == [status |-> "pending", data |-> FALSE, current |-> TRUE]
NoFetch == [phase |-> "none", bearer |-> FALSE, tries |-> 0, current |-> TRUE]
NoRotation == [phase |-> "none", chain |-> NoChain]
NoSigning == [phase |-> "none", chain |-> NoChain]

Stray == [bearer : BOOLEAN, current : BOOLEAN]

(* bearer: the request has a valid access token.                            *)
(* current: it was sent since its tab last signed in or out; history.       *)
TypeOK ==
    /\ live \subseteq issued /\ issued \subseteq Chains
    /\ signedOut \subseteq issued \ live
    /\ access \in Cookie /\ refresh \in Cookie
    /\ page \in [Tabs -> {"app", "auth", "closed"}]
    /\ me \in [Tabs -> [status: {"pending", "success", "anonymous", "unreachable"},
                        data: BOOLEAN, current: BOOLEAN]]
    /\ fetch \in [Tabs -> [phase: {"none", "sent", "waiting", "replayed"},
                           bearer: BOOLEAN, tries: 0..MaxNetworkRetries,
                           current: BOOLEAN]]
    /\ strays \in [Tabs -> SUBSET Stray]
    /\ rotation \in [Tabs -> [phase: {"none", "queued", "sent", "granted", "refused"},
                              chain: Cookie]]
    /\ signing \in [Tabs -> [SignKind -> [phase: {"none", "sent", "served"},
                                          chain: Cookie]]]

-----------------------------------------------------------------------------
Request(cookie, tries) ==
    [phase |-> "sent", bearer |-> cookie # NoChain, tries |-> tries, current |-> TRUE]

(* A fetch begins.  Without data the query is pending again. *)
Fetching(w, cookie) ==
    /\ fetch' = [fetch EXCEPT ![w] = Request(cookie, 0)]
    /\ me' = IF ~me[w].data THEN [me EXCEPT ![w].status = "pending"] ELSE me

(* The browser is opened again, with a session, on some pages whose layouts *)
(* fetch the user.  Other sign-ins of the past have ended.                  *)
Init ==
    /\ issued \in {C \in SUBSET Chains : Held \in C}
    /\ live = {Held} /\ signedOut = {}
    /\ access \in {Held, NoChain}
    /\ refresh = Held
    /\ page \in [Tabs -> {"app", "auth", "closed"}]
    /\ me = [w \in Tabs |-> NoData]
    /\ fetch = [w \in Tabs |-> IF page[w] = "closed" THEN NoFetch
                              ELSE Request(access, 0)]
    /\ strays = [w \in Tabs |-> {}]
    /\ rotation = [w \in Tabs |-> NoRotation]
    /\ signing = [w \in Tabs |-> [k \in SignKind |-> NoSigning]]

(* useSession *)
Anonymous(w) == me[w].status = "anonymous"

(* Mutant: a session derived from the query's data. *)
AuthenticatedByData(w) == me[w].data

Authenticated(w) == me[w].status = "success"

-----------------------------------------------------------------------------
(* The layout of the other page mounts: it fetches what is missing, and what *)
(* is older than two minutes.                                                *)
Mount(w, p) ==
    /\ page' = [page EXCEPT ![w] = p]
    /\ \/ Fetching(w, access) /\ fetch[w].phase = "none"
       \/ UNCHANGED <<me, fetch>> /\ (fetch[w].phase # "none" \/ me[w].data)
    /\ UNCHANGED strays

RedirectToLogin(w) ==
    /\ page[w] = "app" /\ Anonymous(w)
    /\ Mount(w, "auth")
    /\ UNCHANGED <<server, jar, rotation, signing>>

RedirectToDashboard(w) ==
    /\ page[w] = "auth" /\ Authenticated(w)
    /\ Mount(w, "app")
    /\ UNCHANGED <<server, jar, rotation, signing>>

(* The tab is looked at again after two minutes, or its visitor tries again. *)
Refetch(w) ==
    /\ w \in Busy /\ page[w] # "closed"
    /\ fetch[w].phase = "none"
    /\ Fetching(w, access)
    /\ UNCHANGED <<server, jar, page, strays, rotation, signing>>

(* The fetch of w ends with a user or an error, next to the data of before. *)
Fetched(w, result) ==
    /\ me' = [me EXCEPT ![w] = result]
    /\ fetch' = [fetch EXCEPT ![w] = NoFetch]
    /\ UNCHANGED <<page, strays>>

Failing(w, error) == [me[w] EXCEPT !.status = error]

(* The access token is checked alone: its session may have ended. *)
AnswerFetch(w) ==
    /\ fetch[w].phase \in {"sent", "replayed"}
    /\ fetch[w].bearer
    /\ Fetched(w, [status |-> "success", data |-> TRUE,
                   current |-> fetch[w].current])
    /\ UNCHANGED <<server, jar, rotation, signing>>

JoinRotation(w) ==
    rotation' = IF rotation[w].phase = "none"
                THEN [rotation EXCEPT ![w].phase = "queued"]
                ELSE rotation

RefuseFetch(w) ==
    /\ fetch[w].phase = "sent"
    /\ ~fetch[w].bearer
    /\ fetch' = [fetch EXCEPT ![w].phase = "waiting"]
    /\ JoinRotation(w)
    /\ UNCHANGED <<server, jar, page, me, strays, signing>>

(* Mutant: retries that are not counted. *)
TriesUncounted(w) == 0

TriesAfter(w) == fetch[w].tries + 1

(* A NetworkError: the query retries, and gives up with it in the end. *)
NetworkError(w) ==
    \/ /\ TriesAfter(w) <= MaxNetworkRetries
       /\ fetch' = [fetch EXCEPT ![w] = Request(access, TriesAfter(w))]
       /\ UNCHANGED <<page, me, strays>>
    \/ /\ TriesAfter(w) > MaxNetworkRetries
       /\ Fetched(w, Failing(w, "unreachable"))

(* An error of the API, which is not retried, or no answer. *)
FetchFails(w) ==
    /\ fetch[w].phase \in {"sent", "replayed"}
    /\ NetworkError(w) \/ Fetched(w, Failing(w, "unreachable"))
    /\ UNCHANGED <<server, jar, rotation, signing>>

(* Mutant: the answer to a dropped fetch still fills the cache. *)
HearStray(w, stray) ==
    /\ stray \in strays[w]
    /\ strays' = [strays EXCEPT ![w] = @ \ {stray}]
    /\ IF stray.bearer
       THEN /\ me' = [me EXCEPT ![w] = [status |-> "success", data |-> TRUE,
                                       current |-> stray.current]]
            /\ UNCHANGED rotation
       ELSE JoinRotation(w) /\ UNCHANGED me
    /\ UNCHANGED <<server, jar, page, fetch, signing>>

(* A request nobody waits for any more is answered, or refused. *)
EndStray(w, stray) ==
    /\ stray \in strays[w]
    /\ strays' = [strays EXCEPT ![w] = @ \ {stray}]
    /\ \/ UNCHANGED rotation
       \/ ~stray.bearer /\ JoinRotation(w)
    /\ UNCHANGED <<server, jar, page, me, fetch, signing>>

-----------------------------------------------------------------------------
(* One rotation of the browser at a time, with the cookie of the moment. *)
EnterLock(w) ==
    /\ rotation[w].phase = "queued"
    /\ \A v \in Tabs : rotation[v].phase \in {"none", "queued"}
    /\ rotation' = [rotation EXCEPT ![w] = [phase |-> "sent", chain |-> refresh]]
    /\ UNCHANGED <<server, jar, cache, signing>>

ServeRotation(w) ==
    /\ rotation[w].phase = "sent"
    /\ rotation' = [rotation EXCEPT ![w] =
                       IF @.chain \in live THEN [@ EXCEPT !.phase = "granted"]
                       ELSE [phase |-> "refused", chain |-> NoChain]]
    /\ UNCHANGED <<server, jar, cache, signing>>

(* The cookies are set, over whatever a login or a logout has made of them. *)
HearGranted(w) ==
    /\ rotation[w].phase = "granted"
    /\ access' = rotation[w].chain
    /\ refresh' = rotation[w].chain
    /\ rotation' = [rotation EXCEPT ![w] = NoRotation]
    /\ fetch' = IF fetch[w].phase = "waiting"
                THEN [fetch EXCEPT ![w] = [@ EXCEPT !.phase = "replayed", !.bearer = TRUE]]
                ELSE fetch
    /\ UNCHANGED <<server, page, me, strays, signing>>

HearRefused(w) ==
    /\ rotation[w].phase = "refused"
    /\ rotation' = [rotation EXCEPT ![w] = NoRotation]
    /\ IF fetch[w].phase = "waiting"
       THEN Fetched(w, Failing(w, "anonymous"))
       ELSE UNCHANGED cache
    /\ UNCHANGED <<server, jar, signing>>

(* No answer, or an error.  The token may be spent: the chain is then lost   *)
(* to this browser, for its next rotation looks like theft.                  *)
RotationFails(w) ==
    /\ rotation[w].phase \in {"sent", "granted"}
    /\ rotation' = [rotation EXCEPT ![w] = NoRotation]
    /\ live' \in {live, live \ {rotation[w].chain}}
    /\ IF fetch[w].phase = "waiting"
       THEN NetworkError(w) \/ Fetched(w, Failing(w, "unreachable"))
       ELSE UNCHANGED cache
    /\ UNCHANGED <<issued, signedOut, jar, signing>>

-----------------------------------------------------------------------------
(* The form of the login page, or of the register page. *)
SendLogin(w) ==
    /\ w \in Busy
    /\ page[w] = "auth"
    /\ signing[w]["login"].phase = "none"
    /\ issued # Chains
    /\ signing' = [signing EXCEPT ![w]["login"].phase = "sent"]
    /\ UNCHANGED <<server, jar, cache, rotation>>

(* The sign-out button, shown to an authenticated visitor. *)
SendLogout(w) ==
    /\ w \in Busy
    /\ page[w] = "app" /\ Authenticated(w)
    /\ signing[w]["logout"].phase = "none"
    /\ signing' = [signing EXCEPT ![w]["logout"] = [phase |-> "sent", chain |-> refresh]]
    /\ UNCHANGED <<server, jar, cache, rotation>>

(* Mutant: a login goes on with the chain of the cookie it came with. *)
ServeLoginInChain(w) ==
    /\ signing[w]["login"].phase = "sent"
    /\ \E c \in IF refresh = NoChain THEN Chains \ issued ELSE {refresh} :
          /\ issued' = issued \cup {c}
          /\ live' = live \cup {c}
          /\ signing' = [signing EXCEPT ![w]["login"] = [phase |-> "served", chain |-> c]]
    /\ UNCHANGED <<signedOut, jar, cache, rotation>>

(* A new chain; the one the browser has had is not revoked. *)
ServeLogin(w) ==
    /\ signing[w]["login"].phase = "sent"
    /\ \E c \in Chains \ issued :
          /\ issued' = issued \cup {c}
          /\ live' = live \cup {c}
          /\ signing' = [signing EXCEPT ![w]["login"] = [phase |-> "served", chain |-> c]]
    /\ UNCHANGED <<signedOut, jar, cache, rotation>>

(* Mutant: a logout that only clears the cookies. *)
ServeLogoutAlone(w) ==
    /\ signing[w]["logout"].phase = "sent"
    /\ signing' = [signing EXCEPT ![w]["logout"] = [phase |-> "served", chain |-> NoChain]]
    /\ signedOut' = signedOut \cup ({signing[w]["logout"].chain} \ {NoChain})
    /\ UNCHANGED <<issued, live, jar, cache, rotation>>

(* The server is in the middle of a rotation of c. *)
Rotating(c) == \E v \in Tabs : rotation[v].phase = "sent" /\ rotation[v].chain = c

(* The chain ends, unless it outlives its revocation: a rotation of its live *)
(* token may be underway whose successor the DELETE does not see (if the     *)
(* token presented was already spent; here tokens are not told apart).       *)
ServeLogout(w) ==
    LET c == signing[w]["logout"].chain IN
    /\ signing[w]["logout"].phase = "sent"
    /\ signing' = [signing EXCEPT ![w]["logout"] = [phase |-> "served", chain |-> NoChain]]
    /\ \/ /\ live' = live \ {c}
          /\ signedOut' = signedOut \cup ({c} \ {NoChain})
       \/ Rotating(c) /\ UNCHANGED <<live, signedOut>>
    /\ UNCHANGED <<issued, jar, cache, rotation>>

(* A refusal, an error, or no answer in time: the form, or the banner, says *)
(* so.  It may have been served.                                            *)
SigningFails(w, k) ==
    /\ signing[w][k].phase # "none"
    /\ signing' = [signing EXCEPT ![w][k] = NoSigning]
    /\ UNCHANGED <<server, jar, cache, rotation>>

(* What tab w has and has asked for when it hears of a sign-in or sign-out. *)
Aged(w) == [me |-> [me[w] EXCEPT !.current = FALSE],
            fetch |-> [fetch[w] EXCEPT !.current = FALSE]]

(* Mutant: no clear(). *)
Kept(held) == held

(* queryClient.clear(): the data is gone, and the fetch, but not its request.*)
Cleared(held) == [me |-> NoData, fetch |-> NoFetch]

Strand(w, next) ==
    strays' = IF fetch[w].phase = "sent" /\ next.phase = "none"
              THEN [strays EXCEPT ![w] = @ \cup {[bearer |-> fetch[w].bearer,
                                                 current |-> Aged(w).fetch.current]}]
              ELSE strays

(* useLogin, useRegister: onSuccess, and the form's way to the dashboard.   *)
(* The user is put into the cache, whatever is left there.                  *)
HearLogin(w) ==
    LET c == signing[w]["login"].chain
        rest == Cleared(Aged(w))
    IN  /\ signing[w]["login"].phase = "served"
        /\ signing' = [signing EXCEPT ![w]["login"] = NoSigning]
        /\ access' = c /\ refresh' = c
        /\ Strand(w, rest.fetch)
        /\ fetch' = [fetch EXCEPT ![w] = rest.fetch]
        /\ me' = [me EXCEPT ![w] = [status |-> "success", data |-> TRUE, current |-> TRUE]]
        /\ page' = [page EXCEPT ![w] = "app"]
        /\ UNCHANGED <<server, rotation>>

(* useLogout: onSuccess; the login page fetches if it finds nothing.        *)
HearLogout(w) ==
    LET rest == Cleared(Aged(w)) IN
    /\ signing[w]["logout"].phase = "served"
    /\ signing' = [signing EXCEPT ![w]["logout"] = NoSigning]
    /\ access' = NoChain /\ refresh' = NoChain
    /\ Strand(w, rest.fetch)
    /\ fetch' = [fetch EXCEPT ![w] =
                    IF rest.fetch.phase = "none" /\ ~rest.me.data
                    THEN Request(NoChain, 0) ELSE rest.fetch]
    /\ me' = [me EXCEPT ![w] = rest.me]
    /\ page' = [page EXCEPT ![w] = "auth"]
    /\ UNCHANGED <<server, rotation>>

-----------------------------------------------------------------------------
(* Fifteen minutes, for the tokens on their way too, except that of a replay:*)
(* it has just been issued, and the replay gives up after ten seconds.       *)
ExpireAccess ==
    /\ access # NoChain
    /\ access' = NoChain
    /\ \/ UNCHANGED <<fetch, strays>>
       \/ /\ fetch' = [w \in Tabs |-> IF fetch[w].phase = "replayed" THEN fetch[w]
                                   ELSE [fetch[w] EXCEPT !.bearer = FALSE]]
          /\ strays' = [w \in Tabs |-> {[stray EXCEPT !.bearer = FALSE] : stray \in strays[w]}]
    /\ UNCHANGED <<server, refresh, page, me, rotation, signing>>

(* Seven days, long after every request of the chain. *)
EndChain(c) ==
    /\ c \in live
    /\ access # c
    /\ \A w \in Tabs : rotation[w].chain # c /\ signing[w]["login"].chain # c
    /\ live' = live \ {c}
    /\ UNCHANGED <<issued, signedOut, jar, cache, rotation, signing>>

Redirect(w) == RedirectToLogin(w) \/ RedirectToDashboard(w)

Fetch(w) == AnswerFetch(w) \/ RefuseFetch(w) \/ FetchFails(w)

Rotation(w) == ServeRotation(w) \/ HearGranted(w) \/ HearRefused(w) \/ RotationFails(w)

Signing(w) ==
    \/ SendLogin(w) \/ ServeLogin(w) \/ HearLogin(w)
    \/ SendLogout(w) \/ ServeLogout(w) \/ HearLogout(w)
    \/ \E k \in SignKind : SigningFails(w, k)

Next ==
    \/ \E w \in Tabs :
          \/ Redirect(w) \/ Refetch(w) \/ Fetch(w)
          \/ EnterLock(w) \/ Rotation(w) \/ Signing(w)
          \/ \E stray \in Stray : EndStray(w, stray)
    \/ ExpireAccess
    \/ \E c \in Chains : EndChain(c)

Spec == Init /\ [][Next]_vars

(* React runs the effects, axios and the retries give up in the end, the     *)
(* browser grants its lock first come, first served, and cookies expire.     *)
(* Visitors, sign-ins and the server promise nothing.                        *)
Fairness ==
    /\ \A w \in Tabs : /\ WF_vars(Redirect(w)) /\ WF_vars(Fetch(w))
                       /\ WF_vars(Rotation(w)) /\ SF_vars(EnterLock(w))
    /\ WF_vars(ExpireAccess)

FairSpec == Spec /\ Fairness

-----------------------------------------------------------------------------
(* "Login seeds the cache [...]; logout clears the whole cache, so no data   *)
(* outlives the account that fetched it": the user in a tab's cache was      *)
(* asked for after the last sign-in or sign-out that the tab has heard of,   *)
(* whatever it had and had in flight then, however late it is answered, and  *)
(* whatever other tabs do (fe:features/auth/hooks.ts:18, 43).                *)
DataNeverOutlivesItsAccount ==
    \A w \in Tabs : me[w].data => me[w].current

(* The two layouts never send a visitor back and forth for ever, however the *)
(* session ends and whatever data the cache keeps, unless somebody signs out *)
(* again and again (fe:app/(app)/layout.tsx:29, fe:app/(auth)/layout.tsx:20).*)
TabsComeToRest ==
    \/ []<>(\E w \in Tabs : signing[w]["logout"].phase = "served")
    \/ <>[][UNCHANGED page]_page

(* "Checking your session" does not stay on the screen: the query comes to   *)
(* an answer or an error although its retries, its rotation and the rotations*)
(* of other tabs are in its way (fe:features/auth/hooks.ts:57).              *)
CheckingEnds ==
    \A w \in Tabs :
        page[w] # "closed" /\ me[w].status = "pending" ~> me[w].status # "pending"

(* A chain that a sign-out has ended is gone from the browser in the end,    *)
(* even when the answer of a rotation brings its cookies back (auth/routes.  *)
(* py:128): its access token runs out and it is never rotated again.  A      *)
(* chain that slipped past the sign-out's DELETE is not meant.               *)
SignOutBitesInTheEnd == <>[](access \notin signedOut)
=============================================================================
