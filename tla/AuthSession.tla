----------------------------- MODULE AuthSession -----------------------------
(***************************************************************************)
(* The session of one browser tab of the staff application: the token in   *)
(* memory, the session version, the queue of requests that write the       *)
(* refresh cookie, and the interceptors of apiClient                       *)
(* (frontend/src/shared/stores/auth.store.ts, shared/api/client.ts), with  *)
(* the server's side of login, refresh and logout (auth.controller.ts,     *)
(* auth.service.ts).                                                       *)
(*                                                                         *)
(* A call is a task: a click, a read of a query, or the refresh at start.  *)
(* Between its steps any other task, another tab of the same browser, an   *)
(* administrator or a reload may act.  A read that needs a new token runs  *)
(* the shared refresh itself and the later ones wait for it; a refresh or  *)
(* a login that fails goes on as the logout that it calls.                 *)
(*                                                                         *)
(* A token is the account, its tokenVersion and its access scope (branch,  *)
(* role, permissions) when it was issued.                                  *)
(***************************************************************************)
EXTENDS Integers, Sequences

CONSTANTS
  Accounts,
  Tasks,
  None,
  MaxInputs        \* clicks, reads, reloads and outside changes in a run

Tokens == [acct: Accounts, ver: Nat, scope: {0, 1}]

ASSUME AuthAssumption == None \notin Accounts \cup Tokens \cup {0, 1}

VARIABLES
  tokenVersion,    \* server: tokenVersion[a] of the account's row
  scope,           \* server: scope[a], what the next token of a allows
  cookie,          \* browser: the refresh_token cookie
  stored,          \* browser: localStorage 'user'
  token,           \* tab: _accessToken
  user, perms,     \* tab: the store's user and the scope it knows
  sessionVersion, authTransition, cookieToken,
  queue,           \* tab: authCookieRequests, the head is running
  cache,           \* tab: whose data queryClient holds
  task,
  inputs,
  wanted,          \* history: the account the person asked to be, or none
  otherTab         \* history: another tab's login, and whether the cookie is its

server  == <<tokenVersion, scope>>
browser == <<cookie, stored>>
session == <<token, user, perms, sessionVersion, authTransition, cookieToken, cache>>
history == <<wanted, otherTab>>
vars == <<server, browser, session, queue, task, inputs, history>>

Idle  == [kind |-> "none", pc |-> "idle", ver |-> 0, acct |-> None,
          tok |-> None, retry |-> FALSE]

Init ==
  /\ tokenVersion = [a \in Accounts |-> 0] /\ scope = [a \in Accounts |-> 0]
  /\ cookie = None /\ stored = None
  /\ token = None /\ user = None /\ perms = None
  /\ sessionVersion = 0 /\ authTransition = None /\ cookieToken = None
  /\ cache = {}
  /\ queue = <<>> /\ task = [t \in Tasks |-> Idle]
  /\ inputs = 0 /\ wanted = {} /\ otherTab = "none"

-----------------------------------------------------------------------------
\* auth.store.ts.

\* clearSession, with resetSessionCache.
ClearSession ==
  /\ token' = None /\ user' = None /\ perms' = None /\ stored' = None
  /\ sessionVersion' = sessionVersion + 1 /\ cache' = {}

\* beginAuthTransition.
BeginAuthTransition ==
  /\ cookieToken' = IF cookieToken = None THEN token ELSE cookieToken
  /\ ClearSession
  /\ authTransition' = sessionVersion'

\* finishAuthTransition: what authTransition becomes.
FinishAuthTransition(v) ==
  IF authTransition = v THEN None ELSE authTransition

\* setAuth for a response whose owner's version is still current: a change of
\* account or of scope starts a new session version and empties the cache.
SameScope(tok) == user = tok.acct /\ perms = tok.scope

SetAuth(tok) ==
  /\ sessionVersion' = IF SameScope(tok) THEN sessionVersion ELSE sessionVersion + 1
  /\ cache' = IF SameScope(tok) THEN cache ELSE {}
  /\ token' = tok /\ user' = tok.acct /\ perms' = tok.scope /\ stored' = tok.acct

ThisTabsCookie == otherTab' = IF otherTab = "cookie" THEN "past" ELSE otherTab

\* applyAuthCookieResponse: the browser has the cookie in any case; only the
\* version that sent the request is signed in by it.
ApplyAuthCookieResponse(tok, v) ==
  /\ cookie' = tok /\ cookieToken' = tok /\ ThisTabsCookie
  /\ IF v = sessionVersion
       THEN SetAuth(tok)
       ELSE UNCHANGED <<token, user, perms, stored, sessionVersion, cache>>

\* runAuthCookieRequest: one request that writes the cookie runs at a time, and
\* what releases its place is the head.
Running(t) == queue # <<>> /\ Head(queue) = t
Enqueue(t) == queue' = Append(queue, t)
Leave      == queue' = Tail(queue)

Ends(t) == task' = [task EXCEPT ![t] = Idle]

\* logout up to its place in the queue; t is the task that calls it.
Logout(t) ==
  /\ BeginAuthTransition
  /\ task' = [task EXCEPT ![t] = [Idle EXCEPT !.kind = "logout", !.pc = "queued",
                                              !.ver = sessionVersion', !.tok = token]]

Input == inputs < MaxInputs /\ inputs' = inputs + 1

\* The router renders nothing before bootRefresh has ended.
Ready == \A t \in Tasks : task[t].kind # "boot"

-----------------------------------------------------------------------------
\* Login and register.

\* The request interceptor for /auth/login and /auth/register; the pages of
\* both redirect when the store holds a user.
StartLogin(t, a) ==
  /\ Input /\ Ready /\ task[t] = Idle /\ user = None
  /\ BeginAuthTransition
  /\ task' = [task EXCEPT ![t] = [Idle EXCEPT !.kind = "login", !.pc = "queued",
                                              !.ver = sessionVersion', !.acct = a]]
  /\ Enqueue(t)
  /\ wanted' = {a}
  /\ UNCHANGED <<server, cookie, otherTab>>

\* Mutant of SendLogin: a login that is given up keeps its lease.
SendLoginKeepsLease(t) ==
  /\ task[t].kind = "login" /\ task[t].pc = "queued" /\ Running(t)
  /\ IF task[t].ver = sessionVersion
       THEN task' = [task EXCEPT ![t].pc = "sent"]
       ELSE Ends(t)
  /\ UNCHANGED <<server, browser, session, queue, inputs, history>>

\* The lease is acquired: the request is sent, or given up by a session that
\* has moved on.
SendLogin(t) ==
  /\ task[t].kind = "login" /\ task[t].pc = "queued" /\ Running(t)
  /\ IF task[t].ver = sessionVersion
       THEN /\ task' = [task EXCEPT ![t].pc = "sent"]
            /\ UNCHANGED <<authTransition, queue>>
       ELSE /\ authTransition' = FinishAuthTransition(task[t].ver)
            /\ Leave /\ Ends(t)
  /\ UNCHANGED <<server, browser, token, user, perms, sessionVersion, cookieToken,
                 cache, inputs, history>>

\* AuthService.login or register, generateTokens: tokens, or a refusal, or a
\* request or an answer that is lost.
ServeLogin(t) ==
  /\ task[t].kind = "login" /\ task[t].pc = "sent"
  /\ \/ LET a == task[t].acct
        IN  task' = [task EXCEPT ![t].pc = "answered",
                       ![t].tok = [acct |-> a, ver |-> tokenVersion[a], scope |-> scope[a]]]
     \/ task' = [task EXCEPT ![t].pc = "failed"]
  /\ UNCHANGED <<server, browser, session, queue, inputs, history>>

\* The response interceptor: apply, release the lease; a superseded answer is
\* a CanceledError.
LoginAnswered(t) ==
  /\ task[t].kind = "login" /\ task[t].pc = "answered"
  /\ ApplyAuthCookieResponse(task[t].tok, task[t].ver)
  /\ authTransition' = FinishAuthTransition(task[t].ver)
  /\ Leave
  /\ IF task[t].ver = sessionVersion
       THEN task' = [task EXCEPT ![t].pc = "onSuccess", ![t].ver = sessionVersion']
       ELSE Ends(t)
  /\ UNCHANGED <<server, inputs, wanted>>

\* The error interceptor of a login: release first, then log out.
LoginFailed(t) ==
  /\ task[t].kind = "login" /\ task[t].pc = "failed"
  /\ IF task[t].ver = sessionVersion
       THEN /\ Logout(t)
            /\ queue' = Append(Tail(queue), t)
       ELSE /\ authTransition' = FinishAuthTransition(task[t].ver)
            /\ Leave /\ Ends(t)
            /\ UNCHANGED <<token, user, perms, stored, sessionVersion, cookieToken, cache>>
  /\ UNCHANGED <<server, cookie, inputs, history>>

\* Mutant of LoginSucceeded: setAuth does not ask who owns the response.
LoginSucceededAlways(t) ==
  /\ task[t].kind = "login" /\ task[t].pc = "onSuccess"
  /\ SetAuth(task[t].tok) /\ Ends(t)
  /\ UNCHANGED <<server, cookie, authTransition, cookieToken, queue, inputs, history>>

\* useLogin and useRegister, onSuccess: setAuth once more, ignored when the
\* session that owns the response is over.
LoginSucceeded(t) ==
  /\ task[t].kind = "login" /\ task[t].pc = "onSuccess"
  /\ IF task[t].ver = sessionVersion
       THEN SetAuth(task[t].tok)
       ELSE UNCHANGED <<token, user, perms, stored, sessionVersion, cache>>
  /\ Ends(t)
  /\ UNCHANGED <<server, cookie, authTransition, cookieToken, queue, inputs, history>>

-----------------------------------------------------------------------------
\* Logout.

StartLogout(t) ==
  /\ Input /\ Ready /\ task[t] = Idle /\ user # None
  /\ Logout(t) /\ Enqueue(t)
  /\ wanted' = {}
  /\ UNCHANGED <<server, cookie, otherTab>>

\* Mutant of SendLogout: the bearer is the token at the time of the click.
SendLogoutOldToken(t) ==
  /\ task[t].kind = "logout" /\ task[t].pc = "queued" /\ Running(t)
  /\ task' = [task EXCEPT ![t].pc = "sent"]
  /\ UNCHANGED <<server, browser, session, queue, inputs, history>>

\* The bearer is chosen when the request runs: the cookie's account first.
SendLogout(t) ==
  /\ task[t].kind = "logout" /\ task[t].pc = "queued" /\ Running(t)
  /\ task' = [task EXCEPT ![t].pc = "sent",
                ![t].tok = IF cookieToken = None THEN @ ELSE cookieToken]
  /\ UNCHANGED <<server, browser, session, queue, inputs, history>>

\* AuthController.logout behind the guard: every refresh token of the bearer's
\* account is revoked.  An expired bearer, or none, is refused; the answer to
\* an accepted one may be lost.
ServeLogout(t) ==
  /\ task[t].kind = "logout" /\ task[t].pc = "sent"
  /\ \/ /\ task[t].tok # None
        /\ tokenVersion' = [tokenVersion EXCEPT ![task[t].tok.acct] = @ + 1]
        /\ \E out \in {"answered", "failed"} : task' = [task EXCEPT ![t].pc = out]
     \/ /\ task' = [task EXCEPT ![t].pc = "failed"]
        /\ UNCHANGED tokenVersion
  /\ UNCHANGED <<scope, browser, session, queue, inputs, history>>

\* The rest of logout: the answer clears the cookie, an error is ignored.
LogoutDone(t) ==
  /\ task[t].kind = "logout" /\ task[t].pc \in {"answered", "failed"}
  /\ IF task[t].pc = "answered"
       THEN /\ cookie' = None /\ cookieToken' = None /\ ThisTabsCookie
       ELSE UNCHANGED <<cookie, cookieToken, otherTab>>
  /\ authTransition' = FinishAuthTransition(task[t].ver)
  /\ Leave /\ Ends(t)
  /\ UNCHANGED <<server, stored, token, user, perms, sessionVersion, cache, inputs, wanted>>

-----------------------------------------------------------------------------
\* A read through apiClient.  It is sent only for a page behind RequireAuth.

StartRead(t) ==
  /\ Input /\ Ready /\ task[t] = Idle /\ user # None /\ authTransition = None
  /\ task' = [task EXCEPT ![t] = [Idle EXCEPT !.kind = "read", !.pc = "sent",
                                              !.ver = sessionVersion, !.tok = token]]
  /\ UNCHANGED <<server, browser, session, queue, history>>

\* JwtStrategy: the access token is believed until it expires.
ServeRead(t) ==
  /\ task[t].kind = "read" /\ task[t].pc = "sent"
  /\ \E out \in {"answered", "unauthorized", "failed"} :
       /\ out = "answered" => task[t].tok # None
       /\ task' = [task EXCEPT ![t].pc = out]
  /\ UNCHANGED <<server, browser, session, queue, inputs, history>>

\* Mutant of ReadDone: an answer is kept whichever session asked.
ReadDoneAnyVersion(t) ==
  /\ task[t].kind = "read" /\ task[t].pc \in {"answered", "failed"}
  /\ cache' = IF task[t].pc = "answered"
                THEN cache \cup {[acct |-> task[t].tok.acct, scope |-> task[t].tok.scope]}
                ELSE cache
  /\ Ends(t)
  /\ UNCHANGED <<server, browser, token, user, perms, sessionVersion, authTransition,
                 cookieToken, queue, inputs, history>>

\* The response interceptor: the answer to an earlier session is dropped.
ReadDone(t) ==
  /\ task[t].kind = "read" /\ task[t].pc \in {"answered", "failed"}
  /\ cache' = IF task[t].pc = "answered" /\ task[t].ver = sessionVersion
                THEN cache \cup {[acct |-> task[t].tok.acct, scope |-> task[t].tok.scope]}
                ELSE cache
  /\ Ends(t)
  /\ UNCHANGED <<server, browser, token, user, perms, sessionVersion, authTransition,
                 cookieToken, queue, inputs, history>>

\* refreshAccessToken: activeRefresh is shared within a version.
Refreshing(v) ==
  \E u \in Tasks : /\ task[u].kind = "read" /\ task[u].ver = v
                   /\ task[u].pc \in {"queued", "refresh", "renewed", "denied"}

\* The error interceptor for a 401: once, refresh and try again.
ReadUnauthorized(t) ==
  /\ task[t].kind = "read" /\ task[t].pc = "unauthorized"
  /\ \/ /\ task[t].retry \/ task[t].ver # sessionVersion
        /\ Ends(t) /\ UNCHANGED queue
     \/ /\ ~task[t].retry /\ task[t].ver = sessionVersion
        /\ IF Refreshing(sessionVersion)
             THEN /\ task' = [task EXCEPT ![t].pc = "waiting", ![t].retry = TRUE]
                  /\ UNCHANGED queue
             ELSE /\ task' = [task EXCEPT ![t].pc = "queued", ![t].retry = TRUE]
                  /\ Enqueue(t)
  /\ UNCHANGED <<server, browser, session, inputs, history>>

-----------------------------------------------------------------------------
\* The refresh, by a read or by bootRefresh.

Refresh(t, pc) == task[t].kind \in {"read", "boot"} /\ task[t].pc = pc

\* The refresh starts: checked again after the wait in the queue.  The
\* browser attaches the cookie it has now.
SendRefresh(t) ==
  /\ Refresh(t, "queued") /\ Running(t)
  /\ task' = [task EXCEPT
        ![t].pc = IF task[t].ver = sessionVersion /\ authTransition = None
                    THEN "refresh" ELSE "denied",
        ![t].tok = cookie]
  /\ UNCHANGED <<server, browser, session, queue, inputs, history>>

\* AuthController.refresh and refreshTokens: a revoked cookie is refused.
ServeRefresh(t) ==
  /\ Refresh(t, "refresh")
  /\ \/ /\ task[t].tok # None
        /\ LET a == task[t].tok.acct
           IN  /\ task[t].tok.ver = tokenVersion[a]
               /\ task' = [task EXCEPT ![t].pc = "renewed",
                     ![t].tok = [acct |-> a, ver |-> tokenVersion[a], scope |-> scope[a]]]
     \/ task' = [task EXCEPT ![t].pc = "denied"]
  /\ UNCHANGED <<server, browser, session, queue, inputs, history>>

\* The reads that wait for the refresh of version v.
Waiting(v) == {u \in Tasks : task[u].pc = "waiting" /\ task[u].ver = v}

\* The answer is applied; the reads go out again with the new token unless
\* the session has moved on, be it by this very answer.
RefreshAnswered(t) ==
  /\ Refresh(t, "renewed")
  /\ ApplyAuthCookieResponse(task[t].tok, task[t].ver)
  /\ Leave
  /\ LET again == IF task[t].ver = sessionVersion' /\ task[t].kind = "read"
                    THEN {t} \cup Waiting(task[t].ver) ELSE {}
         over  == ({t} \cup Waiting(task[t].ver)) \ again
     IN  task' = [u \in Tasks |->
                    IF u \in again THEN [task[u] EXCEPT !.pc = "sent", !.tok = token']
                    ELSE IF u \in over THEN Idle ELSE task[u]]
  /\ UNCHANGED <<server, authTransition, inputs, wanted>>

\* Mutant of RefreshFailed: whoever is signed in now is logged out.
RefreshFailedAlways(t) ==
  /\ Refresh(t, "denied") /\ task[t].kind = "read"
  /\ BeginAuthTransition
  /\ task' = [u \in Tasks |->
        IF u = t THEN [Idle EXCEPT !.kind = "logout", !.pc = "queued",
                                   !.ver = sessionVersion', !.tok = token]
        ELSE IF u \in Waiting(task[t].ver) THEN Idle ELSE task[u]]
  /\ queue' = Append(Tail(queue), t)
  /\ UNCHANGED <<server, cookie, inputs, history>>

\* A refresh that failed for a read logs out, unless its session is over.
RefreshFailed(t) ==
  /\ Refresh(t, "denied") /\ task[t].kind = "read"
  /\ LET rejected == [u \in Tasks |-> IF u \in Waiting(task[t].ver) \cup {t}
                                        THEN Idle ELSE task[u]]
     IN  IF task[t].ver = sessionVersion
           THEN /\ BeginAuthTransition
                /\ task' = [rejected EXCEPT ![t] =
                     [Idle EXCEPT !.kind = "logout", !.pc = "queued",
                                  !.ver = sessionVersion', !.tok = token]]
                /\ queue' = Append(Tail(queue), t)
           ELSE /\ task' = rejected /\ Leave
                /\ UNCHANGED <<session, stored>>
  /\ UNCHANGED <<server, cookie, inputs, history>>

\* bootRefresh that failed: clearSession, without a logout.
BootFailed(t) ==
  /\ Refresh(t, "denied") /\ task[t].kind = "boot"
  /\ Leave /\ Ends(t)
  /\ IF task[t].ver = sessionVersion
       THEN ClearSession /\ UNCHANGED <<authTransition, cookieToken>>
       ELSE UNCHANGED <<session, stored>>
  /\ UNCHANGED <<server, cookie, inputs, history>>

-----------------------------------------------------------------------------
\* Outside the tab.

\* The page is loaded again: the module's variables are new, requests in
\* flight are aborted, and the stored user starts bootRefresh.
Reload(t) ==
  /\ Input
  /\ token' = None /\ user' = stored /\ perms' = None
  /\ sessionVersion' = 0 /\ authTransition' = None /\ cookieToken' = None /\ cache' = {}
  /\ IF stored = None
       THEN queue' = <<>> /\ task' = [u \in Tasks |-> Idle]
       ELSE /\ queue' = <<t>>
            /\ task' = [u \in Tasks |->
                 IF u = t THEN [Idle EXCEPT !.kind = "boot", !.pc = "queued"] ELSE Idle]
  /\ UNCHANGED <<server, browser, history>>

\* Another tab of the browser signs in; this one is not told.
OtherTabLogin(a) ==
  /\ Input
  /\ cookie' = [acct |-> a, ver |-> tokenVersion[a], scope |-> scope[a]]
  /\ stored' = a
  /\ wanted' = {a} /\ otherTab' = "cookie"
  /\ UNCHANGED <<server, session, queue, task>>

\* The account's sessions are revoked elsewhere (changePassword,
\* resetPassword, a logout on another device).
Revoke(a) ==
  /\ Input
  /\ tokenVersion' = [tokenVersion EXCEPT ![a] = @ + 1]
  /\ UNCHANGED <<scope, browser, session, queue, task, history>>

\* An administrator changes the role or the branch of the account.
ChangeScope(a) ==
  /\ Input
  /\ scope' = [scope EXCEPT ![a] = 1 - @]
  /\ UNCHANGED <<tokenVersion, browser, session, queue, task, history>>

-----------------------------------------------------------------------------

Step(t) ==
  \/ SendLogin(t) \/ ServeLogin(t) \/ LoginAnswered(t) \/ LoginFailed(t) \/ LoginSucceeded(t)
  \/ SendLogout(t) \/ ServeLogout(t) \/ LogoutDone(t)
  \/ ServeRead(t) \/ ReadDone(t) \/ ReadUnauthorized(t)
  \/ SendRefresh(t) \/ ServeRefresh(t) \/ RefreshAnswered(t) \/ RefreshFailed(t) \/ BootFailed(t)

Person(t) ==
  \/ \E a \in Accounts : StartLogin(t, a)
  \/ StartLogout(t) \/ StartRead(t) \/ Reload(t)

Outside == \E a \in Accounts : OtherTabLogin(a) \/ Revoke(a) \/ ChangeScope(a)

\* The person does nothing more.
Quiet == inputs = MaxInputs /\ UNCHANGED vars

Next == (\E t \in Tasks : Step(t) \/ Person(t)) \/ Outside \/ Quiet

Spec == Init /\ [][Next]_vars

\* The network answers or fails, and the event loop runs what has settled.
FairSpec == Spec /\ \A t \in Tasks : WF_vars(Step(t))

-----------------------------------------------------------------------------
\* Properties.

\* The query cache never holds data of another account, or of another access
\* scope, than the one shown: logins, refreshes that change the account,
\* answers that come late and reads tried again included
\* (resetSessionCache, the version checks of the interceptors).
CacheIsTheSessions == \A d \in cache : d.acct = user /\ d.scope = perms

\* In a browser with one tab, whoever the tab shows is the account the person
\* asked for last: no answer of an earlier login, refresh or boot
\* brings an account back (applyAuthCookieResponse, setAuth's owner check).
LastIntentWins == otherTab = "none" /\ user # None => user \in wanted

\* An accepted logout revokes the account whose cookie the browser holds, also
\* when a refresh changed it after the click ("A queued logout must
\* revoke/clear that cookie's account").
LogoutRevokesCookie ==
  [][\A t \in Tasks :
       task[t].kind = "logout" /\ task[t].pc = "sent" /\ tokenVersion' # tokenVersion
       /\ task'[t].pc # "sent" /\ cookie # None /\ otherTab # "cookie"
         => tokenVersion'[cookie.acct] > tokenVersion[cookie.acct]]_vars

\* A session version, the login that is under way included, is ended by a click
\* or by a call of its own, never by one made before it ("A failed refresh from
\* the previous account must not log out its successor").
OnlyOwnCallsEndSession ==
  [][sessionVersion' # sessionVersion =>
       \/ inputs' # inputs
       \/ \E t \in Tasks : task[t].ver = sessionVersion /\ task'[t] # task[t]]_vars

\* Every call ends: no task waits forever for a lease, for the shared refresh
\* or for its own logout ("Release first: logout uses the same queue and must
\* never await its own lease").
CallsEnd == \A t \in Tasks : task[t].pc # "idle" ~> task[t].pc = "idle"

=============================================================================
