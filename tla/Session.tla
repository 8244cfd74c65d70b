------------------------------ MODULE Session ------------------------------
(***************************************************************************)
(* The login session of the browser client: the axios client with its 401  *)
(* handling (frontend/src/api/client.ts), the auth store                   *)
(* (frontend/src/stores/auth.ts) and the auth calls (frontend/src/api/     *)
(* auth.ts), in one tab.                                                   *)
(*                                                                         *)
(* JavaScript runs one task at a time, so an action is all that one answer,*)
(* timer or click sets off until everything waits again, the microtasks of *)
(* the callers included.  Between two actions everything can change.       *)
(*                                                                         *)
(* A token is represented by the user it belongs to: a refreshed token and *)
(* the one it replaces are the same value.  An expiry time is set or not.  *)
(* A timer that is due at once is a timer that may fire in the next step.  *)
(* run_mode, the pending OAuth session and the auth_expired hint of the    *)
(* login page decide nothing here and are left out.                        *)
(***************************************************************************)
EXTENDS Integers, FiniteSets

CONSTANTS
  Users,
  Calls,          \* the requests that can be in flight at once, a bound
  Nobody          \* null: no token, no user

ASSUME SessionAssumption ==
  /\ Nobody \notin Users
  /\ IsFiniteSet(Calls)

VARIABLES
  calls,              \* every request: who sent it, where it stands
  isRefreshing,
  refreshSubscribers, \* the requests whose callback waits for the new token
  store,              \* useAuthStore and its two timers
  ls,                 \* localStorage
  onLogin,            \* the path of the page includes /login
  leaving,            \* window.location.href was set, the page unloads soon
  out,                \* history: how the last logout went, "no" after a login
  overlap             \* history: a session began or ended with a request of
                      \* another one in flight, or began beside its remains

vars == <<calls, isRefreshing, refreshSubscribers, store, ls, onLogin,
          leaving, out, overlap>>

Owner == Users \cup {Nobody}
Kinds == {"me", "oauthMe", "data", "refresh", "logout", "login"}

Call == [st : {"idle", "sent", "waiting", "refreshing"}, kind : Kinds,
         as : Owner,      \* whose token its Authorization header carries
         cred : Owner,    \* whose refresh token or password it carries
         retried : BOOLEAN, sends : Nat]

Idle == [st |-> "idle", kind |-> "data", as |-> Nobody, cred |-> Nobody,
         retried |-> FALSE, sends |-> 0]

ClearedStore == [token |-> Nobody, user |-> Nobody, refresh |-> Nobody,
                 expires |-> FALSE, interval |-> FALSE, timer |-> FALSE]
ClearedStorage == [auth_token |-> Nobody, refresh_token |-> Nobody,
                   auth_user |-> Nobody, expires |-> FALSE]

Init ==
  /\ calls = [c \in Calls |-> Idle]
  /\ isRefreshing = FALSE /\ refreshSubscribers = {}
  /\ store = ClearedStore /\ ls = ClearedStorage
  /\ onLogin = TRUE /\ leaving = FALSE
  /\ out = "no" /\ overlap = FALSE

isAuthenticated == store.token # Nobody /\ store.user # Nobody
InFlight == {c \in Calls : calls[c].st # "idle"}
Others(c) == InFlight \ {c}
LoggingIn == {c \in InFlight : calls[c].kind \in {"login", "oauthMe"}}
\* The users that the store and localStorage speak of.
Present == {store.token, store.user, store.refresh, ls.auth_token,
            ls.refresh_token, ls.auth_user} \ {Nobody}
LoggingOut == {c \in InFlight : calls[c].kind = "logout"}

\* The urls the interceptor takes for auth endpoints.
IsAuthEndpoint(kind) == kind \in {"login", "refresh"}

----------------------------------------------------------------------------
(* Sending a request. *)

\* The request interceptor attaches the token that localStorage has now.
Sent(kind, cred, storage) ==
  [Idle EXCEPT !.st = "sent", !.kind = kind, !.as = storage.auth_token,
               !.cred = cred, !.sends = 1]

Send(c, kind, cred, storage) ==
  /\ calls[c].st = "idle"
  /\ calls' = [calls EXCEPT ![c] = Sent(kind, cred, storage)]

\* Any view behind the router's guard calls the API.
SendData(c) ==
  /\ isAuthenticated
  /\ Send(c, "data", Nobody, ls)
  /\ UNCHANGED <<isRefreshing, refreshSubscribers, store, ls, onLogin,
                 leaving, out, overlap>>

\* The 60 s interval: refreshUser, if there is a token.
AutoRefresh(c) ==
  /\ store.interval /\ store.token # Nobody
  /\ Send(c, "me", Nobody, ls)
  /\ UNCHANGED <<isRefreshing, refreshSubscribers, store, ls, onLogin,
                 leaving, out, overlap>>

\* The timer of scheduleTokenRefreshAt fires: performTokenRefresh.
TokenTimer(c) ==
  /\ store.timer
  /\ store' = [store EXCEPT !.timer = FALSE]
  /\ IF store.refresh # Nobody /\ ls.refresh_token # Nobody
     THEN Send(c, "refresh", ls.refresh_token, ls)
     ELSE UNCHANGED calls
  /\ UNCHANGED <<isRefreshing, refreshSubscribers, ls, onLogin, leaving, out,
                 overlap>>

\* login, login2FA and register send u's credentials.
Login(c, u) ==
  /\ ~isAuthenticated /\ LoggingIn = {}
  /\ Send(c, "login", u, ls)
  /\ UNCHANGED <<isRefreshing, refreshSubscribers, store, ls, onLogin,
                 leaving, out, overlap>>

\* An OAuth callback page: persistOAuthTokenContext, then setToken up to its
\* await.  cred keeps savedRefreshToken.
SetToken(c, u, given) ==
  LET storage == [ls EXCEPT !.auth_token = u,
                    !.refresh_token = IF given THEN u ELSE @,
                    !.expires = given \/ @]
  IN /\ ~onLogin /\ LoggingIn = {} /\ LoggingOut = {}
     /\ ls' = storage
     /\ store' = [store EXCEPT !.token = u, !.user = Nobody,
                    !.refresh = IF storage.refresh_token # Nobody
                                THEN storage.refresh_token ELSE @,
                    !.expires = storage.expires \/ @,
                    !.interval = FALSE, !.timer = FALSE]
     /\ Send(c, "oauthMe", storage.refresh_token, storage)
     /\ out' = "no"
     /\ overlap' = (overlap \/ InFlight # {} \/ Present \cup {u} # {u})
     /\ UNCHANGED <<isRefreshing, refreshSubscribers, onLogin, leaving>>

\* Slips of the kind the configurations are checked to notice.
ClearAuthKeepsToken == [ClearedStore EXCEPT !.token = store.token]
\* clearAuth, its part of the store.
ClearAuth == ClearedStore

LogoutDone(c) ==
  /\ store' = ClearAuth
  /\ ls' = ClearedStorage
  /\ out' = IF Others(c) = {} THEN "quiet" ELSE "busy"
  /\ overlap' = (overlap \/ Others(c) # {})

\* handleLogout: without a refresh token nothing is sent.
Logout(c) ==
  /\ isAuthenticated /\ LoggingOut = {} /\ calls[c].st = "idle"
  /\ IF ls.refresh_token # Nobody
     THEN /\ Send(c, "logout", ls.refresh_token, ls)
          /\ UNCHANGED <<store, ls, out, overlap>>
     ELSE /\ LogoutDone(c)
          /\ UNCHANGED calls
  /\ UNCHANGED <<isRefreshing, refreshSubscribers, onLogin, leaving>>

----------------------------------------------------------------------------
(* The answers, and what the callers do with them. *)

Answered(c) == [calls EXCEPT ![c] = Idle]

\* refreshUser: whatever happened to the session in the meantime, the user
\* of the answer is written.
MeOk(c) ==
  /\ calls[c].kind = "me"
  /\ store' = [store EXCEPT !.user = calls[c].as]
  /\ ls' = [ls EXCEPT !.auth_user = calls[c].as]
  /\ UNCHANGED <<out, overlap>>

\* The rest of setToken after refreshUser.
OAuthMeOk(c) ==
  /\ calls[c].kind = "oauthMe"
  /\ store' = [store EXCEPT !.user = calls[c].as, !.interval = TRUE,
                 !.timer = @ \/ (calls[c].cred # Nobody /\ store.expires)]
  /\ ls' = [ls EXCEPT !.auth_user = calls[c].as]
  /\ UNCHANGED <<out, overlap>>

DataOk(c) ==
  /\ calls[c].kind = "data"
  /\ UNCHANGED <<store, ls, out, overlap>>

\* authAPI.refreshToken and the rest of performTokenRefresh.
RefreshTokenOk(c) ==
  LET u == calls[c].cred
  IN /\ calls[c].kind = "refresh"
     /\ ls' = [ls EXCEPT !.auth_token = u, !.refresh_token = u,
                         !.expires = TRUE]
     /\ store' = [store EXCEPT !.token = u, !.refresh = u, !.expires = TRUE,
                               !.timer = TRUE]
     /\ UNCHANGED <<out, overlap>>

LogoutOk(c) == calls[c].kind = "logout" /\ LogoutDone(c)

\* setAuthFromResponse forgets to replace the refresh token.
SetAuthKeepsRefresh(u, given) ==
  /\ store' = [store EXCEPT !.token = u, !.user = u, !.interval = TRUE]
  /\ ls' = [ls EXCEPT !.auth_token = u, !.auth_user = u]

\* authAPI.login and setAuthFromResponse: a token, the user, and the refresh
\* token with its expiry if the answer has them.
SetAuth(u, given) ==
  /\ store' = [store EXCEPT !.token = u, !.user = u, !.interval = TRUE,
                 !.refresh = IF given THEN u ELSE @,
                 !.expires = given \/ @, !.timer = given \/ @]
  /\ ls' = [ls EXCEPT !.auth_token = u, !.auth_user = u,
                 !.refresh_token = IF given THEN u ELSE @,
                 !.expires = given \/ @]

\* Remains of another session that a login without a refresh token keeps.
KeepsRemains(u, given) ==
  ~given /\ {store.refresh, ls.refresh_token} \ {u, Nobody} # {}

LoginOk(c) ==
  LET u == calls[c].cred
  IN /\ calls[c].kind = "login"
     /\ \E given \in BOOLEAN :
          /\ SetAuth(u, given)
          /\ overlap' = (overlap \/ Others(c) # {} \/ KeepsRemains(u, given))
     /\ out' = "no"

\* The password is right and the server asks for a second factor.
LoginChallenge(c) ==
  /\ calls[c].kind = "login"
  /\ UNCHANGED <<store, ls, out, overlap>>

\* A server answers 200 to a request that carries a token, a login or a
\* refresh token of its own.
RespondOk(c) ==
  /\ calls[c].st = "sent"
  /\ calls[c].kind \in {"me", "oauthMe", "data"} => calls[c].as # Nobody
  /\ calls' = Answered(c)
  /\ \/ MeOk(c) \/ OAuthMeOk(c) \/ DataOk(c) \/ RefreshTokenOk(c)
     \/ LogoutOk(c) \/ LoginOk(c) \/ LoginChallenge(c)
  /\ UNCHANGED <<isRefreshing, refreshSubscribers, onLogin, leaving>>

\* The callers of the requests in cs see a rejection with this status.
\* refreshUser clears on 401, setToken and login on every error; logout
\* ignores the error and clears.  storage is what the interceptor left.
Rejected(cs, status, storage) ==
  LET clearing == {d \in cs :
        \/ calls[d].kind = "me" /\ status = 401
        \/ calls[d].kind \in {"oauthMe", "login", "logout"}}
      gone == {d \in cs : calls[d].kind = "logout"}
      rest == InFlight \ cs
  IN /\ store' = IF clearing = {} THEN store ELSE ClearAuth
     /\ ls' = IF clearing = {} THEN storage ELSE ClearedStorage
     /\ out' = IF gone = {} THEN out
               ELSE IF rest = {} THEN "quiet" ELSE "busy"
     /\ overlap' = (overlap \/ (gone # {} /\ rest # {}))

\* A network error, a timeout, a status other than 401 or a code other than 0.
RespondError(c) ==
  /\ calls[c].st = "sent"
  /\ calls' = Answered(c)
  /\ Rejected({c}, 0, ls)
  /\ UNCHANGED <<isRefreshing, refreshSubscribers, onLogin, leaving>>

\* 401 to a request that was sent again already.
Reject401(c) ==
  /\ calls[c].retried
  /\ calls' = Answered(c)
  /\ Rejected({c}, 401, ls)
  /\ UNCHANGED <<isRefreshing, refreshSubscribers, onLogin, leaving>>

CanRefresh(c) == ls.refresh_token # Nobody /\ ~IsAuthEndpoint(calls[c].kind)

Redirect == leaving' = (leaving \/ ~onLogin) /\ UNCHANGED onLogin

\* 401 and nothing to refresh with: the session is over.
SessionOver(c) ==
  /\ ~calls[c].retried /\ ~CanRefresh(c)
  /\ calls' = Answered(c)
  /\ Rejected({c}, 401, ClearedStorage)
  /\ Redirect
  /\ UNCHANGED <<isRefreshing, refreshSubscribers>>

\* 401 while a refresh is under way: wait for its end.
Subscribe(c) ==
  /\ ~calls[c].retried /\ CanRefresh(c) /\ isRefreshing
  /\ calls' = [calls EXCEPT ![c].st = "waiting"]
  /\ refreshSubscribers' = refreshSubscribers \cup {c}
  /\ UNCHANGED <<isRefreshing, store, ls, onLogin, leaving, out, overlap>>

\* Every 401 starts a refresh of its own.
StartRefreshAlways(c) ==
  /\ ~calls[c].retried /\ CanRefresh(c)
  /\ calls' = [calls EXCEPT ![c].st = "refreshing", ![c].retried = TRUE,
                            ![c].cred = ls.refresh_token]
  /\ isRefreshing' = TRUE
  /\ UNCHANGED <<refreshSubscribers, store, ls, onLogin, leaving, out, overlap>>

\* 401: refresh the token, outside of the client.
StartRefresh(c) ==
  /\ ~calls[c].retried /\ CanRefresh(c) /\ ~isRefreshing
  /\ calls' = [calls EXCEPT ![c].st = "refreshing", ![c].retried = TRUE,
                            ![c].cred = ls.refresh_token]
  /\ isRefreshing' = TRUE
  /\ UNCHANGED <<refreshSubscribers, store, ls, onLogin, leaving, out, overlap>>

Respond401(c) ==
  /\ calls[c].st = "sent"
  /\ Reject401(c) \/ SessionOver(c) \/ Subscribe(c) \/ StartRefresh(c)

ResentUnmarked(call, u) == [call EXCEPT !.st = "sent", !.as = u, !.sends = @ + 1]
\* A request sent again, marked, with the new token.
Resent(call, u) ==
  [call EXCEPT !.st = "sent", !.as = u, !.retried = TRUE, !.sends = @ + 1]

\* The tokens are replaced, the subscribers are called, all are sent again.
RefreshOk(c) ==
  LET u == calls[c].cred
  IN /\ calls[c].st = "refreshing"
     /\ ls' = [ls EXCEPT !.auth_token = u, !.refresh_token = u,
                         !.expires = TRUE]
     /\ calls' = [d \in Calls |->
                    IF d \in refreshSubscribers \cup {c}
                    THEN Resent(calls[d], u) ELSE calls[d]]
     /\ isRefreshing' = FALSE /\ refreshSubscribers' = {}
     /\ UNCHANGED <<store, onLogin, leaving, out, overlap>>

\* The subscribers are left out of the failure.
RefreshFailsAlone(c) ==
  /\ calls[c].st = "refreshing"
  /\ calls' = Answered(c)
  /\ Rejected({c}, 401, ClearedStorage)
  /\ isRefreshing' = FALSE
  /\ UNCHANGED refreshSubscribers
  /\ Redirect

\* A refused or failed refresh: subscribers get the empty token, all reject.
RefreshFails(c) ==
  LET failed == refreshSubscribers \cup {c}
  IN /\ calls[c].st = "refreshing"
     /\ calls' = [d \in Calls |-> IF d \in failed THEN Idle ELSE calls[d]]
     /\ Rejected(failed, 401, ClearedStorage)
     /\ isRefreshing' = FALSE /\ refreshSubscribers' = {}
     /\ Redirect

----------------------------------------------------------------------------
(* The page. *)

\* The store as checkAuth restores it, and the request for the user it sends.
Restored(st) ==
  [st EXCEPT !.token = ls.auth_token, !.user = ls.auth_user,
             !.refresh = ls.refresh_token, !.expires = ls.expires,
             !.interval = TRUE,
             !.timer = @ \/ (ls.refresh_token # Nobody /\ ls.expires)]
Restorable == ls.auth_token # Nobody /\ ls.auth_user # Nobody

\* The home page calls checkAuth every time it is shown.
CheckAuth(c) ==
  /\ ~onLogin /\ Restorable
  /\ store' = Restored(store)
  /\ Send(c, "me", Nobody, ls)
  /\ UNCHANGED <<isRefreshing, refreshSubscribers, ls, onLogin, leaving, out,
                 overlap>>

\* The page is loaded again, by the user or because location.href was set:
\* everything in memory is gone, and the first navigation calls checkAuth.
\* The guard keeps a restored session off the login page.
Reload(c) ==
  /\ isRefreshing' = FALSE /\ refreshSubscribers' = {}
  /\ leaving' = FALSE
  /\ IF Restorable
     THEN /\ store' = Restored(ClearedStore)
          /\ calls' = [d \in Calls |->
                         IF d = c THEN Sent("me", Nobody, ls) ELSE Idle]
          /\ onLogin' = FALSE
     ELSE /\ store' = ClearedStore
          /\ calls' = [d \in Calls |-> Idle]
          /\ onLogin' \in {onLogin \/ leaving, TRUE}
  /\ UNCHANGED <<ls, out, overlap>>

\* The router: the login page is for those who are not logged in.
Navigate ==
  /\ onLogin' = ~onLogin
  /\ isAuthenticated => onLogin
  /\ UNCHANGED <<calls, isRefreshing, refreshSubscribers, store, ls, leaving,
                 out, overlap>>

Respond(c) ==
  RespondOk(c) \/ RespondError(c) \/ Respond401(c)
  \/ RefreshOk(c) \/ RefreshFails(c)

Start(c) ==
  \/ SendData(c) \/ AutoRefresh(c) \/ TokenTimer(c) \/ Logout(c)
  \/ \E u \in Users : \/ Login(c, u)
                      \/ \E given \in BOOLEAN : SetToken(c, u, given)

Next ==
  \/ \E c \in Calls : Start(c) \/ Respond(c) \/ CheckAuth(c) \/ Reload(c)
  \/ Navigate

\* A request ends: with an answer, or with the client's 30 s timeout, or
\* with the browser's for the refresh, which is sent without one.
Fairness == \A c \in Calls : WF_vars(Respond(c))

Spec == Init /\ [][Next]_vars
FairSpec == Spec /\ Fairness

----------------------------------------------------------------------------
(* Properties. *)

TypeOK ==
  /\ calls \in [Calls -> Call]
  /\ isRefreshing \in BOOLEAN
  /\ refreshSubscribers \in SUBSET Calls
  /\ store \in [token : Owner, user : Owner, refresh : Owner,
                expires : BOOLEAN, interval : BOOLEAN, timer : BOOLEAN]
  /\ ls \in [auth_token : Owner, refresh_token : Owner, auth_user : Owner,
             expires : BOOLEAN]
  /\ onLogin \in BOOLEAN /\ leaving \in BOOLEAN
  /\ out \in {"no", "quiet", "busy"}
  /\ overlap \in BOOLEAN

\* However many requests meet a 401 at once, the client refreshes once: the
\* flag is up exactly while one request refreshes, the waiting requests are
\* the subscribers, and there is always a refresh that will call them.
SingleFlight ==
  /\ \A c, d \in Calls :
       calls[c].st = "refreshing" /\ calls[d].st = "refreshing" => c = d
  /\ isRefreshing <=> \E c \in Calls : calls[c].st = "refreshing"
  /\ refreshSubscribers = {c \in Calls : calls[c].st = "waiting"}
  /\ refreshSubscribers # {} => isRefreshing

\* A server that keeps answering 401 cannot make the client loop: no request
\* is sent more than twice, whoever refreshed for it.
SentAtMostTwice == \A c \in Calls : calls[c].sends <= 2

\* After a logout that found nothing else in flight, nothing is left of the
\* session and nothing brings it back, in the store, its timers or
\* localStorage, until somebody logs in.
QuietLogoutClears ==
  out = "quiet" => store = ClearedStore /\ ls = ClearedStorage

\* Tokens and user data of two users are never mixed, as long as sessions
\* begin and end while no other request is in flight: a login replaces all
\* that an earlier session may have left behind, unless it brings no refresh
\* token, and setToken starts beside nobody else's remains.
OneSession == ~overlap => \A u, v \in Present : u = v

\* A request that has been sent twice is there again.
Stage(c) ==
  IF calls[c].st = "sent" /\ calls[c].sends > 1 THEN "again" ELSE calls[c].st

Gate == INSTANCE RefreshGate WITH stage <- [c \in Calls |-> Stage(c)]

\* A server that keeps answering 401 cannot make the client loop, and no
\* waiting request is left behind or let go before the others: flag, list of
\* callbacks, marks on the requests and reloads implement the plain gate.
ImplementsRefreshGate == Gate!Spec

\* A request whose 401 led to a refresh, its own or another's, is sent again
\* or rejected in the end: nobody waits for a refresh that is over.
EveryWaitEnds ==
  \A c \in Calls : calls[c].st \in {"waiting", "refreshing"}
                     ~> calls[c].st \notin {"waiting", "refreshing"}

============================================================================
