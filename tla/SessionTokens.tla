--------------------------- MODULE SessionTokens ---------------------------
(***************************************************************************)
(* The sessions of one user in one browser: the tokens that the server     *)
(* keeps (SanctumTokenManager, AuthController, EnsureApiTokenIsValid), the *)
(* refresh cookie that all tabs share, and in each tab stores/auth.js with *)
(* the interceptors of services/apiClient.js.                              *)
(*                                                                         *)
(* A session is its pair of tokens: live while its refresh token is there, *)
(* fresh while its access token is accepted.  Requests are answered in any *)
(* order.  The answer to one can be lost, before or after the server saw   *)
(* it, or while the server still works on it.  Passwords are right.        *)
(***************************************************************************)
EXTENDS Naturals

CONSTANTS
    Tabs,
    Slots,        \* bound: requests a tab has under way, 1 .. Slots
    MaxEvents     \* bound: clicks that send a request and requests without an answer

ASSUME SessionBoundsAssumption == Slots \in Nat \ {0} /\ MaxEvents \in Nat

\* Sessions are numbered as they are issued.
NoSession == 0
Calls == Tabs \X (1 .. Slots)

VARIABLES
    live, fresh,  \* sessions with a refresh token and with an access token
    issued,       \* how many were issued
    cookie,       \* the session of the refresh cookie
    token,        \* per tab: the session of token
    canRefresh,   \* the tabs with hasRefreshSession
    restored,     \* the tabs with hasAttemptedRestore
    refresh,      \* per tab: the POST /auth/refresh under way
    call,         \* the other requests under way
    unanswered,   \* requests given up that the server may still serve
    doubtful,     \* history: sessions that a request without an answer was to revoke
    events

serverVars == <<live, fresh, issued>>
tabVars == <<cookie, token, canRefresh, restored>>
boundVars == <<unanswered, doubtful, events>>
sessionVars == <<serverVars, tabVars, refresh, call, boundVars>>

\* at: "none", "asked", "found", "issued" or "denied"; it carries a session and gets one
NoRefresh == [at |-> "none", carries |-> NoSession, gets |-> NoSession]
Asked == [at |-> "asked", carries |-> cookie, gets |-> NoSession]

\* at: "idle", "sent", "ok", "denied", or "waiting" for the refresh of its tab
IdleCall == [at |-> "idle", kind |-> "get", bears |-> NoSession, retried |-> FALSE]

SessionInit ==
    /\ live = {1} /\ fresh \in SUBSET {1} /\ issued = 1
    /\ cookie = 1
    /\ token = [t \in Tabs |-> NoSession]
    /\ canRefresh = Tabs /\ restored = {}
    /\ refresh = [t \in Tabs |-> NoRefresh]
    /\ call = [c \in Calls |-> IdleCall]
    /\ unanswered = {} /\ doubtful = {} /\ events = 0

Event == events < MaxEvents /\ events' = events + 1

-----------------------------------------------------------------------------
(* The server *)

\* SanctumTokenManager::issue
Issue == issued + 1

\* refresh() finds the token, or answers 401.
RefreshFinds(t) ==
    /\ refresh[t].at = "asked"
    /\ refresh' = [refresh EXCEPT ![t].at = IF refresh[t].carries \in live THEN "found" ELSE "denied"]
    /\ UNCHANGED <<serverVars, tabVars, call, boundVars>>

\* The pair of the session found is revoked, unless someone else was faster, and a
\* new pair is issued all the same.
RefreshIssues(t) ==
    /\ refresh[t].at = "found"
    /\ live' = (live \ {refresh[t].carries}) \cup {Issue}
    /\ fresh' = (fresh \ {refresh[t].carries}) \cup {Issue}
    /\ issued' = Issue
    /\ refresh' = [refresh EXCEPT ![t] = [at |-> "issued", carries |-> @.carries, gets |-> Issue]]
    /\ UNCHANGED <<tabVars, call, boundVars>>

Serves(c, outcome) == call' = [call EXCEPT ![c].at = outcome]

\* AuthController::login
ServeLogin(c) ==
    /\ call[c].at = "sent" /\ call[c].kind = "login"
    /\ live' = live \cup {Issue} /\ fresh' = fresh \cup {Issue} /\ issued' = Issue
    /\ call' = [call EXCEPT ![c] = [at |-> "ok", kind |-> "login", bears |-> Issue, retried |-> @.retried]]
    /\ UNCHANGED <<tabVars, refresh, boundVars>>

\* EnsureApiTokenIsValid, then the controller; logout() revokes the session of the
\* bearer, not that of the cookie.
ServeCall(c) ==
    /\ call[c].at = "sent" /\ call[c].kind # "login"
    /\ Serves(c, IF call[c].bears \in fresh THEN "ok" ELSE "denied")
    /\ IF call[c].kind = "logout" /\ call[c].bears \in fresh
       THEN live' = live \ {call[c].bears} /\ fresh' = fresh \ {call[c].bears}
       ELSE UNCHANGED <<live, fresh>>
    /\ UNCHANGED <<issued, tabVars, refresh, boundVars>>

\* An hour is over.
AccessExpires(s) ==
    /\ s \in fresh
    /\ fresh' = fresh \ {s}
    /\ UNCHANGED <<live, issued, tabVars, refresh, call, boundVars>>

\* A request that the browser gave up is served all the same.  Nobody gets the pair
\* that a refresh issues then, and it is left out.
ServeLate(r) ==
    /\ r \in unanswered
    /\ unanswered' = unanswered \ {r}
    /\ IF r.kind = "refresh" \/ r.session \in fresh
       THEN live' = live \ {r.session} /\ fresh' = fresh \ {r.session}
       ELSE UNCHANGED <<live, fresh>>
    /\ UNCHANGED <<issued, tabVars, refresh, call, doubtful, events>>

-----------------------------------------------------------------------------
(* A tab *)

\* The router's guard restores the session before it shows the first page.
Open(t) ==
    /\ t \notin restored /\ refresh[t] = NoRefresh
    /\ refresh' = [refresh EXCEPT ![t] = Asked]
    /\ UNCHANGED <<serverVars, tabVars, call, boundVars>>

\* A view, the login form or the button sends a request.  The form is shown to whoever
\* opens its page, the rest to users who are signed in.
Send(c, kind) ==
    LET t == c[1] IN
    /\ t \in restored
    /\ call[c] = IdleCall /\ \A n \in 1 .. c[2] - 1 : call[<<t, n>>] # IdleCall
    /\ kind # "login" => token[t] # NoSession
    /\ Event
    /\ call' = [call EXCEPT ![c] = [at |-> "sent", kind |-> kind, bears |-> token[t], retried |-> FALSE]]
    /\ UNCHANGED <<serverVars, tabVars, refresh, unanswered, doubtful>>

SignedIn(t, s) ==
    /\ token' = [token EXCEPT ![t] = s]
    /\ canRefresh' = canRefresh \cup {t}
    /\ restored' = restored \cup {t}

SignedOut(t) ==
    /\ token' = [token EXCEPT ![t] = NoSession]
    /\ canRefresh' = canRefresh \ {t}
    /\ restored' = restored \cup {t}

\* Whatever came of it, logout() signs the tab out.
Rejected(c) ==
    /\ call' = [call EXCEPT ![c] = IdleCall]
    /\ IF call[c].kind = "logout" THEN SignedOut(c[1]) ELSE UNCHANGED <<token, canRefresh, restored>>

\* Mutant: logout() leaves the cookie to the browser.
SucceedsKeepingCookie(c) ==
    /\ call[c].at = "ok"
    /\ call' = [call EXCEPT ![c] = IdleCall]
    /\ CASE call[c].kind = "login" -> cookie' = call[c].bears /\ SignedIn(c[1], call[c].bears)
         [] call[c].kind = "logout" -> UNCHANGED cookie /\ SignedOut(c[1])
         [] OTHER -> UNCHANGED tabVars
    /\ UNCHANGED <<serverVars, refresh, boundVars>>

Succeeds(c) ==
    /\ call[c].at = "ok"
    /\ call' = [call EXCEPT ![c] = IdleCall]
    /\ CASE call[c].kind = "login" -> cookie' = call[c].bears /\ SignedIn(c[1], call[c].bears)
         [] call[c].kind = "logout" -> cookie' = NoSession /\ SignedOut(c[1])
         [] OTHER -> UNCHANGED tabVars
    /\ UNCHANGED <<serverVars, refresh, boundVars>>

\* 401: once per request, wait for the refresh of the tab and start it if there is
\* none; also for a request whose token was replaced since it was sent.
Denied(c) ==
    LET t == c[1] IN
    /\ call[c].at = "denied"
    /\ IF call[c].retried \/ t \notin canRefresh
       THEN Rejected(c) /\ UNCHANGED refresh
       ELSE /\ call' = [call EXCEPT ![c].at = "waiting"]
            /\ refresh' = IF refresh[t] = NoRefresh THEN [refresh EXCEPT ![t] = Asked] ELSE refresh
            /\ UNCHANGED <<token, canRefresh, restored>>
    /\ UNCHANGED <<serverVars, cookie, boundVars>>

Waiting(t) == {c \in Calls : c[1] = t /\ call[c].at = "waiting"}

\* The refresh ends with a token: those who waited for it repeat their requests.
RefreshSucceeds(t) ==
    LET s == refresh[t].gets IN
    /\ refresh[t].at = "issued"
    /\ cookie' = s
    /\ SignedIn(t, s)
    /\ refresh' = [refresh EXCEPT ![t] = NoRefresh]
    /\ call' = [c \in Calls |-> IF c \in Waiting(t)
                                THEN [at |-> "sent", kind |-> call[c].kind, bears |-> s, retried |-> TRUE]
                                ELSE call[c]]
    /\ UNCHANGED <<serverVars, boundVars>>

\* The refresh ends with null: the tab is signed out, and who waited for it is rejected.
RefreshEnds(t) ==
    /\ SignedOut(t)
    /\ refresh' = [refresh EXCEPT ![t] = NoRefresh]
    /\ call' = [c \in Calls |-> IF c \in Waiting(t) THEN IdleCall ELSE call[c]]

\* Mutant: the interceptor lets the refresh wait for the refresh.
RefreshDeniedWaits(t) ==
    /\ refresh[t].at = "denied"
    /\ cookie' = NoSession
    /\ refresh' = [refresh EXCEPT ![t].at = "waiting"]
    /\ UNCHANGED <<serverVars, token, canRefresh, restored, call, boundVars>>

\* The answer 401 forgets the cookie, whichever it is by now.
RefreshDenied(t) ==
    /\ refresh[t].at = "denied"
    /\ cookie' = NoSession
    /\ RefreshEnds(t)
    /\ UNCHANGED <<serverVars, boundVars>>

-----------------------------------------------------------------------------
(* No answer *)

Drop ==
    /\ Event
    /\ UNCHANGED <<serverVars, cookie>>

\* A session is in doubt when the server was, or may still be, to revoke it.
DropRevoking(kind, s, pending) ==
    /\ Drop
    /\ doubtful' = doubtful \cup {s}
    /\ unanswered' = IF pending THEN unanswered \cup {[kind |-> kind, session |-> s]} ELSE unanswered

RefreshDrops(t) ==
    /\ refresh[t] # NoRefresh
    /\ RefreshEnds(t)
    /\ DropRevoking("refresh", refresh[t].carries, refresh[t].at \in {"asked", "found"})

CallDrops(c) ==
    /\ call[c].at \in {"sent", "ok", "denied"}
    /\ Rejected(c)
    /\ IF call[c].kind = "logout" THEN DropRevoking("logout", call[c].bears, call[c].at = "sent")
       ELSE Drop /\ UNCHANGED <<unanswered, doubtful>>
    /\ UNCHANGED refresh

-----------------------------------------------------------------------------
SessionNext ==
    \/ \E t \in Tabs :
          \/ Open(t) \/ RefreshFinds(t) \/ RefreshIssues(t)
          \/ RefreshSucceeds(t) \/ RefreshDenied(t) \/ RefreshDrops(t)
    \/ \E c \in Calls :
          \/ \E kind \in {"get", "login", "logout"} : Send(c, kind)
          \/ ServeLogin(c) \/ ServeCall(c) \/ Succeeds(c) \/ Denied(c) \/ CallDrops(c)
    \/ \E s \in fresh : AccessExpires(s)
    \/ \E r \in unanswered : ServeLate(r)

SessionSpec == SessionInit /\ [][SessionNext]_sessionVars

\* Requests are served and answered: whatever is under way, something of it goes on.
GoesOn ==
    \/ \E t \in Tabs : RefreshFinds(t) \/ RefreshIssues(t) \/ RefreshSucceeds(t) \/ RefreshDenied(t)
    \/ \E c \in Calls : ServeLogin(c) \/ ServeCall(c) \/ Succeeds(c) \/ Denied(c)

SessionFairness == WF_sessionVars(GoesOn)

-----------------------------------------------------------------------------
(* Properties *)

\* The cookie that the tabs share names a session of the server, whichever tab wrote
\* it last and in whichever order the answers came, unless a request that revokes the
\* session is under way or was never answered.  Otherwise the next tab is signed out.
CookieIsLive ==
    \/ cookie \in {NoSession} \cup live \cup doubtful
    \/ \E t \in Tabs : refresh[t] # NoRefresh /\ refresh[t].carries = cookie
    \/ \E c \in Calls : call[c].at # "idle" /\ call[c].kind = "logout" /\ call[c].bears = cookie

AtRest == (\A c \in Calls : call[c] = IdleCall) /\ (\A t \in Tabs : refresh[t] = NoRefresh)

\* Once the user stops clicking, every request ends: none waits for a refresh that
\* nobody sends or that waits for itself, and no two tabs that revoke the token of each
\* other keep refreshing for ever.
RequestsSettle == []<>AtRest
=============================================================================
