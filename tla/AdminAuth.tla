----------------------------- MODULE AdminAuth -----------------------------
(***************************************************************************)
(* The sessions of the administrators: the web console in the tabs of one  *)
(* browser (web-cp/src/config/api.ts, stores/auth.store.ts,                *)
(* hooks/auth.hooks.ts, views/auth) and the control plane that serves them *)
(* (internal/cp/auth).                                                     *)
(*                                                                         *)
(* A login ends in a row of admin_sessions, a refresh token in a cookie    *)
(* that all tabs share, and an access token in the store of one tab.  The  *)
(* store is copied to localStorage at every change and read from it only   *)
(* when a page loads.  The interceptor renews an access token that is      *)
(* about to expire; the control plane then revokes the row of the cookie   *)
(* and creates another, with a query for each step.                        *)
(*                                                                         *)
(* A row, its refresh token and its access token share one number.  Rows   *)
(* are numbered in the order they are created; 0 is "no token".            *)
(***************************************************************************)
EXTENDS Naturals, FiniteSets

CONSTANTS
  Tabs,         \* the tabs of the browser
  Admins,       \* the administrators
  Kinds,        \* the requests of a tab that are looked at, among Requests
  Calls,        \* calls to /auth/refresh that may be under way at once
  NoAdmin,      \* nobody
  MaxSessions,  \* bound: rows of admin_sessions
  MaxPwd,       \* bound: changes of the password of an administrator
  MaxFaults     \* bound: failed queries and answers lost on the way

(* The requests that matter to a session: any call of a page ("list"), the *)
(* bootstrap query ("me"), the sign-out, and the two steps of a login.     *)
Requests == {"list", "me", "logout", "login", "verify"}

ASSUME KindsAssumption == Kinds \subseteq Requests
ASSUME AdminsAssumption == NoAdmin \notin Admins
ASSUME BoundsAssumption == {MaxSessions, MaxPwd, MaxFaults} \subseteq Nat

VARIABLES
  issued,    \* the number of rows of admin_sessions
  status,    \* each row: "live", "rotated" by a refresh, "revoked" or past its
             \* expiry, "unsaved" when the INSERT failed; "none" before it is issued
  owner,     \* the administrator of each row
  since,     \* history: the password of the administrator when the login of the
             \* row was completed
  age,       \* each access token: "fresh", "ending" (30 s or less), "expired"
  rotator,   \* history: the tab whose refresh revoked the row
  password,  \* the password of each administrator, counted
  changing,  \* administrators whose new password is stored and whose
             \* sessions are not yet revoked
  call,      \* the calls to /auth/refresh
  cookie,    \* the refresh token of the browser
  disk,      \* localStorage, key ashrix-auth
  store,     \* the zustand store of each tab
  page,      \* what each tab shows: "app", "login" or "loading"
  form,      \* the sign-in page of each tab: whose code it asks for, or nobody's
  req,       \* the requests of each tab
  lost,      \* history: rows whose replacement never reached the browser
  faults     \* faults so far

vars == <<issued, status, owner, since, age, rotator, password, changing,
          call, cookie, disk, store, page, form, req, lost, faults>>

serverVars == <<issued, status, owner, since, age, rotator, password, changing>>
tabVars    == <<disk, store, page, form, req>>
-----------------------------------------------------------------------------
Rows == 0..MaxSessions

(* What partialize keeps of the store.                                     *)
Persisted == [user : Admins \cup {NoAdmin}, token : Rows, authed : BOOLEAN]
SignedOut == [user |-> NoAdmin, token |-> 0, authed |-> FALSE]

(* A request: on no way, held by the interceptor, sent with the token it   *)
(* names, or (a verified login) answered with the row it names.            *)
Idle    == [at |-> "idle", token |-> 0]
NoReqs  == [k \in Kinds |-> Idle]

(* A call to /auth/refresh: free, sent with the row old of the cookie, or  *)
(* past one of the queries of the handler; kept while a page waits for it. *)
Free == [at |-> "free", tab |-> CHOOSE t \in Tabs : TRUE,
         old |-> 0, new |-> 0, kept |-> FALSE]

(* refreshPromise of a tab, seen from outside, and the requests behind it. *)
Kept(t)    == {c \in Calls : call[c].kept /\ call[c].tab = t}
Waiting(t) == {k \in Kinds : req[t][k].at = "waiting"}

(* tokenNeedsRefresh: 30 seconds or less before the expiry, or after it.   *)
NeedsRefresh(n) == n # 0 /\ age[n] # "fresh"

(* AuthMiddleware: the signature and the expiry of the access token; the   *)
(* row of the session is not looked at.                                    *)
Accepts(n) == n # 0 /\ age[n] # "expired"

(* The routes of /auth that the console uses, by method.                   *)
Routes == {<<"POST", "refresh">>, <<"POST", "login">>, <<"POST", "verify">>,
           <<"POST", "logout">>, <<"GET", "me">>}
LogoutMethod == "GET"

Init ==
  /\ issued = 0
  /\ status = [n \in Rows |-> "none"]
  /\ owner = [n \in Rows |-> NoAdmin]
  /\ since = [n \in Rows |-> 0]
  /\ age = [n \in Rows |-> "fresh"]
  /\ rotator = [n \in Rows |-> {}]
  /\ password = [a \in Admins |-> 0]
  /\ changing = {}
  /\ call = [c \in Calls |-> Free]
  /\ cookie = 0
  /\ disk = SignedOut
  /\ store = [t \in Tabs |-> SignedOut]
  /\ page = [t \in Tabs |-> "login"]
  /\ form = [t \in Tabs |-> NoAdmin]
  /\ req = [t \in Tabs |-> NoReqs]
  /\ lost = {}
  /\ faults = 0
-----------------------------------------------------------------------------
(* What the steps of a tab have in common.                                 *)

(* A set() of the store: persist copies it to localStorage.                *)
SetStore(t, s) ==
  /\ store' = [store EXCEPT ![t] = s]
  /\ disk' = s

(* The page of t goes away: the answers of its calls reach nobody.         *)
Abandoned(t) == {call[c].old : c \in Kept(t)}
Unload(t) ==
  /\ page' = [page EXCEPT ![t] = "loading"]
  /\ form' = [form EXCEPT ![t] = NoAdmin]
  /\ req' = [req EXCEPT ![t] = NoReqs]
  /\ call' = [c \in Calls |-> [call[c] EXCEPT !.kept = @ /\ call[c].tab # t]]
  /\ lost' = lost \cup Abandoned(t)

(* clearAuthAndRedirect, after the requests rs of t came to nothing: the   *)
(* store is emptied, and any page but /login is replaced by it.  On the    *)
(* sign-in page the call under way, if it is not the one that failed,      *)
(* goes on.                                                                *)
ClearAuthAndRedirect(t, rs, cs) ==
  /\ SetStore(t, SignedOut)
  /\ \/ /\ page[t] # "login"
        /\ Unload(t)
     \/ /\ page[t] = "login"
        /\ req' = [req EXCEPT ![t] = [k \in Kinds |-> IF k \in rs THEN Idle ELSE @[k]]]
        /\ call' = [c \in Calls |-> IF c \in cs THEN [call[c] EXCEPT !.kept = FALSE] ELSE call[c]]
        /\ lost' = lost \cup {call[c].old : c \in cs}
        /\ UNCHANGED <<page, form>>

(* Rows that calls and logins under way may still create.                  *)
Room ==
  issued + Cardinality({c \in Calls : call[c].at \in {"sent", "read", "revoked"}})
    < MaxSessions

(* The INSERT of a row, by a login or by a refresh.                        *)
CreateSession(a, p, st) ==
  /\ issued' = issued + 1
  /\ status' = [status EXCEPT ![issued'] = st]
  /\ owner' = [owner EXCEPT ![issued'] = a]
  /\ since' = [since EXCEPT ![issued'] = p]
-----------------------------------------------------------------------------
(* The requests of a tab.                                                  *)

(* The guard of the pages of the console.                                  *)
RequireAuth(s) == IF s.authed THEN "app" ELSE "login"

(* Every page but a loading one asks who the administrator is, once it has *)
(* a token.                                                                *)
AuthProvider(t) == page[t] # "loading" /\ store[t].token # 0

(* The dialog belongs to the layout of the pages behind the guard.         *)
SignOutDialog(t) == page[t] = "app"

(* What a tab may send: pages behind the guard query and sign out, the     *)
(* bootstrap query needs a token, the sign-in page takes a login and then  *)
(* its code.                                                               *)
MaySend(t, k) ==
  CASE k = "list"   -> page[t] = "app"
    [] k = "logout" -> SignOutDialog(t)
    [] k = "me"     -> AuthProvider(t)
    [] k = "login"  -> page[t] = "login" /\ form[t] = NoAdmin
    [] k = "verify" -> page[t] = "login" /\ form[t] # NoAdmin

(* The request interceptor: a request whose token is good goes out with    *)
(* it; one whose token needs a refresh waits for refreshPromise, which the *)
(* first of them creates.                                                  *)
SendRequest(t, k) ==
  /\ MaySend(t, k)
  /\ req[t][k] = Idle
  /\ ~NeedsRefresh(store[t].token)
  /\ req' = [req EXCEPT ![t][k] = [at |-> "sent", token |-> store[t].token]]
  /\ UNCHANGED <<serverVars, call, cookie, disk, store, page, form, lost, faults>>

JoinRefresh(t, k) ==
  /\ MaySend(t, k)
  /\ req[t][k] = Idle
  /\ NeedsRefresh(store[t].token)
  /\ Kept(t) # {}
  /\ req' = [req EXCEPT ![t][k] = [at |-> "waiting", token |-> 0]]
  /\ UNCHANGED <<serverVars, call, cookie, disk, store, page, form, lost, faults>>

StartRefresh(t, k, c) ==
  /\ MaySend(t, k)
  /\ req[t][k] = Idle
  /\ NeedsRefresh(store[t].token)
  /\ Kept(t) = {}
  /\ Room
  /\ call[c].at = "free"
  /\ call' = [call EXCEPT ![c] = [at |-> "sent", tab |-> t, old |-> cookie,
                                  new |-> 0, kept |-> TRUE]]
  /\ req' = [req EXCEPT ![t][k] = [at |-> "waiting", token |-> 0]]
  /\ UNCHANGED <<serverVars, cookie, disk, store, page, form, lost, faults>>

(* A 401 on a request that needs a token empties the store.                *)
Unauthorized(t, k) ==
  /\ k \in {"list", "me"}
  /\ req[t][k].at = "sent"
  /\ ~Accepts(req[t][k].token)
  /\ ClearAuthAndRedirect(t, {k}, {})
  /\ UNCHANGED <<serverVars, cookie, faults>>

(* Mutant: a request that failed is kept as failed, and never sent again.  *)
AnswerOther_Failed(t, k) ==
  /\ k # "logout"
  /\ req[t][k].at = "sent"
  /\ req' = [req EXCEPT ![t][k].at = "failed"]
  /\ UNCHANGED <<serverVars, call, cookie, disk, store, page, form, lost, faults>>

(* Any other answer, or none: the page shows an error or new rows.         *)
AnswerOther(t, k) ==
  /\ k # "logout"
  /\ req[t][k].at = "sent"
  /\ req' = [req EXCEPT ![t][k] = Idle]
  /\ UNCHANGED <<serverVars, call, cookie, disk, store, page, form, lost, faults>>

(* The bootstrap query stores the administrator of the token it was sent   *)
(* with.                                                                   *)
AnswerMe(t) ==
  /\ req[t]["me"].at = "sent"
  /\ Accepts(req[t]["me"].token)
  /\ SetStore(t, [store[t] EXCEPT !.user = owner[req[t]["me"].token]])
  /\ req' = [req EXCEPT ![t]["me"] = Idle]
  /\ UNCHANGED <<serverVars, call, cookie, page, form, lost, faults>>

(* The password of a was right: the page asks for the code of a.           *)
AnswerLogin(t, a) ==
  /\ req[t]["login"].at = "sent"
  /\ form' = [form EXCEPT ![t] = a]
  /\ req' = [req EXCEPT ![t]["login"] = Idle]
  /\ UNCHANGED <<serverVars, call, cookie, disk, store, page, lost, faults>>

(* The code was right: the control plane creates the row of the login ...  *)
VerifyOTPLogin(t) ==
  /\ req[t]["verify"].at = "sent"
  /\ Room
  /\ CreateSession(form[t], password[form[t]], "live")
  /\ req' = [req EXCEPT ![t]["verify"] = [at |-> "answered", token |-> issued']]
  /\ UNCHANGED <<age, rotator, password, changing, call, cookie, disk, store,
                 page, form, lost, faults>>

(* ... and its answer signs the tab in.                                    *)
AnswerVerify(t) ==
  /\ req[t]["verify"].at = "answered"
  /\ cookie' = req[t]["verify"].token
  /\ SetStore(t, [user |-> form[t], token |-> req[t]["verify"].token,
                  authed |-> TRUE])
  /\ page' = [page EXCEPT ![t] = "app"]
  /\ form' = [form EXCEPT ![t] = NoAdmin]
  /\ req' = [req EXCEPT ![t]["verify"] = Idle]
  /\ UNCHANGED <<serverVars, call, lost, faults>>

(* The sign-out.  The handler revokes the row of the cookie, but the       *)
(* console does not use the method of its route; whatever the answer, the  *)
(* store is emptied and the router, not the browser, goes to /login.       *)
AnswerLogout(t) ==
  /\ req[t]["logout"].at = "sent"
  /\ status' = IF <<LogoutMethod, "logout">> \in Routes /\ status[cookie] = "live"
                 THEN [status EXCEPT ![cookie] = "revoked"] ELSE status
  /\ SetStore(t, SignedOut)
  /\ page' = [page EXCEPT ![t] = "login"]
  /\ req' = [req EXCEPT ![t]["logout"] = Idle]
  /\ UNCHANGED <<issued, owner, since, age, rotator, password, changing, call,
                 cookie, form, lost, faults>>
-----------------------------------------------------------------------------
(* The calls to /auth/refresh: a query for each step of the service, and   *)
(* its answer.                                                             *)

(* Mutant: the handler returns without an answer when there is no row.     *)
GetSession_Silent(c) ==
  /\ call[c].at = "sent"
  /\ status[call[c].old] = "live"
  /\ call' = [call EXCEPT ![c].at = "read"]
  /\ UNCHANGED <<serverVars, cookie, tabVars, lost, faults>>

GetSession(c) ==
  /\ call[c].at = "sent"
  /\ call' = [call EXCEPT ![c].at = IF status[call[c].old] = "live" THEN "read" ELSE "refused"]
  /\ UNCHANGED <<serverVars, cookie, tabVars, lost, faults>>

(* The UPDATE only touches a row that is not revoked, and does not say     *)
(* whether there was one.                                                  *)
RevokeSession(c) ==
  /\ call[c].at = "read"
  /\ LET n == call[c].old IN
     /\ status' = IF status[n] = "live" THEN [status EXCEPT ![n] = "rotated"] ELSE status
     /\ rotator' = IF status[n] = "live" THEN [rotator EXCEPT ![n] = {call[c].tab}] ELSE rotator
  /\ call' = [call EXCEPT ![c].at = "revoked"]
  /\ UNCHANGED <<issued, owner, since, age, password, changing, cookie, tabVars,
                 lost, faults>>

IssueTokens(c) ==
  /\ call[c].at = "revoked"
  /\ CreateSession(owner[call[c].old], since[call[c].old], "live")
  /\ call' = [call EXCEPT ![c] = [@ EXCEPT !.at = "ok", !.new = issued']]
  /\ UNCHANGED <<age, rotator, password, changing, cookie, tabVars, lost, faults>>

(* The error of the INSERT is not looked at: the tokens go out without a   *)
(* row to refresh them by.                                                 *)
IssueUnsaved(c) ==
  /\ faults < MaxFaults
  /\ call[c].at = "revoked"
  /\ CreateSession(owner[call[c].old], since[call[c].old], "unsaved")
  /\ call' = [call EXCEPT ![c] = [@ EXCEPT !.at = "ok", !.new = issued']]
  /\ faults' = faults + 1
  /\ UNCHANGED <<age, rotator, password, changing, cookie, tabVars, lost>>

(* Any other query fails.                                                  *)
QueryFails(c) ==
  /\ faults < MaxFaults
  /\ call[c].at \in {"sent", "read", "revoked"}
  /\ call' = [call EXCEPT ![c].at = "refused"]
  /\ lost' = IF call[c].at = "revoked" THEN lost \cup {call[c].old} ELSE lost
  /\ faults' = faults + 1
  /\ UNCHANGED <<serverVars, cookie, tabVars>>

(* Mutant: the answer does not carry the cookie of the new row.            *)
RefreshOk_NoCookie(c) ==
  LET t == call[c].tab IN
  /\ call[c].at = "ok"
  /\ call[c].kept
  /\ SetStore(t, [store[t] EXCEPT !.token = call[c].new])
  /\ req' = [req EXCEPT ![t] = [k \in Kinds |->
               IF @[k].at = "waiting" THEN [at |-> "sent", token |-> call[c].new] ELSE @[k]]]
  /\ call' = [call EXCEPT ![c] = Free]
  /\ UNCHANGED <<serverVars, cookie, page, form, lost, faults>>

(* The answer brings the cookie; updateToken puts the new token in the     *)
(* store as it is, and the requests that waited go out with it.            *)
RefreshOk(c) ==
  LET t == call[c].tab IN
  /\ call[c].at = "ok"
  /\ call[c].kept
  /\ cookie' = call[c].new
  /\ SetStore(t, [store[t] EXCEPT !.token = call[c].new])
  /\ req' = [req EXCEPT ![t] = [k \in Kinds |->
               IF @[k].at = "waiting" THEN [at |-> "sent", token |-> call[c].new] ELSE @[k]]]
  /\ call' = [call EXCEPT ![c] = Free]
  /\ UNCHANGED <<serverVars, page, form, lost, faults>>

(* Mutant: refreshPromise is only reset when the call succeeds.            *)
RefreshRefused_Kept(c) ==
  LET t == call[c].tab IN
  /\ call[c].at = "refused"
  /\ call[c].kept
  /\ ClearAuthAndRedirect(t, Waiting(t), {})
  /\ UNCHANGED <<serverVars, cookie, faults>>

RefreshRefused(c) ==
  LET t == call[c].tab IN
  /\ call[c].at = "refused"
  /\ call[c].kept
  /\ ClearAuthAndRedirect(t, Waiting(t), {c})
  /\ UNCHANGED <<serverVars, cookie, faults>>

(* The answer of a call is lost, whatever the control plane did or does.   *)
LoseAnswer(c) ==
  LET t == call[c].tab IN
  /\ faults < MaxFaults
  /\ call[c].kept
  /\ ClearAuthAndRedirect(t, Waiting(t), {c})
  /\ faults' = faults + 1
  /\ UNCHANGED <<serverVars, cookie>>

(* A call nobody waits for ends.                                           *)
EndStray(c) ==
  /\ call[c].at \in {"ok", "refused"}
  /\ ~call[c].kept
  /\ call' = [call EXCEPT ![c] = Free]
  /\ UNCHANGED <<serverVars, cookie, tabVars, lost, faults>>
-----------------------------------------------------------------------------
(* The pages, the clock and the password.                                  *)

(* The administrator reloads a page, or opens the console in a tab again.  *)
Reload(t) ==
  /\ page[t] # "loading"
  /\ Unload(t)
  /\ UNCHANGED <<serverVars, cookie, disk, store, faults>>

(* A page loads: the store is filled from localStorage before the guards   *)
(* of the routes look at it.                                               *)
Load(t) ==
  /\ page[t] = "loading"
  /\ store' = [store EXCEPT ![t] = disk]
  /\ page' = [page EXCEPT ![t] = RequireAuth(disk)]
  /\ UNCHANGED <<serverVars, call, cookie, disk, form, req, lost, faults>>

(* Tokens live equally long: the older one always comes first.             *)
Grow(n) ==
  /\ n \in 1..issued
  /\ age[n] # "expired"
  /\ \A m \in 1..(n - 1) : age[m] # age[n]
  /\ age' = [age EXCEPT ![n] = IF @ = "fresh" THEN "ending" ELSE "expired"]
  /\ UNCHANGED <<issued, status, owner, since, rotator, password, changing,
                 call, cookie, tabVars, lost, faults>>

(* The row passes expires_at, long after the access token issued with it.  *)
Lapse(n) ==
  /\ status[n] = "live"
  /\ age[n] = "expired"
  /\ status' = [status EXCEPT ![n] = "revoked"]
  /\ UNCHANGED <<issued, owner, since, age, rotator, password, changing, call,
                 cookie, tabVars, lost, faults>>

(* ChangePassword and ResetPassword: the new hash is stored ...            *)
UpdateAdminPassword(a) ==
  /\ password[a] < MaxPwd
  /\ a \notin changing
  /\ password' = [password EXCEPT ![a] = @ + 1]
  /\ changing' = changing \cup {a}
  /\ UNCHANGED <<issued, status, owner, since, age, rotator, call, cookie,
                 tabVars, lost, faults>>

(* ... then the rows of the administrator are revoked.                     *)
RevokeAllAdminSessions(a) ==
  /\ a \in changing
  /\ status' = [n \in Rows |-> IF status[n] = "live" /\ owner[n] = a THEN "revoked" ELSE status[n]]
  /\ changing' = changing \ {a}
  /\ UNCHANGED <<issued, owner, since, age, rotator, password, call, cookie,
                 tabVars, lost, faults>>
-----------------------------------------------------------------------------
CallStep(c) ==
  \/ GetSession(c) \/ RevokeSession(c) \/ IssueTokens(c)
  \/ RefreshOk(c) \/ RefreshRefused(c) \/ EndStray(c)

CallFault(c) == IssueUnsaved(c) \/ QueryFails(c) \/ LoseAnswer(c)

Answer(t, k) ==
  \/ Unauthorized(t, k) \/ AnswerOther(t, k)
  \/ k = "me" /\ AnswerMe(t)
  \/ k = "login" /\ \E a \in Admins : AnswerLogin(t, a)
  \/ k = "verify" /\ (VerifyOTPLogin(t) \/ AnswerVerify(t))
  \/ k = "logout" /\ AnswerLogout(t)

Send(t, k) ==
  SendRequest(t, k) \/ JoinRefresh(t, k) \/ \E c \in Calls : StartRefresh(t, k, c)

Next ==
  \/ \E c \in Calls : CallStep(c) \/ CallFault(c)
  \/ \E t \in Tabs : Reload(t) \/ Load(t) \/ \E k \in Kinds : Send(t, k) \/ Answer(t, k)
  \/ \E n \in 1..MaxSessions : Grow(n) \/ Lapse(n)
  \/ \E a \in Admins : UpdateAdminPassword(a) \/ RevokeAllAdminSessions(a)

Spec == Init /\ [][Next]_vars

(* The control plane works through every call it has begun, and every      *)
(* request of a page is answered or fails.                                 *)
FairSpec ==
  /\ Spec
  /\ \A c \in Calls : WF_vars(CallStep(c))
  /\ \A t \in Tabs, k \in Kinds : WF_vars(Answer(t, k))
-----------------------------------------------------------------------------
CallType == [at : {"free", "sent", "read", "revoked", "ok", "refused"},
             tab : Tabs, old : Rows, new : Rows, kept : BOOLEAN]

(* Every variable holds a value of its kind.                               *)
TypeOK ==
  /\ issued \in Rows
  /\ status \in [Rows -> {"none", "live", "rotated", "revoked", "unsaved"}]
  /\ owner \in [Rows -> Admins \cup {NoAdmin}]
  /\ since \in [Rows -> Nat]
  /\ age \in [Rows -> {"fresh", "ending", "expired"}]
  /\ rotator \in [Rows -> SUBSET Tabs]
  /\ password \in [Admins -> Nat]
  /\ changing \in SUBSET Admins
  /\ call \in [Calls -> CallType]
  /\ cookie \in Rows
  /\ disk \in Persisted
  /\ store \in [Tabs -> Persisted]
  /\ page \in [Tabs -> {"app", "login", "loading"}]
  /\ form \in [Tabs -> Admins \cup {NoAdmin}]
  /\ req \in [Tabs -> [Kinds -> [at : {"idle", "waiting", "sent", "answered"}, token : Rows]]]
  /\ lost \in SUBSET Rows
  /\ faults \in Nat

(* A tab has one call to /auth/refresh under way at most, and it has one   *)
(* exactly when requests wait for it: nothing waits for a promise that was *)
(* dropped, and no promise is kept that nobody would fail for.             *)
WaitersShareOneCall ==
  \A t \in Tabs :
    /\ Cardinality(Kept(t)) <= 1
    /\ Waiting(t) # {} <=> Kept(t) # {}

(* If the row of the browser's cookie was rotated, its replacement is on   *)
(* the way to a page that waits for it; or it was lost, because the call   *)
(* failed, its answer did not arrive, or the page that waited for it was   *)
(* left or reloaded.  Nothing else leaves a browser without a session.     *)
CookieReplaced ==
  status[cookie] = "rotated" =>
    \/ cookie \in lost
    \/ \E c \in Calls : call[c].kept /\ call[c].old = cookie /\ call[c].at \in {"revoked", "ok"}

(* A refresh is never refused because of another refresh of the same tab,  *)
(* unless an answer was lost.  Two calls with one cookie would do that:    *)
(* the control plane accepts a refresh token once.                         *)
NoSelfEviction ==
  \A c \in Calls :
    call[c].kept /\ call[c].at = "refused" /\ status[call[c].old] = "rotated" =>
      call[c].old \in lost \/ call[c].tab \notin rotator[call[c].old]

(* The renewal of the tokens implements RefreshFlight.                     *)
Flight ==
  INSTANCE RefreshFlight
    WITH waiting <- [t \in Tabs |-> Waiting(t)],
         flying  <- {t \in Tabs : Kept(t) # {}}
SharesFlight == Flight!Spec

(* Every request ends: held by the interceptor or sent, it comes to an     *)
(* answer or an error.                                                     *)
RequestsSettle ==
  \A t \in Tabs, k \in Kinds : (req[t][k].at # "idle") ~> (req[t][k].at = "idle")

(* After a change of the password no session is left that was opened       *)
(* before it: "forces re-login on all devices" (auth_service.go:423).      *)
PasswordChangeEndsSessions ==
  \A n \in 1..issued :
    status[n] = "live" => since[n] = password[owner[n]] \/ owner[n] \in changing
=============================================================================
