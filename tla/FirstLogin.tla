---------------------------- MODULE FirstLogin ----------------------------
(***************************************************************************)
(* The sign-in pages of one administrator who has no authenticator yet     *)
(* (web-cp/src/views/auth/sign-in, internal/cp/auth/auth_service.go).      *)
(*                                                                         *)
(* A password leads to the page that sets up a secret, or, once codes are  *)
(* asked for, to the page that takes one.  A secret is read, generated and *)
(* written in separate queries, and is turned on by the first of its codes *)
(* only; meanwhile the administrator may use other windows.                *)
(***************************************************************************)
EXTENDS Naturals, FiniteSets

CONSTANTS
  Windows,   \* the windows with a sign-in page
  MaxCalls,  \* bound: calls to the control plane
  MaxFaults  \* bound: failed queries and lost answers

VARIABLES
  account,  \* the columns otp_secret and otp_enabled of the administrator
  view,     \* the page of each window
  call,     \* the calls to the control plane
  scanned,  \* the secrets in the administrator's authenticator
  proven,   \* history: the secrets that a code was checked against
  raced,    \* history: a secret was generated while another was being stored
  faults    \* faults so far

vars == <<account, view, call, scanned, proven, raced, faults>>

(* A secret is named after the call that generates it.                     *)
CallIds == 1..MaxCalls
None    == 0
Secrets == CallIds \cup {None}
Setups  == {"setup", "retry"}

Unused    == [at |-> "unused", op |-> "login", window |-> None, live |-> FALSE,
              secret |-> None, code |-> None, to |-> "login"]
Over      == [Unused EXCEPT !.at = "over"]
LoginPage == [at |-> "login", started |-> FALSE, loading |-> TRUE, error |-> FALSE, shown |-> None]

Init ==
  /\ account = [secret |-> None, enabled |-> FALSE]
  /\ view = [w \in Windows |-> LoginPage]
  /\ call = [c \in CallIds |-> Unused]
  /\ scanned = {} /\ proven = {} /\ raced = FALSE /\ faults = 0

UnderWay == {"sent", "write", "ok", "failed"}
Pending(w, ops) == \E c \in CallIds :
  call[c].live /\ call[c].window = w /\ call[c].op \in ops /\ call[c].at \in UnderWay

(* The next call, made by window w.                                        *)
Send(w, op, code) ==
  \E c \in CallIds :
    /\ call[c].at = "unused" /\ \A d \in 1..(c - 1) : call[d].at # "unused"
    /\ call' = [call EXCEPT ![c] =
         [Unused EXCEPT !.at = "sent", !.op = op, !.window = w, !.live = TRUE, !.code = code]]

Show(w, page)  == view' = [view EXCEPT ![w] = page]
Become(c, at)  == call' = [call EXCEPT ![c].at = at]
Forget(c)      == call' = [call EXCEPT ![c] = Over]
Answered(c, op, at) == call[c].live /\ call[c].op = op /\ call[c].at = at
-----------------------------------------------------------------------------
(* A window.                                                               *)

SignIn(w) ==
  /\ view[w].at = "login" /\ ~Pending(w, {"login"})
  /\ Send(w, "login", None)
  /\ UNCHANGED <<account, view, scanned, proven, raced, faults>>

(* The page that sets up a secret asks for it once, when it is mounted.    *)
StartSetup(w) ==
  /\ view[w].at = "enroll" /\ ~view[w].started
  /\ Send(w, "setup", None)
  /\ Show(w, [view[w] EXCEPT !.started = TRUE])
  /\ UNCHANGED <<account, scanned, proven, raced, faults>>

(* Try again: the button is there as long as the last setup has failed.    *)
Retry(w) ==
  /\ view[w].at = "enroll" /\ view[w].error
  /\ Send(w, "retry", None)
  /\ Show(w, [view[w] EXCEPT !.error = FALSE])
  /\ UNCHANGED <<account, scanned, proven, raced, faults>>

Scan(w) ==
  /\ view[w].shown \notin scanned \cup {None}
  /\ scanned' = scanned \cup {view[w].shown}
  /\ UNCHANGED <<account, view, call, proven, raced, faults>>

(* A code of any secret of the authenticator, or a wrong one.              *)
SubmitEnrolment(w) ==
  /\ view[w].at = "enroll" /\ ~view[w].loading /\ view[w].shown # None
  /\ ~Pending(w, {"enrol"})
  /\ \E code \in scanned \cup {None} : Send(w, "enrol", code)
  /\ UNCHANGED <<account, view, scanned, proven, raced, faults>>

SubmitCode(w) ==
  /\ view[w].at = "2fa" /\ ~Pending(w, {"verify"})
  /\ \E code \in scanned \cup {None} : Send(w, "verify", code)
  /\ UNCHANGED <<account, view, scanned, proven, raced, faults>>

(* The administrator signs out or reloads: the page is forgotten, and so   *)
(* are the answers that it was waiting for.                                *)
Leave(w) ==
  /\ view[w].at # "login"
  /\ Show(w, LoginPage)
  /\ call' = [c \in CallIds |->
       IF call[c].window # w THEN call[c]
       ELSE IF call[c].at \in {"ok", "failed"} THEN Over
       ELSE [call[c] EXCEPT !.live = FALSE, !.window = None]]
  /\ UNCHANGED <<account, scanned, proven, raced, faults>>

(* What a call is answered with, in the window that made it.               *)
AnswerLogin(c) ==
  /\ \/ /\ Answered(c, "login", "ok")
        /\ Show(call[c].window, [LoginPage EXCEPT !.at = call[c].to])
     \/ Answered(c, "login", "failed") /\ UNCHANGED view
  /\ Forget(c)
  /\ UNCHANGED <<account, scanned, proven, raced, faults>>

AnswerSetup(c) ==
  /\ \/ /\ Answered(c, "setup", "ok")
        /\ Show(call[c].window, [view[call[c].window] EXCEPT !.loading = FALSE, !.shown = call[c].secret])
     \/ /\ Answered(c, "setup", "failed")
        /\ Show(call[c].window, [view[call[c].window] EXCEPT !.loading = FALSE, !.error = TRUE])
  /\ Forget(c)
  /\ UNCHANGED <<account, scanned, proven, raced, faults>>

(* Nobody keeps the secret that a second attempt is answered with.         *)
AnswerRetry(c) ==
  /\ \/ Answered(c, "retry", "ok") /\ UNCHANGED view
     \/ Answered(c, "retry", "failed") /\ Show(call[c].window, [view[call[c].window] EXCEPT !.error = TRUE])
  /\ Forget(c)
  /\ UNCHANGED <<account, scanned, proven, raced, faults>>

AnswerCode(c) ==
  /\ \/ /\ Answered(c, "enrol", "ok") \/ Answered(c, "verify", "ok")
        /\ Show(call[c].window, [LoginPage EXCEPT !.at = "home"])
     \/ (Answered(c, "enrol", "failed") \/ Answered(c, "verify", "failed")) /\ UNCHANGED view
  /\ Forget(c)
  /\ UNCHANGED <<account, scanned, proven, raced, faults>>
-----------------------------------------------------------------------------
(* The control plane.                                                      *)

Login(c) ==
  /\ call[c].op = "login" /\ call[c].at = "sent"
  /\ call' = [call EXCEPT ![c].at = "ok", ![c].to = IF account.enabled THEN "2fa" ELSE "enroll"]
  /\ UNCHANGED <<account, view, scanned, proven, raced, faults>>

Asked(c) == call[c].op \in Setups /\ call[c].at = "sent"
Storing  == \E d \in CallIds : call[d].op \in Setups /\ call[d].at = "write"

(* Mutant: every setup generates a secret of its own.                      *)
SetupFirstLogin_Regenerates(c) ==
  /\ Asked(c)
  /\ call' = [call EXCEPT ![c].at = IF account.enabled THEN "failed" ELSE "write", ![c].secret = c]
  /\ raced' = (raced \/ (~account.enabled /\ Storing))
  /\ UNCHANGED <<account, view, scanned, proven, faults>>

(* A secret that is there is shown again; otherwise one is generated.      *)
SetupFirstLogin(c) ==
  /\ Asked(c)
  /\ \/ account.enabled /\ Become(c, "failed") /\ UNCHANGED raced
     \/ /\ ~account.enabled /\ account.secret # None
        /\ call' = [call EXCEPT ![c].at = "ok", ![c].secret = account.secret]
        /\ UNCHANGED raced
     \/ /\ ~account.enabled /\ account.secret = None
        /\ call' = [call EXCEPT ![c].at = "write", ![c].secret = c]
        /\ raced' = (raced \/ Storing)
  /\ UNCHANGED <<account, view, scanned, proven, faults>>

UpdateAdminOTP(c) ==
  /\ call[c].op \in Setups /\ call[c].at = "write"
  /\ account' = [secret |-> call[c].secret, enabled |-> FALSE]
  /\ Become(c, "ok")
  /\ UNCHANGED <<view, scanned, proven, raced, faults>>

VerifyFirstLogin(c) ==
  /\ call[c].op = "enrol" /\ call[c].at = "sent"
  /\ \/ /\ ~account.enabled /\ account.secret # None /\ call[c].code = account.secret
        /\ call' = [call EXCEPT ![c].at = "write", ![c].secret = account.secret]
        /\ proven' = proven \cup {account.secret}
     \/ /\ account.enabled \/ account.secret = None \/ call[c].code # account.secret
        /\ Become(c, "failed") /\ UNCHANGED proven
  /\ UNCHANGED <<account, view, scanned, raced, faults>>

(* Mutant: the account is turned on whatever secret it has by then.        *)
EnableIfPending_AnySecret(c) == ~account.enabled

EnableIfPending(c) == ~account.enabled /\ account.secret = call[c].secret

EnableAdminOTP(c) ==
  /\ call[c].op = "enrol" /\ call[c].at = "write"
  /\ account' = IF EnableIfPending(c) THEN [account EXCEPT !.enabled = TRUE] ELSE account
  /\ Become(c, IF EnableIfPending(c) THEN "ok" ELSE "failed")
  /\ UNCHANGED <<view, scanned, proven, raced, faults>>

VerifyOTPLogin(c) ==
  /\ call[c].op = "verify" /\ call[c].at = "sent"
  /\ Become(c, IF account.enabled /\ call[c].code = account.secret THEN "ok" ELSE "failed")
  /\ UNCHANGED <<account, view, scanned, proven, raced, faults>>

(* A query fails, or an answer is lost after everything was written.       *)
Fail(c) ==
  /\ faults < MaxFaults
  /\ call[c].live /\ call[c].at \in {"sent", "write", "ok"}
  /\ faults' = faults + 1
  /\ Become(c, "failed")
  /\ UNCHANGED <<account, view, scanned, proven, raced>>
-----------------------------------------------------------------------------
Window(w) ==
  \/ SignIn(w) \/ StartSetup(w) \/ Retry(w) \/ Scan(w)
  \/ SubmitEnrolment(w) \/ SubmitCode(w) \/ Leave(w)

Answer(c) == AnswerLogin(c) \/ AnswerSetup(c) \/ AnswerRetry(c) \/ AnswerCode(c)

ControlPlane(c) ==
  \/ Login(c) \/ SetupFirstLogin(c) \/ UpdateAdminOTP(c)
  \/ VerifyFirstLogin(c) \/ EnableAdminOTP(c) \/ VerifyOTPLogin(c) \/ Fail(c)

Next == (\E w \in Windows : Window(w)) \/ (\E c \in CallIds : Answer(c) \/ ControlPlane(c))

Spec == Init /\ [][Next]_vars
-----------------------------------------------------------------------------
Page == [at : {"login", "2fa", "enroll", "home"}, started : BOOLEAN, loading : BOOLEAN,
         error : BOOLEAN, shown : Secrets]
Call == [at : UnderWay \cup {"unused", "over"}, op : Setups \cup {"login", "enrol", "verify"},
         window : Windows \cup {None}, live : BOOLEAN, secret : Secrets, code : Secrets,
         to : {"login", "2fa", "enroll"}]

(* Every variable holds a value of its kind.                               *)
TypeOK ==
  /\ account \in [secret : Secrets, enabled : BOOLEAN]
  /\ view \in [Windows -> Page] /\ call \in [CallIds -> Call]
  /\ scanned \subseteq CallIds /\ proven \subseteq CallIds
  /\ raced \in BOOLEAN /\ faults \in 0..MaxFaults

(* An account that asks for codes asks for those of a secret that the      *)
(* administrator has scanned and has typed a code of, whatever other       *)
(* windows were setting up meanwhile.                                      *)
NobodyLockedOut == account.enabled => account.secret \in proven \cap scanned

(* Unless two windows generated a secret at once, the secret on display in *)
(* any window is the one that is stored.                                   *)
ShownIsStored == ~raced => \A w \in Windows : view[w].shown \in {None, account.secret}

(* Codes, once they are asked for, are only given up by a setup that had   *)
(* read the account before, while another one was storing its secret.      *)
OnlyRacesDisable == [][account.enabled => account'.enabled \/ raced]_vars
=============================================================================
