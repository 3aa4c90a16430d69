------------------------- MODULE FirstLogin_proofs -------------------------
(***************************************************************************)
(* Proofs about the sign-in pages, for any number of windows, calls and    *)
(* failed queries.                                                         *)
(***************************************************************************)
EXTENDS FirstLogin, TLAPS

(* A number of calls.                                                      *)
Bounded == MaxCalls \in Nat /\ MaxFaults \in Nat

USE DEF None, Setups

(* A code that is being typed was scanned before.                          *)
CodesScanned == \A c \in CallIds : call[c].code \in scanned \cup {None}

(* A secret about to be turned on was scanned, and a code of it checked.   *)
EnrolmentProven ==
  \A c \in CallIds : call[c].op = "enrol" /\ call[c].at = "write" =>
    call[c].secret \in proven \cap scanned

(* While no two setups store at once, the one that stores finds no secret. *)
FirstStores ==
  ~raced => \A c \in CallIds : call[c].op \in Setups /\ call[c].at = "write" =>
    /\ account.secret = None /\ call[c].secret # None
    /\ \A d \in CallIds : call[d].op \in Setups /\ call[d].at = "write" => d = c

(* An answer that is on its way brings the secret that is stored.          *)
AnswersStored ==
  ~raced => \A c \in CallIds : call[c].op \in Setups /\ call[c].at = "ok" =>
    call[c].secret = account.secret /\ account.secret # None

Inv ==
  /\ TypeOK /\ NobodyLockedOut /\ CodesScanned /\ EnrolmentProven
  /\ FirstStores /\ AnswersStored /\ ShownIsStored

-----------------------------------------------------------------------------
(* The pages and the calls hold values of their kind in every step.        *)
LEMMA InitType == ASSUME Bounded, Init PROVE TypeOK
<1> USE DEF Bounded, Init, Secrets, CallIds
<1>1. Unused \in Call
  BY DEF Unused, Call, UnderWay
<1>2. LoginPage \in Page
  BY DEF LoginPage, Page
<1>3. account \in [secret : Secrets, enabled : BOOLEAN]
  OBVIOUS
<1>4. view \in [Windows -> Page] /\ call \in [CallIds -> Call]
  BY <1>1, <1>2
<1>5. faults \in 0..MaxFaults
  OBVIOUS
<1> QED
  BY <1>3, <1>4, <1>5 DEF TypeOK

(* A call that is made has the window, the operation and the code given.   *)
LEMMA Sends ==
  ASSUME Bounded, TypeOK, NEW w \in Windows, NEW op \in Setups \cup {"login", "enrol", "verify"},
         NEW code \in Secrets, Send(w, op, code)
  PROVE  /\ call' \in [CallIds -> Call]
         /\ \E c \in CallIds :
              /\ \A d \in CallIds \ {c} : call'[d] = call[d]
              /\ call'[c].at = "sent" /\ call'[c].op = op /\ call'[c].code = code
<1>1. PICK c \in CallIds : call' = [call EXCEPT ![c] =
         [Unused EXCEPT !.at = "sent", !.op = op, !.window = w, !.live = TRUE, !.code = code]]
  BY DEF Send
<1>2. call \in [CallIds -> Call]
  BY DEF TypeOK
<1> DEFINE new == [Unused EXCEPT !.at = "sent", !.op = op, !.window = w, !.live = TRUE, !.code = code]
<1>3. new \in Call /\ new.at = "sent" /\ new.op = op /\ new.code = code
  BY DEF Unused, Call, UnderWay, Secrets
<1> HIDE DEF new
<1>4. call' = [call EXCEPT ![c] = new]
  BY <1>1 DEF new
<1> QED
  BY <1>2, <1>3, <1>4

(* A call that moves on keeps everything but its progress.                 *)
LEMMA Becomes ==
  ASSUME TypeOK, NEW c \in CallIds, NEW at \in UnderWay \cup {"over"}, Become(c, at)
  PROVE  /\ call' \in [CallIds -> Call]
         /\ \A d \in CallIds \ {c} : call'[d] = call[d]
         /\ call'[c] = [call[c] EXCEPT !.at = at]
<1>1. call \in [CallIds -> Call] /\ call' = [call EXCEPT ![c].at = at]
  BY DEF TypeOK, Become
<1>2. call[c] \in Call
  BY <1>1
<1>3. [call[c] EXCEPT !.at = at] \in Call
  BY <1>2 DEF Call, UnderWay
<1> QED
  BY <1>1, <1>3

LEMMA Forgets ==
  ASSUME TypeOK, NEW c \in CallIds, Forget(c)
  PROVE  /\ call' \in [CallIds -> Call]
         /\ \A d \in CallIds \ {c} : call'[d] = call[d]
         /\ call'[c] = Over
<1>1. call \in [CallIds -> Call] /\ call' = [call EXCEPT ![c] = Over]
  BY DEF TypeOK, Forget
<1>2. Over \in Call
  BY DEF Over, Unused, Call, UnderWay, Secrets
<1> QED
  BY <1>1, <1>2

(* Showing a page in one window leaves the others as they are.             *)
LEMMA Shows ==
  ASSUME TypeOK, NEW w \in Windows \cup {None}, NEW page, w \in Windows => page \in Page, Show(w, page)
  PROVE  /\ view' \in [Windows -> Page]
         /\ \A v \in Windows : v # w => view'[v] = view[v]
         /\ w \in Windows => view'[w] = page
BY DEF TypeOK, Show

LEMMA WindowType ==
  ASSUME Bounded, TypeOK, NEW w \in Windows, Window(w) PROVE TypeOK'
<1>1. view[w] \in Page /\ LoginPage \in Page
  BY DEF TypeOK, LoginPage, Page, Secrets
<1>2. None \in Secrets /\ scanned \cup {None} \subseteq Secrets
  BY DEF TypeOK, Secrets
<1>3. CASE SignIn(w)
  BY <1>2, <1>3, Sends DEF SignIn, TypeOK
<1>4. CASE StartSetup(w)
  <2>1. call' \in [CallIds -> Call]
    BY <1>2, <1>4, Sends DEF StartSetup
  <2>2. view' \in [Windows -> Page]
    BY <1>1, <1>4, Shows DEF StartSetup, Page
  <2> QED
    BY <1>4, <2>1, <2>2 DEF StartSetup, TypeOK
<1>5. CASE Retry(w)
  <2>1. call' \in [CallIds -> Call]
    BY <1>2, <1>5, Sends DEF Retry
  <2>2. view' \in [Windows -> Page]
    BY <1>1, <1>5, Shows DEF Retry, Page
  <2> QED
    BY <1>5, <2>1, <2>2 DEF Retry, TypeOK
<1>6. CASE Scan(w)
  <2>1. view[w].shown \in CallIds
    BY <1>1, <1>6 DEF Scan, Page, Secrets
  <2> QED
    BY <1>6, <2>1 DEF Scan, TypeOK
<1>7. CASE SubmitEnrolment(w)
  <2>1. call' \in [CallIds -> Call]
    BY <1>2, <1>7, Sends DEF SubmitEnrolment
  <2> QED
    BY <1>7, <2>1 DEF SubmitEnrolment, TypeOK
<1>8. CASE SubmitCode(w)
  <2>1. call' \in [CallIds -> Call]
    BY <1>2, <1>8, Sends DEF SubmitCode
  <2> QED
    BY <1>8, <2>1 DEF SubmitCode, TypeOK
<1>9. CASE Leave(w)
  <2>1. view' \in [Windows -> Page]
    BY <1>1, <1>9, Shows DEF Leave
  <2>2. Over \in Call
    BY DEF Over, Unused, Call, UnderWay, Secrets
  <2>3. \A c \in CallIds : [call[c] EXCEPT !.live = FALSE, !.window = None] \in Call
    <3>1. \A r \in Call : [r EXCEPT !.live = FALSE, !.window = None] \in Call
      BY DEF Call
    <3> QED
      BY <3>1 DEF TypeOK
  <2>4. call' \in [CallIds -> Call]
    BY <1>9, <2>2, <2>3 DEF Leave, TypeOK
  <2> QED
    BY <1>9, <2>1, <2>4 DEF Leave, TypeOK
<1> QED
  BY <1>3, <1>4, <1>5, <1>6, <1>7, <1>8, <1>9 DEF Window

LEMMA AnswerType ==
  ASSUME Bounded, TypeOK, NEW c \in CallIds, Answer(c) PROVE TypeOK'
<1>1. call[c] \in Call /\ call[c].window \in Windows \cup {None} /\ call[c].secret \in Secrets
  BY DEF TypeOK, Call
<1> DEFINE w == call[c].window
<1>2. w \in Windows => view[w] \in Page
  BY DEF TypeOK
<1>3. [LoginPage EXCEPT !.at = call[c].to] \in Page /\ [LoginPage EXCEPT !.at = "home"] \in Page
  BY <1>1 DEF Call, LoginPage, Page, Secrets
<1>4. w \in Windows =>
        /\ [view[w] EXCEPT !.loading = FALSE, !.shown = call[c].secret] \in Page
        /\ [view[w] EXCEPT !.loading = FALSE, !.error = TRUE] \in Page
        /\ [view[w] EXCEPT !.error = TRUE] \in Page
  BY <1>1, <1>2 DEF Page
<1>5. view' \in [Windows -> Page]
  <2>1. CASE AnswerLogin(c)
    BY <1>1, <1>3, <2>1, Shows DEF AnswerLogin, TypeOK
  <2>2. CASE AnswerSetup(c)
    BY <1>1, <1>4, <2>2, Shows DEF AnswerSetup
  <2>3. CASE AnswerRetry(c)
    BY <1>1, <1>4, <2>3, Shows DEF AnswerRetry, TypeOK
  <2>4. CASE AnswerCode(c)
    BY <1>1, <1>3, <2>4, Shows DEF AnswerCode, TypeOK
  <2> QED
    BY <2>1, <2>2, <2>3, <2>4 DEF Answer
<1>6. Forget(c) /\ UNCHANGED <<account, scanned, proven, raced, faults>>
  BY DEF Answer, AnswerLogin, AnswerSetup, AnswerRetry, AnswerCode
<1> QED
  BY <1>5, <1>6, Forgets DEF TypeOK

LEMMA ControlPlaneType ==
  ASSUME Bounded, TypeOK, NEW c \in CallIds, ControlPlane(c) PROVE TypeOK'
<1>1. call[c] \in Call /\ call \in [CallIds -> Call] /\ c \in Secrets /\ account.secret \in Secrets
  BY DEF TypeOK, Secrets
<1>2. CASE Login(c)
  <2>1. [call[c] EXCEPT !.at = "ok", !.to = IF account.enabled THEN "2fa" ELSE "enroll"] \in Call
    BY <1>1 DEF Call, UnderWay
  <2> QED
    BY <1>1, <1>2, <2>1 DEF Login, TypeOK
<1>3. CASE SetupFirstLogin(c)
  <2>1. /\ [call[c] EXCEPT !.at = "failed"] \in Call
        /\ [call[c] EXCEPT !.at = "ok", !.secret = account.secret] \in Call
        /\ [call[c] EXCEPT !.at = "write", !.secret = c] \in Call
    BY <1>1 DEF Call, UnderWay
  <2>2. call' \in [CallIds -> Call]
    BY <1>1, <1>3, <2>1 DEF SetupFirstLogin, Become
  <2>3. raced' \in BOOLEAN
    BY <1>3 DEF SetupFirstLogin, TypeOK, Storing
  <2> QED
    BY <1>3, <2>2, <2>3 DEF SetupFirstLogin, TypeOK
<1>4. CASE UpdateAdminOTP(c)
  <2>1. call[c].secret \in Secrets
    BY <1>1 DEF Call
  <2>2. call' \in [CallIds -> Call]
    BY <1>4, Becomes DEF UpdateAdminOTP, UnderWay
  <2> QED
    BY <1>4, <2>1, <2>2 DEF UpdateAdminOTP, TypeOK
<1>5. CASE VerifyFirstLogin(c)
  <2>1. /\ [call[c] EXCEPT !.at = "write", !.secret = account.secret] \in Call
        /\ [call[c] EXCEPT !.at = "failed"] \in Call
    BY <1>1 DEF Call, UnderWay
  <2>2. call' \in [CallIds -> Call]
    BY <1>1, <1>5, <2>1 DEF VerifyFirstLogin, Become
  <2>3. proven' \subseteq CallIds
    BY <1>1, <1>5 DEF VerifyFirstLogin, TypeOK, Secrets
  <2> QED
    BY <1>5, <2>2, <2>3 DEF VerifyFirstLogin, TypeOK
<1>6. CASE EnableAdminOTP(c)
  <2>1. call' \in [CallIds -> Call]
    BY <1>6, Becomes DEF EnableAdminOTP, UnderWay
  <2>2. account' \in [secret : Secrets, enabled : BOOLEAN]
    BY <1>6 DEF EnableAdminOTP, TypeOK
  <2> QED
    BY <1>6, <2>1, <2>2 DEF EnableAdminOTP, TypeOK
<1>7. CASE VerifyOTPLogin(c)
  <2>1. call' \in [CallIds -> Call]
    BY <1>7, Becomes DEF VerifyOTPLogin, UnderWay
  <2> QED
    BY <1>7, <2>1 DEF VerifyOTPLogin, TypeOK
<1>8. CASE Fail(c)
  <2>1. call' \in [CallIds -> Call]
    BY <1>8, Becomes DEF Fail, UnderWay
  <2>2. faults' \in 0..MaxFaults
    BY <1>8 DEF Fail, TypeOK, Bounded
  <2> QED
    BY <1>8, <2>1, <2>2 DEF Fail, TypeOK
<1> QED
  BY <1>2, <1>3, <1>4, <1>5, <1>6, <1>7, <1>8 DEF ControlPlane

LEMMA StepType == ASSUME Bounded, TypeOK, [Next]_vars PROVE TypeOK'
<1>1. CASE UNCHANGED vars
  BY <1>1 DEF vars, TypeOK
<1> QED
  BY <1>1, WindowType, AnswerType, ControlPlaneType DEF Next
-----------------------------------------------------------------------------
(* The steps that write nothing.                                           *)

(* A call that was not touched, as far as the invariant can tell.          *)
SameCall(c) ==
  /\ call'[c].at = call[c].at /\ call'[c].op = call[c].op
  /\ call'[c].code = call[c].code /\ call'[c].secret = call[c].secret

(* A call that writes nothing, and brings the stored secret if it brings   *)
(* one.                                                                    *)
QuietCall(c) ==
  /\ call'[c].at # "write" /\ call'[c].code \in scanned \cup {None}
  /\ call'[c].op \in Setups /\ call'[c].at = "ok" /\ ~raced =>
       call'[c].secret = account.secret /\ account.secret # None

QuietPage(w) == ~raced => view'[w].shown \in {None, account.secret}

LEMMA Quiet ==
  ASSUME Inv, TypeOK', scanned \subseteq scanned', UNCHANGED <<account, proven, raced>>,
         \A c \in CallIds : SameCall(c) \/ QuietCall(c),
         \A w \in Windows : QuietPage(w)
  PROVE  Inv'
<1>1. NobodyLockedOut'
  BY DEF Inv, NobodyLockedOut
<1>2. CodesScanned'
  BY DEF Inv, CodesScanned, SameCall, QuietCall
<1>3. EnrolmentProven'
  BY DEF Inv, EnrolmentProven, SameCall, QuietCall
<1>4. FirstStores'
  BY DEF Inv, FirstStores, SameCall, QuietCall
<1>5. AnswersStored'
  BY DEF Inv, AnswersStored, SameCall, QuietCall
<1>6. ShownIsStored'
  BY DEF ShownIsStored, QuietPage
<1> QED
  BY <1>1, <1>2, <1>3, <1>4, <1>5, <1>6 DEF Inv

LEMMA InitInv == ASSUME Bounded, Init PROVE Inv
<1>1. TypeOK
  BY InitType
<1>2. \A c \in CallIds : call[c].at = "unused" /\ call[c].code = None
  BY DEF Init, Unused
<1>3. \A w \in Windows : view[w].shown = None
  BY DEF Init, LoginPage
<1>4. NobodyLockedOut
  BY DEF Init, NobodyLockedOut
<1> QED
  BY <1>1, <1>2, <1>3, <1>4
     DEF Inv, CodesScanned, EnrolmentProven, FirstStores, AnswersStored, ShownIsStored

LEMMA WindowInv ==
  ASSUME Bounded, Inv, NEW w \in Windows, Window(w) PROVE Inv'
<1>1. TypeOK /\ TypeOK'
  BY WindowType DEF Inv
<1>2. scanned \subseteq scanned' /\ UNCHANGED <<account, proven, raced>>
  BY DEF Window, SignIn, StartSetup, Retry, Scan, SubmitEnrolment, SubmitCode, Leave
<1>3. None \in Secrets /\ scanned \cup {None} \subseteq Secrets
  BY <1>1 DEF TypeOK, Secrets
<1>4. \A v \in Windows : view'[v].shown \in {None, view[v].shown}
  <2>1. \A v \in Windows : view[v] \in Page
    BY <1>1 DEF TypeOK
  <2>2. CASE StartSetup(w) \/ Retry(w)
    BY <1>1, <2>1, <2>2 DEF StartSetup, Retry, Show, TypeOK, Page
  <2>3. CASE Leave(w)
    BY <1>1, <2>3 DEF Leave, Show, LoginPage, TypeOK
  <2>4. CASE UNCHANGED view
    BY <2>4
  <2> QED
    BY <2>2, <2>3, <2>4 DEF Window, SignIn, Scan, SubmitEnrolment, SubmitCode
<1>5. \A v \in Windows : QuietPage(v)
  BY <1>4 DEF Inv, ShownIsStored, QuietPage
<1>6. \A c \in CallIds : SameCall(c) \/ QuietCall(c)
  <2>1. ASSUME NEW op \in Setups \cup {"login", "enrol", "verify"},
               NEW code \in scanned \cup {None}, Send(w, op, code)
        PROVE  \A c \in CallIds : SameCall(c) \/ QuietCall(c)
    <3>1. PICK c \in CallIds :
            /\ \A d \in CallIds \ {c} : call'[d] = call[d]
            /\ call'[c].at = "sent" /\ call'[c].op = op /\ call'[c].code = code
      BY <1>1, <1>3, <2>1, Sends
    <3> QED
      BY <3>1 DEF SameCall, QuietCall
  <2>2. CASE Leave(w)
    <3>1. \A c \in CallIds : call'[c] \in {call[c], Over, [call[c] EXCEPT !.live = FALSE, !.window = None]}
      BY <2>2 DEF Leave
    <3>2. \A c \in CallIds : call[c] \in Call
      BY <1>1 DEF TypeOK
    <3>3. Over.at = "over" /\ Over.code = None
      BY DEF Over, Unused
    <3>4. \A r \in Call : LET d == [r EXCEPT !.live = FALSE, !.window = None] IN
            d.at = r.at /\ d.op = r.op /\ d.code = r.code /\ d.secret = r.secret
      BY DEF Call
    <3>5. ASSUME NEW c \in CallIds PROVE SameCall(c) \/ QuietCall(c)
      <4>1. CASE call'[c] \in {call[c], [call[c] EXCEPT !.live = FALSE, !.window = None]}
        BY <3>2, <3>4, <4>1 DEF SameCall
      <4>2. CASE call'[c] = Over
        BY <3>3, <4>2 DEF QuietCall
      <4> QED
        BY <3>1, <4>1, <4>2
    <3> QED
      BY <3>5
  <2>3. CASE UNCHANGED call
    BY <2>3 DEF SameCall
  <2>4. CASE SignIn(w) \/ StartSetup(w) \/ Retry(w)
    BY <2>1, <2>4 DEF SignIn, StartSetup, Retry
  <2>5. CASE SubmitEnrolment(w) \/ SubmitCode(w)
    BY <2>1, <2>5 DEF SubmitEnrolment, SubmitCode
  <2> QED
    BY <2>2, <2>3, <2>4, <2>5 DEF Window, Scan
<1> QED
  BY <1>1, <1>2, <1>5, <1>6, Quiet

LEMMA AnswerInv ==
  ASSUME Bounded, Inv, NEW c \in CallIds, Answer(c) PROVE Inv'
<1>1. TypeOK /\ TypeOK'
  BY AnswerType DEF Inv
<1>2. UNCHANGED <<scanned, account, proven, raced>> /\ Forget(c)
  BY DEF Answer, AnswerLogin, AnswerSetup, AnswerRetry, AnswerCode
<1>3. Over.at = "over" /\ Over.code = None
  BY DEF Over, Unused
<1>4. \A d \in CallIds : SameCall(d) \/ QuietCall(d)
  BY <1>1, <1>2, <1>3, Forgets DEF SameCall, QuietCall
<1>5. ASSUME NEW v \in Windows PROVE QuietPage(v)
  <2>1. view[v] \in Page /\ (~raced => view[v].shown \in {None, account.secret})
    BY <1>1 DEF TypeOK, Inv, ShownIsStored
  <2>2. view \in [Windows -> Page]
    BY <1>1 DEF TypeOK
  <2>3. CASE AnswerSetup(c)
    <3>1. call[c].op = "setup"
      BY <2>3 DEF AnswerSetup, Answered
    <3>2. view'[v] \in {view[v], [view[v] EXCEPT !.loading = FALSE, !.error = TRUE]}
          \/ (call[c].at = "ok" /\ view'[v] = [view[v] EXCEPT !.loading = FALSE, !.shown = call[c].secret])
      BY <2>2, <2>3 DEF AnswerSetup, Show, Answered
    <3> QED
      BY <2>1, <3>1, <3>2 DEF Inv, AnswersStored, QuietPage, Page
  <2>4. CASE AnswerLogin(c) \/ AnswerCode(c)
    <3>1. view'[v] \in {view[v], [LoginPage EXCEPT !.at = call[c].to], [LoginPage EXCEPT !.at = "home"]}
      BY <2>2, <2>4 DEF AnswerLogin, AnswerCode, Show
    <3> QED
      BY <2>1, <3>1 DEF QuietPage, LoginPage
  <2>5. CASE AnswerRetry(c)
    <3>1. view'[v] \in {view[v], [view[v] EXCEPT !.error = TRUE]}
      BY <2>2, <2>5 DEF AnswerRetry, Show
    <3> QED
      BY <2>1, <3>1 DEF QuietPage, Page
  <2> QED
    BY <2>3, <2>4, <2>5 DEF Answer
<1> QED
  BY <1>1, <1>2, <1>4, <1>5, Quiet
-----------------------------------------------------------------------------
(* The steps of the control plane.                                         *)

(* A call that the control plane answers without writing anything.         *)
LEMMA QuietAnswer ==
  ASSUME Inv, TypeOK', NEW c \in CallIds,
         UNCHANGED <<account, view, scanned, proven, raced>>,
         \A d \in CallIds \ {c} : call'[d] = call[d],
         call'[c].at # "write", call'[c].code = call[c].code,
         call'[c].op \in Setups /\ call'[c].at = "ok" =>
           call'[c].secret = account.secret /\ account.secret # None
  PROVE  Inv'
<1>1. \A d \in CallIds : SameCall(d) \/ QuietCall(d)
  BY DEF SameCall, QuietCall, Inv, CodesScanned
<1>2. \A w \in Windows : QuietPage(w)
  BY DEF QuietPage, Inv, ShownIsStored
<1> QED
  BY <1>1, <1>2, Quiet

LEMMA SetupInv ==
  ASSUME Bounded, Inv, TypeOK', NEW c \in CallIds, SetupFirstLogin(c) PROVE Inv'
<1>1. call \in [CallIds -> Call] /\ call[c] \in Call
  BY DEF Inv, TypeOK
<1>2. UNCHANGED <<account, view, scanned, proven>> /\ Asked(c)
  BY DEF SetupFirstLogin
<1>3. CASE account.enabled
  <2>1. call' = [call EXCEPT ![c].at = "failed"] /\ UNCHANGED raced
    BY <1>3 DEF SetupFirstLogin, Become
  <2> QED
    BY <1>1, <1>2, <2>1, QuietAnswer DEF Call
<1>4. CASE ~account.enabled /\ account.secret # None
  <2>1. call' = [call EXCEPT ![c].at = "ok", ![c].secret = account.secret] /\ UNCHANGED raced
    BY <1>4 DEF SetupFirstLogin
  <2> QED
    BY <1>1, <1>2, <1>4, <2>1, QuietAnswer DEF Call
<1>5. CASE ~account.enabled /\ account.secret = None
  <2>1. /\ call' = [call EXCEPT ![c].at = "write", ![c].secret = c]
        /\ raced' = (raced \/ Storing)
    BY <1>5 DEF SetupFirstLogin
  <2>2. /\ \A d \in CallIds \ {c} : call'[d] = call[d]
        /\ call'[c].at = "write" /\ call'[c].op = call[c].op
        /\ call'[c].secret = c /\ call'[c].code = call[c].code
    BY <1>1, <2>1 DEF Call
  <2>3. call[c].op \in Setups /\ call[c].op # "enrol" /\ c # None
    BY <1>2 DEF Asked, CallIds
  <2>4. FirstStores'
    <3>1. raced \in BOOLEAN
      BY DEF Inv, TypeOK
    <3>2. ~raced' => \A d \in CallIds \ {c} : ~(call'[d].op \in Setups /\ call'[d].at = "write")
      BY <2>1, <2>2 DEF Storing
    <3> QED
      BY <1>2, <1>5, <2>2, <2>3, <3>2 DEF FirstStores
  <2>5. AnswersStored'
    BY <1>2, <2>1, <2>2 DEF Inv, AnswersStored
  <2>6. EnrolmentProven' /\ CodesScanned' /\ NobodyLockedOut'
    BY <1>2, <2>2, <2>3 DEF Inv, EnrolmentProven, CodesScanned, NobodyLockedOut
  <2>7. ShownIsStored'
    BY <1>2, <2>1 DEF Inv, ShownIsStored
  <2> QED
    BY <2>4, <2>5, <2>6, <2>7 DEF Inv
<1> QED
  BY <1>3, <1>4, <1>5

LEMMA UpdateInv ==
  ASSUME Bounded, Inv, TypeOK', NEW c \in CallIds, UpdateAdminOTP(c) PROVE Inv'
<1>1. /\ call[c].op \in Setups /\ call[c].at = "write"
      /\ account'.secret = call[c].secret /\ ~account'.enabled
      /\ UNCHANGED <<view, scanned, proven, raced>>
  BY DEF UpdateAdminOTP
<1>2. /\ \A d \in CallIds \ {c} : call'[d] = call[d]
      /\ call'[c].at = "ok" /\ call'[c].op = call[c].op
      /\ call'[c].secret = call[c].secret /\ call'[c].code = call[c].code
  <2>1. TypeOK /\ call[c] \in Call
    BY DEF Inv, TypeOK
  <2>2. Become(c, "ok")
    BY DEF UpdateAdminOTP
  <2> QED
    <3>1. /\ \A d \in CallIds \ {c} : call'[d] = call[d]
          /\ call'[c] = [call[c] EXCEPT !.at = "ok"]
      BY <2>1, <2>2, Becomes DEF UnderWay
    <3> QED
      BY <2>1, <3>1 DEF Call
<1>3. ~raced => /\ account.secret = None /\ call[c].secret # None
                /\ \A d \in CallIds : call[d].op \in Setups /\ call[d].at = "write" => d = c
  BY <1>1 DEF Inv, FirstStores
<1>4. FirstStores'
  BY <1>1, <1>2, <1>3 DEF FirstStores
<1>5. AnswersStored'
  BY <1>1, <1>2, <1>3 DEF Inv, AnswersStored
<1>6. ShownIsStored'
  BY <1>1, <1>3 DEF Inv, ShownIsStored
<1>7. EnrolmentProven' /\ CodesScanned' /\ NobodyLockedOut'
  BY <1>1, <1>2 DEF Inv, EnrolmentProven, CodesScanned, NobodyLockedOut
<1> QED
  BY <1>4, <1>5, <1>6, <1>7 DEF Inv

LEMMA VerifyInv ==
  ASSUME Bounded, Inv, TypeOK', NEW c \in CallIds, VerifyFirstLogin(c) PROVE Inv'
<1>1. call \in [CallIds -> Call] /\ call[c] \in Call
  BY DEF Inv, TypeOK
<1>2. UNCHANGED <<account, view, scanned, raced>> /\ call[c].op = "enrol"
  BY DEF VerifyFirstLogin
<1>3. CASE call' = [call EXCEPT ![c].at = "failed"] /\ UNCHANGED proven
  BY <1>1, <1>2, <1>3, QuietAnswer DEF Call
<1>4. CASE /\ account.secret # None /\ call[c].code = account.secret
           /\ call' = [call EXCEPT ![c].at = "write", ![c].secret = account.secret]
           /\ proven' = proven \cup {account.secret}
  <2>1. /\ \A d \in CallIds \ {c} : call'[d] = call[d]
        /\ call'[c].at = "write" /\ call'[c].op = "enrol"
        /\ call'[c].secret = account.secret /\ call'[c].code = call[c].code
    BY <1>1, <1>2, <1>4 DEF Call
  <2>2. account.secret \in proven' \cap scanned'
    BY <1>2, <1>4 DEF Inv, CodesScanned
  <2>3. EnrolmentProven'
    <3>1. proven \subseteq proven'
      BY <1>4
    <3>2. \A d \in CallIds \ {c} : call'[d].op = "enrol" /\ call'[d].at = "write" =>
            call'[d].secret \in proven' \cap scanned'
      BY <1>2, <2>1, <3>1 DEF Inv, EnrolmentProven
    <3> QED
      BY <2>1, <2>2, <3>2 DEF EnrolmentProven
  <2>4. CodesScanned'
    BY <1>2, <2>1 DEF Inv, CodesScanned
  <2>5. NobodyLockedOut'
    BY <1>2, <2>2 DEF NobodyLockedOut
  <2>6. FirstStores' /\ AnswersStored' /\ ShownIsStored'
    BY <1>2, <2>1 DEF Inv, FirstStores, AnswersStored, ShownIsStored
  <2> QED
    BY <2>3, <2>4, <2>5, <2>6 DEF Inv
<1> QED
  BY <1>3, <1>4 DEF VerifyFirstLogin, Become

LEMMA EnableInv ==
  ASSUME Bounded, Inv, TypeOK', NEW c \in CallIds, EnableAdminOTP(c) PROVE Inv'
<1>1. /\ call[c].op = "enrol" /\ call[c].at = "write"
      /\ UNCHANGED <<view, scanned, proven, raced>>
      /\ account'.secret = account.secret
      /\ account'.enabled => account.enabled \/ account.secret = call[c].secret
  BY DEF EnableAdminOTP, EnableIfPending, Inv, TypeOK
<1>2. /\ \A d \in CallIds \ {c} : call'[d] = call[d]
      /\ call'[c].at \in {"ok", "failed"} /\ call'[c].op = "enrol" /\ call'[c].code = call[c].code
  <2>1. TypeOK /\ call[c] \in Call
    BY DEF Inv, TypeOK
  <2>2. PICK at \in {"ok", "failed"} : Become(c, at)
    BY DEF EnableAdminOTP
  <2>3. /\ \A d \in CallIds \ {c} : call'[d] = call[d]
        /\ call'[c] = [call[c] EXCEPT !.at = at]
    BY <2>1, <2>2, Becomes DEF UnderWay
  <2> QED
    BY <1>1, <2>1, <2>3 DEF Call
<1>3. NobodyLockedOut'
  BY <1>1 DEF Inv, NobodyLockedOut, EnrolmentProven
<1>4. EnrolmentProven' /\ CodesScanned'
  BY <1>1, <1>2 DEF Inv, EnrolmentProven, CodesScanned
<1>5. FirstStores' /\ AnswersStored' /\ ShownIsStored'
  BY <1>1, <1>2 DEF Inv, FirstStores, AnswersStored, ShownIsStored
<1> QED
  BY <1>3, <1>4, <1>5 DEF Inv

LEMMA ControlPlaneInv ==
  ASSUME Bounded, Inv, NEW c \in CallIds, ControlPlane(c) PROVE Inv'
<1>1. TypeOK /\ TypeOK' /\ call \in [CallIds -> Call] /\ call[c] \in Call
  BY ControlPlaneType DEF Inv, TypeOK
<1>2. CASE Login(c)
  <2>1. call[c].op = "login" /\ UNCHANGED <<account, view, scanned, proven, raced>>
    BY <1>2 DEF Login
  <2>2. /\ \A d \in CallIds \ {c} : call'[d] = call[d]
        /\ call'[c].at = "ok" /\ call'[c].op = "login" /\ call'[c].code = call[c].code
    BY <1>1, <1>2, <2>1 DEF Login, Call
  <2> QED
    BY <1>1, <2>1, <2>2, QuietAnswer
<1>3. CASE VerifyOTPLogin(c) \/ Fail(c)
  <2>1. /\ UNCHANGED <<account, view, scanned, proven, raced>>
        /\ \E at \in {"ok", "failed"} : Become(c, at) /\ (at = "ok" => call[c].op = "verify")
    BY <1>3 DEF VerifyOTPLogin, Fail
  <2>2. PICK at \in {"ok", "failed"} : Become(c, at) /\ (at = "ok" => call[c].op = "verify")
    BY <2>1
  <2>3. /\ \A d \in CallIds \ {c} : call'[d] = call[d]
        /\ call'[c].at = at /\ call'[c].op = call[c].op /\ call'[c].code = call[c].code
    <3>1. /\ \A d \in CallIds \ {c} : call'[d] = call[d]
          /\ call'[c] = [call[c] EXCEPT !.at = at]
      BY <1>1, <2>2, Becomes DEF UnderWay
    <3> QED
      BY <1>1, <3>1 DEF Call
  <2> QED
    BY <1>1, <2>1, <2>2, <2>3, QuietAnswer
<1> QED
  BY <1>1, <1>2, <1>3, SetupInv, UpdateInv, VerifyInv, EnableInv DEF ControlPlane

LEMMA StepInv == ASSUME Bounded, Inv, [Next]_vars PROVE Inv'
<1>1. CASE UNCHANGED vars
  BY <1>1 DEF vars, Inv, TypeOK, NobodyLockedOut, CodesScanned, EnrolmentProven,
              FirstStores, AnswersStored, ShownIsStored
<1> QED
  BY <1>1, WindowInv, AnswerInv, ControlPlaneInv DEF Next
-----------------------------------------------------------------------------
(* The account, the pages, the calls and the histories keep their kinds,   *)
(* whatever the windows, the control plane and the failures do.            *)
THEOREM FirstLoginTypeCorrect == ASSUME Bounded PROVE Spec => []TypeOK
<1>1. Init => TypeOK
  BY InitType
<1>2. TypeOK /\ [Next]_vars => TypeOK'
  BY StepType
<1> QED
  BY <1>1, <1>2, PTL DEF Spec

(* The invariant: a secret that is about to be turned on was scanned and   *)
(* proved, and a setup that stores alone finds no secret.                  *)
THEOREM FirstLoginInvariant == ASSUME Bounded PROVE Spec => []Inv
<1>1. Init => Inv
  BY InitInv
<1>2. Inv /\ [Next]_vars => Inv'
  BY StepInv
<1> QED
  BY <1>1, <1>2, PTL DEF Spec

(* An account that asks for codes asks for those of a secret that the      *)
(* administrator has scanned and has typed a code of (the WHERE clause of  *)
(* EnableAdminOTP), whatever other windows set up meanwhile.               *)
THEOREM NobodyLockedOutHolds == ASSUME Bounded PROVE Spec => []NobodyLockedOut
<1>1. Inv => NobodyLockedOut
  BY DEF Inv
<1> QED
  BY <1>1, FirstLoginInvariant, PTL

(* Unless two setups stored a secret at once, every window shows the       *)
(* secret that the control plane has stored.                               *)
THEOREM ShownIsStoredHolds == ASSUME Bounded PROVE Spec => []ShownIsStored
<1>1. Inv => ShownIsStored
  BY DEF Inv
<1> QED
  BY <1>1, FirstLoginInvariant, PTL

(* Codes, once they are asked for, are only given up by a setup that had   *)
(* read the account before, while another one was storing its secret.      *)
THEOREM OnlyRacesDisableHolds == ASSUME Bounded PROVE Spec => OnlyRacesDisable
<1>1. ASSUME Inv, [Next]_vars PROVE [account.enabled => account'.enabled \/ raced]_vars
  <2>1. ASSUME account.enabled, NEW c \in CallIds, UpdateAdminOTP(c) PROVE raced
    <3>1. account.secret # None
      BY <1>1, <2>1 DEF Inv, NobodyLockedOut, TypeOK, CallIds
    <3>2. call[c].op \in Setups /\ call[c].at = "write"
      BY <2>1 DEF UpdateAdminOTP
    <3> QED
      BY <1>1, <3>1, <3>2 DEF Inv, FirstStores
  <2>2. ASSUME NEW c \in CallIds, EnableAdminOTP(c) PROVE account.enabled => account'.enabled
    BY <2>2 DEF EnableAdminOTP, EnableIfPending
  <2>3. CASE UNCHANGED account
    BY <2>3
  <2>4. CASE UNCHANGED vars
    BY <2>4
  <2> QED
    BY <1>1, <2>1, <2>2, <2>3, <2>4
       DEF Next, Window, SignIn, StartSetup, Retry, Scan, SubmitEnrolment, SubmitCode, Leave,
           Answer, AnswerLogin, AnswerSetup, AnswerRetry, AnswerCode,
           ControlPlane, Login, SetupFirstLogin, VerifyFirstLogin, VerifyOTPLogin, Fail
<1>2. Inv /\ [Next]_vars => [account.enabled => account'.enabled \/ raced]_vars
  BY <1>1
<1> QED
  BY <1>2, FirstLoginInvariant, PTL DEF Spec, OnlyRacesDisable
=============================================================================
