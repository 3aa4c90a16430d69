--------------------------- MODULE Console_proofs ---------------------------
(***************************************************************************)
(* Proofs about the pages of the console, for any number of rows, windows, *)
(* edits, calls and failures.  The router mounts one page at a time, so    *)
(* the console implements the specification of each of its pages, and what *)
(* a page promises by itself it promises in the console.                   *)
(***************************************************************************)
EXTENDS Console, Sequences, FiniteSetTheorems, TLAPS

Proved == INSTANCE FirstLogin_proofs WITH
  call <- loginCall, faults <- loginFaults, MaxCalls <- MaxLogins

(* Whatever is mounted, a step of the console is a step of each page or    *)
(* leaves it as it is.                                                     *)
LEMMA ListsRun == Spec => Lists!Spec
<1>1. Init => Lists!Init
  BY DEF Init
<1>2. [Next]_vars => [Lists!Next]_(Lists!vars)
  BY DEF Next, ListStep, SettingsStep, PolicyStep, LoginStep, vars, listVars, Lists!vars
<1> QED
  BY <1>1, <1>2, PTL DEF Spec, Lists!Spec

LEMMA SettingsRun == Spec => Settings!Spec
<1>1. Init => Settings!Init
  BY DEF Init
<1>2. [Next]_vars => [Settings!Next]_(Settings!vars)
  BY DEF Next, ListStep, SettingsStep, PolicyStep, LoginStep, vars, settingsVars, Settings!vars,
         Settings!formVars, Settings!dialogVars
<1> QED
  BY <1>1, <1>2, PTL DEF Spec, Settings!Spec

LEMMA PolicyRuns == Spec => Policy!Spec
<1>1. Init => Policy!Init
  BY DEF Init
<1>2. [Next]_vars => [Policy!Next]_(Policy!vars)
  BY DEF Next, ListStep, SettingsStep, PolicyStep, LoginStep, vars, policyVars, Policy!vars
<1> QED
  BY <1>1, <1>2, PTL DEF Spec, Policy!Spec

LEMMA LoginRuns == Spec => Login!Spec
<1>1. Init => Login!Init
  BY DEF Init
<1>2. [Next]_vars => [Login!Next]_(Login!vars)
  BY DEF Next, ListStep, SettingsStep, PolicyStep, LoginStep, vars, loginVars, Login!vars
<1> QED
  BY <1>1, <1>2, PTL DEF Spec, Login!Spec

-----------------------------------------------------------------------------
(* The sign-in pages.  FirstLogin_proofs proves what they promise by       *)
(* themselves, about an instance of its own of the same module.            *)

LEMMA LoginBounds == Proved!Bounded
BY BoundsAssumption DEF Proved!Bounded

LEMMA LoginInits == Login!Init => Proved!Init
BY DEF
  Login!Init, Proved!Init, Login!LoginPage, Proved!LoginPage, Login!Unused,
  Proved!Unused, Login!CallIds, Proved!CallIds, Login!None, Proved!None

LEMMA LoginSteps == [Login!Next]_(Login!vars) => [Proved!Next]_(Proved!vars)
<1>1. Login!Next => Proved!Next
  BY DEF
    Login!Next, Proved!Next, Login!Window, Proved!Window, Login!Answer,
    Proved!Answer, Login!ControlPlane, Proved!ControlPlane, Login!SignIn,
    Proved!SignIn, Login!StartSetup, Proved!StartSetup, Login!Retry,
    Proved!Retry, Login!Scan, Proved!Scan, Login!SubmitEnrolment,
    Proved!SubmitEnrolment, Login!SubmitCode, Proved!SubmitCode, Login!Leave,
    Proved!Leave, Login!AnswerLogin, Proved!AnswerLogin, Login!AnswerSetup,
    Proved!AnswerSetup, Login!AnswerRetry, Proved!AnswerRetry,
    Login!AnswerCode, Proved!AnswerCode, Login!Login, Proved!Login,
    Login!SetupFirstLogin, Proved!SetupFirstLogin, Login!UpdateAdminOTP,
    Proved!UpdateAdminOTP, Login!VerifyFirstLogin, Proved!VerifyFirstLogin,
    Login!EnableAdminOTP, Proved!EnableAdminOTP, Login!EnableIfPending,
    Proved!EnableIfPending, Login!VerifyOTPLogin, Proved!VerifyOTPLogin,
    Login!Fail, Proved!Fail, Login!Asked, Proved!Asked, Login!Storing,
    Proved!Storing, Login!Send, Proved!Send, Login!Show, Proved!Show,
    Login!Become, Proved!Become, Login!Forget, Proved!Forget, Login!Answered,
    Proved!Answered, Login!Pending, Proved!Pending, Login!UnderWay,
    Proved!UnderWay, Login!Unused, Proved!Unused, Login!Over, Proved!Over,
    Login!LoginPage, Proved!LoginPage, Login!None, Proved!None, Login!Setups,
    Proved!Setups, Login!Secrets, Proved!Secrets, Login!CallIds, Proved!CallIds
<1> QED
  BY <1>1 DEF Login!vars, Proved!vars

LEMMA LoginProved == Spec => Proved!Spec
BY LoginRuns, LoginInits, LoginSteps, PTL DEF Login!Spec, Proved!Spec

(* An account that asks for codes asks for those of a secret that the      *)
(* administrator has scanned and has typed a code of, in every window that *)
(* the console may have open.                                              *)
THEOREM LoginNobodyLockedOut == Spec => []NobodyLockedOut
<1>1. Proved!NobodyLockedOut => NobodyLockedOut
  BY DEF Proved!NobodyLockedOut, NobodyLockedOut, Login!NobodyLockedOut
<1> QED
  BY <1>1, LoginBounds, LoginProved, Proved!NobodyLockedOutHolds, PTL

(* Codes, once they are asked for, are only given up by a setup that had   *)
(* read the account before, while another one was storing its secret.      *)
THEOREM LoginOnlyRacesDisable == Spec => OnlyRacesDisable
<1>1. [account.enabled => account'.enabled \/ raced]_(Proved!vars)
        => [account.enabled => account'.enabled \/ raced]_(Login!vars)
  BY DEF Login!vars, Proved!vars
<1> QED
  BY <1>1, LoginBounds, LoginProved, Proved!OnlyRacesDisableHolds, PTL
  DEF OnlyRacesDisable, Login!OnlyRacesDisable, Proved!OnlyRacesDisable

LEMMA LoginType == Spec => []Login!TypeOK
<1>1. Proved!TypeOK => Login!TypeOK
  BY DEF
    Login!TypeOK, Proved!TypeOK, Login!Page, Proved!Page, Login!Call,
    Proved!Call, Login!Secrets, Proved!Secrets, Login!CallIds, Proved!CallIds,
    Login!Setups, Proved!Setups, Login!UnderWay, Proved!UnderWay, Login!None,
    Proved!None
<1> QED
  BY <1>1, LoginBounds, LoginProved, Proved!FirstLoginTypeCorrect, PTL
-----------------------------------------------------------------------------
(* The settings.                                                           *)

(* An invitation that is under way, or may be sent, was typed.             *)
Typed == IF invite.email = "none" \/ invite.sending THEN 0 ELSE 1
TimersTyped == invite.timers + Typed <= edits

(* What the tab of the organisation, or its page, may show.                *)
OneOrganisation ==
  screen \in {"organisation", "profile"} =>
    provider = "google" /\ config.of = "google" /\ config.issuer = "none"

(* Unless it is edited meanwhile, a form keeps what it is saving.          *)
SavesConfig ==
  save.busy /\ ~save.late => config \in {Settings!Defaults("google"), save.values}

(* An issuer goes with its provider: in the form, in the call that is      *)
(* under way, and in what was asked for.                                   *)
GoesWith(asked) ==
  /\ asked.type \in {"google", "entra"} => asked.issuer = asked.type
  /\ asked.issuer \in Settings!Providers => asked.issuer = asked.type
IssuersGoWith ==
  /\ provider \in {"google", "entra"} => config.issuer = "none"
  /\ config.issuer = "okta" => provider = "okta"
  /\ GoesWith(save.payload) /\ GoesWith(created)

SettingsInv ==
  /\ Settings!TypeOK /\ TimersTyped /\ OneOrganisation /\ SavesConfig
  /\ CleanMeansSaved /\ IssuersGoWith

Saves   == [busy : BOOLEAN, values : Settings!Values, payload : Settings!Payloads,
            kept : Settings!Values, late : BOOLEAN]
Tests   == [busy : BOOLEAN, of : Settings!Providers \cup {"none"},
            result : Settings!Providers \cup {"none"}]
Invites == [open : BOOLEAN, email : {"none", "invalid", "valid"}, sending : BOOLEAN,
            timers : 0..MaxEdits]
Dialogs == {"none", "secret", "save", "role", "remove", "session"}

LEMMA SettingsFields ==
  ASSUME Settings!TypeOK
  PROVE  /\ save \in Saves /\ test \in Tests /\ invite \in Invites
         /\ save.busy \in BOOLEAN /\ save.late \in BOOLEAN /\ save.values \in Settings!Values
         /\ save.kept \in Settings!Values /\ save.payload \in Settings!Payloads
         /\ config \in Settings!Values /\ config.of \in Settings!Providers
         /\ config.edit \in 0..MaxEdits /\ config.issuer \in {"none", "okta", "typed"}
         /\ provider \in Settings!Providers
         /\ edits \in 0..MaxEdits /\ MaxEdits \in Nat /\ invite.timers \in 0..MaxEdits
         /\ dialog \in Dialogs /\ chosen \in Rows \cup {NoRow} /\ created \in Settings!Payloads
BY BoundsAssumption DEF Settings!TypeOK, Settings!Values, Saves, Tests, Invites, Dialogs

LEMMA DefaultValues ==
  /\ \A p \in Settings!Providers :
       /\ Settings!Defaults(p) \in Settings!Values /\ Settings!Defaults(p).of = p
       /\ Settings!Defaults(p).issuer = IF p = "okta" THEN "okta" ELSE "none"
  /\ Settings!Defaults("google") = [of |-> "google", edit |-> 0, issuer |-> "none"]
  /\ "google" \in Settings!Providers
  /\ Settings!NotAsked \in Settings!Payloads /\ GoesWith(Settings!NotAsked)
BY BoundsAssumption
DEF Settings!Defaults, Settings!Values, Settings!Providers, Settings!NotAsked, Settings!Payloads, GoesWith

(* A step that leaves the forms, or that leaves the invitations.           *)
LEMMA FormsLeft ==
  ASSUME SettingsInv, UNCHANGED <<provider, config, changed, save, test, created>>,
         screen' = screen \/ screen' \in {"users", "groups", "user"},
         dialog' \in Dialogs, chosen' \in Rows \cup {NoRow}, invite' \in Invites,
         edits' \in 0..MaxEdits, TimersTyped'
  PROVE  SettingsInv'
<1>1. Settings!TypeOK'
  BY DEF SettingsInv, Settings!TypeOK, Dialogs, Invites, Settings!Screens
<1>2. OneOrganisation' /\ SavesConfig' /\ IssuersGoWith'
  BY DEF SettingsInv, OneOrganisation, SavesConfig, IssuersGoWith
<1>3. CleanMeansSaved'
  BY DEF SettingsInv, CleanMeansSaved, Settings!CleanMeansSaved
<1> QED
  BY <1>1, <1>2, <1>3 DEF SettingsInv

LEMMA InvitesLeft ==
  ASSUME SettingsInv, UNCHANGED <<screen, invite>>, edits' \in {edits, edits + 1}, edits' \in 0..MaxEdits,
         provider' \in Settings!Providers, config' \in Settings!Values, changed' \in BOOLEAN,
         save' \in Saves, test' \in Tests, created' \in Settings!Payloads,
         dialog' \in Dialogs, chosen' \in Rows \cup {NoRow},
         OneOrganisation', SavesConfig', CleanMeansSaved', IssuersGoWith'
  PROVE  SettingsInv'
<1>1. Settings!TypeOK'
  BY DEF SettingsInv, Settings!TypeOK, Dialogs, Saves, Tests
<1>2. TimersTyped'
  <2>1. Typed' = Typed /\ Typed \in Nat
    BY DEF Typed
  <2>2. Settings!TypeOK
    BY DEF SettingsInv
  <2> QED
    BY <2>1, <2>2, SettingsFields DEF SettingsInv, TimersTyped
<1> QED
  BY <1>1, <1>2 DEF SettingsInv

(* An edit of the form, while a save may be under way.                     *)
LEMMA EditKept ==
  ASSUME SettingsInv, save' = Settings!Touched, UNCHANGED <<screen, invite, created>>,
         Settings!NewEdit, provider' \in Settings!Providers, config' \in Settings!Values,
         test' \in Tests, changed' \in BOOLEAN,
         dialog' \in Dialogs, chosen' \in Rows \cup {NoRow}, OneOrganisation',
         provider' \in {"google", "entra"} => config'.issuer = "none",
         config'.issuer = "okta" => provider' = "okta",
         \/ changed' = TRUE
         \/ screen = "provider"
         \/ config' = Settings!Defaults("google")
  PROVE  SettingsInv'
<1>1. Settings!TypeOK
  BY DEF SettingsInv
<1>2. save' = [save EXCEPT !.late = save.late \/ save.busy]
  BY <1>1 DEF Settings!Touched
<1>3. /\ save' \in Saves /\ save'.busy = save.busy /\ save'.late = (save.late \/ save.busy)
      /\ save'.values = save.values /\ save'.kept = save.kept /\ save'.payload = save.payload
  <2>1. save \in Saves
    BY <1>1, SettingsFields
  <2> QED
    BY <1>2, <2>1 DEF Saves
<1>4. SavesConfig'
  BY <1>1, <1>3, SettingsFields DEF SavesConfig
<1>5. CleanMeansSaved'
  BY <1>1, <1>3 DEF CleanMeansSaved, Settings!CleanMeansSaved
<1>6. IssuersGoWith'
  BY <1>3 DEF IssuersGoWith, GoesWith, SettingsInv
<1>7. edits' = edits + 1 /\ edits' \in 0..MaxEdits
  BY <1>1, SettingsFields DEF Settings!NewEdit
<1>8. created' \in Settings!Payloads
  BY <1>1, SettingsFields
<1> QED
  BY <1>3, <1>4, <1>5, <1>6, <1>7, <1>8, InvitesLeft

LEMMA ChooseKept ==
  ASSUME SettingsInv, NEW p \in Settings!Providers, NEW marks \in BOOLEAN, Settings!Choose(p, marks),
         screen \in {"identity", "provider"}, marks \/ screen = "provider"
  PROVE  SettingsInv'
<1>1. Settings!TypeOK
  BY DEF SettingsInv
<1>2. /\ Settings!NewEdit /\ provider' = p /\ config' = Settings!Defaults(p)
      /\ changed' = (changed \/ marks) /\ test' = [test EXCEPT !.result = "none"]
      /\ save' = Settings!Touched /\ UNCHANGED <<screen, dialog, chosen, invite, created>>
  BY DEF Settings!Choose, Settings!dialogVars
<1>3. test' \in Tests
  BY <1>1, <1>2, SettingsFields DEF Tests
<1>4. OneOrganisation'
  BY <1>2 DEF OneOrganisation
<1>5. changed' \in BOOLEAN /\ (marks => changed')
  BY <1>1, <1>2 DEF Settings!TypeOK
<1> QED
  BY <1>1, <1>2, <1>3, <1>4, <1>5, DefaultValues, SettingsFields, EditKept

LEMMA UpdateConfigKept ==
  ASSUME SettingsInv, screen \in {"identity", "provider"},
         Settings!UpdateConfig \/ Settings!ConfirmChangeSecret
  PROVE  SettingsInv'
<1>1. Settings!TypeOK
  BY DEF SettingsInv
<1>2. /\ Settings!NewEdit /\ changed' = TRUE /\ save' = Settings!Touched
      /\ UNCHANGED <<screen, provider, test, chosen, invite, created>> /\ dialog' \in {dialog, "none"}
  BY DEF Settings!UpdateConfig, Settings!ConfirmChangeSecret, Settings!dialogVars
<1>3. PICK issuer \in {config.issuer} \cup (IF provider \in {"okta", "other"} THEN {"typed", "none"} ELSE {}) :
        config' = [config EXCEPT !.edit = edits', !.issuer = issuer]
  <2>1. CASE Settings!UpdateConfig
    BY <2>1 DEF Settings!UpdateConfig
  <2>2. CASE Settings!ConfirmChangeSecret
    <3>1. config' = [config EXCEPT !.edit = edits']
      BY <2>2 DEF Settings!ConfirmChangeSecret
    <3>2. config' = [config EXCEPT !.edit = edits', !.issuer = config.issuer]
      BY <1>1, <3>1, SettingsFields DEF Settings!Values
    <3> QED
      BY <3>2
  <2> QED
    BY <2>1, <2>2
<1>4. issuer \in {"none", "okta", "typed"} /\ edits' \in 0..MaxEdits
  BY <1>1, <1>2, <1>3, SettingsFields DEF Settings!NewEdit
<1>5. config' \in Settings!Values /\ config'.issuer = issuer
  BY <1>1, <1>3, <1>4, SettingsFields DEF Settings!Values
<1>6. /\ provider \in {"google", "entra"} => issuer = "none"
      /\ issuer = "okta" => provider = "okta"
  BY <1>3 DEF SettingsInv, IssuersGoWith
<1>7. OneOrganisation'
  BY <1>2 DEF OneOrganisation
<1>8. dialog' \in Dialogs /\ "none" \in Dialogs
  BY <1>1, <1>2, SettingsFields DEF Dialogs
<1> QED
  BY <1>1, <1>2, <1>5, <1>6, <1>7, <1>8, SettingsFields, EditKept

LEMMA EditOrganisationKept ==
  ASSUME SettingsInv, screen \in {"organisation", "profile"}, Settings!EditOrganisation
  PROVE  SettingsInv'
<1>1. Settings!TypeOK
  BY DEF SettingsInv
<1>2. /\ Settings!NewEdit /\ save' = Settings!Touched /\ changed' = (config'.edit # 0)
      /\ UNCHANGED <<screen, provider, test, dialog, chosen, invite, created>>
  BY DEF Settings!EditOrganisation, Settings!dialogVars
<1>3. PICK e \in {0, edits'} : config' = [config EXCEPT !.edit = e]
  BY DEF Settings!EditOrganisation
<1>4. e \in 0..MaxEdits
  BY <1>1, <1>2, <1>3, SettingsFields DEF Settings!NewEdit
<1>5. config.of = "google" /\ config.issuer = "none" /\ provider = "google"
  BY DEF SettingsInv, OneOrganisation
<1>6. /\ config' \in Settings!Values /\ config'.issuer = "none" /\ config'.of = "google"
      /\ config'.edit = e
  BY <1>1, <1>3, <1>4, <1>5, SettingsFields DEF Settings!Values
<1>7. e = 0 => config' = Settings!Defaults("google")
  BY <1>6, DefaultValues DEF Settings!Values
<1>8. OneOrganisation'
  BY <1>2, <1>5, <1>6 DEF OneOrganisation
<1>9. changed' \in BOOLEAN /\ (changed' = TRUE \/ config' = Settings!Defaults("google"))
  BY <1>2, <1>6, <1>7
<1> QED
  BY <1>1, <1>2, <1>5, <1>6, <1>8, <1>9, SettingsFields, EditKept

(* The button that discards, and the test of a connection.                 *)
LEMMA DiscardKept ==
  ASSUME SettingsInv, NEW shown \in Tests, Settings!Discard(shown) PROVE SettingsInv'
<1>1. Settings!TypeOK
  BY DEF SettingsInv
<1>2. /\ provider' = "google" /\ config' = Settings!Defaults("google") /\ changed' = FALSE
      /\ test' = shown /\ UNCHANGED <<screen, save, dialog, chosen, invite, created, edits>>
  BY DEF Settings!Discard, Settings!dialogVars
<1>3. OneOrganisation' /\ SavesConfig' /\ CleanMeansSaved'
  BY <1>2, DefaultValues DEF OneOrganisation, SavesConfig, CleanMeansSaved, Settings!CleanMeansSaved
<1>4. IssuersGoWith'
  BY <1>2, DefaultValues DEF SettingsInv, IssuersGoWith, GoesWith
<1> QED
  BY <1>1, <1>2, <1>3, <1>4, DefaultValues, SettingsFields, InvitesLeft

LEMMA TestKept ==
  ASSUME SettingsInv, Settings!HandleTestConnection \/ Settings!Tested PROVE SettingsInv'
<1>1. Settings!TypeOK
  BY DEF SettingsInv
<1>2. UNCHANGED <<screen, provider, config, changed, save, dialog, chosen, invite, created, edits>>
  BY DEF Settings!HandleTestConnection, Settings!Tested, Settings!dialogVars
<1>3. test' \in Tests
  <2>1. test \in Tests /\ provider \in Settings!Providers
    BY <1>1, SettingsFields
  <2>2. CASE Settings!HandleTestConnection
    BY <2>1, <2>2 DEF Settings!HandleTestConnection, Tests
  <2>3. CASE Settings!Tested
    BY <2>1, <2>3 DEF Settings!Tested, Tests
  <2> QED
    BY <2>2, <2>3
<1>4. OneOrganisation' /\ SavesConfig' /\ IssuersGoWith'
  BY <1>2 DEF SettingsInv, OneOrganisation, SavesConfig, IssuersGoWith, GoesWith
<1>5. CleanMeansSaved'
  BY <1>2 DEF SettingsInv, CleanMeansSaved, Settings!CleanMeansSaved
<1>6. changed' \in BOOLEAN
  BY <1>1, <1>2 DEF Settings!TypeOK
<1> QED
  BY <1>1, <1>2, <1>3, <1>4, <1>5, <1>6, SettingsFields, InvitesLeft

(* A save starts with what the form shows, and asks for the issuer of the  *)
(* provider that is selected.                                              *)
LEMMA StartSaveKept ==
  ASSUME SettingsInv, Settings!StartSave, dialog' \in Dialogs,
         UNCHANGED <<screen, provider, config, changed, test, chosen, invite, created, edits>>
  PROVE  SettingsInv'
<1>1. Settings!TypeOK
  BY DEF SettingsInv
<1>2. /\ changed
      /\ save' = [save EXCEPT !.busy = TRUE, !.values = config, !.payload = Settings!Payload, !.late = FALSE]
  BY DEF Settings!StartSave
<1>3. Settings!Payload \in Settings!Payloads /\ GoesWith(Settings!Payload)
  BY <1>1, SettingsFields
  DEF SettingsInv, IssuersGoWith, GoesWith, Settings!Payload, Settings!Payloads, Settings!Providers
<1>4. save' \in Saves /\ save'.values = config /\ save'.payload = Settings!Payload
  BY <1>1, <1>2, <1>3, SettingsFields DEF Saves
<1>5. OneOrganisation' /\ SavesConfig' /\ CleanMeansSaved'
  BY <1>2, <1>4
  DEF SettingsInv, OneOrganisation, SavesConfig, CleanMeansSaved, Settings!CleanMeansSaved
<1>6. IssuersGoWith'
  BY <1>3, <1>4 DEF SettingsInv, IssuersGoWith, GoesWith
<1>7. changed' \in BOOLEAN
  BY <1>1 DEF Settings!TypeOK
<1> QED
  BY <1>1, <1>4, <1>5, <1>6, <1>7, SettingsFields, InvitesLeft

(* A save that succeeds keeps its values: the form shows them, or was      *)
(* edited since.                                                           *)
LEMMA SavedKept ==
  ASSUME SettingsInv, NEW marked \in BOOLEAN, NEW asked \in {created, save.payload},
         marked = changed \/ marked = FALSE, Settings!Saved(marked, asked)
  PROVE  SettingsInv'
<1>1. Settings!TypeOK
  BY DEF SettingsInv
<1>2. /\ save.busy /\ changed' = marked /\ created' = asked
      /\ save' = [save EXCEPT !.busy = FALSE, !.payload = Settings!NotAsked, !.kept = save.values]
      /\ UNCHANGED <<screen, provider, config, test, dialog, chosen, invite, edits>>
  BY DEF Settings!Saved, Settings!dialogVars
<1>3. /\ save' \in Saves /\ save'.busy = FALSE /\ save'.payload = Settings!NotAsked
      /\ save'.kept = save.values /\ save'.late = save.late
  BY <1>1, <1>2, DefaultValues, SettingsFields DEF Saves
<1>4. OneOrganisation' /\ SavesConfig'
  BY <1>2, <1>3 DEF SettingsInv, OneOrganisation, SavesConfig
<1>5. CleanMeansSaved'
  BY <1>2, <1>3 DEF SettingsInv, SavesConfig, CleanMeansSaved, Settings!CleanMeansSaved
<1>6. IssuersGoWith'
  BY <1>2, <1>3, DefaultValues DEF SettingsInv, IssuersGoWith, GoesWith
<1>7. created' \in Settings!Payloads
  BY <1>1, <1>2, SettingsFields
<1> QED
  BY <1>1, <1>2, <1>3, <1>4, <1>5, <1>6, <1>7, SettingsFields, InvitesLeft

(* A save that fails, whether the control plane did it or not.             *)
LEMMA SaveFailedKept ==
  ASSUME SettingsInv, save.busy,
         save' = [save EXCEPT !.busy = FALSE, !.payload = Settings!NotAsked, !.values = save.kept],
         created' \in {created, save.payload},
         UNCHANGED <<screen, provider, config, changed, test, dialog, chosen, invite, edits>>
  PROVE  SettingsInv'
<1>1. Settings!TypeOK
  BY DEF SettingsInv
<1>2. /\ save' \in Saves /\ save'.busy = FALSE /\ save'.payload = Settings!NotAsked
      /\ save'.kept = save.kept /\ save'.late = save.late
  BY <1>1, DefaultValues, SettingsFields DEF Saves
<1>3. OneOrganisation' /\ SavesConfig'
  BY <1>2 DEF SettingsInv, OneOrganisation, SavesConfig
<1>4. CleanMeansSaved'
  BY <1>2 DEF SettingsInv, CleanMeansSaved, Settings!CleanMeansSaved
<1>5. IssuersGoWith'
  BY <1>2, DefaultValues DEF SettingsInv, IssuersGoWith, GoesWith
<1>6. created' \in Settings!Payloads /\ changed' \in BOOLEAN
  <2>1. created' \in Settings!Payloads
    BY <1>1, SettingsFields
  <2>2. changed' \in BOOLEAN
    BY <1>1 DEF Settings!TypeOK
  <2> QED
    BY <2>1, <2>2
<1>7. /\ edits' \in {edits, edits + 1} /\ edits' \in 0..MaxEdits
      /\ provider' \in Settings!Providers /\ config' \in Settings!Values
      /\ test' \in Tests /\ dialog' \in Dialogs /\ chosen' \in Rows \cup {NoRow}
  BY <1>1, SettingsFields
<1> QED
  BY <1>2, <1>3, <1>4, <1>5, <1>6, <1>7, InvitesLeft

(* A tab starts afresh; the call of the tab that is left may be served.    *)
LEMMA SelectTabKept == ASSUME SettingsInv, Settings!SelectTab PROVE SettingsInv'
<1>1. Settings!TypeOK
  BY DEF SettingsInv
<1>2. /\ screen' \in Settings!Tabs
      /\ provider' = "google" /\ config' = Settings!Defaults("google") /\ changed' = FALSE
      /\ save' = Settings!NoSave /\ test' = Settings!NoTest /\ dialog' = "none" /\ chosen' = NoRow
      /\ created' \in {created, save.payload} /\ UNCHANGED <<invite, edits>>
  BY DEF Settings!SelectTab
<1>3. /\ Settings!NoSave \in Saves /\ ~Settings!NoSave.busy
      /\ Settings!NoSave.payload = Settings!NotAsked /\ Settings!NoTest \in Tests
  BY DefaultValues DEF Settings!NoSave, Settings!NoTest, Saves, Tests
<1>4. created' \in Settings!Payloads /\ GoesWith(created')
  BY <1>1, <1>2, SettingsFields DEF SettingsInv, IssuersGoWith, GoesWith
<1>5. OneOrganisation' /\ SavesConfig' /\ CleanMeansSaved'
  BY <1>2, <1>3, DefaultValues
  DEF OneOrganisation, SavesConfig, CleanMeansSaved, Settings!CleanMeansSaved
<1>6. IssuersGoWith'
  BY <1>2, <1>3, <1>4, DefaultValues DEF IssuersGoWith, GoesWith
<1>7. Settings!TypeOK'
  <2>1. screen' \in Settings!Screens /\ provider' \in Settings!Providers /\ changed' \in BOOLEAN
    BY <1>2, DefaultValues DEF Settings!Tabs, Settings!Screens, Settings!Providers
  <2>2. config' \in Settings!Values
    BY <1>2, <2>1, DefaultValues
  <2>3. save' \in Saves /\ test' \in Tests /\ dialog' \in Dialogs /\ chosen' \in Rows \cup {NoRow}
    BY <1>2, <1>3 DEF Dialogs
  <2>4. invite' \in Invites /\ edits' \in 0..MaxEdits
    BY <1>1, <1>2, SettingsFields
  <2> QED
    BY <1>4, <2>1, <2>2, <2>3, <2>4 DEF Settings!TypeOK, Saves, Tests, Invites, Dialogs
<1>8. TimersTyped'
  BY <1>2 DEF SettingsInv, TimersTyped, Typed
<1> QED
  BY <1>5, <1>6, <1>7, <1>8 DEF SettingsInv

(* Dialogs, invitations and the pages of the users.                        *)
LEMMA DialogsKept ==
  ASSUME SettingsInv,
         \/ \E kind \in Dialogs, r \in Rows \cup {NoRow} : Settings!Open(kind, r)
         \/ \E kind \in Dialogs : Settings!Cancel(kind) \/ Settings!Confirm(kind)
         \/ Settings!UserTabs \/ Settings!UserList \/ Settings!HandleBack
  PROVE  SettingsInv'
<1>1. Settings!TypeOK
  BY DEF SettingsInv
<1>2. /\ dialog' \in Dialogs /\ chosen' \in Rows \cup {NoRow}
      /\ screen' = screen \/ screen' \in {"users", "groups", "user"}
      /\ UNCHANGED <<provider, config, changed, save, test, created, invite, edits>>
  BY <1>1, SettingsFields
  DEF Settings!Open, Settings!Cancel, Settings!Confirm, Settings!UserTabs, Settings!UserList,
      Settings!HandleBack, Settings!Show, Settings!formVars, Settings!dialogVars, Dialogs
<1>3. TimersTyped'
  BY <1>2 DEF SettingsInv, TimersTyped, Typed
<1> QED
  BY <1>1, <1>2, <1>3, SettingsFields, FormsLeft

LEMMA InvitesKept ==
  ASSUME SettingsInv,
         Settings!OpenInvite \/ Settings!HandleSendInvite \/ Settings!InviteForm \/ Settings!InviteSent
  PROVE  SettingsInv'
<1>1. /\ Settings!TypeOK /\ invite \in Invites /\ invite.timers \in 0..MaxEdits
      /\ MaxEdits \in Nat /\ edits \in 0..MaxEdits
  BY SettingsFields DEF SettingsInv
<1>2. invite.timers + Typed <= edits
  BY DEF SettingsInv, TimersTyped
<1>3. invite' \in Invites /\ edits' \in 0..MaxEdits /\ TimersTyped'
  <2>1. CASE Settings!OpenInvite
    <3>1. invite' = [invite EXCEPT !.open = TRUE] /\ edits' = edits
      BY <2>1 DEF Settings!OpenInvite
    <3>2. /\ invite' \in Invites /\ invite'.email = invite.email /\ invite'.sending = invite.sending
          /\ invite'.timers = invite.timers
      BY <1>1, <3>1 DEF Invites
    <3>3. Typed' = Typed
      BY <3>2 DEF Typed
    <3> QED
      BY <1>1, <1>2, <3>1, <3>2, <3>3 DEF TimersTyped
  <2>2. CASE Settings!HandleSendInvite
    <3>1. /\ ~invite.sending /\ invite.email = "valid" /\ edits' = edits
          /\ invite' = [invite EXCEPT !.sending = TRUE, !.timers = @ + 1]
      BY <2>2 DEF Settings!HandleSendInvite
    <3>2. Typed = 1
      BY <3>1 DEF Typed
    <3>3. invite.timers + 1 \in 0..MaxEdits
      BY <1>1, <1>2, <3>2
    <3>4. invite' \in Invites /\ invite'.sending = TRUE /\ invite'.timers = invite.timers + 1
      BY <1>1, <3>1, <3>3 DEF Invites
    <3>5. Typed' = 0
      BY <3>4 DEF Typed
    <3> QED
      BY <1>1, <1>2, <3>1, <3>2, <3>4, <3>5 DEF TimersTyped
  <2>3. CASE Settings!InviteForm
    <3>1. CASE edits' = edits /\ invite' = [Settings!NoInvite EXCEPT !.timers = invite.timers]
      <4>1. invite' \in Invites /\ invite'.email = "none" /\ invite'.timers = invite.timers
        BY <1>1, <3>1 DEF Settings!NoInvite, Invites
      <4>2. Typed' = 0 /\ Typed \in Nat
        BY <4>1 DEF Typed
      <4> QED
        BY <1>1, <1>2, <3>1, <4>1, <4>2 DEF TimersTyped
    <3>2. CASE Settings!NewEdit /\ \E e \in {"invalid", "valid"} : invite' = [invite EXCEPT !.email = e]
      <4>1. edits' = edits + 1 /\ edits' \in 0..MaxEdits
        BY <1>1, <3>2 DEF Settings!NewEdit
      <4>2. invite' \in Invites /\ invite'.timers = invite.timers
        BY <1>1, <3>2 DEF Invites
      <4>3. Typed' \in {0, 1} /\ Typed \in {0, 1}
        BY DEF Typed
      <4> QED
        BY <1>1, <1>2, <4>1, <4>2, <4>3 DEF TimersTyped
    <3> QED
      BY <2>3, <3>1, <3>2 DEF Settings!InviteForm
  <2>4. CASE Settings!InviteSent
    <3>1. /\ invite.timers > 0 /\ edits' = edits
          /\ invite' = [Settings!NoInvite EXCEPT !.timers = invite.timers - 1]
      BY <2>4 DEF Settings!InviteSent
    <3>0. invite.timers - 1 \in 0..MaxEdits
      BY <1>1, <3>1
    <3>2. invite' \in Invites /\ invite'.email = "none" /\ invite'.timers = invite.timers - 1
      BY <3>0, <3>1 DEF Settings!NoInvite, Invites
    <3>3. Typed' = 0 /\ Typed \in Nat
      BY <3>2 DEF Typed
    <3> QED
      BY <1>1, <1>2, <3>1, <3>2, <3>3 DEF TimersTyped
  <2> QED
    BY <2>1, <2>2, <2>3, <2>4
<1>4. UNCHANGED <<screen, provider, config, changed, save, test, created, dialog, chosen>>
  BY DEF Settings!OpenInvite, Settings!HandleSendInvite, Settings!InviteForm, Settings!InviteSent,
         Settings!formVars, Settings!dialogVars
<1> QED
  BY <1>1, <1>3, <1>4, SettingsFields, FormsLeft

LEMMA IdentityKept ==
  ASSUME SettingsInv, Settings!IdentityTab PROVE SettingsInv'
<1>1. Settings!TypeOK /\ screen = "identity" /\ test \in Tests
  BY SettingsFields DEF SettingsInv, Settings!IdentityTab
<1>2. CASE Settings!IdentityChoice
  BY <1>1, <1>2, ChooseKept DEF Settings!IdentityChoice
<1>3. CASE Settings!IdentityFields
  <2>1. CASE Settings!UpdateConfig
    BY <1>1, <2>1, UpdateConfigKept
  <2>2. CASE Settings!Open("secret", NoRow)
    BY <2>2, DialogsKept DEF Dialogs
  <2> QED
    BY <1>3, <2>1, <2>2 DEF Settings!IdentityFields
<1>4. CASE Settings!IdentityTest
  BY <1>4, TestKept DEF Settings!IdentityTest
<1>5. CASE Settings!IdentitySecret
  <2>1. CASE Settings!Cancel("secret")
    BY <2>1, DialogsKept DEF Dialogs
  <2>2. CASE Settings!ConfirmChangeSecret
    BY <1>1, <2>2, UpdateConfigKept
  <2> QED
    BY <1>5, <2>1, <2>2 DEF Settings!IdentitySecret
<1>6. CASE Settings!SaveIdentity
  <2>1. CASE Settings!Saved(FALSE, save.payload)
    BY <2>1, SavedKept
  <2>2. CASE ~Settings!Saved(FALSE, save.payload)
    <3>1. /\ save.busy
          /\ save' = [save EXCEPT !.busy = FALSE, !.payload = Settings!NotAsked, !.values = save.kept]
          /\ created' \in {created, save.payload}
          /\ UNCHANGED <<screen, provider, config, changed, test, dialog, chosen, invite, edits>>
      BY <1>6, <2>2 DEF Settings!SaveIdentity, Settings!dialogVars
    <3> QED
      BY <3>1, SaveFailedKept
  <2> QED
    BY <2>1, <2>2
<1>7. CASE Settings!IdentityButtons
  <2>1. CASE Settings!Discard(test)
    BY <1>1, <2>1, DiscardKept
  <2>2. CASE ~Settings!Discard(test)
    <3>1. /\ Settings!StartSave
          /\ UNCHANGED <<screen, provider, config, changed, test, dialog, chosen, invite, created, edits>>
      BY <1>7, <2>2 DEF Settings!IdentityButtons, Settings!dialogVars
    <3> QED
      BY <1>1, <3>1, StartSaveKept, SettingsFields
  <2> QED
    BY <2>1, <2>2
<1> QED
  BY <1>2, <1>3, <1>4, <1>5, <1>6, <1>7 DEF Settings!IdentityTab

LEMMA ProviderKept ==
  ASSUME SettingsInv, Settings!ProviderPage PROVE SettingsInv'
<1>1. Settings!TypeOK /\ screen = "provider" /\ test \in Tests
  BY SettingsFields DEF SettingsInv, Settings!ProviderPage
<1>2. CASE Settings!ProviderChoice
  BY <1>1, <1>2, ChooseKept DEF Settings!ProviderChoice
<1>3. CASE Settings!ProviderFields
  <2>1. CASE Settings!UpdateConfig
    BY <1>1, <2>1, UpdateConfigKept
  <2>2. CASE Settings!Open("secret", NoRow)
    BY <2>2, DialogsKept DEF Dialogs
  <2> QED
    BY <1>3, <2>1, <2>2 DEF Settings!ProviderFields
<1>4. CASE Settings!ProviderTest
  BY <1>4, TestKept DEF Settings!ProviderTest
<1>5. CASE Settings!ProviderSecret
  <2>1. CASE Settings!Cancel("secret")
    BY <2>1, DialogsKept DEF Dialogs
  <2>2. CASE Settings!ConfirmChangeSecret
    BY <1>1, <2>2, UpdateConfigKept
  <2> QED
    BY <1>5, <2>1, <2>2 DEF Settings!ProviderSecret
<1>6. CASE Settings!SaveProvider
  BY <1>6, SavedKept DEF Settings!SaveProvider
<1>7. CASE Settings!ProviderButtons
  <2> DEFINE shown == IF provider = "google" THEN test ELSE [test EXCEPT !.result = "none"]
  <2>0. shown \in Tests
    BY <1>1 DEF Tests
  <2>1. CASE Settings!Discard(shown)
    BY <2>0, <2>1, DiscardKept
  <2>2. CASE ~Settings!Discard(shown)
    <3>1. /\ Settings!StartSave
          /\ UNCHANGED <<screen, provider, config, changed, test, dialog, chosen, invite, created, edits>>
      BY <1>7, <2>2 DEF Settings!ProviderButtons, Settings!dialogVars
    <3> QED
      BY <1>1, <3>1, StartSaveKept, SettingsFields
  <2> QED
    BY <2>1, <2>2
<1> QED
  BY <1>2, <1>3, <1>4, <1>5, <1>6, <1>7 DEF Settings!ProviderPage

(* The tab of the organisation, and the page the profile leads to.         *)
LEMMA OrganisationKept ==
  ASSUME SettingsInv, Settings!OrganisationTab \/ Settings!ProfilePage PROVE SettingsInv'
<1>1. /\ Settings!TypeOK /\ screen \in {"organisation", "profile"} /\ test \in Tests
      /\ changed \in BOOLEAN
  <2>1. Settings!TypeOK
    BY DEF SettingsInv
  <2> QED
    BY <2>1, SettingsFields DEF Settings!TypeOK, Settings!OrganisationTab, Settings!ProfilePage
<1>2. \/ Settings!EditOrganisation \/ Settings!AskSave \/ Settings!Discard(test)
      \/ Settings!Cancel("save") \/ Settings!ConfirmSave \/ Settings!Saved(changed, created)
  BY DEF Settings!OrganisationTab, Settings!OrganisationFields, Settings!OrganisationButtons,
         Settings!OrganisationDialog, Settings!OrganisationSaved, Settings!ProfilePage,
         Settings!ProfileFields, Settings!ProfileButtons, Settings!ProfileDialog, Settings!ProfileSaved
<1>3. CASE Settings!EditOrganisation
  BY <1>1, <1>3, EditOrganisationKept
<1>4. CASE Settings!AskSave \/ Settings!Cancel("save")
  BY <1>4, DialogsKept DEF Settings!AskSave, Dialogs
<1>5. CASE Settings!Discard(test)
  BY <1>1, <1>5, DiscardKept
<1>6. CASE Settings!ConfirmSave
  <2>1. /\ Settings!StartSave /\ dialog' = "none"
        /\ UNCHANGED <<screen, provider, config, changed, test, chosen, invite, created, edits>>
    BY <1>6 DEF Settings!ConfirmSave
  <2>2. dialog' \in Dialogs
    BY <2>1 DEF Dialogs
  <2> QED
    BY <2>1, <2>2, StartSaveKept
<1>7. CASE Settings!Saved(changed, created)
  BY <1>1, <1>7, SavedKept
<1> QED
  BY <1>2, <1>3, <1>4, <1>5, <1>6, <1>7

LEMMA SettingsStepKept ==
  ASSUME SettingsInv, [Settings!Next]_(Settings!vars) PROVE SettingsInv'
<1>1. CASE Settings!AdminsTab
  <2>1. \A r \in Rows \ Owners : r \in Rows \cup {NoRow}
    OBVIOUS
  <2> QED
    BY <1>1, <2>1, DialogsKept, InvitesKept
    DEF Settings!AdminsTab, Settings!AdminMenu, Settings!RoleDialog, Settings!RemoveDialog, Dialogs
<1>2. CASE Settings!UserDetail
  BY <1>2, DialogsKept
  DEF Settings!UserDetail, Settings!UserSession, Settings!RevokeDialog, Dialogs
<1>3. CASE UNCHANGED Settings!vars
  <2>1. UNCHANGED <<screen, provider, config, changed, save, test, dialog, chosen, invite, created, edits>>
    BY <1>3 DEF Settings!vars, Settings!formVars, Settings!dialogVars
  <2>2. TimersTyped'
    BY <2>1 DEF SettingsInv, TimersTyped, Typed
  <2>3. Settings!TypeOK
    BY DEF SettingsInv
  <2> QED
    BY <2>1, <2>2, <2>3, SettingsFields, FormsLeft
<1> QED
  BY <1>1, <1>2, <1>3, OrganisationKept, IdentityKept, ProviderKept, InvitesKept, DialogsKept,
     SelectTabKept
  DEF Settings!Next

LEMMA SettingsInit == ASSUME Settings!Init PROVE SettingsInv
<1>1. /\ Settings!NoSave \in Saves /\ ~Settings!NoSave.busy
      /\ Settings!NoSave.payload = Settings!NotAsked /\ Settings!NoTest \in Tests
  BY DefaultValues DEF Settings!NoSave, Settings!NoTest, Saves, Tests
<1>2. Settings!NoInvite \in Invites /\ Settings!NoInvite.timers = 0 /\ Settings!NoInvite.email = "none"
  BY BoundsAssumption DEF Settings!NoInvite, Invites
<1>3. Settings!TypeOK
  BY <1>1, <1>2, DefaultValues, BoundsAssumption
  DEF Settings!Init, Settings!TypeOK, Settings!Screens, Saves, Tests, Invites
<1>4. TimersTyped
  BY <1>2 DEF Settings!Init, TimersTyped, Typed
<1>5. OneOrganisation /\ SavesConfig /\ CleanMeansSaved
  BY <1>1, DefaultValues
  DEF Settings!Init, OneOrganisation, SavesConfig, CleanMeansSaved, Settings!CleanMeansSaved
<1>6. IssuersGoWith
  BY <1>1, DefaultValues DEF Settings!Init, IssuersGoWith, GoesWith
<1> QED
  BY <1>3, <1>4, <1>5, <1>6 DEF SettingsInv

LEMMA SettingsHold == Spec => []SettingsInv
BY SettingsInit, SettingsStepKept, SettingsRun, PTL DEF Settings!Spec

(* A form of the settings that does not mark unsaved changes shows what it *)
(* started with or what was last saved, in whatever order providers are    *)
(* chosen, fields edited, and saves discarded, refused or answered.        *)
THEOREM CleanMeansSavedHolds == Spec => []CleanMeansSaved
<1>1. SettingsInv => CleanMeansSaved
  BY DEF SettingsInv
<1> QED
  BY <1>1, SettingsHold, PTL

(* The control plane is never asked to trust, under the name of Google or  *)
(* Entra, an issuer that was typed for another provider, be it asked by a  *)
(* form that is shown or by the call of a tab that was left.               *)
THEOREM IssuerOfProviderHolds == Spec => []IssuerOfProvider
<1>1. SettingsInv => IssuerOfProvider
  BY DEF SettingsInv, IssuersGoWith, GoesWith, IssuerOfProvider, Settings!IssuerOfProvider
<1> QED
  BY <1>1, SettingsHold, PTL
-----------------------------------------------------------------------------
(* The editor of a policy.                                                 *)

(* The summary is only open over a form that is complete, or that was     *)
(* filled behind it with what the policy has.                              *)
SummaryComplete ==
  summary =>
    \/ policyForm.filled = Parts
    \/ policyQuery.data # Policy!NoPolicy /\ policyForm.filled = policyQuery.data.parts

(* An answer on its way is of a policy.                                    *)
AnswerIsStored == policyQuery.flight = "read" => policyQuery.read # Policy!NoPolicy

Conds == [Kinds -> Policy!Values \cup {Policy!Absent}]

PolicyInv == Policy!TypeOK /\ FormIsFaithful /\ SummaryComplete /\ AnswerIsStored

Queries == [data : Policy!Policy \cup {Policy!NoPolicy}, flight : {"idle", "sent", "read"},
            read : Policy!Policy \cup {Policy!NoPolicy}]
Forms   == [filled : SUBSET Parts, on : SUBSET Kinds, value : [Kinds -> Policy!Values]]

LEMMA PolicyFields ==
  ASSUME Policy!TypeOK
  PROVE  /\ policyQuery \in Queries /\ policyForm \in Forms /\ row \in Policy!Policy
         /\ row.parts \in SUBSET Parts /\ row.version \in 1..MaxVersions
         /\ policyQuery.data \in Policy!Policy \cup {Policy!NoPolicy}
         /\ policyQuery.read \in Policy!Policy \cup {Policy!NoPolicy}
         /\ policyQuery.read.cond \in Conds /\ policyQuery.read.parts \in SUBSET Parts
         /\ policyForm.on \in SUBSET Kinds /\ policyForm.filled \in SUBSET Parts
         /\ policyForm.value \in [Kinds -> Policy!Values]
         /\ payload \in Policy!Payloads
         /\ editor \in {"create", "update"} /\ MaxPolicyEdits[editor] \in Nat
         /\ policyEdits \in 0..MaxPolicyEdits[editor] /\ policyFaults \in 0..MaxFaults
<1>1. \A p \in Policy!Policy \cup {Policy!NoPolicy} : p.cond \in Conds /\ p.parts \in SUBSET Parts
  BY DEF Policy!Policy, Policy!NoPolicy, Conds
<1>2. /\ policyQuery \in Queries /\ policyForm \in Forms /\ row \in Policy!Policy
      /\ payload \in Policy!Payloads
      /\ editor \in {"create", "update"}
      /\ policyEdits \in 0..MaxPolicyEdits[editor] /\ policyFaults \in 0..MaxFaults
  BY DEF Policy!TypeOK, Queries, Forms
<1>3. row.version \in 1..MaxVersions
  BY <1>2 DEF Policy!Policy
<1>4. MaxPolicyEdits[editor] \in Nat
  BY <1>2, BoundsAssumption
<1>5. /\ policyQuery.data \in Policy!Policy \cup {Policy!NoPolicy}
      /\ policyQuery.read \in Policy!Policy \cup {Policy!NoPolicy}
      /\ policyForm.on \in SUBSET Kinds /\ policyForm.filled \in SUBSET Parts
      /\ policyForm.value \in [Kinds -> Policy!Values]
  BY <1>2 DEF Queries, Forms
<1> QED
  BY <1>1, <1>2, <1>3, <1>4, <1>5

LEMMA StrictSettings ==
  /\ \A v \in Policy!Values : Policy!Strict(v) \in Policy!Values
  /\ \A v \in Policy!Values \ Policy!Lax : Policy!Strict(v) = v
  /\ \A v \in Policy!Lax : Policy!Strict(v) \in Policy!Settings
  /\ \A v \in Policy!Settings \cup Policy!Lax : v # "empty" /\ v # Policy!Absent
  /\ Policy!Values = Policy!Settings \cup Policy!Lax \cup {"empty"}
BY DEF Policy!Strict, Policy!Values, Policy!Settings, Policy!Lax, Policy!Absent

(* A form sends for a condition what FormIsFaithful allows.                *)
Faithful(sent, read, left) ==
  \/ sent = read
  \/ read \in Policy!Lax /\ sent = Policy!Strict(read)
  \/ read = "empty" /\ sent = Policy!Absent
  \/ read = Policy!Absent /\ left

(* What a form sends once it was filled from a policy.                     *)
LEMMA FilledSends ==
  ASSUME NEW f \in Forms, NEW p, p.cond \in Conds, p.parts \in SUBSET Parts
  PROVE  /\ Policy!Filled(f, p) \in Forms
         /\ Policy!Filled(f, p).filled = p.parts
         /\ \A k \in Kinds : Faithful(Policy!Sent(Policy!Filled(f, p), k), p.cond[k], k \in f.on)
<1> DEFINE on    == f.on \cup {k \in Kinds : p.cond[k] # Policy!Absent}
           value == [k \in Kinds |-> IF p.cond[k] # Policy!Absent THEN Policy!Strict(p.cond[k])
                                     ELSE f.value[k]]
<1>1. f.on \subseteq Kinds /\ f.value \in [Kinds -> Policy!Values]
  BY DEF Forms
<1>2. \A k \in Kinds : p.cond[k] \in Policy!Values \/ p.cond[k] = Policy!Absent
  BY DEF Conds
<1>3. on \subseteq Kinds
  BY <1>1
<1>4. value \in [Kinds -> Policy!Values]
  BY <1>1, <1>2, StrictSettings
<1>5. Policy!Filled(f, p) = [filled |-> p.parts, on |-> on, value |-> value]
  BY DEF Policy!Filled
<1>6. \A k \in Kinds :
        /\ p.cond[k] # Policy!Absent => k \in on /\ value[k] = Policy!Strict(p.cond[k])
        /\ p.cond[k] = Policy!Absent => (k \in on <=> k \in f.on)
  OBVIOUS
<1> HIDE DEF on, value
<1>7. Policy!Filled(f, p) \in Forms /\ Policy!Filled(f, p).filled = p.parts
  BY <1>3, <1>4, <1>5 DEF Forms
<1>8. ASSUME NEW k \in Kinds
      PROVE  Faithful(Policy!Sent(Policy!Filled(f, p), k), p.cond[k], k \in f.on)
  <2>1. Policy!Sent(Policy!Filled(f, p), k)
          = IF k \in on /\ value[k] # "empty" THEN value[k] ELSE Policy!Absent
    BY <1>5 DEF Policy!Sent
  <2>2. CASE p.cond[k] = Policy!Absent
    BY <1>6, <2>1, <2>2 DEF Faithful
  <2>3. CASE p.cond[k] \in Policy!Lax
    BY <1>6, <2>1, <2>3, StrictSettings DEF Faithful
  <2>4. CASE p.cond[k] \in Policy!Settings \cup {"empty"}
    <3>1. Policy!Strict(p.cond[k]) = p.cond[k] /\ p.cond[k] # Policy!Absent
      BY <2>4 DEF Policy!Strict, Policy!Settings, Policy!Absent
    <3> QED
      BY <1>6, <2>1, <3>1 DEF Faithful
  <2> QED
    BY <1>2, <2>2, <2>3, <2>4, StrictSettings
<1> QED
  BY <1>7, <1>8

(* An edit: a part or a condition of the form changes.                     *)
LEMMA EditedKept ==
  ASSUME PolicyInv,
         \/ \E part \in Parts : Policy!EditPart(part)
         \/ \E k \in Kinds, values \in SUBSET Policy!Values : Policy!EditCondition(k, values)
  PROVE  PolicyInv'
<1>1. Policy!TypeOK /\ ~summary
  BY DEF PolicyInv, Policy!EditPart, Policy!EditCondition, Policy!Editing
<1>2. /\ UNCHANGED <<editor, row, policyQuery, before, summary, policyCall, payload, policyFaults>>
      /\ policyEdits < MaxPolicyEdits[editor] /\ policyEdits' = policyEdits + 1
  BY DEF Policy!EditPart, Policy!EditCondition, Policy!Editing
<1>3. policyEdits' \in 0..MaxPolicyEdits[editor]
  BY <1>1, <1>2, PolicyFields
<1>4. /\ policyForm' \in Forms /\ touched' \subseteq Kinds /\ touched \subseteq touched'
      /\ \A k \in Kinds \ touched' : Policy!Sent(policyForm', k) = Policy!Sent(policyForm, k)
  <2>0. policyForm \in Forms /\ touched \subseteq Kinds
    BY <1>1, PolicyFields DEF Policy!TypeOK
  <2>1. ASSUME NEW part \in Parts, Policy!EditPart(part)
        PROVE  /\ policyForm' \in Forms /\ touched' = touched
               /\ policyForm'.on = policyForm.on /\ policyForm'.value = policyForm.value
    <3>1. PICK filled \in SUBSET Parts : policyForm' = [policyForm EXCEPT !.filled = filled]
      <4> DEFINE f == IF part \in policyForm.filled THEN policyForm.filled \ {part}
                      ELSE policyForm.filled \cup {part}
      <4>1. f \in SUBSET Parts
        BY <2>0 DEF Forms
      <4>2. policyForm' = [policyForm EXCEPT !.filled = f]
        BY <2>0, <2>1 DEF Policy!EditPart, Forms
      <4> QED
        BY <4>1, <4>2
    <3>2. touched' = touched
      BY <2>1 DEF Policy!EditPart
    <3> QED
      BY <2>0, <3>1, <3>2 DEF Forms
  <2>2. ASSUME NEW k \in Kinds, NEW values \in SUBSET Policy!Values, Policy!EditCondition(k, values)
        PROVE  /\ policyForm' \in Forms /\ touched' = touched \cup {k}
               /\ \A j \in Kinds \ {k} : /\ j \in policyForm'.on <=> j \in policyForm.on
                                         /\ policyForm'.value[j] = policyForm.value[j]
    <3>1. touched' = touched \cup {k}
      BY <2>2 DEF Policy!EditCondition
    <3>2. CASE \E on \in {policyForm.on \ {k}, policyForm.on \cup {k}} :
                 policyForm' = [policyForm EXCEPT !.on = on]
      BY <2>0, <3>1, <3>2 DEF Forms
    <3>3. CASE \E v \in values : policyForm' = [policyForm EXCEPT !.value[k] = v]
      <4>1. PICK v \in values : policyForm' = [policyForm EXCEPT !.value[k] = v]
        BY <3>3
      <4>2. /\ policyForm'.filled = policyForm.filled /\ policyForm'.on = policyForm.on
            /\ policyForm'.value = [policyForm.value EXCEPT ![k] = v]
            /\ policyForm' \in Forms
        BY <2>0, <4>1 DEF Forms
      <4>3. \A j \in Kinds \ {k} : policyForm'.value[j] = policyForm.value[j]
        BY <2>0, <4>2 DEF Forms
      <4> QED
        BY <3>1, <4>2, <4>3
    <3> QED
      BY <2>2, <3>2, <3>3 DEF Policy!EditCondition
  <2>3. CASE \E part \in Parts : Policy!EditPart(part)
    BY <2>0, <2>1, <2>3 DEF Policy!Sent
  <2>4. CASE \E k \in Kinds, values \in SUBSET Policy!Values : Policy!EditCondition(k, values)
    BY <2>0, <2>2, <2>4 DEF Policy!Sent
  <2> QED
    BY <2>3, <2>4
<1>5. Policy!TypeOK'
  BY <1>1, <1>2, <1>3, <1>4 DEF Policy!TypeOK, Forms
<1>6. FormIsFaithful'
  BY <1>2, <1>4 DEF PolicyInv, FormIsFaithful, Policy!FormIsFaithful
<1>7. SummaryComplete' /\ AnswerIsStored'
  BY <1>1, <1>2 DEF PolicyInv, SummaryComplete, AnswerIsStored
<1> QED
  BY <1>5, <1>6, <1>7 DEF PolicyInv

(* A step of the query that leaves the form: the data stays, or comes back *)
(* as it was.                                                              *)
LEMMA QueryKept ==
  ASSUME PolicyInv, policyQuery' \in Queries, policyQuery'.data = policyQuery.data, AnswerIsStored',
         row' \in Policy!Policy, policyFaults' \in 0..MaxFaults,
         UNCHANGED <<editor, policyForm, touched, before, summary, policyCall, payload, policyEdits>>
  PROVE  PolicyInv'
<1>1. Policy!TypeOK'
  BY DEF PolicyInv, Policy!TypeOK, Queries
<1>2. FormIsFaithful' /\ SummaryComplete'
  BY DEF PolicyInv, FormIsFaithful, Policy!FormIsFaithful, SummaryComplete
<1> QED
  BY <1>1, <1>2 DEF PolicyInv

(* The answer of the query fills the form when it differs.                 *)
LEMMA AnswerPolicyKept ==
  ASSUME PolicyInv, Policy!AnswerPolicy PROVE PolicyInv'
<1>1. Policy!TypeOK
  BY DEF PolicyInv
<1>2. /\ policyQuery' = [data |-> policyQuery.read, flight |-> "idle", read |-> Policy!NoPolicy]
      /\ UNCHANGED <<editor, row, summary, policyCall, payload, policyFaults, policyEdits>>
  BY DEF Policy!AnswerPolicy
<1>3. /\ policyQuery' \in Queries /\ policyQuery'.data = policyQuery.read
      /\ policyQuery.read # Policy!NoPolicy
  BY <1>1, <1>2, PolicyFields DEF Queries, PolicyInv, AnswerIsStored, Policy!AnswerPolicy
<1>4. AnswerIsStored'
  BY <1>2 DEF AnswerIsStored
<1>5. CASE policyQuery.read = policyQuery.data
  <2>1. UNCHANGED <<policyForm, touched, before>>
    BY <1>5 DEF Policy!AnswerPolicy
  <2> QED
    BY <1>1, <1>2, <1>3, <1>4, <1>5, <2>1, PolicyFields, QueryKept
<1>6. CASE policyQuery.read # policyQuery.data
  <2>1. /\ policyForm' = Policy!Filled(policyForm, policyQuery.read)
        /\ touched' = {} /\ before' = policyForm.on
    BY <1>6 DEF Policy!AnswerPolicy, Policy!Load
  <2>2. /\ policyForm' \in Forms /\ policyForm'.filled = policyQuery.read.parts
        /\ \A k \in Kinds : Faithful(Policy!Sent(policyForm', k), policyQuery.read.cond[k],
                                      k \in policyForm.on)
    BY <1>1, <2>1, PolicyFields, FilledSends
  <2>3. Policy!TypeOK'
    BY <1>1, <1>2, <1>3, <2>1, <2>2, PolicyFields DEF Policy!TypeOK, Queries, Forms
  <2>4. FormIsFaithful'
    BY <1>3, <2>1, <2>2 DEF FormIsFaithful, Policy!FormIsFaithful, Faithful
  <2>5. SummaryComplete'
    BY <1>3, <2>2 DEF SummaryComplete
  <2> QED
    BY <1>4, <2>3, <2>4, <2>5 DEF PolicyInv
<1> QED
  BY <1>5, <1>6

(* A step of the summary and of the call that leaves the form.             *)
LEMMA CallKept ==
  ASSUME PolicyInv, row' \in Policy!Policy, summary' \in BOOLEAN,
         policyCall' \in {"idle", "sent", "done", "void"}, payload' \in Policy!Payloads,
         policyFaults' \in 0..MaxFaults, SummaryComplete',
         UNCHANGED <<editor, policyQuery, policyForm, touched, before, policyEdits>>
  PROVE  PolicyInv'
<1>1. Policy!TypeOK'
  BY DEF PolicyInv, Policy!TypeOK
<1>2. FormIsFaithful' /\ AnswerIsStored'
  BY DEF PolicyInv, FormIsFaithful, Policy!FormIsFaithful, AnswerIsStored
<1> QED
  BY <1>1, <1>2 DEF PolicyInv

LEMMA NothingSent == Policy!Nothing \in Policy!Payloads /\ Policy!Nothing.missing = {}
BY DEF Policy!Nothing, Policy!Payloads, Policy!NoPolicy

LEMMA ConfirmKept == ASSUME PolicyInv, Policy!Confirm PROVE PolicyInv'
<1>1. Policy!TypeOK /\ policyForm \in Forms
  BY PolicyFields DEF PolicyInv
<1>2. /\ policyCall' = "sent" /\ payload' = Policy!BuildPayload
      /\ UNCHANGED <<editor, row, policyQuery, policyForm, touched, before, summary, policyFaults,
                     policyEdits>>
  BY DEF Policy!Confirm
<1>3. Policy!BuildPayload \in Policy!Payloads
  <2>1. \A k \in Kinds : Policy!Sent(policyForm, k) \in Policy!Values \cup {Policy!Absent}
    BY <1>1 DEF Policy!Sent, Forms
  <2>2. [k \in Kinds |-> Policy!Sent(policyForm, k)] \in [Kinds -> Policy!Values \cup {Policy!Absent}]
    BY <2>1
  <2>3. Parts \ policyForm.filled \in SUBSET Parts
    OBVIOUS
  <2> QED
    BY <2>2, <2>3 DEF Policy!BuildPayload, Policy!Payloads
<1>4. SummaryComplete'
  BY <1>2 DEF PolicyInv, SummaryComplete
<1>5. summary' \in BOOLEAN
  BY <1>1, <1>2 DEF Policy!TypeOK
<1> QED
  BY <1>1, <1>2, <1>3, <1>4, <1>5, PolicyFields, CallKept

LEMMA UpdatedTyped ==
  ASSUME row \in Policy!Policy, row.version < MaxVersions,
         NEW parts \in SUBSET Parts, NEW cond \in Conds
  PROVE  Policy!Updated(parts, cond) \in Policy!Policy
<1>1. row.version + 1 \in 1..MaxVersions
  BY BoundsAssumption DEF Policy!Policy
<1>2. parts \cup (row.parts \ {"name"}) \in SUBSET Parts
  BY DEF Policy!Policy
<1> QED
  BY <1>1, <1>2 DEF Policy!Updated, Policy!Policy, Conds

LEMMA SummaryKept ==
  ASSUME PolicyInv,
         Policy!ShowSummary \/ Policy!CloseSummary \/ Policy!AnswerOk \/ Policy!Fail
         \/ Policy!CommitCreate \/ Policy!IgnoreCreate \/ Policy!CommitUpdate \/ Policy!RefuseUpdate
  PROVE  PolicyInv'
<1>1. /\ Policy!TypeOK /\ row \in Policy!Policy /\ payload \in Policy!Payloads
      /\ summary \in BOOLEAN /\ policyCall \in {"idle", "sent", "done", "void"}
      /\ policyFaults \in 0..MaxFaults /\ MaxFaults \in Nat
  BY PolicyFields, BoundsAssumption DEF PolicyInv, Policy!TypeOK
<1>2. /\ UNCHANGED <<editor, policyQuery, policyForm, touched, before, policyEdits>>
      /\ policyCall' \in {policyCall, "idle", "done", "void"} /\ payload' \in {payload, Policy!Nothing}
      /\ \/ summary' \in {summary, FALSE}
         \/ summary' = TRUE /\ policyForm.filled = Parts
  BY DEF Policy!ShowSummary, Policy!CloseSummary, Policy!AnswerOk, Policy!Fail,
         Policy!CommitCreate, Policy!IgnoreCreate, Policy!CommitUpdate, Policy!RefuseUpdate
<1>3. SummaryComplete'
  BY <1>1, <1>2 DEF PolicyInv, SummaryComplete
<1>4. policyFaults' \in 0..MaxFaults
  <2>1. CASE Policy!Fail
    BY <1>1, <2>1 DEF Policy!Fail
  <2>2. CASE ~Policy!Fail
    BY <1>1, <2>2 DEF Policy!ShowSummary, Policy!CloseSummary, Policy!AnswerOk, Policy!CommitCreate,
                      Policy!IgnoreCreate, Policy!CommitUpdate, Policy!RefuseUpdate
  <2> QED
    BY <2>1, <2>2
<1>5. row' \in Policy!Policy
  <2>1. CASE Policy!CommitUpdate
    <3>1. /\ row.version < MaxVersions
          /\ row' = Policy!Updated(Parts \ (payload.missing \cap {"name"}), payload.cond)
      BY <2>1 DEF Policy!CommitUpdate
    <3>2. Parts \ (payload.missing \cap {"name"}) \in SUBSET Parts /\ payload.cond \in Conds
      BY <1>1 DEF Policy!Payloads, Conds
    <3> QED
      BY <1>1, <3>1, <3>2, UpdatedTyped
  <2>2. CASE ~Policy!CommitUpdate
    BY <1>1, <2>2 DEF Policy!ShowSummary, Policy!CloseSummary, Policy!AnswerOk, Policy!Fail,
                      Policy!CommitCreate, Policy!IgnoreCreate, Policy!RefuseUpdate
  <2> QED
    BY <2>1, <2>2
<1> QED
  BY <1>1, <1>2, <1>3, <1>4, <1>5, NothingSent, CallKept

LEMMA ContentsTyped == \A c \in Contents : c.parts \in SUBSET Parts /\ c.cond \in Conds
<1>1. {"none", "usual", "other", "lax usual", "lax other", "empty"} = Policy!Values \cup {Policy!Absent}
  BY DEF Policy!Values, Policy!Settings, Policy!Lax, Policy!Absent
<1> QED
  BY <1>1, PolicyAssumption DEF Conds

LEMMA QueryStepsKept ==
  ASSUME PolicyInv,
         \/ Policy!Focus \/ Policy!ReadPolicy \/ Policy!FailPolicy
         \/ \E content \in Contents : Policy!OtherUpdate(content)
  PROVE  PolicyInv'
<1>1. /\ policyQuery \in Queries /\ row \in Policy!Policy /\ row.version \in 1..MaxVersions
      /\ policyFaults \in 0..MaxFaults /\ MaxFaults \in Nat /\ AnswerIsStored
  BY PolicyFields, BoundsAssumption DEF PolicyInv
<1>2. CASE Policy!Focus \/ Policy!ReadPolicy
  <2>1. /\ policyQuery' \in {[policyQuery EXCEPT !.flight = "sent"],
                             [policyQuery EXCEPT !.flight = "read", !.read = row]}
        /\ UNCHANGED <<editor, row, policyForm, touched, before, summary, policyCall, payload,
                       policyFaults, policyEdits>>
    BY <1>2 DEF Policy!Focus, Policy!ReadPolicy
  <2>2. policyQuery' \in Queries /\ policyQuery'.data = policyQuery.data
    BY <1>1, <2>1 DEF Queries
  <2>3. row # Policy!NoPolicy
    <3>1. row.version # 0 /\ Policy!NoPolicy.version = 0
      BY <1>1 DEF Policy!NoPolicy
    <3> QED
      BY <3>1
  <2>4. AnswerIsStored'
    BY <1>1, <2>1, <2>3 DEF AnswerIsStored, Queries
  <2> QED
    BY <1>1, <2>1, <2>2, <2>4, QueryKept
<1>3. CASE Policy!FailPolicy
  <2>1. /\ policyQuery' = [policyQuery EXCEPT !.flight = "idle", !.read = Policy!NoPolicy]
        /\ policyFaults < MaxFaults /\ policyFaults' = policyFaults + 1
        /\ UNCHANGED <<editor, row, policyForm, touched, before, summary, policyCall, payload,
                       policyEdits>>
    BY <1>3 DEF Policy!FailPolicy
  <2>2. policyQuery' \in Queries /\ policyQuery'.data = policyQuery.data
    BY <1>1, <2>1 DEF Queries
  <2>3. policyFaults' \in 0..MaxFaults
    BY <1>1, <2>1
  <2>4. AnswerIsStored'
    BY <1>1, <2>1 DEF AnswerIsStored, Queries
  <2> QED
    BY <1>1, <2>1, <2>2, <2>3, <2>4, QueryKept
<1>4. ASSUME NEW content \in Contents, Policy!OtherUpdate(content) PROVE PolicyInv'
  <2>1. /\ row.version < MaxVersions /\ row' = Policy!Updated(content.parts, content.cond)
        /\ UNCHANGED <<editor, policyQuery, policyForm, touched, before, summary, policyCall,
                       payload, policyFaults, policyEdits>>
    BY <1>4 DEF Policy!OtherUpdate
  <2>2. row' \in Policy!Policy
    BY <1>1, <2>1, ContentsTyped, UpdatedTyped
  <2>3. AnswerIsStored'
    BY <1>1, <2>1 DEF AnswerIsStored
  <2> QED
    BY <1>1, <2>1, <2>2, <2>3, QueryKept
<1> QED
  BY <1>2, <1>3, <1>4

(* The sections, the summary and the call of the page that creates and of  *)
(* the page that updates a policy.                                         *)
LEMMA SectionsKept ==
  ASSUME PolicyInv, Policy!CreatePage \/ Policy!UpdatePage
  PROVE  PolicyInv'
<1>1. ASSUME NEW part, Policy!EditPart(part) PROVE PolicyInv'
  <2>1. part \in Parts
    BY <1>1 DEF Policy!EditPart
  <2> QED
    BY <1>1, <2>1, EditedKept
<1>2. /\ Policy!Settings \in SUBSET Policy!Values
      /\ Policy!Settings \cup {"empty"} \in SUBSET Policy!Values
      /\ Policy!Settings \cup Policy!Lax \in SUBSET Policy!Values
  BY DEF Policy!Values
<1>3. ASSUME NEW k, NEW values \in SUBSET Policy!Values, Policy!EditCondition(k, values) PROVE PolicyInv'
  <2>1. k \in Kinds
    BY <1>3 DEF Policy!EditCondition
  <2> QED
    BY <1>3, <2>1, EditedKept
<1>5. CASE Policy!CreatePage
  <2>1. CASE Policy!CreateGeneral \/ Policy!CreateSubjects \/ Policy!CreateResources
    BY <1>1, <2>1
    DEF Policy!CreateGeneral, Policy!CreateSubjects, Policy!CreateResources, Policy!CreatePart
  <2>2. CASE Policy!CreateMfa \/ Policy!CreateNetwork \/ Policy!CreateTime \/ Policy!CreateDevice
    BY <1>2, <1>3, <2>2
    DEF Policy!CreateMfa, Policy!CreateNetwork, Policy!CreateTime, Policy!CreateDevice,
        Policy!CreateCondition
  <2>3. CASE Policy!CreateSummary \/ Policy!ValidateCreate \/ Policy!ConfirmCreate
               \/ Policy!CommitCreate \/ Policy!IgnoreCreate
    BY <2>3, ConfirmKept, SummaryKept
    DEF Policy!CreateSummary, Policy!ValidateCreate, Policy!ConfirmCreate
  <2> QED
    BY <1>5, <2>1, <2>2, <2>3 DEF Policy!CreatePage
<1>6. CASE Policy!UpdatePage
  <2>1. CASE Policy!UpdateGeneral \/ Policy!UpdateSubjects \/ Policy!UpdateResources
    BY <1>1, <2>1
    DEF Policy!UpdateGeneral, Policy!UpdateSubjects, Policy!UpdateResources, Policy!UpdatePart
  <2>2. CASE Policy!UpdateMfa \/ Policy!UpdateNetwork \/ Policy!UpdateTime \/ Policy!UpdateDevice
    BY <1>2, <1>3, <2>2
    DEF Policy!UpdateMfa, Policy!UpdateNetwork, Policy!UpdateTime, Policy!UpdateDevice,
        Policy!UpdateCondition
  <2>3. CASE Policy!UpdateSummary \/ Policy!ValidateUpdate \/ Policy!ConfirmUpdate
               \/ Policy!CommitUpdate \/ Policy!RefuseUpdate
    BY <2>3, ConfirmKept, SummaryKept
    DEF Policy!UpdateSummary, Policy!ValidateUpdate, Policy!ConfirmUpdate
  <2> QED
    BY <1>6, <2>1, <2>2, <2>3 DEF Policy!UpdatePage
<1> QED
  BY <1>5, <1>6

LEMMA PolicyStepKept ==
  ASSUME PolicyInv, [Policy!Next]_(Policy!vars) PROVE PolicyInv'
<1>1. CASE UNCHANGED Policy!vars
  <2>1. UNCHANGED <<editor, row, policyQuery, policyForm, touched, before, summary, policyCall,
                    payload, policyFaults, policyEdits>>
    BY <1>1 DEF Policy!vars
  <2>2. policyQuery \in Queries /\ row \in Policy!Policy /\ policyFaults \in 0..MaxFaults
    BY PolicyFields DEF PolicyInv
  <2>3. AnswerIsStored'
    BY <2>1 DEF PolicyInv, AnswerIsStored
  <2> QED
    BY <2>1, <2>2, <2>3, QueryKept
<1> QED
  BY <1>1, SectionsKept, QueryStepsKept, AnswerPolicyKept, SummaryKept DEF Policy!Next

LEMMA PolicyInit == ASSUME Policy!Init PROVE PolicyInv
<1>1. /\ \A k \in Kinds : Policy!NoPolicy.cond[k] = Policy!Absent
      /\ Policy!NoPolicy.cond \in Conds
  BY DEF Policy!NoPolicy, Conds
<1>2. Policy!EmptyForm \in Forms /\ Policy!EmptyForm.on = {}
  <2>1. [k \in Kinds |-> IF k = "device" THEN "empty" ELSE "usual"] \in [Kinds -> Policy!Values]
    BY DEF Policy!Values, Policy!Settings
  <2> QED
    BY <2>1 DEF Policy!EmptyForm, Forms
<1>3. /\ editor \in {"create", "update"} /\ row \in Policy!Stored(2)
      /\ touched = {} /\ before = {} /\ summary = FALSE /\ policyCall = "idle"
      /\ payload = Policy!Nothing /\ policyFaults = 0 /\ policyEdits = 0
  BY DEF Policy!Init
<1>4. PICK seen \in {Policy!NoPolicy} \cup Policy!Stored(1) :
        /\ policyQuery = [data |-> IF editor = "update" THEN seen ELSE Policy!NoPolicy,
                          flight |-> IF editor = "update" THEN "sent" ELSE "idle",
                          read |-> Policy!NoPolicy]
        /\ policyForm = IF policyQuery.data # Policy!NoPolicy
                        THEN Policy!Filled(Policy!EmptyForm, policyQuery.data) ELSE Policy!EmptyForm
  BY DEF Policy!Init
<1>5. \A v \in {1, 2} : Policy!Stored(v) \subseteq Policy!Policy
  <2>1. \A v \in {1, 2} : v \in 1..MaxVersions
    BY BoundsAssumption
  <2> QED
    BY <2>1, ContentsTyped DEF Policy!Stored, Policy!Policy, Conds
<1>6. row \in Policy!Policy /\ seen \in Policy!Policy \cup {Policy!NoPolicy}
  BY <1>3, <1>4, <1>5
<1>7. policyQuery \in Queries /\ AnswerIsStored
  BY <1>4, <1>6 DEF Queries, AnswerIsStored
<1>8. policyFaults \in 0..MaxFaults /\ policyEdits \in 0..MaxPolicyEdits[editor]
  <2>1. MaxPolicyEdits[editor] \in Nat /\ MaxFaults \in Nat
    BY <1>3, BoundsAssumption
  <2> QED
    BY <1>3, <2>1
<1>9. policyForm \in Forms /\ FormIsFaithful
  <2>1. CASE policyQuery.data = Policy!NoPolicy
    BY <1>2, <1>4, <2>1 DEF FormIsFaithful, Policy!FormIsFaithful
  <2>2. CASE policyQuery.data # Policy!NoPolicy
    <3>1. policyQuery.data.cond \in Conds /\ policyQuery.data.parts \in SUBSET Parts
      BY <1>7, <2>2 DEF Queries, Policy!Policy, Conds
    <3>2. policyForm = Policy!Filled(Policy!EmptyForm, policyQuery.data)
      BY <1>4, <2>2
    <3>3. /\ policyForm \in Forms
          /\ \A k \in Kinds : Faithful(Policy!Sent(policyForm, k), policyQuery.data.cond[k], FALSE)
      BY <1>2, <3>1, <3>2, FilledSends DEF Faithful
    <3> QED
      BY <3>3 DEF FormIsFaithful, Policy!FormIsFaithful, Faithful
  <2> QED
    BY <2>1, <2>2
<1>10. Policy!TypeOK
  BY <1>3, <1>6, <1>7, <1>8, <1>9, NothingSent DEF Policy!TypeOK, Queries, Forms
<1> QED
  BY <1>3, <1>7, <1>9, <1>10 DEF PolicyInv, SummaryComplete

LEMMA PolicyHolds == Spec => []PolicyInv
BY PolicyInit, PolicyStepKept, PolicyRuns, PTL DEF Policy!Spec

(* However often the policy is fetched again, and whoever changes it       *)
(* meanwhile, an untouched condition of the form sends what was last read, *)
(* or the same made strict, or nothing where nothing was asked, unless an  *)
(* earlier answer or edit had switched it on.                              *)
THEOREM FormIsFaithfulHolds == Spec => []FormIsFaithful
<1>1. PolicyInv => FormIsFaithful
  BY DEF PolicyInv
<1> QED
  BY <1>1, PolicyHolds, PTL

(* Everyone, everything or no name is only sent in place of what the       *)
(* policy, as it was last read, does not have, whatever was answered since *)
(* the summary was opened and whatever others have stored.                 *)
THEOREM NothingByDefaultHolds == Spec => NothingByDefault
<1>1. ASSUME PolicyInv, [Policy!Next]_(Policy!vars), payload'.missing # {}, payload' # payload
      PROVE  /\ policyQuery.data # Policy!NoPolicy
             /\ payload'.missing = Parts \ policyQuery.data.parts
  <2>1. CASE Policy!Confirm
    <3>1. summary /\ payload' = Policy!BuildPayload
      BY <2>1 DEF Policy!Confirm
    <3>2. payload'.missing = Parts \ policyForm.filled
      BY <3>1 DEF Policy!BuildPayload
    <3>3. policyForm.filled # Parts
      BY <1>1, <3>2
    <3> QED
      BY <1>1, <3>1, <3>2, <3>3 DEF PolicyInv, SummaryComplete
  <2>2. CASE payload' \in {payload, Policy!Nothing}
    BY <1>1, <2>2, NothingSent
  <2>3. ASSUME NEW k, NEW values, Policy!EditCondition(k, values) PROVE payload' = payload
    BY <2>3 DEF Policy!EditCondition, Policy!Editing
  <2>4. ASSUME NEW part, Policy!EditPart(part) PROVE payload' = payload
    BY <2>4 DEF Policy!EditPart, Policy!Editing
  <2>5. CASE Policy!CreatePage
    BY <2>1, <2>2, <2>3, <2>4, <2>5
    DEF Policy!CreatePage, Policy!CreateGeneral, Policy!CreateSubjects, Policy!CreateResources,
        Policy!CreatePart, Policy!CreateMfa, Policy!CreateNetwork, Policy!CreateTime,
        Policy!CreateDevice, Policy!CreateCondition, Policy!CreateSummary, Policy!ValidateCreate,
        Policy!ConfirmCreate, Policy!CommitCreate, Policy!IgnoreCreate, Policy!ShowSummary,
        Policy!CloseSummary, Policy!AnswerOk
  <2>6. CASE Policy!UpdatePage
    BY <2>1, <2>2, <2>3, <2>4, <2>6
    DEF Policy!UpdatePage, Policy!UpdateGeneral, Policy!UpdateSubjects, Policy!UpdateResources,
        Policy!UpdatePart, Policy!UpdateMfa, Policy!UpdateNetwork, Policy!UpdateTime,
        Policy!UpdateDevice, Policy!UpdateCondition, Policy!UpdateSummary, Policy!ValidateUpdate,
        Policy!ConfirmUpdate, Policy!CommitUpdate, Policy!RefuseUpdate, Policy!ShowSummary,
        Policy!CloseSummary, Policy!AnswerOk
  <2>7. CASE Policy!Fail \/ Policy!Focus \/ Policy!ReadPolicy \/ Policy!AnswerPolicy \/ Policy!FailPolicy
             \/ (\E content \in Contents : Policy!OtherUpdate(content)) \/ UNCHANGED Policy!vars
    BY <2>2, <2>7
    DEF Policy!Fail, Policy!Focus, Policy!ReadPolicy, Policy!AnswerPolicy, Policy!FailPolicy,
        Policy!OtherUpdate, Policy!vars
  <2> QED
    BY <1>1, <2>5, <2>6, <2>7 DEF Policy!Next
<1>2. PolicyInv /\ [Policy!Next]_(Policy!vars) =>
        [payload'.missing # {} =>
           \/ payload' = payload
           \/ /\ policyQuery.data # Policy!NoPolicy
              /\ payload'.missing = Parts \ policyQuery.data.parts]_(Policy!vars)
  BY <1>1
<1> QED
  BY <1>2, PolicyHolds, PolicyRuns, PTL DEF Policy!Spec, NothingByDefault, Policy!NothingByDefault

(* Only an answer that differs from the last one takes edits away.         *)
THEOREM EditsSurviveRefetchHolds == Spec => EditsSurviveRefetch
<1>1. ASSUME [Policy!Next]_(Policy!vars), touched # {}, touched' = {}
      PROVE  policyQuery'.data # policyQuery.data
  <2>1. CASE Policy!AnswerPolicy
    BY <1>1, <2>1 DEF Policy!AnswerPolicy
  <2>2. ASSUME NEW k, NEW values, Policy!EditCondition(k, values) PROVE FALSE
    BY <1>1, <2>2 DEF Policy!EditCondition
  <2>3. ASSUME NEW part, Policy!EditPart(part) PROVE FALSE
    BY <1>1, <2>3 DEF Policy!EditPart
  <2>4. CASE Policy!CreatePage
    BY <1>1, <2>2, <2>3, <2>4
    DEF Policy!CreatePage, Policy!CreateGeneral, Policy!CreateSubjects, Policy!CreateResources,
        Policy!CreatePart, Policy!CreateMfa, Policy!CreateNetwork, Policy!CreateTime,
        Policy!CreateDevice, Policy!CreateCondition, Policy!CreateSummary, Policy!ValidateCreate,
        Policy!ConfirmCreate, Policy!CommitCreate, Policy!IgnoreCreate, Policy!ShowSummary,
        Policy!CloseSummary, Policy!Confirm, Policy!AnswerOk
  <2>5. CASE Policy!UpdatePage
    BY <1>1, <2>2, <2>3, <2>5
    DEF Policy!UpdatePage, Policy!UpdateGeneral, Policy!UpdateSubjects, Policy!UpdateResources,
        Policy!UpdatePart, Policy!UpdateMfa, Policy!UpdateNetwork, Policy!UpdateTime,
        Policy!UpdateDevice, Policy!UpdateCondition, Policy!UpdateSummary, Policy!ValidateUpdate,
        Policy!ConfirmUpdate, Policy!CommitUpdate, Policy!RefuseUpdate, Policy!ShowSummary,
        Policy!CloseSummary, Policy!Confirm, Policy!AnswerOk
  <2>6. CASE Policy!Fail \/ Policy!Focus \/ Policy!ReadPolicy \/ Policy!FailPolicy
             \/ (\E content \in Contents : Policy!OtherUpdate(content)) \/ UNCHANGED Policy!vars
    BY <1>1, <2>6
    DEF Policy!Fail, Policy!Focus, Policy!ReadPolicy, Policy!FailPolicy, Policy!OtherUpdate,
        Policy!vars
  <2> QED
    BY <1>1, <2>1, <2>4, <2>5, <2>6 DEF Policy!Next
<1>2. [Policy!Next]_(Policy!vars) =>
        [touched # {} /\ touched' = {} => policyQuery'.data # policyQuery.data]_(Policy!vars)
  BY <1>1
<1> QED
  BY <1>2, PolicyRuns, PTL DEF Policy!Spec, EditsSurviveRefetch, Policy!EditsSurviveRefetch
-----------------------------------------------------------------------------
(* The list pages.                                                         *)

RowActions == {"create", "update", "rotate", "drain", "revoke", "delete"}

PageActions ==
  [gateways     |-> {"create", "update", "rotate", "drain", "revoke"},
   connectors   |-> {"create", "update", "rotate", "revoke"},
   applications |-> {"create", "update"},
   policies     |-> {"delete"},
   sessions     |-> {"revoke"},
   logs         |-> {}]

(* A fetch that has been answered, and no other, has read rows.            *)
Fetches ==
  {q \in [at : Lists!Indices, err : BOOLEAN, flight : {"idle", "sent", "read"}, read : Lists!Indices] :
     q.read # 0 <=> q.flight = "read"}
Modals  == [kind : Lists!ModalKinds, op : Lists!Ops \cup {"version"},
            unit : Units \cup {NoUnit}, shown : Units \cup {NoUnit}]
NewRows == [token : Units \cup {NoUnit}, busy : BOOLEAN, public : BOOLEAN,
            versions : Units \cup {NoUnit}]
Calls   == [at : {"unused", "over"} \cup Lists!UnderWay, op : Lists!Ops,
            unit : Units \cup {NoUnit}, live : BOOLEAN, closes : BOOLEAN]

SentCalls == {c \in Lists!CallIds : call[c].at = "sent"}
Going(c)  == call[c].live /\ call[c].at \in Lists!UnderWay

FetchesOK == query \in [Lists!Keys -> Fetches]

(* There is room in the history for the changes that were asked for.       *)
RowsOK ==
  /\ history \in Seq([Units -> Statuses]) /\ Len(history) \in 1..(MaxChanges + 1)
  /\ Len(history) - 1 + Cardinality(SentCalls) <= MaxChanges

(* Calls are numbered, and those of a page are actions of that page.       *)
CallsOK ==
  /\ call \in [Lists!CallIds -> Calls]
  /\ Lists!Used = 1..Cardinality(Lists!Used)
  /\ \A c \in Lists!CallIds :
       IF call[c].at = "unused" THEN call[c] = Lists!NoCall
       ELSE call[c].op \in RowActions \cap PageActions[page] /\ call[c].unit \in Units

FieldsOK ==
  /\ page \in Lists!AllPages
  /\ filter \in Lists!Filters
  /\ modal \in Modals
  /\ form \in NewRows
  /\ expanded \subseteq Units
  /\ owed \in [Lists!Filters -> Lists!Indices]
  /\ faults \in Nat

(* What a dialog or a sheet offers is an action of the page, on a row.     *)
OwnModal ==
  /\ modal.kind \in {"dialog", "sheet", "create"} => modal.op \in RowActions \cap PageActions[page]
  /\ modal.kind = "dialog" => modal.op \notin {"create", "update"} /\ modal.unit \in Units
  /\ modal.kind = "sheet" => modal.op = "update" /\ (modal.unit = NoUnit => page \in Lists!Fleets)
  /\ modal.kind = "warning" => page = "applications"

(* The sheet outlives its call, and has one at a time.                     *)
SheetOfUpdate ==
  \A c \in Lists!CallIds : call[c].op = "update" /\ Going(c) =>
    modal.kind = "sheet" /\ modal.unit \in {call[c].unit, NoUnit} /\ Lists!Latest("update", c)

(* Until an action is confirmed twice, so does a dialog.                   *)
DialogOfAction ==
  page \in Lists!Fleets /\ ~Lists!ConfirmedTwice =>
    \A c \in Lists!CallIds : call[c].op \notin {"create", "update"} /\ Going(c) =>
      /\ modal.kind = "dialog" /\ modal.unit = call[c].unit /\ modal.op = call[c].op
      /\ Lists!Latest(call[c].op, c)

ListsInv ==
  /\ FetchesOK /\ RowsOK /\ CallsOK /\ FieldsOK
  /\ OwnModal /\ SheetOfUpdate /\ DialogOfAction /\ SheetMatchesTarget

LEMMA ListsTyped == ListsInv => Lists!TypeOK
<1> SUFFICES ASSUME ListsInv PROVE Lists!TypeOK
  OBVIOUS
<1>1. /\ query \in [Lists!Keys -> [at : Lists!Indices, err : BOOLEAN,
                                    flight : {"idle", "sent", "read"}, read : Lists!Indices]]
      /\ \A k \in Lists!Keys : query[k].read # 0 <=> query[k].flight = "read"
  BY DEF ListsInv, FetchesOK, Fetches
<1>2. history \in Seq([Units -> Lists!Status]) /\ Len(history) \in 1..(MaxChanges + 1)
  BY DEF ListsInv, RowsOK, Statuses, Lists!Status
<1> QED
  BY <1>1, <1>2
  DEF ListsInv, CallsOK, Calls, FieldsOK, Modals, NewRows, Lists!TypeOK

(* The operations on a query leave it a query.                             *)
LEMMA FetchesStay ==
  /\ Lists!IdleQuery \in Fetches
  /\ \A q \in Fetches : /\ Lists!Sent(q) \in Fetches /\ Lists!Wanted(q) \in Fetches
                        /\ Lists!Refetched(q) \in Fetches
                        /\ q.read \in Lists!Indices /\ q.at \in Lists!Indices
  /\ \A q \in Fetches, i \in 1..(MaxChanges + 1) :
       [q EXCEPT !.flight = "read", !.read = i] \in Fetches
  /\ \A i \in Lists!Indices, err \in BOOLEAN :
       /\ [Lists!IdleQuery EXCEPT !.at = i] \in Fetches
       /\ [Lists!IdleQuery EXCEPT !.at = i, !.err = err] \in Fetches
<1>0. 0 \in Lists!Indices /\ 1..(MaxChanges + 1) \subseteq Lists!Indices
  BY BoundsAssumption DEF Lists!Indices
<1>1. \A q \in Fetches : Lists!Sent(q) \in Fetches
  BY <1>0 DEF Fetches, Lists!Sent
<1>2. \A q \in Fetches, i \in 1..(MaxChanges + 1) :
        [q EXCEPT !.flight = "read", !.read = i] \in Fetches
  <2> TAKE q \in Fetches, i \in 1..(MaxChanges + 1)
  <2>1. i # 0 /\ i \in Lists!Indices
    BY <1>0, BoundsAssumption
  <2> QED
    BY <2>1 DEF Fetches
<1>3. \A i \in Lists!Indices, err \in BOOLEAN :
        /\ [Lists!IdleQuery EXCEPT !.at = i] \in Fetches
        /\ [Lists!IdleQuery EXCEPT !.at = i, !.err = err] \in Fetches
  BY <1>0 DEF Fetches, Lists!IdleQuery
<1>4. Lists!IdleQuery \in Fetches
  BY <1>0 DEF Fetches, Lists!IdleQuery
<1>5. \A q \in Fetches : q.read \in Lists!Indices /\ q.at \in Lists!Indices
  BY DEF Fetches
<1> QED
  BY <1>1, <1>2, <1>3, <1>4, <1>5 DEF Lists!Wanted, Lists!Refetched

LEMMA EffectStays ==
  ASSUME NEW op \in RowActions, NEW st \in Statuses
  PROVE  Lists!Effect(op, st) \in Statuses
BY DEF Lists!Effect, RowActions, Statuses

LEMMA CallsFinite ==
  /\ IsFiniteSet(Lists!CallIds) /\ IsFiniteSet(SentCalls) /\ IsFiniteSet(Lists!Used)
  /\ Cardinality(SentCalls) \in Nat /\ Cardinality(Lists!Used) \in Nat
<1>1. IsFiniteSet(Lists!CallIds)
  <2>1. MaxCalls \in Int /\ 1 \in Int
    BY BoundsAssumption
  <2>2. IsFiniteSet(1..MaxCalls)
    BY <2>1, FS_Interval
  <2> QED
    BY <2>2 DEF Lists!CallIds
<1>2. SentCalls \subseteq Lists!CallIds /\ Lists!Used \subseteq Lists!CallIds
  BY DEF SentCalls, Lists!Used
<1> QED
  BY <1>1, <1>2, FS_Subset, FS_CardinalityType

LEMMA CardinalityIs == \A S : Lists!Cardinality(S) = Cardinality(S)
BY DEF Lists!Cardinality, Cardinality

(* A step that asks for nothing new: calls end, or lose their component.   *)
Calm ==
  /\ call' \in [Lists!CallIds -> Calls]
  /\ \A c \in Lists!CallIds :
       /\ call'[c].op = call[c].op /\ call'[c].unit = call[c].unit
       /\ call'[c].closes = call[c].closes
       /\ call'[c].live => call[c].live
       /\ call'[c].at \in Lists!UnderWay => call[c].at \in Lists!UnderWay
       /\ call'[c].at = "unused" <=> call[c].at = "unused"
       /\ call[c].at = "unused" => call'[c] = call[c]
       /\ call'[c].at = "sent" => call[c].at = "sent"

LEMMA CalmCalls ==
  ASSUME CallsOK, Calm, page' = page
  PROVE  /\ CallsOK' /\ SentCalls' \subseteq SentCalls
         /\ Lists!ConfirmedTwice' <=> Lists!ConfirmedTwice
         /\ \A c \in Lists!CallIds : /\ Going(c)' => Going(c)
                                     /\ \A op : Lists!Latest(op, c) => Lists!Latest(op, c)'
<1>1. Lists!Used' = Lists!Used
  BY DEF Calm, Lists!Used
<1>2. CallsOK'
  BY <1>1 DEF CallsOK, Calm
<1>3. SentCalls' \subseteq SentCalls
  BY DEF Calm, SentCalls
<1>4. Lists!ConfirmedTwice' <=> Lists!ConfirmedTwice
  BY DEF Calm, Lists!ConfirmedTwice
<1>5. \A c \in Lists!CallIds : Going(c)' => Going(c)
  BY DEF Calm, Going
<1>6. \A c \in Lists!CallIds : \A op : Lists!Latest(op, c) => Lists!Latest(op, c)'
  BY DEF Calm, Lists!Latest
<1> QED
  BY <1>2, <1>3, <1>4, <1>5, <1>6

LEMMA CallsAsTheyWere == ASSUME CallsOK, call' = call PROVE Calm
BY DEF CallsOK, Calm

LEMMA MovedCalm ==
  ASSUME CallsOK, NEW c \in Lists!CallIds, call[c].at \in Lists!UnderWay,
         NEW at \in {"over", "done", "failed", "settling"}, call' = [call EXCEPT ![c].at = at]
  PROVE  /\ Calm /\ (at = "over" => ~Going(c)') /\ SentCalls' = SentCalls \ {c}
<1>1. call[c] \in Calls /\ at \in {"unused", "over"} \cup Lists!UnderWay
  BY DEF CallsOK, Lists!UnderWay
<1>2. [call[c] EXCEPT !.at = at] \in Calls
  BY <1>1 DEF Calls
<1>3. /\ call' \in [Lists!CallIds -> Calls]
      /\ call'[c] = [call[c] EXCEPT !.at = at] /\ \A d \in Lists!CallIds \ {c} : call'[d] = call[d]
  BY <1>1, <1>2 DEF CallsOK
<1>4. /\ call'[c].at = at /\ call'[c].op = call[c].op /\ call'[c].unit = call[c].unit
      /\ call'[c].closes = call[c].closes /\ call'[c].live = call[c].live
  BY <1>1, <1>3 DEF Calls
<1>5. Calm
  BY <1>3, <1>4 DEF Calm, Lists!UnderWay
<1>6. SentCalls' = SentCalls \ {c}
  BY <1>3, <1>4 DEF SentCalls
<1>7. at = "over" => ~Going(c)'
  BY <1>4 DEF Going, Lists!UnderWay
<1> QED
  BY <1>5, <1>6, <1>7

LEMMA TableGoneCalm ==
  ASSUME CallsOK, call' = Lists!WithoutTable
  PROVE  Calm /\ \A c \in Lists!CallIds : call[c].op # "create" => ~Going(c)'
<1>1. \A c \in Lists!CallIds :
        /\ call[c] \in Calls /\ [call[c] EXCEPT !.live = FALSE] \in Calls
        /\ call'[c] = IF call[c].op = "create" THEN call[c] ELSE [call[c] EXCEPT !.live = FALSE]
        /\ call[c].at = "unused" => [call[c] EXCEPT !.live = FALSE] = call[c]
  <2> TAKE c \in Lists!CallIds
  <2>1. call[c] \in Calls
    BY DEF CallsOK
  <2>2. [call[c] EXCEPT !.live = FALSE] \in Calls
    BY <2>1 DEF Calls
  <2>3. call[c].at = "unused" => [call[c] EXCEPT !.live = FALSE] = call[c]
    BY DEF CallsOK, Lists!NoCall
  <2> QED
    BY <2>1, <2>2, <2>3 DEF Lists!WithoutTable
<1>2. call' \in [Lists!CallIds -> Calls]
  BY <1>1 DEF Lists!WithoutTable
<1>3. \A c \in Lists!CallIds :
        /\ call'[c].at = call[c].at /\ call'[c].op = call[c].op /\ call'[c].unit = call[c].unit
        /\ call'[c].closes = call[c].closes
        /\ call'[c].live => call[c].live /\ call[c].op = "create"
  BY <1>1 DEF Calls
<1>4. Calm
  BY <1>1, <1>2, <1>3 DEF Calm
<1> QED
  BY <1>3, <1>4 DEF Going

LEMMA RowsStay ==
  ASSUME CallsOK, RowsOK, Calm, page' = page, history' = history PROVE RowsOK'
<1>1. SentCalls' \subseteq SentCalls
  BY CalmCalls
<1>2. Cardinality(SentCalls') <= Cardinality(SentCalls) /\ Cardinality(SentCalls') \in Nat
  BY <1>1, CallsFinite, FS_Subset, FS_CardinalityType
<1> QED
  BY <1>2, CallsFinite, BoundsAssumption DEF RowsOK

(* A calm step keeps the invariant if what is left open is what the calls  *)
(* that are still under way need.                                          *)
LEMMA ModalKept ==
  ASSUME ListsInv, Calm, page' = page, FetchesOK', RowsOK', FieldsOK', OwnModal', SheetMatchesTarget',
         \A c \in Lists!CallIds :
           call[c].op = "update" /\ Going(c)' =>
             modal'.kind = "sheet" /\ modal'.unit \in {call[c].unit, NoUnit},
         page \in Lists!Fleets /\ ~Lists!ConfirmedTwice =>
           \A c \in Lists!CallIds :
             call[c].op \notin {"create", "update"} /\ Going(c)' =>
               modal'.kind = "dialog" /\ modal'.unit = call[c].unit /\ modal'.op = call[c].op
  PROVE  ListsInv'
<1>1. /\ CallsOK' /\ (Lists!ConfirmedTwice' <=> Lists!ConfirmedTwice)
      /\ \A c \in Lists!CallIds : /\ Going(c)' => Going(c)
                                  /\ \A op : Lists!Latest(op, c) => Lists!Latest(op, c)'
  BY CalmCalls DEF ListsInv
<1>2. \A c \in Lists!CallIds : call'[c].op = call[c].op /\ call'[c].unit = call[c].unit
  BY DEF Calm
<1>3. SheetOfUpdate'
  BY <1>1, <1>2 DEF ListsInv, SheetOfUpdate
<1>4. DialogOfAction'
  BY <1>1, <1>2 DEF ListsInv, DialogOfAction
<1> QED
  BY <1>1, <1>3, <1>4 DEF ListsInv

(* So does a step that leaves everything open as it is.                    *)
LEMMA QuietKept ==
  ASSUME ListsInv, Calm, page' = page, modal' = modal, FetchesOK', RowsOK', FieldsOK'
  PROVE  ListsInv'
<1>1. /\ CallsOK' /\ (Lists!ConfirmedTwice' <=> Lists!ConfirmedTwice)
      /\ \A c \in Lists!CallIds : Going(c)' => Going(c)
  BY CalmCalls DEF ListsInv
<1>2. OwnModal' /\ SheetMatchesTarget'
  BY DEF ListsInv, OwnModal, SheetMatchesTarget, Lists!SheetMatchesTarget
<1>3. \A c \in Lists!CallIds :
        call[c].op = "update" /\ Going(c)' =>
          modal'.kind = "sheet" /\ modal'.unit \in {call[c].unit, NoUnit}
  BY <1>1 DEF ListsInv, SheetOfUpdate
<1>4. page \in Lists!Fleets /\ ~Lists!ConfirmedTwice =>
        \A c \in Lists!CallIds :
          call[c].op \notin {"create", "update"} /\ Going(c)' =>
            modal'.kind = "dialog" /\ modal'.unit = call[c].unit /\ modal'.op = call[c].op
  BY <1>1 DEF ListsInv, DialogOfAction
<1> QED
  BY <1>2, <1>3, <1>4, ModalKept

LEMMA ListsFields ==
  ASSUME ListsInv
  PROVE  /\ page \in Lists!AllPages /\ filter \in Lists!Filters /\ modal \in Modals /\ form \in NewRows
         /\ expanded \subseteq Units /\ owed \in [Lists!Filters -> Lists!Indices] /\ faults \in Nat
         /\ query \in [Lists!Keys -> Fetches] /\ Lists!Filters \subseteq Lists!Keys
         /\ Units \subseteq Lists!Keys
         /\ Len(history) \in 1..(MaxChanges + 1) /\ history \in Seq([Units -> Statuses])
         /\ Len(history) \in Lists!Indices
         /\ call \in [Lists!CallIds -> Calls]
         /\ MaxChanges \in Nat /\ MaxCalls \in Nat /\ NoUnit \notin Units
<1>1. 1..(MaxChanges + 1) \subseteq Lists!Indices
  BY BoundsAssumption DEF Lists!Indices
<1> QED
  BY <1>1, BoundsAssumption, ListsAssumption
  DEF ListsInv, FieldsOK, FetchesOK, RowsOK, CallsOK, Lists!Keys

(* Queries, and the rows that are expanded.                                *)
LEMMA FetchKept ==
  ASSUME ListsInv,
         \/ Lists!Focus
         \/ \E k \in Lists!Keys : Lists!Poll(k) \/ Lists!ReadRows(k) \/ Lists!AnswerQuery(k)
         \/ \E u \in Units : Lists!ToggleExpand(u)
  PROVE  ListsInv'
<1>1. UNCHANGED <<page, history, filter, modal, form, call, owed, faults>>
  BY DEF Lists!Focus, Lists!Poll, Lists!ReadRows, Lists!AnswerQuery, Lists!ToggleExpand
<1>2. Calm /\ RowsOK'
  BY <1>1, CallsAsTheyWere, RowsStay DEF ListsInv
<1>3. CASE Lists!Focus
  <2>1. expanded' = expanded
        /\ query' = [k \in Lists!Keys |-> IF k \in Lists!Active THEN Lists!Wanted(query[k]) ELSE query[k]]
    BY <1>3 DEF Lists!Focus
  <2>2. FetchesOK'
    BY <2>1, FetchesStay, ListsFields DEF FetchesOK
  <2>3. FieldsOK'
    BY <1>1, <2>1 DEF ListsInv, FieldsOK
  <2> QED
    BY <1>1, <1>2, <2>2, <2>3, QuietKept
<1>4. ASSUME NEW k \in Lists!Keys, Lists!Poll(k) \/ Lists!ReadRows(k) \/ Lists!AnswerQuery(k)
      PROVE  ListsInv'
  <2>1. expanded' = expanded
    BY <1>4 DEF Lists!Poll, Lists!ReadRows, Lists!AnswerQuery
  <2>2. \E q \in Fetches : query' = [query EXCEPT ![k] = q]
    <3>1. CASE Lists!Poll(k)
      BY <3>1, FetchesStay, ListsFields DEF Lists!Poll
    <3>2. CASE Lists!ReadRows(k)
      BY <3>2, FetchesStay, ListsFields DEF Lists!ReadRows
    <3>3. CASE Lists!AnswerQuery(k)
      BY <3>3, FetchesStay, ListsFields DEF Lists!AnswerQuery
    <3> QED
      BY <1>4, <3>1, <3>2, <3>3
  <2>3. FetchesOK'
    BY <2>2, ListsFields DEF FetchesOK
  <2>4. FieldsOK'
    BY <1>1, <2>1 DEF ListsInv, FieldsOK
  <2> QED
    BY <1>1, <1>2, <2>3, <2>4, QuietKept
<1>5. ASSUME NEW u \in Units, Lists!ToggleExpand(u) PROVE ListsInv'
  <2>1. query' = query /\ expanded' \subseteq Units
    BY <1>5, ListsFields DEF Lists!ToggleExpand
  <2>2. FetchesOK' /\ FieldsOK'
    BY <1>1, <2>1 DEF ListsInv, FetchesOK, FieldsOK
  <2> QED
    BY <1>1, <1>2, <2>2, QuietKept
<1> QED
  BY <1>3, <1>4, <1>5

LEMMA NothingOpen ==
  ASSUME modal' = Lists!NoModal, page' = page
  PROVE  modal' \in Modals /\ modal'.kind = "none" /\ OwnModal' /\ SheetMatchesTarget'
<1>1. modal' \in Modals /\ modal'.kind = "none"
  BY DEF Lists!NoModal, Modals, Lists!ModalKinds, Lists!Ops
<1> QED
  BY <1>1 DEF OwnModal, SheetMatchesTarget, Lists!SheetMatchesTarget

LEMMA FailQueryKept ==
  ASSUME ListsInv, NEW k \in Lists!Keys, Lists!FailQuery(k)
  PROVE  ListsInv'
<1>1. /\ UNCHANGED <<page, history, filter, form, owed>> /\ faults' = faults + 1
      /\ query' = [query EXCEPT ![k] = [Lists!IdleQuery EXCEPT !.at = query[k].at,
                                                                !.err = k \in Lists!Filters]]
  BY DEF Lists!FailQuery
<1>2. FetchesOK'
  <2>1. query[k] \in Fetches /\ query[k].at \in Lists!Indices
    BY FetchesStay, ListsFields
  <2>2. (k \in Lists!Filters) \in BOOLEAN
    OBVIOUS
  <2>3. [Lists!IdleQuery EXCEPT !.at = query[k].at, !.err = k \in Lists!Filters] \in Fetches
    BY <2>1, <2>2, FetchesStay
  <2> QED
    BY <1>1, <2>3, ListsFields DEF FetchesOK
<1>3. CASE k = filter
  <2>1. /\ modal' = IF modal.kind \in Lists!PageKinds THEN modal ELSE Lists!NoModal
        /\ call' = Lists!WithoutTable /\ expanded' = {}
    BY <1>3 DEF Lists!FailQuery
  <2>2. Calm /\ \A c \in Lists!CallIds : call[c].op # "create" => ~Going(c)'
    BY <2>1, TableGoneCalm DEF ListsInv
  <2>3. OwnModal' /\ SheetMatchesTarget' /\ modal' \in Modals
    <3>1. CASE modal' = modal
      BY <1>1, <3>1, ListsFields
      DEF ListsInv, OwnModal, SheetMatchesTarget, Lists!SheetMatchesTarget
    <3> QED
      BY <1>1, <2>1, <3>1, NothingOpen
  <2>4. FieldsOK'
    BY <1>1, <2>1, <2>3, ListsFields DEF FieldsOK
  <2>5. RowsOK'
    BY <1>1, <2>2, RowsStay DEF ListsInv
  <2> QED
    BY <1>1, <1>2, <2>2, <2>3, <2>4, <2>5, ModalKept
<1>4. CASE k # filter
  <2>1. UNCHANGED <<modal, call, expanded>>
    BY <1>4 DEF Lists!FailQuery
  <2>2. Calm /\ RowsOK'
    BY <1>1, <2>1, CallsAsTheyWere, RowsStay DEF ListsInv
  <2>3. FieldsOK'
    BY <1>1, <2>1, ListsFields DEF FieldsOK
  <2> QED
    BY <1>1, <1>2, <2>1, <2>2, <2>3, QuietKept
<1> QED
  BY <1>3, <1>4

LEMMA SetFilterKept ==
  ASSUME ListsInv, NEW f \in Lists!Filters, Lists!SetFilter(f)
  PROVE  ListsInv'
<1>1. /\ UNCHANGED <<page, history, modal, form, owed, faults>> /\ filter' = f
      /\ query' = [query EXCEPT ![f] = Lists!Wanted(@)]
      /\ \/ UNCHANGED <<call, expanded>>
         \/ call' = Lists!WithoutTable /\ expanded' = {}
  BY DEF Lists!SetFilter
<1>2. Calm
  BY <1>1, CallsAsTheyWere, TableGoneCalm DEF ListsInv
<1>3. FetchesOK'
  BY <1>1, FetchesStay, ListsFields DEF FetchesOK
<1>4. RowsOK'
  BY <1>1, <1>2, RowsStay DEF ListsInv
<1>5. FieldsOK'
  BY <1>1, ListsFields DEF FieldsOK
<1> QED
  BY <1>1, <1>2, <1>3, <1>4, <1>5, QuietKept

(* What is open, if anything, has no call of a dialog or sheet under way:  *)
(* anything may be opened, or closed.                                      *)
LEMMA FreeKept ==
  ASSUME ListsInv, UNCHANGED <<page, history, call>>, FetchesOK', FieldsOK', OwnModal',
         SheetMatchesTarget',
         \A c \in Lists!CallIds : call[c].op = "update" => ~Going(c),
         page \in Lists!Fleets /\ ~Lists!ConfirmedTwice =>
           \A c \in Lists!CallIds : call[c].op \notin {"create", "update"} => ~Going(c)
  PROVE  ListsInv'
<1>1. Calm
  BY CallsAsTheyWere DEF ListsInv
<1>2. RowsOK'
  BY <1>1, RowsStay DEF ListsInv
<1>3. \A c \in Lists!CallIds : Going(c)' <=> Going(c)
  BY DEF Going
<1> QED
  BY <1>1, <1>2, <1>3, ModalKept

LEMMA OtherKindKept ==
  ASSUME ListsInv, UNCHANGED <<page, history, call>>, FetchesOK', FieldsOK', OwnModal',
         SheetMatchesTarget', modal.kind \notin {"dialog", "sheet"}
  PROVE  ListsInv'
<1>1. \A c \in Lists!CallIds : call[c].op = "update" => ~Going(c)
  BY DEF ListsInv, SheetOfUpdate
<1>2. page \in Lists!Fleets /\ ~Lists!ConfirmedTwice =>
        \A c \in Lists!CallIds : call[c].op \notin {"create", "update"} => ~Going(c)
  BY DEF ListsInv, DialogOfAction
<1> QED
  BY <1>1, <1>2, FreeKept

LEMMA OpenKept ==
  ASSUME ListsInv, NEW kind \in Lists!ModalKinds, NEW op \in Lists!Ops, NEW u \in Units \cup {NoUnit},
         Lists!Open(kind, op, u), kind # "warning",
         kind \in {"dialog", "sheet", "create"} => op \in RowActions \cap PageActions[page],
         kind = "dialog" => op \notin {"create", "update"} /\ u \in Units,
         kind = "sheet" => op = "update" /\ u \in Units
  PROVE  ListsInv'
<1>1. /\ modal = Lists!NoModal
      /\ modal' = [kind |-> kind, op |-> op, unit |-> u, shown |-> NoUnit]
      /\ UNCHANGED <<page, history, filter, query, form, call, expanded, owed, faults>>
  BY DEF Lists!Open
<1>2. modal' \in Modals
  BY <1>1 DEF Modals
<1>3. FetchesOK' /\ FieldsOK'
  BY <1>1, <1>2, ListsFields DEF FetchesOK, FieldsOK
<1>4. OwnModal' /\ SheetMatchesTarget'
  BY <1>1, ListsFields DEF OwnModal, SheetMatchesTarget, Lists!SheetMatchesTarget
<1>5. modal.kind = "none"
  BY <1>1 DEF Lists!NoModal
<1> QED
  BY <1>1, <1>3, <1>4, <1>5, OtherKindKept

(* A dialog or a sheet is closed while no call of its own is under way.    *)
LEMMA CloseKept ==
  ASSUME ListsInv, NEW kind, Lists!Close(kind),
         kind = "sheet" => ~Lists!Pending("update"),
         kind = "dialog" /\ page \in Lists!Fleets =>
           \A op \in PageActions[page] \ {"create", "update"} : ~Lists!Pending(op)
  PROVE  ListsInv'
<1>1. /\ modal.kind = kind /\ modal' = Lists!NoModal
      /\ UNCHANGED <<page, history, filter, query, form, call, expanded, owed, faults>>
  BY DEF Lists!Close
<1>2. FetchesOK' /\ FieldsOK' /\ OwnModal' /\ SheetMatchesTarget'
  BY <1>1, NothingOpen, ListsFields DEF FetchesOK, FieldsOK
<1>3. \A c \in Lists!CallIds : call[c].op = "update" => ~Going(c)
  BY <1>1 DEF ListsInv, SheetOfUpdate, Lists!Pending, Going
<1>4. \A c \in Lists!CallIds : Going(c) => call[c].op \in PageActions[page]
  BY DEF ListsInv, CallsOK, Going, Lists!UnderWay
<1>5. page \in Lists!Fleets /\ ~Lists!ConfirmedTwice =>
        \A c \in Lists!CallIds : call[c].op \notin {"create", "update"} => ~Going(c)
  BY <1>1, <1>4 DEF ListsInv, DialogOfAction, Lists!Pending, Going
<1> QED
  BY <1>1, <1>2, <1>3, <1>5, FreeKept

(* A call leaves: of a sheet that has none under way, or of a dialog.      *)
LEMMA StartKept ==
  ASSUME ListsInv, NEW op \in RowActions \cap PageActions[page], NEW u \in Units,
         NEW closes \in BOOLEAN, Lists!Start(op, u, closes),
         UNCHANGED <<page, history, filter, query, modal, expanded, owed, faults>>, form' \in NewRows,
         op = "update" =>
           /\ modal.kind = "sheet" /\ modal.unit = u
           /\ \A c \in Lists!CallIds : call[c].op = "update" => ~Going(c),
         op \notin {"create", "update"} /\ page \in Lists!Fleets =>
           /\ modal.kind = "dialog" /\ modal.op = op /\ modal.unit = u
           /\ closes /\ ~Lists!ConfirmedTwice =>
                \A c \in Lists!CallIds : call[c].op \notin {"create", "update"} => ~Going(c)
  PROVE  ListsInv'
<1> DEFINE new == [at |-> "sent", op |-> op, unit |-> u, live |-> TRUE, closes |-> closes]
<1>0. PICK n \in Nat : n = Cardinality(Lists!Used)
  BY CallsFinite
<1>1. n \in Nat /\ n + faults < MaxCalls /\ faults \in Nat /\ MaxCalls \in Nat
  BY <1>0, CardinalityIs, ListsFields DEF Lists!Start, Lists!Spare
<1>2. n + 1 \in Lists!CallIds /\ Lists!Used = 1..n
  BY <1>0, <1>1 DEF ListsInv, CallsOK, Lists!CallIds
<1>3. call' = [call EXCEPT ![n + 1] = new]
  BY <1>0, CardinalityIs DEF Lists!Start
<1>4. /\ Len(history) - 1 + Cardinality(SentCalls) < MaxChanges
  BY CardinalityIs DEF Lists!Start, Lists!Grown, SentCalls
<1>5. new \in Calls /\ op # "none"
  BY DEF Calls, Lists!UnderWay, RowActions, Lists!Ops
<1>6. /\ call' \in [Lists!CallIds -> Calls] /\ call'[n + 1] = new
      /\ \A c \in Lists!CallIds \ {n + 1} : call'[c] = call[c]
  BY <1>2, <1>3, <1>5, ListsFields
<1>7. \A c \in Lists!CallIds : c > n => call[c] = Lists!NoCall
  <2> TAKE c \in Lists!CallIds
  <2> HAVE c > n
  <2>1. c \notin Lists!Used
    BY <1>1, <1>2 DEF Lists!CallIds
  <2> QED
    BY <2>1 DEF ListsInv, CallsOK, Lists!Used
<1>8. /\ new.at = "sent" /\ new.op = op /\ new.unit = u /\ new.live /\ new.closes = closes
  OBVIOUS
<1> HIDE DEF new
<1>9. CallsOK'
  <2>1. Lists!Used' = 1..(n + 1)
    <3>1. Lists!Used' = Lists!Used \cup {n + 1}
      BY <1>2, <1>6, <1>8 DEF Lists!Used
    <3> QED
      BY <1>1, <1>2, <3>1
  <2>2. Cardinality(1..(n + 1)) = n + 1
    BY <1>1, FS_Interval
  <2>3. \A c \in Lists!CallIds :
          IF call'[c].at = "unused" THEN call'[c] = Lists!NoCall
          ELSE call'[c].op \in RowActions \cap PageActions[page] /\ call'[c].unit \in Units
    BY <1>6, <1>8 DEF ListsInv, CallsOK
  <2> QED
    BY <1>6, <2>1, <2>2, <2>3 DEF CallsOK
<1>10. RowsOK'
  <2>1. SentCalls' = SentCalls \cup {n + 1} /\ n + 1 \notin SentCalls
    BY <1>1, <1>2, <1>6, <1>7, <1>8 DEF SentCalls, Lists!NoCall
  <2>2. Cardinality(SentCalls') = Cardinality(SentCalls) + 1
    BY <2>1, CallsFinite, FS_AddElement
  <2> QED
    BY <1>4, <2>2, CallsFinite, ListsFields DEF ListsInv, RowsOK
<1>11. FetchesOK' /\ FieldsOK' /\ OwnModal' /\ SheetMatchesTarget'
  BY ListsFields
  DEF ListsInv, FetchesOK, FieldsOK, OwnModal, SheetMatchesTarget, Lists!SheetMatchesTarget
<1>12. /\ \A c \in Lists!CallIds : c # n + 1 => (Going(c)' <=> Going(c)) /\ (Going(c) => c < n + 1)
       /\ \A c \in Lists!CallIds : c # n + 1 => call'[c].op = call[c].op /\ call'[c].unit = call[c].unit
       /\ call'[n + 1].op = op /\ call'[n + 1].unit = u /\ Lists!Latest(op, n + 1)'
       /\ \A c \in Lists!CallIds : \A o : o # op /\ Lists!Latest(o, c) => Lists!Latest(o, c)'
  <2>1. \A c \in Lists!CallIds : c # n + 1 => (Going(c)' <=> Going(c)) /\ (Going(c) => c < n + 1)
    BY <1>1, <1>6, <1>7 DEF Going, Lists!NoCall, Lists!CallIds
  <2>2. Lists!Latest(op, n + 1)'
    <3>1. \A d \in Lists!CallIds : d > n + 1 => ~call'[d].live
      BY <1>1, <1>6, <1>7 DEF Lists!NoCall, Lists!CallIds
    <3> QED
      BY <3>1 DEF Lists!Latest
  <2>3. \A c \in Lists!CallIds : \A o : o # op /\ Lists!Latest(o, c) => Lists!Latest(o, c)'
    BY <1>6, <1>8 DEF Lists!Latest
  <2> QED
    BY <1>6, <1>8, <2>1, <2>2, <2>3
<1>13. SheetOfUpdate'
  <2>1. CASE op = "update"
    BY <1>12, <2>1 DEF SheetOfUpdate
  <2>2. CASE op # "update"
    BY <1>12, <2>2 DEF ListsInv, SheetOfUpdate
  <2> QED
    BY <2>1, <2>2
<1>14. DialogOfAction'
  <2> SUFFICES ASSUME page \in Lists!Fleets, ~Lists!ConfirmedTwice', NEW c \in Lists!CallIds,
                      NEW o, o = call'[c].op, o \notin {"create", "update"}, Going(c)'
               PROVE  /\ modal.kind = "dialog" /\ modal.unit = call'[c].unit /\ modal.op = o
                      /\ Lists!Latest(o, c)'
    <3>1. (page \in Lists!Fleets /\ ~Lists!ConfirmedTwice =>
             \A c \in Lists!CallIds : \A o :
               o = call[c].op /\ o \notin {"create", "update"} /\ Going(c) =>
                 /\ modal.kind = "dialog" /\ modal.unit = call[c].unit /\ modal.op = o
                 /\ Lists!Latest(o, c))'
          => DialogOfAction'
      BY DEF DialogOfAction
    <3>2. modal' = modal /\ page' = page
      OBVIOUS
    <3> QED
      BY <3>1, <3>2
  <2>1. /\ ~Lists!ConfirmedTwice
    <3> SUFFICES ASSUME NEW d \in Lists!CallIds, call[d].op \notin {"none", "create", "update"},
                        ~call[d].closes
                 PROVE  FALSE
      BY DEF Lists!ConfirmedTwice
    <3>1. d # n + 1
      BY <1>1, <1>7 DEF Lists!NoCall, Lists!CallIds
    <3> QED
      BY <1>6, <3>1 DEF Lists!ConfirmedTwice
  <2>2. op \notin {"create", "update"} => closes
    BY <1>2, <1>5, <1>6, <1>8 DEF Lists!ConfirmedTwice
  <2>3. CASE op \in {"create", "update"}
    <3>1. c # n + 1 /\ o = call[c].op /\ Going(c) /\ o # op
      BY <1>12, <2>3
    <3>2. /\ modal.kind = "dialog" /\ modal.unit = call[c].unit /\ modal.op = o
          /\ Lists!Latest(o, c)
      BY <2>1, <3>1 DEF ListsInv, DialogOfAction
    <3> QED
      BY <1>12, <3>1, <3>2
  <2>4. CASE op \notin {"create", "update"}
    <3>1. c = n + 1
      BY <1>12, <2>1, <2>2, <2>4
    <3> QED
      BY <1>12, <2>4, <3>1
  <2> QED
    BY <2>3, <2>4
<1> QED
  BY <1>9, <1>10, <1>11, <1>13, <1>14 DEF ListsInv

(* The control plane: a change takes the place that was kept for it.       *)
LEMMA GrownRows ==
  ASSUME RowsOK, NEW u \in Units, NEW st \in Statuses,
         history' = Append(history, [Lists!Now EXCEPT ![u] = st]),
         Cardinality(SentCalls') \in Nat,
         Len(history) + Cardinality(SentCalls') <= MaxChanges
  PROVE  RowsOK'
<1>1. history \in Seq([Units -> Statuses]) /\ Len(history) \in Nat /\ Len(history) >= 1
      /\ MaxChanges \in Nat
  BY BoundsAssumption DEF RowsOK
<1>2. Lists!Now \in [Units -> Statuses]
  BY <1>1 DEF Lists!Now
<1>3. [Lists!Now EXCEPT ![u] = st] \in [Units -> Statuses]
  BY <1>2
<1>4. history' \in Seq([Units -> Statuses]) /\ Len(history') = Len(history) + 1
  BY <1>1, <1>3
<1> QED
  BY <1>1, <1>4 DEF RowsOK

LEMMA CommitKept ==
  ASSUME ListsInv, NEW c \in Lists!CallIds, Lists!Commit(c)
  PROVE  ListsInv'
<1>1. /\ call[c].at = "sent" /\ call' = [call EXCEPT ![c].at = "done"]
      /\ UNCHANGED <<page, filter, query, modal, form, expanded, owed, faults>>
  BY DEF Lists!Commit
<1>2. Calm /\ SentCalls' = SentCalls \ {c} /\ c \in SentCalls
  BY <1>1, MovedCalm DEF ListsInv, Lists!UnderWay, SentCalls
<1>3. Cardinality(SentCalls') = Cardinality(SentCalls) - 1 /\ Cardinality(SentCalls') \in Nat
  BY <1>2, CallsFinite, FS_RemoveElement, FS_CardinalityType
<1>4. PICK u \in Units, op \in RowActions : call[c].op = op /\ call[c].unit = u
  BY <1>1 DEF ListsInv, CallsOK
<1>5. Lists!Now \in [Units -> Statuses]
  BY ListsFields DEF Lists!Now
<1>6. PICK st \in Statuses : history' = Append(history, [Lists!Now EXCEPT ![u] = st])
  <2>1. Lists!Effect(op, Lists!Now[u]) \in Statuses
    BY <1>4, <1>5, EffectStays
  <2>2. history' = Append(history, [Lists!Now EXCEPT ![u] = Lists!Effect(op, Lists!Now[u])])
    BY <1>4, <1>5 DEF Lists!Commit
  <2> QED
    BY <2>1, <2>2
<1>7. RowsOK'
  <2>1. RowsOK /\ Len(history) - 1 + Cardinality(SentCalls) <= MaxChanges
    BY DEF ListsInv, RowsOK
  <2>2. Len(history) + Cardinality(SentCalls') <= MaxChanges
    BY <1>3, <2>1, CallsFinite, ListsFields
  <2> QED
    BY <1>3, <1>6, <2>1, <2>2, GrownRows
<1>8. FetchesOK' /\ FieldsOK'
  BY <1>1 DEF ListsInv, FetchesOK, FieldsOK
<1> QED
  BY <1>1, <1>2, <1>7, <1>8, QuietKept

(* A program connects, or a request is logged.                             *)
LEMMA UnaskedKept ==
  ASSUME ListsInv, NEW u \in Units, Lists!Heartbeat(u) \/ Lists!Logged(u)
  PROVE  ListsInv'
<1>1. /\ history' = Append(history, [Lists!Now EXCEPT ![u] = "up"])
      /\ UNCHANGED <<page, filter, query, modal, form, call, expanded, owed, faults>>
  BY DEF Lists!Heartbeat, Lists!Logged
<1>2. SentCalls' = SentCalls /\ Calm /\ Cardinality(SentCalls) \in Nat
  BY <1>1, CallsAsTheyWere, CallsFinite DEF ListsInv, SentCalls
<1>3. Len(history) - 1 + Cardinality(SentCalls) < MaxChanges
  <2>1. CASE Lists!Heartbeat(u)
    BY <2>1, CardinalityIs DEF Lists!Heartbeat, Lists!Grown, SentCalls
  <2>2. CASE Lists!Logged(u)
    <3>1. SentCalls = {}
      BY <2>2 DEF ListsInv, CallsOK, SentCalls, Lists!Logged, PageActions
    <3> QED
      BY <2>2, <3>1, FS_EmptySet, ListsFields DEF Lists!Logged, Lists!Grown
  <2> QED
    BY <2>1, <2>2
<1>4. "up" \in Statuses
  BY DEF Statuses
<1>5. RowsOK'
  <2>1. Len(history) + Cardinality(SentCalls') <= MaxChanges
    BY <1>2, <1>3, ListsFields
  <2> QED
    BY <1>1, <1>2, <1>4, <2>1, GrownRows DEF ListsInv
<1>6. FetchesOK' /\ FieldsOK'
  BY <1>1 DEF ListsInv, FetchesOK, FieldsOK
<1> QED
  BY <1>1, <1>2, <1>5, <1>6, QuietKept

LEMMA RefuseKept ==
  ASSUME ListsInv, NEW c \in Lists!CallIds, Lists!Refuse(c)
  PROVE  ListsInv'
<1>1. /\ call[c].at = "sent" /\ call' = [call EXCEPT ![c].at = "failed"]
      /\ UNCHANGED <<page, history, filter, query, modal, form, expanded, owed>>
      /\ faults' \in {faults, faults + 1}
  BY DEF Lists!Refuse
<1>2. Calm
  BY <1>1, MovedCalm DEF ListsInv, Lists!UnderWay
<1>3. FetchesOK' /\ FieldsOK' /\ RowsOK'
  BY <1>1, <1>2, RowsStay, ListsFields DEF ListsInv, FetchesOK, FieldsOK
<1> QED
  BY <1>1, <1>2, <1>3, QuietKept

LEMMA AnswerFailedKept ==
  ASSUME ListsInv, NEW c \in Lists!CallIds, Lists!AnswerFailed(c)
  PROVE  ListsInv'
<1>1. /\ call[c].at = "failed" /\ call' = [call EXCEPT ![c].at = "over"]
      /\ UNCHANGED <<page, history, filter, query, modal, expanded, owed, faults>>
      /\ form' \in {form, [form EXCEPT !.busy = FALSE]}
  BY DEF Lists!AnswerFailed, Lists!Over
<1>2. Calm
  BY <1>1, MovedCalm DEF ListsInv, Lists!UnderWay
<1>3. form' \in NewRows
  BY <1>1, ListsFields DEF NewRows
<1>4. FetchesOK' /\ FieldsOK' /\ RowsOK'
  BY <1>1, <1>2, <1>3, RowsStay, ListsFields DEF ListsInv, FetchesOK, FieldsOK
<1> QED
  BY <1>1, <1>2, <1>4, QuietKept

(* The answers.                                                            *)
LEMMA Invalidated ==
  ASSUME ListsInv, NEW also, Lists!Invalidate(also)
  PROVE  FetchesOK' /\ owed' \in [Lists!Filters -> Lists!Indices]
<1>1. FetchesOK'
  BY FetchesStay, ListsFields DEF Lists!Invalidate, FetchesOK
<1>2. owed' \in [Lists!Filters -> Lists!Indices]
  BY ListsFields DEF Lists!Invalidate
<1> QED
  BY <1>1, <1>2

LEMMA EnrolledKept ==
  ASSUME ListsInv, NEW c \in Lists!CallIds, Lists!Enrolled(c)
  PROVE  ListsInv'
<1>1. PICK u : u = call[c].unit
  OBVIOUS
<1>2. /\ call[c].at = "done" /\ call' = [call EXCEPT ![c].at = "over"] /\ Lists!Invalidate({u})
      /\ form' = [form EXCEPT !.token = u, !.busy = FALSE]
      /\ UNCHANGED <<page, history, filter, modal, expanded, faults>>
  BY <1>1 DEF Lists!Enrolled, Lists!Over
<1>3. Calm /\ u \in Units
  BY <1>1, <1>2, MovedCalm DEF ListsInv, CallsOK, Lists!UnderWay
<1>4. form' \in NewRows
  BY <1>2, <1>3, ListsFields DEF NewRows
<1>5. FetchesOK' /\ FieldsOK' /\ RowsOK'
  BY <1>2, <1>3, <1>4, Invalidated, RowsStay, ListsFields DEF ListsInv, FieldsOK
<1> QED
  BY <1>2, <1>3, <1>5, QuietKept

LEMMA AwaitRefetchKept ==
  ASSUME ListsInv, NEW c \in Lists!CallIds, Lists!AwaitRefetch(c)
  PROVE  ListsInv'
<1>1. /\ call[c].at = "done" /\ call' = [call EXCEPT ![c].at = "settling"] /\ Lists!Invalidate({})
      /\ UNCHANGED <<page, history, filter, modal, form, expanded, faults>>
  BY DEF Lists!AwaitRefetch
<1>2. Calm
  BY <1>1, MovedCalm DEF ListsInv, Lists!UnderWay
<1>3. FetchesOK' /\ FieldsOK' /\ RowsOK'
  BY <1>1, <1>2, Invalidated, RowsStay, ListsFields DEF ListsInv, FieldsOK
<1> QED
  BY <1>1, <1>2, <1>3, QuietKept

(* What every answer does to the calls.                                    *)
LEMMA AnswersCalm ==
  ASSUME ListsInv, NEW c \in Lists!CallIds, call[c].at \in Lists!UnderWay, Lists!Over(c), page' = page
  PROVE  /\ Calm /\ ~Going(c)' /\ CallsOK
         /\ \A d \in Lists!CallIds : Going(d)' => Going(d) /\ d # c
         /\ call[c].op \in PageActions[page] /\ call[c].unit \in Units
         /\ call[c].live => Going(c)
<1>1. call' = [call EXCEPT ![c].at = "over"] /\ CallsOK
  BY DEF Lists!Over, ListsInv
<1>2. Calm /\ ~Going(c)'
  BY <1>1, MovedCalm
<1>3. \A d \in Lists!CallIds : Going(d)' => Going(d)
  BY <1>1, <1>2, CalmCalls
<1>4. call[c].op \in PageActions[page] /\ call[c].unit \in Units
  BY <1>1 DEF CallsOK, Lists!UnderWay
<1> QED
  BY <1>1, <1>2, <1>3, <1>4 DEF Going

(* One call of the sheet is under way, and it knows its row.               *)
LEMMA ReenrolledKept ==
  ASSUME ListsInv, NEW c \in Lists!CallIds, Lists!Reenrolled(c)
  PROVE  ListsInv'
<1>1. PICK u : u = call[c].unit
  OBVIOUS
<1>2. /\ call[c].at = "done" /\ call[c].op = "update" /\ Lists!Over(c) /\ Lists!Invalidate({u})
      /\ modal' = IF call[c].live /\ modal.kind = "sheet" THEN [modal EXCEPT !.shown = u] ELSE modal
      /\ UNCHANGED <<page, history, filter, form, expanded, faults>>
  BY <1>1 DEF Lists!Reenrolled
<1>3. /\ Calm /\ u \in Units /\ \A d \in Lists!CallIds : Going(d)' => Going(d) /\ d # c
      /\ call[c].live => Going(c)
  BY <1>1, <1>2, AnswersCalm DEF Lists!UnderWay
<1>4. modal' \in Modals
  BY <1>2, <1>3, ListsFields DEF Modals
<1>5. FetchesOK' /\ FieldsOK' /\ RowsOK'
  BY <1>2, <1>3, <1>4, Invalidated, RowsStay, ListsFields DEF ListsInv, FieldsOK
<1>6. CASE modal' = modal
  BY <1>2, <1>3, <1>5, <1>6, QuietKept
<1>7. CASE call[c].live /\ modal.kind = "sheet"
  <2>1. /\ modal'.kind = "sheet" /\ modal'.op = modal.op /\ modal'.unit = modal.unit
        /\ modal'.shown = u
    BY <1>2, <1>7, ListsFields DEF Modals
  <2>2. modal.unit \in {u, NoUnit}
    BY <1>1, <1>2, <1>3, <1>7 DEF ListsInv, SheetOfUpdate
  <2>3. OwnModal' /\ SheetMatchesTarget'
    BY <1>2, <1>7, <2>1, <2>2 DEF ListsInv, OwnModal, SheetMatchesTarget, Lists!SheetMatchesTarget
  <2>4. \A d \in Lists!CallIds :
          call[d].op = "update" /\ Going(d)' =>
            modal'.kind = "sheet" /\ modal'.unit \in {call[d].unit, NoUnit}
    BY <1>3, <2>1 DEF ListsInv, SheetOfUpdate
  <2>5. page \in Lists!Fleets /\ ~Lists!ConfirmedTwice =>
          \A d \in Lists!CallIds : ~(call[d].op \notin {"create", "update"} /\ Going(d)')
    BY <1>3, <1>7 DEF ListsInv, DialogOfAction
  <2> QED
    BY <1>2, <1>3, <1>5, <2>3, <2>4, <2>5, ModalKept
<1> QED
  BY <1>2, <1>6, <1>7

(* Until an action is confirmed twice, one call of the dialog is under     *)
(* way, and the dialog is about its row.                                   *)
LEMMA ActedKept ==
  ASSUME ListsInv, NEW c \in Lists!CallIds, Lists!Acted(c), page \in Lists!Fleets
  PROVE  /\ ListsInv'
         /\ modal.kind \in {"dialog", "sheet"} /\ modal' = Lists!NoModal =>
              call[c].unit = modal.unit \/ Lists!ConfirmedTwice
<1>1. /\ call[c].at = "done" /\ call[c].op \notin {"create", "update"}
      /\ Lists!Over(c) /\ Lists!Invalidate({})
      /\ modal' = IF modal.kind = "sheet" /\ call[c].live /\ call[c].closes
                    THEN [modal EXCEPT !.unit = NoUnit]
                    ELSE IF call[c].live /\ call[c].closes /\ modal.kind \in {"dialog"}
                           THEN Lists!NoModal ELSE modal
      /\ UNCHANGED <<page, history, filter, form, expanded, faults>>
  BY DEF Lists!Acted, Lists!ClosedBy
<1>2. /\ Calm /\ \A d \in Lists!CallIds : Going(d)' => Going(d) /\ d # c
      /\ call[c].live => Going(c)
  BY <1>1, AnswersCalm DEF Lists!UnderWay
<1>3. modal' \in Modals
  BY <1>1, NothingOpen, ListsFields DEF Modals
<1>4. FetchesOK' /\ FieldsOK' /\ RowsOK'
  BY <1>1, <1>2, <1>3, Invalidated, RowsStay, ListsFields DEF ListsInv, FieldsOK
<1>5. CASE modal' = modal
  <2>1. ListsInv'
    BY <1>1, <1>2, <1>4, <1>5, QuietKept
  <2>2. modal' = Lists!NoModal => modal.kind = "none"
    BY <1>5 DEF Lists!NoModal
  <2> QED
    BY <2>1, <2>2
<1>6. CASE modal.kind = "sheet" /\ call[c].live /\ call[c].closes
  <2>1. /\ modal'.kind = "sheet" /\ modal'.op = modal.op /\ modal'.unit = NoUnit
    BY <1>1, <1>6, ListsFields DEF Modals
  <2>2. OwnModal' /\ SheetMatchesTarget'
    BY <1>1, <1>6, <2>1 DEF ListsInv, OwnModal, SheetMatchesTarget, Lists!SheetMatchesTarget
  <2>3. \A d \in Lists!CallIds :
          call[d].op = "update" /\ Going(d)' =>
            modal'.kind = "sheet" /\ modal'.unit \in {call[d].unit, NoUnit}
    BY <2>1
  <2>4. page \in Lists!Fleets /\ ~Lists!ConfirmedTwice =>
          \A d \in Lists!CallIds : ~(call[d].op \notin {"create", "update"} /\ Going(d)')
    BY <1>2, <1>6 DEF ListsInv, DialogOfAction
  <2>5. ListsInv'
    BY <1>1, <1>2, <1>4, <2>2, <2>3, <2>4, ModalKept
  <2>6. modal' # Lists!NoModal
    BY <2>1 DEF Lists!NoModal
  <2> QED
    BY <2>5, <2>6
<1>7. CASE modal.kind = "dialog" /\ call[c].live /\ call[c].closes
  <2>1. modal' = Lists!NoModal
    BY <1>1, <1>7
  <2>2. \A d \in Lists!CallIds : ~(call[d].op = "update" /\ Going(d)')
    BY <1>2, <1>7 DEF ListsInv, SheetOfUpdate
  <2>3. ~Lists!ConfirmedTwice =>
          /\ modal.unit = call[c].unit /\ modal.op = call[c].op
          /\ \A d \in Lists!CallIds : ~(call[d].op \notin {"create", "update"} /\ Going(d)')
    <3> SUFFICES ASSUME ~Lists!ConfirmedTwice
                 PROVE  /\ modal.unit = call[c].unit /\ modal.op = call[c].op
                        /\ \A d \in Lists!CallIds : ~(call[d].op \notin {"create", "update"} /\ Going(d)')
      OBVIOUS
    <3>1. modal.unit = call[c].unit /\ modal.op = call[c].op /\ Lists!Latest(call[c].op, c)
      BY <1>1, <1>2, <1>7 DEF ListsInv, DialogOfAction
    <3>2. ASSUME NEW d \in Lists!CallIds, call[d].op \notin {"create", "update"}, Going(d)'
          PROVE  FALSE
      <4>1. Going(d) /\ d # c
        BY <1>2, <3>2
      <4>2. modal.op = call[d].op /\ Lists!Latest(call[d].op, d)
        BY <3>2, <4>1 DEF ListsInv, DialogOfAction
      <4>3. call[c].live /\ call[d].live /\ call[c].op = call[d].op
        BY <1>7, <3>1, <4>1, <4>2 DEF Going
      <4>4. c \in Int /\ d \in Int
        BY ListsFields DEF Lists!CallIds
      <4>5. c > d \/ d > c
        BY <4>1, <4>4
      <4>6. ~(d > c) /\ ~(c > d)
        BY <3>1, <4>2, <4>3 DEF Lists!Latest
      <4> QED
        BY <4>5, <4>6
    <3> QED
      BY <3>1, <3>2
  <2>4. OwnModal' /\ SheetMatchesTarget'
    BY <1>1, <2>1, NothingOpen
  <2>5. ListsInv'
    BY <1>1, <1>2, <1>4, <2>2, <2>3, <2>4, ModalKept
  <2> QED
    BY <2>3, <2>5
<1> QED
  BY <1>1, <1>5, <1>6, <1>7

(* An application is saved, or created, by one call at a time.             *)
LEMMA ApplicationAnswerKept ==
  ASSUME ListsInv, NEW c \in Lists!CallIds, Lists!ApplicationAnswer(c)
  PROVE  /\ ListsInv'
         /\ modal.kind \in {"dialog", "sheet"} /\ modal' = Lists!NoModal => call[c].unit = modal.unit
<1>1. /\ page = "applications" /\ call[c].at = "done" /\ Lists!Over(c) /\ Lists!Invalidate({})
      /\ modal' = IF call[c].live /\ call[c].closes
                     /\ modal.kind \in IF call[c].op = "create" THEN {"create"} ELSE {"sheet"}
                    THEN Lists!NoModal ELSE modal
      /\ UNCHANGED <<page, history, filter, form, expanded, faults>>
  BY DEF Lists!ApplicationAnswer, Lists!ClosedBy
<1>2. /\ Calm /\ \A d \in Lists!CallIds : Going(d)' => Going(d) /\ d # c
      /\ call[c].live => Going(c)
      /\ call[c].op \in {"create", "update"}
  BY <1>1, AnswersCalm DEF Lists!UnderWay, PageActions
<1>3. modal' \in Modals
  BY <1>1, NothingOpen, ListsFields
<1>4. FetchesOK' /\ FieldsOK' /\ RowsOK'
  BY <1>1, <1>2, <1>3, Invalidated, RowsStay, ListsFields DEF ListsInv, FieldsOK
<1>5. CASE modal' = modal
  <2>1. ListsInv'
    BY <1>1, <1>2, <1>4, <1>5, QuietKept
  <2>2. modal' = Lists!NoModal => modal.kind = "none"
    BY <1>5 DEF Lists!NoModal
  <2> QED
    BY <2>1, <2>2
<1>6. CASE modal' # modal
  <2>1. /\ modal' = Lists!NoModal /\ Going(c)
        /\ \/ call[c].op = "create" /\ modal.kind = "create"
           \/ call[c].op = "update" /\ modal.kind = "sheet"
    BY <1>1, <1>2, <1>6
  <2>2. modal.kind = "sheet" => modal.unit = call[c].unit
    <3>1. modal.kind = "sheet" => modal.unit \in {call[c].unit, NoUnit}
      BY <2>1 DEF ListsInv, SheetOfUpdate
    <3> QED
      BY <1>1, <3>1 DEF ListsInv, OwnModal, Lists!Fleets
  <2>3. \A d \in Lists!CallIds : ~(call[d].op = "update" /\ Going(d)')
    <3> SUFFICES ASSUME NEW d \in Lists!CallIds, call[d].op = "update", Going(d)' PROVE FALSE
      OBVIOUS
    <3>1. Going(d) /\ d # c
      BY <1>2
    <3>2. modal.kind = "sheet" /\ Lists!Latest("update", d)
      BY <3>1 DEF ListsInv, SheetOfUpdate
    <3>3. call[c].op = "update" /\ Lists!Latest("update", c)
      BY <2>1, <3>2 DEF ListsInv, SheetOfUpdate
    <3>4. c \in Int /\ d \in Int
      BY ListsFields DEF Lists!CallIds
    <3>5. c > d \/ d > c
      BY <3>1, <3>4
    <3>6. ~(d > c) /\ ~(c > d)
      BY <2>1, <3>1, <3>2, <3>3 DEF Lists!Latest, Going
    <3> QED
      BY <3>5, <3>6
  <2>4. page \notin Lists!Fleets
    BY <1>1 DEF Lists!Fleets
  <2>5. OwnModal' /\ SheetMatchesTarget'
    BY <1>1, <2>1, NothingOpen
  <2>6. ListsInv'
    BY <1>1, <1>2, <1>4, <2>3, <2>4, <2>5, ModalKept
  <2> QED
    BY <2>1, <2>2, <2>6
<1> QED
  BY <1>5, <1>6

(* The answers on the pages of the policies and of the sessions, whose     *)
(* only actions are in dialogs.                                            *)
LEMMA SettledKept ==
  ASSUME ListsInv, NEW c \in Lists!CallIds, Lists!Deleted(c) \/ Lists!Revoked(c)
  PROVE  ListsInv'
<1>1. /\ page \in {"policies", "sessions"} /\ call[c].at = "settling" /\ Lists!Over(c)
      /\ \/ modal' \in {modal, Lists!NoModal}
         \/ modal.kind = "view" /\ modal' = [modal EXCEPT !.unit = NoUnit]
      /\ UNCHANGED <<page, history, filter, query, form, expanded, owed, faults>>
  BY DEF Lists!Deleted, Lists!Revoked, Lists!Settled, Lists!ClosedBy
<1>2. /\ Calm /\ \A d \in Lists!CallIds : Going(d)' => Going(d)
  BY <1>1, AnswersCalm DEF Lists!UnderWay
<1>3. modal' \in Modals /\ OwnModal' /\ SheetMatchesTarget'
  <2>1. CASE modal' = modal
    BY <1>1, <2>1, ListsFields
    DEF ListsInv, OwnModal, SheetMatchesTarget, Lists!SheetMatchesTarget
  <2>2. CASE modal' = Lists!NoModal
    BY <1>1, <2>2, NothingOpen
  <2>3. CASE modal.kind = "view" /\ modal' = [modal EXCEPT !.unit = NoUnit]
    <3>1. modal' \in Modals /\ modal'.kind = "view"
      BY <2>3, ListsFields DEF Modals
    <3> QED
      BY <3>1 DEF OwnModal, SheetMatchesTarget, Lists!SheetMatchesTarget
  <2> QED
    BY <1>1, <2>1, <2>2, <2>3
<1>4. FetchesOK' /\ FieldsOK' /\ RowsOK'
  BY <1>1, <1>2, <1>3, RowsStay, ListsFields DEF ListsInv, FieldsOK, FetchesOK
<1>5. \A d \in Lists!CallIds : ~(call[d].op = "update" /\ Going(d)')
  BY <1>1, <1>2 DEF ListsInv, CallsOK, PageActions, Going, Lists!UnderWay
<1>6. page \notin Lists!Fleets
  BY <1>1 DEF Lists!Fleets
<1> QED
  BY <1>1, <1>2, <1>3, <1>4, <1>5, <1>6, ModalKept

LEMMA NoneGoing ==
  ASSUME ListsInv
  PROVE  /\ ~Lists!Pending("update") =>
              \A c \in Lists!CallIds : call[c].op = "update" => ~Going(c)
         /\ /\ page \in Lists!Fleets /\ ~Lists!ConfirmedTwice
            /\ \A op \in PageActions[page] \ {"create", "update"} : ~Lists!Pending(op)
            => \A c \in Lists!CallIds : call[c].op \notin {"create", "update"} => ~Going(c)
<1>1. \A c \in Lists!CallIds : Going(c) => call[c].op \in PageActions[page]
  BY DEF ListsInv, CallsOK, Going, Lists!UnderWay
<1> QED
  BY <1>1 DEF ListsInv, SheetOfUpdate, DialogOfAction, Lists!Pending, Going

LEMMA ConfirmDialogKept ==
  ASSUME ListsInv, NEW closes \in BOOLEAN, Lists!Confirm("dialog", closes),
         page \in Lists!Fleets /\ closes =>
           \A op \in PageActions[page] \ {"create", "update"} : ~Lists!Pending(op)
  PROVE  ListsInv'
<1>1. PICK op \in RowActions, u \in Units : op = modal.op /\ u = modal.unit
  BY DEF Lists!Confirm, ListsInv, OwnModal
<1>2. /\ modal.kind = "dialog" /\ op \in RowActions \cap PageActions[page]
      /\ op \notin {"create", "update"} /\ Lists!Start(op, u, closes)
      /\ UNCHANGED <<page, history, filter, query, modal, form, expanded, owed, faults>>
  BY <1>1 DEF Lists!Confirm, ListsInv, OwnModal
<1>3. page \in Lists!Fleets /\ closes /\ ~Lists!ConfirmedTwice =>
        \A c \in Lists!CallIds : call[c].op \notin {"create", "update"} => ~Going(c)
  BY NoneGoing
<1>4. form' \in NewRows
  BY <1>2, ListsFields
<1> QED
  BY <1>1, <1>2, <1>3, <1>4, StartKept

LEMMA ConfirmSheetKept ==
  ASSUME ListsInv, NEW closes \in BOOLEAN, Lists!Confirm("sheet", closes), modal.unit # NoUnit,
         ~Lists!Pending("update")
  PROVE  ListsInv'
<1>1. modal.kind = "sheet"
  BY DEF Lists!Confirm
<1>2. PICK u \in Units : u = modal.unit
  BY ListsFields DEF Modals
<1>3. /\ modal.op = "update" /\ "update" \in RowActions \cap PageActions[page]
      /\ Lists!Start("update", u, closes)
      /\ UNCHANGED <<page, history, filter, query, modal, form, expanded, owed, faults>>
  BY <1>1, <1>2 DEF Lists!Confirm, ListsInv, OwnModal
<1>4. \A c \in Lists!CallIds : call[c].op = "update" => ~Going(c)
  BY NoneGoing
<1>5. form' \in NewRows
  BY <1>3, ListsFields
<1> QED
  BY <1>1, <1>2, <1>3, <1>4, <1>5, StartKept

LEMMA CreateKept ==
  ASSUME ListsInv, NEW u \in Units, NEW closes \in BOOLEAN, Lists!Create(u, closes),
         form' \in {form, [form EXCEPT !.busy = TRUE]},
         "create" \in PageActions[page]
  PROVE  ListsInv'
<1>1. /\ Lists!Start("create", u, closes)
      /\ UNCHANGED <<page, history, filter, query, modal, expanded, owed, faults>>
  BY DEF Lists!Create
<1>2. form' \in NewRows
  BY ListsFields DEF NewRows
<1>3. "create" \in RowActions \cap PageActions[page]
  BY DEF RowActions
<1> QED
  BY <1>1, <1>2, <1>3, StartKept

LEMMA CloseFormKept == ASSUME ListsInv, Lists!CloseForm PROVE ListsInv'
<1>1. /\ modal.kind = "create" /\ modal' = Lists!NoModal /\ form' = Lists!NewForm
      /\ UNCHANGED <<page, history, filter, query, call, expanded, owed, faults>>
  BY DEF Lists!CloseForm
<1>2. form' \in NewRows
  BY <1>1 DEF Lists!NewForm, NewRows
<1>3. FetchesOK' /\ FieldsOK' /\ OwnModal' /\ SheetMatchesTarget'
  BY <1>1, <1>2, NothingOpen, ListsFields DEF FetchesOK, FieldsOK
<1> QED
  BY <1>1, <1>3, OtherKindKept

LEMMA RowsAreOfThePage ==
  ASSUME NEW p, NEW u \in Lists!TableRows(p) PROVE page = p
BY DEF Lists!TableRows

LEMMA GatewayPageKept == ASSUME ListsInv, Lists!GatewayPage PROVE ListsInv'
<1>0. /\ PageActions["gateways"] = {"create", "update", "rotate", "drain", "revoke"}
      /\ {"create", "update", "rotate", "drain", "revoke"} \subseteq RowActions \cap Lists!Ops
      /\ {"dialog", "sheet", "create"} \subseteq Lists!ModalKinds
      /\ "gateways" \in Lists!Fleets
  BY DEF PageActions, RowActions, Lists!Ops, Lists!ModalKinds, Lists!Fleets
<1>1. ASSUME NEW u \in Units, Lists!OpenGatewayDialog(u) PROVE ListsInv'
  <2>1. PICK op \in {"rotate", "drain", "revoke"} : Lists!Open("dialog", op, u)
    BY <1>1 DEF Lists!OpenGatewayDialog, Lists!GatewayActions
  <2>2. page = "gateways"
    BY <1>1, RowsAreOfThePage DEF Lists!OpenGatewayDialog, Lists!GatewayCards
  <2> QED
    BY <1>0, <2>1, <2>2, OpenKept
<1>2. ASSUME NEW u \in Units, Lists!OpenGatewaySheet(u) PROVE ListsInv'
  <2>1. Lists!Open("sheet", "update", u)
    BY <1>2 DEF Lists!OpenGatewaySheet
  <2>2. page = "gateways"
    BY <1>2, RowsAreOfThePage DEF Lists!OpenGatewaySheet, Lists!GatewayCards
  <2> QED
    BY <1>0, <2>1, <2>2, OpenKept
<1>3. ASSUME NEW u \in Units, Lists!CreateGateway(u) PROVE ListsInv'
  BY <1>0, <1>3, CreateKept DEF Lists!CreateGateway
<1>4. CASE Lists!CloseGatewayDialog
  BY <1>0, <1>4, CloseKept DEF Lists!CloseGatewayDialog, Lists!GatewayDialogStays
<1>5. CASE Lists!ConfirmGatewayAction
  <2>1. PICK closes \in BOOLEAN : closes = ~Lists!GatewayDialogStays
    OBVIOUS
  <2>2. page = "gateways" /\ Lists!Confirm("dialog", closes)
    BY <1>5, <2>1 DEF Lists!ConfirmGatewayAction
  <2>3. closes => ~Lists!Pending("rotate") /\ ~Lists!Pending("drain") /\ ~Lists!Pending("revoke")
    BY <2>1 DEF Lists!GatewayDialogStays
  <2> QED
    BY <1>0, <2>2, <2>3, ConfirmDialogKept
<1>6. CASE Lists!CloseGatewaySheet
  BY <1>6, CloseKept DEF Lists!CloseGatewaySheet
<1>7. CASE Lists!ReenrollGateway
  BY <1>7, ConfirmSheetKept DEF Lists!ReenrollGateway, Lists!GatewaySheet, Lists!Stage
<1>8. CASE Lists!OpenGatewayForm
  BY <1>0, <1>8, OpenKept DEF Lists!OpenGatewayForm
<1>9. CASE Lists!CloseGatewayForm
  BY <1>9, CloseFormKept DEF Lists!CloseGatewayForm
<1>10. ASSUME NEW c \in Lists!CallIds, Lists!GatewayAnswer(c) PROVE ListsInv'
  BY <1>0, <1>10, EnrolledKept, ReenrolledKept, ActedKept DEF Lists!GatewayAnswer
<1> QED
  BY <1>1, <1>2, <1>3, <1>4, <1>5, <1>6, <1>7, <1>8, <1>9, <1>10 DEF Lists!GatewayPage

LEMMA ConnectorPageKept == ASSUME ListsInv, Lists!ConnectorPage PROVE ListsInv'
<1>0. /\ PageActions["connectors"] = {"create", "update", "rotate", "revoke"}
      /\ {"create", "update", "rotate", "revoke"} \subseteq RowActions \cap Lists!Ops
      /\ {"dialog", "sheet", "create"} \subseteq Lists!ModalKinds
      /\ "connectors" \in Lists!Fleets
  BY DEF PageActions, RowActions, Lists!Ops, Lists!ModalKinds, Lists!Fleets
<1>1. ASSUME NEW u \in Units, Lists!OpenConnectorDialog(u) PROVE ListsInv'
  <2>1. PICK op \in {"rotate", "revoke"} : Lists!Open("dialog", op, u)
    BY <1>1 DEF Lists!OpenConnectorDialog, Lists!ConnectorActions
  <2>2. page = "connectors"
    BY <1>1, RowsAreOfThePage
    DEF Lists!OpenConnectorDialog, Lists!ConnectorDetails, Lists!ConnectorRows
  <2> QED
    BY <1>0, <2>1, <2>2, OpenKept
<1>2. ASSUME NEW u \in Units, Lists!OpenConnectorSheet(u) PROVE ListsInv'
  <2>1. Lists!Open("sheet", "update", u)
    BY <1>2 DEF Lists!OpenConnectorSheet
  <2>2. page = "connectors"
    BY <1>2, RowsAreOfThePage
    DEF Lists!OpenConnectorSheet, Lists!ConnectorDetails, Lists!ConnectorRows
  <2> QED
    BY <1>0, <2>1, <2>2, OpenKept
<1>3. ASSUME NEW u \in Units, Lists!CreateConnector(u) PROVE ListsInv'
  BY <1>0, <1>3, CreateKept DEF Lists!CreateConnector
<1>4. CASE Lists!CloseConnectorDialog
  BY <1>0, <1>4, CloseKept DEF Lists!CloseConnectorDialog, Lists!ConnectorDialogStays
<1>5. CASE Lists!ConfirmConnectorAction
  <2>1. PICK closes \in BOOLEAN : closes = ~Lists!ConnectorDialogStays
    OBVIOUS
  <2>2. page = "connectors" /\ Lists!Confirm("dialog", closes)
    BY <1>5, <2>1 DEF Lists!ConfirmConnectorAction
  <2>3. closes => ~Lists!Pending("rotate") /\ ~Lists!Pending("revoke")
    BY <2>1 DEF Lists!ConnectorDialogStays
  <2> QED
    BY <1>0, <2>2, <2>3, ConfirmDialogKept
<1>6. CASE Lists!CloseConnectorSheet
  BY <1>6, CloseKept DEF Lists!CloseConnectorSheet
<1>7. CASE Lists!ReenrollConnector
  BY <1>7, ConfirmSheetKept DEF Lists!ReenrollConnector, Lists!ConnectorSheet, Lists!Stage
<1>8. CASE Lists!OpenConnectorForm
  BY <1>0, <1>8, OpenKept DEF Lists!OpenConnectorForm
<1>9. CASE Lists!CloseConnectorForm
  BY <1>9, CloseFormKept DEF Lists!CloseConnectorForm
<1>10. ASSUME NEW c \in Lists!CallIds, Lists!ConnectorAnswer(c) PROVE ListsInv'
  BY <1>0, <1>10, EnrolledKept, ReenrolledKept, ActedKept DEF Lists!ConnectorAnswer
<1>11. ASSUME NEW u \in Units, Lists!ExpandConnector(u) PROVE ListsInv'
  BY <1>11, FetchKept DEF Lists!ExpandConnector
<1> QED
  BY <1>1, <1>2, <1>3, <1>4, <1>5, <1>6, <1>7, <1>8, <1>9, <1>10, <1>11 DEF Lists!ConnectorPage

(* The form that creates an application makes way for a warning, and comes *)
(* back; nothing of it waits for an answer.                                *)
LEMMA VisibilityKept ==
  ASSUME ListsInv, Lists!AnswerWarning \/ \E public \in BOOLEAN : Lists!ChooseVisibility(public)
  PROVE  ListsInv'
<1>1. /\ modal.kind \in {"create", "warning"} /\ page = "applications"
      /\ modal' \in {modal, Lists!NoModal, [Lists!NoModal EXCEPT !.kind = "warning"],
                     [Lists!NoModal EXCEPT !.kind = "create", !.op = "create"]}
      /\ UNCHANGED <<page, history, filter, query, call, expanded, owed, faults>>
  BY DEF Lists!AnswerWarning, Lists!ChooseVisibility, ListsInv, OwnModal
<1>2. form' \in NewRows
  <2>1. CASE Lists!AnswerWarning
    BY <2>1, ListsFields DEF Lists!AnswerWarning
  <2>2. ASSUME NEW public \in BOOLEAN, Lists!ChooseVisibility(public) PROVE form' \in NewRows
    BY <2>2, ListsFields DEF Lists!ChooseVisibility, NewRows
  <2> QED
    BY <2>1, <2>2
<1>3. modal' \in Modals /\ OwnModal' /\ SheetMatchesTarget'
  <2>1. CASE modal' = modal
    BY <1>1, <2>1, ListsFields
    DEF ListsInv, OwnModal, SheetMatchesTarget, Lists!SheetMatchesTarget
  <2>2. CASE modal' = Lists!NoModal
    BY <1>1, <2>2, NothingOpen
  <2>3. CASE modal' = [Lists!NoModal EXCEPT !.kind = "warning"]
    <3>1. modal' \in Modals /\ modal'.kind = "warning"
      BY <2>3 DEF Modals, Lists!NoModal, Lists!ModalKinds, Lists!Ops
    <3> QED
      BY <1>1, <3>1 DEF OwnModal, SheetMatchesTarget, Lists!SheetMatchesTarget
  <2>4. CASE modal' = [Lists!NoModal EXCEPT !.kind = "create", !.op = "create"]
    <3>1. modal' \in Modals /\ modal'.kind = "create" /\ modal'.op = "create"
      BY <2>4 DEF Modals, Lists!NoModal, Lists!ModalKinds, Lists!Ops
    <3> QED
      BY <1>1, <3>1
      DEF OwnModal, SheetMatchesTarget, Lists!SheetMatchesTarget, PageActions, RowActions
  <2> QED
    BY <1>1, <2>1, <2>2, <2>3, <2>4
<1>4. FetchesOK' /\ FieldsOK'
  BY <1>1, <1>2, <1>3, ListsFields DEF FetchesOK, FieldsOK
<1> QED
  BY <1>1, <1>3, <1>4, OtherKindKept

LEMMA ApplicationPageKept == ASSUME ListsInv, Lists!ApplicationPage PROVE ListsInv'
<1>0. /\ PageActions["applications"] = {"create", "update"}
      /\ {"create", "update"} \subseteq RowActions \cap Lists!Ops
      /\ {"sheet", "create"} \subseteq Lists!ModalKinds
  BY DEF PageActions, RowActions, Lists!Ops, Lists!ModalKinds
<1>1. ASSUME NEW u \in Units, Lists!OpenApplicationSheet(u) PROVE ListsInv'
  <2>1. Lists!Open("sheet", "update", u)
    BY <1>1 DEF Lists!OpenApplicationSheet
  <2>2. page = "applications"
    BY <1>1, RowsAreOfThePage
    DEF Lists!OpenApplicationSheet, Lists!ApplicationDetails, Lists!ApplicationRows
  <2> QED
    BY <1>0, <2>1, <2>2, OpenKept
<1>2. ASSUME NEW u \in Units, Lists!CreateApplication(u) PROVE ListsInv'
  BY <1>0, <1>2, CreateKept DEF Lists!CreateApplication
<1>3. Lists!SheetButtons => page = "applications" /\ ~Lists!Pending("update")
  BY DEF Lists!SheetButtons, Lists!ApplicationSheet
<1>4. CASE Lists!CloseApplicationSheet
  BY <1>3, <1>4, CloseKept DEF Lists!CloseApplicationSheet
<1>5. CASE Lists!SaveApplication
  <2>1. page = "applications" /\ Lists!Confirm("sheet", TRUE) /\ ~Lists!Pending("update")
    BY <1>3, <1>5 DEF Lists!SaveApplication
  <2>2. modal.unit # NoUnit
    BY <2>1 DEF ListsInv, OwnModal, Lists!Confirm, Lists!Fleets
  <2> QED
    BY <2>1, <2>2, ConfirmSheetKept
<1>6. CASE Lists!OpenApplicationForm
  BY <1>0, <1>6, OpenKept DEF Lists!OpenApplicationForm
<1>7. CASE Lists!CloseApplicationForm
  BY <1>7, CloseKept DEF Lists!CloseApplicationForm
<1>8. ASSUME NEW u \in Units, Lists!ExpandApplication(u) PROVE ListsInv'
  BY <1>8, FetchKept DEF Lists!ExpandApplication
<1>9. CASE \E c \in Lists!CallIds : Lists!ApplicationAnswer(c)
  BY <1>9, ApplicationAnswerKept
<1> QED
  BY <1>1, <1>2, <1>4, <1>5, <1>6, <1>7, <1>8, <1>9, VisibilityKept DEF Lists!ApplicationPage

(* The versions of a policy are looked at in front of its page.            *)
LEMMA VersionsKept ==
  ASSUME ListsInv,
         Lists!ViewVersion \/ Lists!CloseVersion \/ \E u \in Units : Lists!ViewVersionHistory(u)
  PROVE  ListsInv'
<1>1. CASE Lists!ViewVersion \/ Lists!CloseVersion
  <2>1. /\ modal' \in {[modal EXCEPT !.op = "version"], [modal EXCEPT !.op = "none"]}
        /\ UNCHANGED <<page, history, filter, query, form, call, expanded, owed, faults>>
        /\ modal.kind = "versions" \/ modal.op = "version"
    BY <1>1 DEF Lists!ViewVersion, Lists!CloseVersion, Lists!VersionHistory
  <2>2. modal' \in Modals /\ modal'.kind = modal.kind
    BY <2>1, ListsFields DEF Modals, Lists!Ops
  <2>3. modal.kind \notin {"dialog", "sheet", "create"}
    BY <2>1 DEF ListsInv, OwnModal, RowActions
  <2>4. OwnModal' /\ SheetMatchesTarget'
    BY <2>1, <2>2, <2>3 DEF ListsInv, OwnModal, SheetMatchesTarget, Lists!SheetMatchesTarget
  <2>5. FetchesOK' /\ FieldsOK'
    BY <2>1, <2>2, ListsFields DEF FetchesOK, FieldsOK
  <2> QED
    BY <2>1, <2>3, <2>4, <2>5, OtherKindKept
<1>2. ASSUME NEW u \in Units, Lists!ViewVersionHistory(u) PROVE ListsInv'
  <2>1. /\ modal = Lists!NoModal
        /\ modal' = [Lists!NoModal EXCEPT !.kind = "versions", !.unit = u]
        /\ form' = [form EXCEPT !.versions = u]
        /\ query' \in {query, [query EXCEPT ![u] = Lists!Wanted(@)]}
        /\ UNCHANGED <<page, history, filter, call, expanded, owed, faults>>
    BY <1>2 DEF Lists!ViewVersionHistory
  <2>2. modal' \in Modals /\ modal'.kind = "versions" /\ modal.kind = "none"
    BY <2>1 DEF Modals, Lists!NoModal, Lists!ModalKinds, Lists!Ops
  <2>3. form' \in NewRows
    BY <2>1, ListsFields DEF NewRows
  <2>4. query' \in [Lists!Keys -> Fetches]
    <3>1. u \in Lists!Keys /\ Lists!Wanted(query[u]) \in Fetches
      BY FetchesStay, ListsFields
    <3>2. query' \in {query, [query EXCEPT ![u] = Lists!Wanted(query[u])]}
      BY <2>1, <3>1
    <3> QED
      BY <3>1, <3>2, ListsFields
  <2>5. FetchesOK' /\ FieldsOK'
    BY <2>1, <2>2, <2>3, <2>4, ListsFields DEF FetchesOK, FieldsOK
  <2>6. OwnModal' /\ SheetMatchesTarget'
    BY <2>2 DEF OwnModal, SheetMatchesTarget, Lists!SheetMatchesTarget
  <2> QED
    BY <2>1, <2>2, <2>5, <2>6, OtherKindKept
<1> QED
  BY <1>1, <1>2

LEMMA PolicyPageKept == ASSUME ListsInv, Lists!PolicyPage PROVE ListsInv'
<1>0. /\ PageActions["policies"] = {"delete"} /\ "policies" \notin Lists!Fleets
      /\ {"delete"} \subseteq RowActions \cap Lists!Ops /\ "none" \in Lists!Ops
      /\ {"view", "dialog"} \subseteq Lists!ModalKinds
  BY DEF PageActions, RowActions, Lists!Ops, Lists!ModalKinds, Lists!Fleets
<1>1. ASSUME NEW u \in Units, Lists!ViewPolicy(u) \/ Lists!DeletePolicy(u) PROVE ListsInv'
  <2>1. Lists!Open("view", "none", u) \/ Lists!Open("dialog", "delete", u)
    BY <1>1 DEF Lists!ViewPolicy, Lists!DeletePolicy
  <2>2. page = "policies"
    BY <1>1, RowsAreOfThePage DEF Lists!ViewPolicy, Lists!DeletePolicy, Lists!PolicyRows
  <2> QED
    BY <1>0, <2>1, <2>2, OpenKept
<1>2. CASE Lists!ClosePolicy \/ Lists!ClosePolicyDialog \/ Lists!CloseVersionHistory
  BY <1>0, <1>2, CloseKept
  DEF Lists!ClosePolicy, Lists!ClosePolicyDialog, Lists!CloseVersionHistory
<1>3. CASE Lists!ConfirmDelete
  BY <1>0, <1>3, ConfirmDialogKept DEF Lists!ConfirmDelete
<1>4. CASE \E c \in Lists!CallIds : (page = "policies" /\ Lists!AwaitRefetch(c)) \/ Lists!Deleted(c)
  BY <1>4, AwaitRefetchKept, SettledKept
<1> QED
  BY <1>1, <1>2, <1>3, <1>4, VersionsKept DEF Lists!PolicyPage

LEMMA SessionPageKept == ASSUME ListsInv, Lists!SessionPage PROVE ListsInv'
<1>0. /\ PageActions["sessions"] = {"revoke"} /\ "sessions" \notin Lists!Fleets
      /\ {"revoke"} \subseteq RowActions \cap Lists!Ops /\ "dialog" \in Lists!ModalKinds
  BY DEF PageActions, RowActions, Lists!Ops, Lists!ModalKinds, Lists!Fleets
<1>1. ASSUME NEW u \in Units, Lists!HandleRevokeClick(u) PROVE ListsInv'
  <2>1. Lists!Open("dialog", "revoke", u)
    BY <1>1 DEF Lists!HandleRevokeClick
  <2>2. page = "sessions"
    BY <1>1, RowsAreOfThePage DEF Lists!HandleRevokeClick, Lists!SessionRows
  <2> QED
    BY <1>0, <2>1, <2>2, OpenKept
<1>2. CASE Lists!CloseSessionDialog
  BY <1>0, <1>2, CloseKept DEF Lists!CloseSessionDialog
<1>3. CASE Lists!ConfirmRevoke
  BY <1>0, <1>3, ConfirmDialogKept DEF Lists!ConfirmRevoke
<1>4. CASE \E f \in Lists!Filters : Lists!SessionFilters(f)
  BY <1>4, SetFilterKept DEF Lists!SessionFilters
<1>5. CASE \E c \in Lists!CallIds : (page = "sessions" /\ Lists!AwaitRefetch(c)) \/ Lists!Revoked(c)
  BY <1>5, AwaitRefetchKept, SettledKept
<1> QED
  BY <1>1, <1>2, <1>3, <1>4, <1>5 DEF Lists!SessionPage

LEMMA LogPageKept == ASSUME ListsInv, Lists!LogPage PROVE ListsInv'
BY SetFilterKept, FetchKept, UnaskedKept DEF Lists!LogPage, Lists!LogFilters, Lists!ExpandLog

LEMMA ListsStepKept == ASSUME ListsInv, [Lists!Next]_(Lists!vars) PROVE ListsInv'
<1>1. CASE UNCHANGED Lists!vars
  <2>1. UNCHANGED <<page, history, filter, query, modal, form, call, expanded, owed, faults>>
    BY <1>1 DEF Lists!vars
  <2>2. Calm /\ RowsOK'
    BY <2>1, CallsAsTheyWere, RowsStay DEF ListsInv
  <2>3. FetchesOK' /\ FieldsOK'
    BY <2>1 DEF ListsInv, FetchesOK, FieldsOK
  <2> QED
    BY <2>1, <2>2, <2>3, QuietKept
<1>2. CASE Lists!Focus \/ \E k \in Lists!Keys : Lists!Poll(k) \/ Lists!QueryStep(k) \/ Lists!FailQuery(k)
  BY <1>2, FetchKept, FailQueryKept DEF Lists!QueryStep
<1>3. CASE \/ \E c \in Lists!CallIds : Lists!Commit(c) \/ Lists!Refuse(c) \/ Lists!AnswerFailed(c)
           \/ \E u \in Units : Lists!Heartbeat(u)
  BY <1>3, CommitKept, RefuseKept, AnswerFailedKept, UnaskedKept
<1> QED
  BY <1>1, <1>2, <1>3, GatewayPageKept, ConnectorPageKept, ApplicationPageKept, PolicyPageKept,
     SessionPageKept, LogPageKept
  DEF Lists!Next

LEMMA ListsInit == ASSUME Lists!Init PROVE ListsInv
<1>1. /\ page \in Pages /\ filter = "all" /\ modal = Lists!NoModal /\ form = Lists!NewForm
      /\ query = [k \in Lists!Keys |-> IF k = "all" THEN Lists!Sent(Lists!IdleQuery) ELSE Lists!IdleQuery]
      /\ call = [c \in Lists!CallIds |-> Lists!NoCall] /\ expanded = {}
      /\ owed = [f \in Lists!Filters |-> 0] /\ faults = 0
  BY DEF Lists!Init
<1>2. PICK rows \in Initially : history = <<rows>>
  BY DEF Lists!Init
<1>3. FetchesOK
  BY <1>1, FetchesStay DEF FetchesOK
<1>4. \A c \in Lists!CallIds : call[c] = Lists!NoCall /\ call[c].at = "unused" /\ ~call[c].live
  BY <1>1 DEF Lists!NoCall
<1>5. SentCalls = {} /\ Lists!Used = {} /\ Cardinality({}) = 0
  BY <1>4, FS_EmptySet DEF SentCalls, Lists!Used
<1>6. RowsOK
  <2>1. rows \in [Units -> Statuses]
    BY <1>2, ListsAssumption
  <2>2. history \in Seq([Units -> Statuses]) /\ Len(history) = 1
    BY <1>2, <2>1
  <2> QED
    BY <1>5, <2>2, BoundsAssumption DEF RowsOK
<1>7. CallsOK
  <2>1. Lists!NoCall \in Calls
    BY DEF Lists!NoCall, Calls, Lists!Ops
  <2>2. call \in [Lists!CallIds -> Calls]
    BY <1>1, <2>1
  <2>3. Lists!Used = 1..Cardinality(Lists!Used)
    BY <1>5
  <2> QED
    BY <1>4, <2>2, <2>3 DEF CallsOK
<1>8. FieldsOK
  <2>1. page \in Lists!AllPages /\ filter \in Lists!Filters
    BY <1>1, ListsAssumption DEF Lists!AllPages, Lists!Fleets, Lists!Filtered, Lists!Filters
  <2>2. modal \in Modals /\ form \in NewRows
    BY <1>1 DEF Lists!NoModal, Modals, Lists!ModalKinds, Lists!Ops, Lists!NewForm, NewRows
  <2>3. 0 \in Lists!Indices
    BY BoundsAssumption DEF Lists!Indices
  <2> QED
    BY <1>1, <2>1, <2>2, <2>3 DEF FieldsOK
<1>9. OwnModal /\ SheetMatchesTarget
  BY <1>1 DEF OwnModal, SheetMatchesTarget, Lists!SheetMatchesTarget, Lists!NoModal
<1>10. SheetOfUpdate /\ DialogOfAction
  BY <1>4 DEF SheetOfUpdate, DialogOfAction, Going
<1> QED
  BY <1>3, <1>6, <1>7, <1>8, <1>9, <1>10 DEF ListsInv

LEMMA ListsHold == Spec => []ListsInv
BY ListsInit, ListsStepKept, ListsRun, PTL DEF Lists!Spec

(* The sheet that re-enrols a row never shows the commands of another row: *)
(* while a call of the sheet is under way the sheet stays, on that row or  *)
(* on none, however often the table is refetched.                          *)
THEOREM SheetMatchesTargetHolds == Spec => []SheetMatchesTarget
<1>1. ListsInv => SheetMatchesTarget
  BY DEF ListsInv
<1> QED
  BY <1>1, ListsHold, PTL

(* A dialog or a sheet of a gateway, connector or application is closed by *)
(* the answer of an action on its own row only, for any number of calls,   *)
(* unless an action on gateways or connectors was confirmed twice.         *)
THEOREM ClosedByOwnAnswerHolds == Spec => ClosedByOwnAnswer
<1>1. ASSUME ListsInv, NEW c \in Lists!CallIds,
             Lists!GatewayAnswer(c) \/ Lists!ConnectorAnswer(c) \/ Lists!ApplicationAnswer(c),
             modal.kind \in {"dialog", "sheet"}, modal' = Lists!NoModal
      PROVE  call[c].unit = modal.unit \/ (page \in Lists!Fleets /\ Lists!ConfirmedTwice)
  <2>1. CASE Lists!ApplicationAnswer(c)
    BY <1>1, <2>1, ApplicationAnswerKept
  <2>2. CASE Lists!GatewayAnswer(c) \/ Lists!ConnectorAnswer(c)
    <3>1. page \in Lists!Fleets
      BY <2>2 DEF Lists!GatewayAnswer, Lists!ConnectorAnswer, Lists!Fleets
    <3>2. Lists!NoModal.kind = "none"
      BY DEF Lists!NoModal
    <3>3. CASE Lists!Enrolled(c)
      BY <1>1, <3>2, <3>3 DEF Lists!Enrolled
    <3>4. CASE Lists!Reenrolled(c)
      <4>1. modal'.kind = modal.kind
        BY <3>4, <1>1, ListsFields DEF Lists!Reenrolled, Modals
      <4> QED
        BY <1>1, <3>2, <4>1
    <3>5. CASE Lists!Acted(c)
      BY <1>1, <3>1, <3>5, ActedKept
    <3> QED
      BY <2>2, <3>3, <3>4, <3>5 DEF Lists!GatewayAnswer, Lists!ConnectorAnswer
  <2> QED
    BY <1>1, <2>1, <2>2
<1>2. ListsInv /\ [Lists!Next]_(Lists!vars) =>
        [\A c \in Lists!CallIds :
           /\ Lists!GatewayAnswer(c) \/ Lists!ConnectorAnswer(c) \/ Lists!ApplicationAnswer(c)
           /\ modal.kind \in {"dialog", "sheet"} /\ modal' = Lists!NoModal
           => call[c].unit = modal.unit \/ (page \in Lists!Fleets /\ Lists!ConfirmedTwice)]_(Lists!vars)
  BY <1>1
<1> QED
  BY <1>2, ListsHold, ListsRun, PTL
  DEF Lists!Spec, ClosedByOwnAnswer, Lists!ClosedByOwnAnswer
-----------------------------------------------------------------------------
Mounted == area \in {"lists", "settings", "policy", "login"}

LEMMA OneIsMounted == Spec => []Mounted
<1>1. Init => Mounted
  BY DEF Init, Mounted
<1>2. Mounted /\ [Next]_vars => Mounted'
  BY DEF Mounted, Next, ListStep, SettingsStep, PolicyStep, LoginStep, vars
<1> QED
  BY <1>1, <1>2, PTL DEF Spec

(* Every variable of every page holds a value of its kind, for any number  *)
(* of rows, windows, edits, calls, versions and failures.                  *)
THEOREM ConsoleTypeCorrect == Spec => []TypeOK
<1>1. SettingsInv => Settings!TypeOK
  BY DEF SettingsInv
<1>2. PolicyInv => Policy!TypeOK
  BY DEF PolicyInv
<1>3. Mounted /\ Lists!TypeOK /\ Settings!TypeOK /\ Policy!TypeOK /\ Login!TypeOK => TypeOK
  BY DEF TypeOK, Mounted
<1> QED
  BY <1>1, <1>2, <1>3, OneIsMounted, ListsTyped, ListsHold, SettingsHold, PolicyHolds, LoginType, PTL
=============================================================================
