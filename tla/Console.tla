------------------------------ MODULE Console ------------------------------
(***************************************************************************)
(* The web console: one page is mounted at a time (the router's outlet),   *)
(* and the state of the others does not exist.  Every list page is a       *)
(* ResourcePages, the settings a SettingsPages, the editor of a policy a   *)
(* PolicyForms, the sign-in pages, of any number of windows, a FirstLogin; *)
(* AdminAuth is what they all call through.                                *)
(***************************************************************************)
EXTENDS Naturals, FiniteSets

CONSTANTS
  Units, NoUnit, Pages, Chosen, Initially, MaxChanges, MaxCalls,   \* ResourcePages
  Rows, NoRow, Owners, MaxEdits,                                   \* SettingsPages
  Kinds, Parts, Contents, MaxVersions, MaxFaults, MaxPolicyEdits,  \* PolicyForms
  Windows, MaxLogins                                               \* FirstLogin

Statuses == {"absent", "pending", "up", "draining", "revoked"}

ASSUME ListsAssumption ==
  /\ Pages \subseteq {"gateways", "connectors", "applications", "policies", "sessions", "logs"}
  /\ Chosen \subseteq Units /\ NoUnit \notin Units
  /\ Initially \subseteq [Units -> Statuses]
ASSUME SettingsAssumption == NoRow \notin Rows /\ Owners \subseteq Rows
ASSUME PolicyAssumption ==
  /\ Kinds \subseteq {"mfa", "device", "network", "time"}
  /\ Parts \subseteq {"name", "subjects", "resources"}
  /\ \A c \in Contents :
       /\ c.parts \subseteq Parts
       /\ c.cond \in [Kinds -> {"none", "usual", "other", "lax usual", "lax other", "empty"}]
ASSUME BoundsAssumption ==
  /\ {MaxChanges, MaxCalls, MaxEdits, MaxVersions, MaxFaults, MaxLogins} \subseteq Nat
  /\ MaxVersions > 1 /\ MaxPolicyEdits \in [{"create", "update"} -> Nat]

VARIABLES
  area,                                                            \* what is mounted
  page, history, filter, query, modal, form, call, expanded, owed, faults,
  screen, provider, config, changed, save, test, dialog, chosen, invite, created, edits,
  editor, row, policyQuery, policyForm, touched, before, summary, policyCall, payload,
  policyFaults, policyEdits,
  account, view, loginCall, scanned, proven, raced, loginFaults

Lists    == INSTANCE ResourcePages
Settings == INSTANCE SettingsPages
Policy   == INSTANCE PolicyForms WITH
  screen <- editor, query <- policyQuery, form <- policyForm, call <- policyCall,
  faults <- policyFaults, edits <- policyEdits, MaxEdits <- MaxPolicyEdits
Login    == INSTANCE FirstLogin WITH
  call <- loginCall, faults <- loginFaults, MaxCalls <- MaxLogins

listVars     == <<page, history, filter, query, modal, form, call, expanded, owed, faults>>
settingsVars == <<screen, provider, config, changed, save, test, dialog, chosen, invite, created, edits>>
policyVars   == <<editor, row, policyQuery, policyForm, touched, before, summary, policyCall,
                  payload, policyFaults, policyEdits>>
loginVars    == <<account, view, loginCall, scanned, proven, raced, loginFaults>>
vars         == <<area, listVars, settingsVars, policyVars, loginVars>>
-----------------------------------------------------------------------------
(* A page that is not mounted is in one state.                             *)
Init ==
  /\ area \in {"lists", "settings", "policy", "login"}
  /\ Lists!Init /\ Settings!Init /\ Policy!Init /\ Login!Init
  /\ area # "lists" =>
       page = (CHOOSE p \in Pages : TRUE) /\ history = <<CHOOSE rows \in Initially : TRUE>>
  /\ area # "settings" => screen = "organisation"
  /\ area # "policy" =>
       /\ editor = "create"
       /\ LET content == CHOOSE c \in Contents : TRUE IN
          row.parts = content.parts /\ row.cond = content.cond

ListStep     == area = "lists" /\ Lists!Next /\ UNCHANGED <<area, settingsVars, policyVars, loginVars>>
SettingsStep == area = "settings" /\ Settings!Next /\ UNCHANGED <<area, listVars, policyVars, loginVars>>
PolicyStep   == area = "policy" /\ Policy!Next /\ UNCHANGED <<area, listVars, settingsVars, loginVars>>
LoginStep    == area = "login" /\ Login!Next /\ UNCHANGED <<area, listVars, settingsVars, policyVars>>

Next == ListStep \/ SettingsStep \/ PolicyStep \/ LoginStep

Spec == Init /\ [][Next]_vars

(* The queries of the list that is mounted are answered, and intervals     *)
(* elapse.                                                                 *)
Fairness ==
  \A k \in Lists!Keys :
    /\ WF_vars(area = "lists" /\ Lists!QueryStep(k) /\ UNCHANGED <<area, settingsVars, policyVars, loginVars>>)
    /\ WF_vars(area = "lists" /\ Lists!Poll(k) /\ UNCHANGED <<area, settingsVars, policyVars, loginVars>>)
FairSpec == Spec /\ Fairness
-----------------------------------------------------------------------------
(* Every variable of every page holds a value of its kind.                 *)
TypeOK ==
  /\ area \in {"lists", "settings", "policy", "login"}
  /\ Lists!TypeOK /\ Settings!TypeOK /\ Policy!TypeOK /\ Login!TypeOK

(* The sheet that re-enrols a row never shows the commands of another row, *)
(* although its answer may come after the table was refetched or replaced. *)
SheetMatchesTarget == Lists!SheetMatchesTarget

(* A dialog or a sheet of a gateway, connector or application is closed by *)
(* the answer of an action on its own row only, however late an answer     *)
(* comes, unless an action on gateways or connectors was confirmed twice.  *)
ClosedByOwnAnswer == Lists!ClosedByOwnAnswer

(* Once the console was told that a change succeeded, the list it was      *)
(* showing comes to show that change, or an error.                         *)
ListCatchesUp == Lists!ListCatchesUp

(* A sheet that waits for a program shows that it has connected, unless    *)
(* the sheet is closed or the row changes again.                           *)
EnrolmentSeen == Lists!EnrolmentSeen

(* A form of the settings that does not mark unsaved changes shows what it *)
(* started with or what was last saved, unless it was edited while a save  *)
(* was under way.                                                          *)
CleanMeansSaved == Settings!CleanMeansSaved

(* The control plane is never asked to trust, under the name of Google or  *)
(* Entra, an issuer that was typed for another provider.                   *)
IssuerOfProvider == Settings!IssuerOfProvider

(* What an untouched condition of the form would send is what was last     *)
(* read, or lets no more through, or is left over from an earlier answer.  *)
FormIsFaithful == Policy!FormIsFaithful

(* Everyone, everything or no name is only sent in place of what the policy *)
(* that was last read does not have.                                       *)
NothingByDefault == Policy!NothingByDefault

(* Fetching the policy again takes edits away only when it has changed.    *)
EditsSurviveRefetch == Policy!EditsSurviveRefetch

(* An account that asks for codes asks for those of a secret that the      *)
(* administrator has scanned and has typed a code of.                      *)
NobodyLockedOut == Login!NobodyLockedOut

(* Codes, once they are asked for, are only given up by a setup that had   *)
(* read the account before, while another one was storing its secret.      *)
OnlyRacesDisable == Login!OnlyRacesDisable
=============================================================================
