--------------------------- MODULE SettingsPages ---------------------------
(***************************************************************************)
(* The pages of the web console that edit settings: the organisation, the  *)
(* identity provider (a tab of the settings, and a page of its own whose   *)
(* calls are simulated), the administrators and the users.                 *)
(*                                                                         *)
(* An edit is a number, 0 for what the page starts with.  Only the call    *)
(* that creates an identity provider reaches the control plane; the other  *)
(* answers are timers of the page.  The organisation, the identity         *)
(* provider and the administrators are tabs: choosing one unmounts the     *)
(* other and drops its state, save for the form of an invitation.          *)
(***************************************************************************)
EXTENDS Naturals

CONSTANTS
  Rows,      \* administrators, or sessions of the user that is looked at
  NoRow,     \* none of them
  Owners,    \* the administrators that cannot be removed
  MaxEdits   \* bound: choices and edits of a form

Screens   == {"organisation", "profile", "identity", "provider", "admins", "users", "groups", "user"}
Tabs      == {"organisation", "identity", "admins"}
Providers == {"google", "okta", "entra", "other"}

VARIABLES
  screen,    \* the page or tab that is mounted
  provider,  \* the provider that is selected
  config,    \* the values of the form
  changed,   \* hasChanges
  save,      \* the save under way, and the last one that succeeded
  test,      \* the connection test under way, and the result on display
  dialog,    \* the dialog that is open
  chosen,    \* the row the dialog is about (selectedUser, selectedSession)
  invite,    \* the form that invites an administrator
  created,   \* the identity provider that the control plane was last asked for
  edits      \* choices and edits so far

formVars   == <<provider, config, changed, save, test>>
dialogVars == <<dialog, chosen>>
vars       == <<screen, formVars, dialogVars, invite, created, edits>>
-----------------------------------------------------------------------------
(* The values that a provider starts with: only Okta has an issuer of its  *)
(* own.                                                                    *)
Defaults(p) ==
  [of |-> p, edit |-> 0, issuer |-> IF p = "okta" THEN "okta" ELSE "none"]

(* What handleSave asks for: the issuer of the form, or that of Google or  *)
(* of the Entra tenant.                                                    *)
Payload ==
  [type |-> provider,
   issuer |-> IF config.issuer = "none" /\ provider \in {"google", "entra"}
                THEN provider ELSE config.issuer]

NotAsked == [type |-> "none", issuer |-> "none"]
NoInvite == [open |-> FALSE, email |-> "none", sending |-> FALSE, timers |-> 0]

(* late: the form was edited while the save was under way.                 *)
NoSave == [busy |-> FALSE, values |-> Defaults("google"), payload |-> NotAsked,
           kept |-> Defaults("google"), late |-> FALSE]
NoTest == [busy |-> FALSE, of |-> "none", result |-> "none"]

Init ==
  /\ screen \in Screens \ {"groups", "user"}
  /\ provider = "google" /\ config = Defaults("google") /\ changed = FALSE
  /\ save = NoSave /\ test = NoTest
  /\ dialog = "none" /\ chosen = NoRow
  /\ invite = NoInvite
  /\ created = NotAsked
  /\ edits = 0
-----------------------------------------------------------------------------
(* What the pages share.                                                   *)

NewEdit == edits < MaxEdits /\ edits' = edits + 1
Touched == [save EXCEPT !.late = @ \/ save.busy]

(* A dialog is over the page; one that is cancelled keeps its row.         *)
NoDialog == dialog = "none" /\ ~invite.open

Open(kind, r) ==
  /\ NoDialog
  /\ dialog' = kind /\ chosen' = r
  /\ UNCHANGED <<screen, formVars, invite, created, edits>>

Cancel(kind) ==
  /\ dialog = kind /\ dialog' = "none"
  /\ UNCHANGED <<screen, formVars, chosen, invite, created, edits>>

Confirm(kind) ==
  /\ dialog = kind /\ dialog' = "none" /\ chosen' = NoRow
  /\ UNCHANGED <<screen, formVars, invite, created, edits>>

(* Mutant: choosing a provider does not count as a change.                 *)
Choose_Unmarked(p, marks) ==
  /\ NoDialog /\ NewEdit
  /\ provider' = p /\ config' = Defaults(p)
  /\ test' = [test EXCEPT !.result = "none"]
  /\ save' = Touched
  /\ UNCHANGED <<screen, changed, dialogVars, invite, created>>

(* Mutant: choosing a provider keeps what was typed for the other one.     *)
Choose_KeepsConfig(p, marks) ==
  /\ NoDialog /\ NewEdit
  /\ provider' = p /\ changed' = (changed \/ marks)
  /\ test' = [test EXCEPT !.result = "none"]
  /\ save' = Touched
  /\ UNCHANGED <<screen, config, dialogVars, invite, created>>

(* A provider brings its values and removes the result of a test.          *)
Choose(p, marks) ==
  /\ NoDialog /\ NewEdit
  /\ provider' = p /\ config' = Defaults(p) /\ changed' = (changed \/ marks)
  /\ test' = [test EXCEPT !.result = "none"]
  /\ save' = Touched
  /\ UNCHANGED <<screen, dialogVars, invite, created>>

(* Fields are edited.  Okta and another provider have one for the issuer.  *)
UpdateConfig ==
  /\ NoDialog /\ NewEdit
  /\ \E issuer \in {config.issuer} \cup (IF provider \in {"okta", "other"} THEN {"typed", "none"} ELSE {}) :
       config' = [config EXCEPT !.edit = edits', !.issuer = issuer]
  /\ changed' = TRUE
  /\ save' = Touched
  /\ UNCHANGED <<screen, provider, test, dialogVars, invite, created>>

(* A secret of at least eight characters; a shorter one is refused.        *)
ConfirmChangeSecret ==
  /\ dialog = "secret" /\ dialog' = "none"
  /\ NewEdit
  /\ config' = [config EXCEPT !.edit = edits']
  /\ changed' = TRUE
  /\ save' = Touched
  /\ UNCHANGED <<screen, provider, test, chosen, invite, created>>

(* The button discards what the page knows to be changed.                  *)
Discard(shown) ==
  /\ NoDialog /\ changed
  /\ provider' = "google" /\ config' = Defaults("google") /\ changed' = FALSE
  /\ test' = shown
  /\ UNCHANGED <<screen, save, dialogVars, invite, created, edits>>

(* Another provider starts without a client and a secret.                  *)
HandleTestConnection ==
  /\ NoDialog /\ ~test.busy
  /\ provider = "other" => config.edit # 0
  /\ test' = [busy |-> TRUE, of |-> provider, result |-> "none"]
  /\ UNCHANGED <<screen, provider, config, changed, save, dialogVars, invite, created, edits>>

(* The timer of the test reports on the provider that it was started for.  *)
Tested ==
  /\ test.busy
  /\ test' = [test EXCEPT !.busy = FALSE, !.of = "none", !.result = test.of]
  /\ UNCHANGED <<screen, provider, config, changed, save, dialogVars, invite, created, edits>>

StartSave ==
  /\ changed /\ ~save.busy
  /\ save' = [save EXCEPT !.busy = TRUE, !.values = config, !.payload = Payload, !.late = FALSE]

(* The form is marked as saved, whatever was typed meanwhile.              *)
Saved(marked, asked) ==
  /\ save.busy
  /\ save' = [save EXCEPT !.busy = FALSE, !.payload = NotAsked, !.kept = save.values]
  /\ changed' = marked /\ created' = asked
  /\ UNCHANGED <<screen, provider, config, test, dialogVars, invite, edits>>
-----------------------------------------------------------------------------
(* The organisation, as a tab of the settings and as the page that the     *)
(* profile leads to.  Changes are found by comparison with what the page   *)
(* starts with, before and after a save.                                   *)

EditOrganisation ==
  /\ NoDialog /\ NewEdit
  /\ \E e \in {0, edits'} : config' = [config EXCEPT !.edit = e]
  /\ changed' = (config'.edit # 0)
  /\ save' = Touched
  /\ UNCHANGED <<screen, provider, test, dialogVars, invite, created>>

AskSave == changed /\ ~save.busy /\ Open("save", NoRow)

ConfirmSave ==
  /\ dialog = "save" /\ dialog' = "none"
  /\ StartSave
  /\ UNCHANGED <<screen, provider, config, changed, test, chosen, invite, created, edits>>

OrganisationFields  == EditOrganisation
OrganisationButtons == AskSave \/ Discard(test)
OrganisationDialog  == Cancel("save") \/ ConfirmSave
OrganisationSaved   == Saved(changed, created)

OrganisationTab ==
  /\ screen = "organisation"
  /\ OrganisationFields \/ OrganisationButtons \/ OrganisationDialog \/ OrganisationSaved

ProfileFields  == EditOrganisation
ProfileButtons == AskSave \/ Discard(test)
ProfileDialog  == Cancel("save") \/ ConfirmSave
ProfileSaved   == Saved(changed, created)

ProfilePage ==
  screen = "profile" /\ (ProfileFields \/ ProfileButtons \/ ProfileDialog \/ ProfileSaved)
-----------------------------------------------------------------------------
(* The identity provider, as a tab of the settings: choosing a provider    *)
(* counts as a change, and discarding leaves the result of a test.         *)

IdentityChoice == \E p \in Providers \ {provider} : Choose(p, TRUE)
IdentityFields == UpdateConfig \/ Open("secret", NoRow)
IdentityTest   == HandleTestConnection \/ Tested
IdentitySecret == Cancel("secret") \/ ConfirmChangeSecret

(* The call succeeds, or fails before or after the control plane did it.   *)
SaveIdentity ==
  \/ Saved(FALSE, save.payload)
  \/ /\ save.busy
     /\ save' = [save EXCEPT !.busy = FALSE, !.payload = NotAsked, !.values = save.kept]
     /\ created' \in {created, save.payload}
     /\ UNCHANGED <<screen, provider, config, changed, test, dialogVars, invite, edits>>

IdentityButtons ==
  \/ Discard(test)
  \/ /\ NoDialog /\ StartSave
     /\ UNCHANGED <<screen, provider, config, changed, test, dialogVars, invite, created, edits>>

IdentityTab ==
  /\ screen = "identity"
  /\ \/ IdentityChoice \/ IdentityFields \/ IdentityTest \/ IdentitySecret
     \/ SaveIdentity \/ IdentityButtons
-----------------------------------------------------------------------------
(* The page of its own loads the values of a provider in an effect: a      *)
(* choice is not a change, discarding removes the result of a test when    *)
(* the provider changes, and saving is a timer.                            *)

ProviderChoice == \E p \in Providers \ {provider} : Choose(p, FALSE)
ProviderFields == UpdateConfig \/ Open("secret", NoRow)
ProviderTest   == HandleTestConnection \/ Tested
ProviderSecret == Cancel("secret") \/ ConfirmChangeSecret
SaveProvider   == Saved(FALSE, created)

ProviderButtons ==
  \/ Discard(IF provider = "google" THEN test ELSE [test EXCEPT !.result = "none"])
  \/ /\ NoDialog /\ StartSave
     /\ UNCHANGED <<screen, provider, config, changed, test, dialogVars, invite, created, edits>>

ProviderPage ==
  /\ screen = "provider"
  /\ \/ ProviderChoice \/ ProviderFields \/ ProviderTest \/ ProviderSecret
     \/ SaveProvider \/ ProviderButtons
-----------------------------------------------------------------------------
(* The administrators.  An owner has no menu.                              *)

AdminMenu    == \E r \in Rows \ Owners : Open("role", r) \/ Open("remove", r)
RoleDialog   == Cancel("role") \/ Confirm("role")
RemoveDialog == Cancel("remove") \/ Confirm("remove")

OpenInvite ==
  /\ NoDialog
  /\ invite' = [invite EXCEPT !.open = TRUE]
  /\ UNCHANGED <<screen, formVars, dialogVars, created, edits>>

AdminsTab == screen = "admins" /\ (AdminMenu \/ RoleDialog \/ RemoveDialog \/ OpenInvite)

(* An address without an @ is refused.                                     *)
HandleSendInvite ==
  /\ invite.open /\ ~invite.sending
  /\ invite.email = "valid"
  /\ invite' = [invite EXCEPT !.sending = TRUE, !.timers = @ + 1]
  /\ UNCHANGED <<screen, formVars, dialogVars, created, edits>>

InviteForm ==
  /\ invite.open
  /\ \/ /\ NewEdit
        /\ \E e \in {"invalid", "valid"} \ {invite.email} : invite' = [invite EXCEPT !.email = e]
     \/ invite' = [NoInvite EXCEPT !.timers = invite.timers] /\ UNCHANGED edits
  /\ UNCHANGED <<screen, formVars, dialogVars, created>>

(* The timer closes the form, be it the one it was sent from or another    *)
(* that was opened since.  The form outlives its tab.                      *)
InviteSent ==
  /\ invite.timers > 0
  /\ invite' = [NoInvite EXCEPT !.timers = invite.timers - 1]
  /\ UNCHANGED <<screen, formVars, dialogVars, created, edits>>
-----------------------------------------------------------------------------
(* The users, and one of them with its sessions.                           *)

Show(s) == screen' = s /\ UNCHANGED <<formVars, invite, created, edits>>

(* The tabs of the page: only the users lead anywhere.                     *)
UserTabs ==
  /\ \/ screen = "users" /\ Show("groups")
     \/ screen = "groups" /\ Show("users")
  /\ UNCHANGED dialogVars

UserList     == screen = "users" /\ NoDialog /\ Show("user") /\ UNCHANGED dialogVars
HandleBack   == NoDialog /\ Show("users") /\ dialog' = "none" /\ chosen' = NoRow
UserSession  == \E r \in Rows : Open("session", r)
RevokeDialog == Cancel("session") \/ Confirm("session")

UserDetail == screen = "user" /\ (HandleBack \/ UserSession \/ RevokeDialog)

(* A tab starts afresh; the call of the tab that is left goes on.          *)
SelectTab ==
  /\ screen \in Tabs /\ NoDialog
  /\ screen' \in Tabs \ {screen}
  /\ provider' = "google" /\ config' = Defaults("google") /\ changed' = FALSE
  /\ save' = NoSave /\ test' = NoTest /\ dialog' = "none" /\ chosen' = NoRow
  /\ created' \in IF screen = "identity" /\ save.busy THEN {created, save.payload} ELSE {created}
  /\ UNCHANGED <<invite, edits>>
-----------------------------------------------------------------------------
Next ==
  \/ OrganisationTab \/ ProfilePage \/ IdentityTab \/ ProviderPage
  \/ AdminsTab \/ HandleSendInvite \/ InviteForm \/ InviteSent
  \/ UserTabs \/ UserList \/ UserDetail
  \/ SelectTab

Spec == Init /\ [][Next]_vars
-----------------------------------------------------------------------------
Values   == [of : Providers, edit : 0..MaxEdits, issuer : {"none", "okta", "typed"}]
Payloads == [type : Providers \cup {"none"}, issuer : {"none", "okta", "typed", "google", "entra"}]

(* Every variable holds a value of its kind.                               *)
TypeOK ==
  /\ screen \in Screens /\ provider \in Providers
  /\ config \in Values /\ changed \in BOOLEAN
  /\ save \in [busy : BOOLEAN, values : Values, payload : Payloads, kept : Values, late : BOOLEAN]
  /\ test \in [busy : BOOLEAN, of : Providers \cup {"none"}, result : Providers \cup {"none"}]
  /\ dialog \in {"none", "secret", "save", "role", "remove", "session"}
  /\ chosen \in Rows \cup {NoRow}
  /\ invite \in [open : BOOLEAN, email : {"none", "invalid", "valid"}, sending : BOOLEAN, timers : 0..MaxEdits]
  /\ created \in Payloads
  /\ edits \in 0..MaxEdits

(* A form of the settings that does not mark unsaved changes shows what it *)
(* started with or what was last saved, in whatever order providers are    *)
(* chosen, fields edited, and saves discarded, refused or answered; only   *)
(* what is edited while a save is under way may go unmarked.               *)
CleanMeansSaved ==
  screen \in {"organisation", "profile", "identity"} /\ ~changed /\ ~save.late
    => config \in {Defaults("google"), save.kept}

(* The control plane is never asked to trust, under the name of Google or  *)
(* Entra, an issuer that was typed for another provider.                   *)
IssuerOfProvider ==
  /\ created.type \in {"google", "entra"} => created.issuer = created.type
  /\ created.issuer \in Providers => created.issuer = created.type
=============================================================================
