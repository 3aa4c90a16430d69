---------------------------- MODULE RecordPages ----------------------------
(***************************************************************************)
(* The pages of the applications, the policies, the active sessions and    *)
(* the access log (web-cp/src/views/applications, policies, sessions and   *)
(* logs).                                                                  *)
(***************************************************************************)
EXTENDS ListPages

-----------------------------------------------------------------------------
(* Applications.                                                           *)

ApplicationRows == TableRows("applications")

ExpandApplication(u) == u \in ApplicationRows /\ ToggleExpand(u)

ApplicationDetails == ApplicationRows \cap expanded

(* The details of a row offer to edit it; the button that should delete it *)
(* remembers the row and opens nothing.                                    *)
OpenApplicationSheet(u) ==
  u \in ApplicationDetails /\ Open("sheet", "update", u)

ApplicationSheet == IF Pending("update") THEN "busy" ELSE "fields"

(* The two buttons wait for the answer; so does the way out.               *)
SheetButtons == page = "applications" /\ ApplicationSheet = "fields"

CloseApplicationSheet == SheetButtons /\ Close("sheet")

SaveApplication == SheetButtons /\ Confirm("sheet", TRUE)

(* The form belongs to the page and keeps its fields when it is closed.    *)
OpenApplicationForm == page = "applications" /\ Open("create", "create", NoUnit)

CloseApplicationForm == page = "applications" /\ Close("create")

ApplicationForm == IF Pending("create") THEN "busy" ELSE "fields"

CreateApplication(u) ==
  /\ page = "applications" /\ modal.kind = "create"
  /\ ApplicationForm = "fields"
  /\ Create(u, TRUE)
  /\ UNCHANGED form

(* An application that is to be public is warned about; the form makes way *)
(* for the warning.                                                        *)
ChooseVisibility(public) ==
  /\ page = "applications" /\ modal.kind = "create"
  /\ public # form.public
  /\ form' = [form EXCEPT !.public = public]
  /\ modal' = IF public THEN [NoModal EXCEPT !.kind = "warning"] ELSE modal
  /\ UNCHANGED <<page, history, filter, query, call, expanded, owed, faults>>

(* A warning that is understood brings the form back; one that is          *)
(* cancelled leaves the choice in the form that it had closed.             *)
AnswerWarning ==
  /\ modal.kind = "warning"
  /\ modal' \in {NoModal, [NoModal EXCEPT !.kind = "create", !.op = "create"]}
  /\ UNCHANGED <<page, history, filter, query, form, call, expanded, owed, faults>>

(* The answer closes the form, or the sheet, that it came for.             *)
ApplicationAnswer(c) ==
  /\ page = "applications"
  /\ call[c].at = "done"
  /\ Invalidate({})
  /\ Over(c)
  /\ modal' = ClosedBy(c, IF call[c].op = "create" THEN {"create"} ELSE {"sheet"})
  /\ UNCHANGED <<page, history, filter, form, expanded, faults>>

ApplicationPage ==
  \/ \E u \in Units : ExpandApplication(u) \/ OpenApplicationSheet(u) \/ CreateApplication(u)
  \/ CloseApplicationSheet \/ SaveApplication \/ OpenApplicationForm \/ CloseApplicationForm
  \/ \E public \in BOOLEAN : ChooseVisibility(public)
  \/ AnswerWarning
  \/ \E c \in CallIds : ApplicationAnswer(c)
-----------------------------------------------------------------------------
(* Policies.                                                               *)

PolicyRows == TableRows("policies")

ViewPolicy(u) == u \in PolicyRows /\ Open("view", "none", u)

ClosePolicy == page = "policies" /\ Close("view")

DeletePolicy(u) == u \in PolicyRows /\ Open("dialog", "delete", u)

(* Nothing keeps the dialog from being closed, or confirmed again, while   *)
(* its call is under way.                                                  *)
ClosePolicyDialog == page = "policies" /\ Close("dialog")

ConfirmDelete == page = "policies" /\ Confirm("dialog", TRUE)

(* The versions of a policy are another query, which stays in use when the *)
(* sheet that shows them is closed.                                        *)
ViewVersionHistory(u) ==
  /\ u \in PolicyRows
  /\ modal = NoModal
  /\ modal' = [NoModal EXCEPT !.kind = "versions", !.unit = u]
  /\ form' = [form EXCEPT !.versions = u]
  /\ query' = IF u = form.versions THEN query ELSE [query EXCEPT ![u] = Wanted(@)]
  /\ UNCHANGED <<page, history, filter, call, expanded, owed, faults>>

VersionHistory == IF modal.kind = "versions" THEN 1..query[modal.unit].at ELSE {}

(* A version that is looked at covers the others.                          *)
ViewVersion ==
  /\ VersionHistory # {} /\ modal.op = "none"
  /\ modal' = [modal EXCEPT !.op = "version"]
  /\ UNCHANGED <<page, history, filter, query, form, call, expanded, owed, faults>>

CloseVersion ==
  /\ modal.op = "version"
  /\ modal' = [modal EXCEPT !.op = "none"]
  /\ UNCHANGED <<page, history, filter, query, form, call, expanded, owed, faults>>

CloseVersionHistory == page = "policies" /\ modal.op = "none" /\ Close("versions")

(* The dialog is closed, be it that of another policy by then, and the     *)
(* policy of the view is forgotten.                                        *)
Deleted(c) ==
  /\ page = "policies"
  /\ Settled(c)
  /\ Over(c)
  /\ modal' = IF call[c].live /\ modal.kind = "view"
                THEN [modal EXCEPT !.unit = NoUnit] ELSE ClosedBy(c, {"dialog"})
  /\ UNCHANGED <<page, history, filter, query, form, expanded, owed, faults>>

PolicyPage ==
  \/ \E u \in Units : ViewPolicy(u) \/ DeletePolicy(u) \/ ViewVersionHistory(u)
  \/ ClosePolicy \/ ClosePolicyDialog \/ ConfirmDelete
  \/ ViewVersion \/ CloseVersion \/ CloseVersionHistory
  \/ \E c \in CallIds : (page = "policies" /\ AwaitRefetch(c)) \/ Deleted(c)
-----------------------------------------------------------------------------
(* Sessions.                                                               *)

SessionRows == TableRows("sessions")

HandleRevokeClick(u) == u \in SessionRows /\ Open("dialog", "revoke", u)

CloseSessionDialog == page = "sessions" /\ Close("dialog")

ConfirmRevoke == page = "sessions" /\ Confirm("dialog", TRUE)

SessionFilters(f) == page = "sessions" /\ SetFilter(f)

Revoked(c) ==
  /\ page = "sessions"
  /\ Settled(c)
  /\ Over(c)
  /\ modal' = ClosedBy(c, {"dialog"})
  /\ UNCHANGED <<page, history, filter, query, form, expanded, owed, faults>>

SessionPage ==
  \/ \E u \in Units : HandleRevokeClick(u)
  \/ CloseSessionDialog \/ ConfirmRevoke
  \/ \E f \in Filters : SessionFilters(f)
  \/ \E c \in CallIds : (page = "sessions" /\ AwaitRefetch(c)) \/ Revoked(c)
-----------------------------------------------------------------------------
(* The access log, which is only read.                                     *)

LogRows == TableRows("logs")

ExpandLog(u) == u \in LogRows /\ ToggleExpand(u)

LogFilters(f) == page = "logs" /\ SetFilter(f)

(* A gateway has a request logged.                                         *)
Logged(u) ==
  /\ page = "logs"
  /\ Now[u] = "absent"
  /\ Grown < MaxChanges
  /\ history' = Append(history, [Now EXCEPT ![u] = "up"])
  /\ UNCHANGED <<page, filter, query, modal, form, call, expanded, owed, faults>>

LogPage ==
  \/ \E f \in Filters : LogFilters(f)
  \/ \E u \in Units : ExpandLog(u) \/ Logged(u)
=============================================================================
