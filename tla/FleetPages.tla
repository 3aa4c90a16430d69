---------------------------- MODULE FleetPages ----------------------------
(***************************************************************************)
(* The pages of the gateways and of the connectors                         *)
(* (web-cp/src/views/gateways, web-cp/src/views/connectors).               *)
(*                                                                         *)
(* Both enrol programs: a form asks for a new row and then shows a token,  *)
(* a sheet re-enrols a row and then shows commands, and each waits, by     *)
(* polling the detail of the row, for the program to connect.              *)
(***************************************************************************)
EXTENDS ListPages

(* What a form or a sheet shows, and offers, as its enrolment goes on.     *)
Stage(token, busy) ==
  IF token = NoUnit THEN IF busy THEN "busy" ELSE "fields"
  ELSE IF EnrolmentDone(token) THEN "connected" ELSE "waiting"

(* The answer to a new row: the form shows its token, even if it was       *)
(* closed, or opened again, since.  The control plane generates a token    *)
(* for each row it creates, and its answer has it: the branch that closes  *)
(* the form of a row without one is never taken.                           *)
Enrolled(c) ==
  /\ call[c].at = "done" /\ call[c].op = "create"
  /\ Invalidate({call[c].unit})
  /\ Over(c)
  /\ form' = [form EXCEPT !.token = call[c].unit, !.busy = FALSE]
  /\ UNCHANGED <<page, history, filter, modal, expanded, faults>>

(* The answer to a re-enrolment: the sheet shows the commands.             *)
Reenrolled(c) ==
  /\ call[c].at = "done" /\ call[c].op = "update"
  /\ Invalidate({call[c].unit})
  /\ Over(c)
  /\ modal' = IF call[c].live /\ modal.kind = "sheet"
                THEN [modal EXCEPT !.shown = call[c].unit] ELSE modal
  /\ UNCHANGED <<page, history, filter, form, expanded, faults>>

(* The answer to an action that was confirmed in a dialog: it closes the   *)
(* dialog and forgets the row, which a sheet would be about as well.       *)
Acted(c) ==
  /\ call[c].at = "done" /\ call[c].op \notin {"create", "update"}
  /\ Invalidate({})
  /\ Over(c)
  /\ modal' = IF modal.kind = "sheet" /\ call[c].live /\ call[c].closes
                THEN [modal EXCEPT !.unit = NoUnit] ELSE ClosedBy(c, {"dialog"})
  /\ UNCHANGED <<page, history, filter, form, expanded, faults>>

(* A form that is closed starts anew.                                      *)
CloseForm ==
  /\ modal.kind = "create"
  /\ modal' = NoModal
  /\ form' = NewForm
  /\ UNCHANGED <<page, history, filter, query, call, expanded, owed, faults>>

(* The program of a row connects: its heartbeat makes the row healthy.     *)
Heartbeat(u) ==
  /\ page \in Fleets
  /\ Now[u] = "pending"
  /\ Grown + Cardinality({c \in CallIds : call[c].at = "sent"}) < MaxChanges
  /\ history' = Append(history, [Now EXCEPT ![u] = "up"])
  /\ UNCHANGED <<page, filter, query, modal, form, call, expanded, owed, faults>>
-----------------------------------------------------------------------------
(* Polling: the list of a fleet every ten seconds, and a detail every      *)
(* three until its program is up.                                          *)

(* Mutant: the detail is no longer fetched once there is an answer.        *)
GatewayPolls_Once(k) == IF k \in Filters THEN TRUE ELSE query[k].at = 0

GatewayPolls(k) == IF k \in Filters THEN TRUE ELSE ~EnrolmentDone(k)

ConnectorPolls(k) == IF k \in Filters THEN TRUE ELSE ~EnrolmentDone(k)

Poll(k) ==
  /\ k \in Active
  /\ \/ page = "gateways" /\ GatewayPolls(k)
     \/ page = "connectors" /\ ConnectorPolls(k)
  /\ query[k].flight = "idle"
  /\ query' = [query EXCEPT ![k] = Sent(@)]
  /\ UNCHANGED <<page, history, filter, modal, form, call, expanded, owed, faults>>
-----------------------------------------------------------------------------
(* Gateways.                                                               *)

GatewayCards == TableRows("gateways")

(* The buttons of a card.                                                  *)
GatewayActions(st) ==
  (IF st = "up" THEN {"rotate"} ELSE {}) \cup (IF st # "revoked" THEN {"drain", "revoke"} ELSE {})

OpenGatewayDialog(u) ==
  /\ u \in GatewayCards
  /\ \E op \in GatewayActions(Shown(u)) : Open("dialog", op, u)

(* A dialog that asks for a drain may be confirmed again.                  *)
GatewayDialog ==
  IF Pending("rotate") \/ Pending("revoke") THEN "busy" ELSE "open"

(* Mutant: the dialog may be closed while a gateway is asked to drain.     *)
GatewayDialogStays_NoDrain == Pending("rotate") \/ Pending("revoke")

GatewayDialogStays == Pending("rotate") \/ Pending("revoke") \/ Pending("drain")

CloseGatewayDialog == page = "gateways" /\ ~GatewayDialogStays /\ Close("dialog")

ConfirmGatewayAction ==
  page = "gateways" /\ GatewayDialog = "open" /\ Confirm("dialog", ~GatewayDialogStays)

(* The button of a card waits for the last re-enrolment.                   *)
OpenGatewaySheet(u) ==
  u \in GatewayCards /\ ~Pending("update") /\ Open("sheet", "update", u)

GatewaySheet == Stage(modal.shown, Pending("update"))

CloseGatewaySheet == page = "gateways" /\ ~Pending("update") /\ Close("sheet")

ReenrollGateway ==
  page = "gateways" /\ GatewaySheet = "fields" /\ modal.unit # NoUnit /\ Confirm("sheet", FALSE)

OpenGatewayForm == page = "gateways" /\ Open("create", "create", NoUnit)

GatewayForm == Stage(form.token, form.busy)

CloseGatewayForm == page = "gateways" /\ CloseForm

CreateGateway(u) ==
  /\ page = "gateways" /\ modal.kind = "create"
  /\ GatewayForm = "fields"
  /\ Create(u, FALSE)
  /\ form' = [form EXCEPT !.busy = TRUE]

GatewayAnswer(c) == page = "gateways" /\ (Enrolled(c) \/ Reenrolled(c) \/ Acted(c))

GatewayPage ==
  \/ \E u \in Units : OpenGatewayDialog(u) \/ OpenGatewaySheet(u) \/ CreateGateway(u)
  \/ CloseGatewayDialog \/ ConfirmGatewayAction \/ CloseGatewaySheet \/ ReenrollGateway
  \/ OpenGatewayForm \/ CloseGatewayForm
  \/ \E c \in CallIds : GatewayAnswer(c)
-----------------------------------------------------------------------------
(* Connectors.                                                             *)

ConnectorRows == TableRows("connectors")

ExpandConnector(u) == u \in ConnectorRows /\ ToggleExpand(u)

ConnectorDetails == ConnectorRows \cap expanded

(* The buttons in the details of a row.                                    *)
ConnectorActions(st) ==
  (IF st = "up" THEN {"rotate"} ELSE {}) \cup (IF st # "revoked" THEN {"revoke"} ELSE {})

OpenConnectorDialog(u) ==
  /\ u \in ConnectorDetails
  /\ \E op \in ConnectorActions(Shown(u)) : Open("dialog", op, u)

(* A dialog that asks for a revocation may be confirmed again.             *)
ConnectorDialog == IF Pending("rotate") THEN "busy" ELSE "open"

ConnectorDialogStays == Pending("rotate") \/ Pending("revoke")

CloseConnectorDialog == page = "connectors" /\ ~ConnectorDialogStays /\ Close("dialog")

ConfirmConnectorAction ==
  page = "connectors" /\ ConnectorDialog = "open" /\ Confirm("dialog", ~ConnectorDialogStays)

OpenConnectorSheet(u) ==
  u \in ConnectorDetails /\ Open("sheet", "update", u)

ConnectorSheet == Stage(modal.shown, Pending("update"))

(* Mutant: the sheet may be closed while it waits for an answer.           *)
CloseConnectorSheet_Pending == page = "connectors" /\ Close("sheet")

CloseConnectorSheet == page = "connectors" /\ ~Pending("update") /\ Close("sheet")

ReenrollConnector ==
  page = "connectors" /\ ConnectorSheet = "fields" /\ modal.unit # NoUnit /\ Confirm("sheet", FALSE)

OpenConnectorForm == page = "connectors" /\ Open("create", "create", NoUnit)

ConnectorForm == Stage(form.token, form.busy)

CloseConnectorForm == page = "connectors" /\ CloseForm

(* The button is there until there is a token, and enabled between calls.  *)
GenerateToken == ConnectorForm = "fields"

CreateConnector(u) ==
  /\ page = "connectors" /\ modal.kind = "create"
  /\ GenerateToken
  /\ Create(u, FALSE)
  /\ form' = [form EXCEPT !.busy = TRUE]

ConnectorAnswer(c) == page = "connectors" /\ (Enrolled(c) \/ Reenrolled(c) \/ Acted(c))

ConnectorPage ==
  \/ \E u \in Units :
       ExpandConnector(u) \/ OpenConnectorDialog(u) \/ OpenConnectorSheet(u) \/ CreateConnector(u)
  \/ CloseConnectorDialog \/ ConfirmConnectorAction \/ CloseConnectorSheet \/ ReenrollConnector
  \/ OpenConnectorForm \/ CloseConnectorForm
  \/ \E c \in CallIds : ConnectorAnswer(c)
=============================================================================
