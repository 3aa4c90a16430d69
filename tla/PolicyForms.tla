---------------------------- MODULE PolicyForms ----------------------------
(***************************************************************************)
(* The pages of the web console that create and update an access policy    *)
(* (web-cp/src/views/policy-create, policy-update).                        *)
(*                                                                         *)
(* The page that updates a policy fills its form from the query            *)
(* ["policy", id] each time that the answer differs from the last one.  A  *)
(* success does not invalidate that query: the next visit starts from what *)
(* this one had read, and corrects it when the refetch is answered.        *)
(*                                                                         *)
(* Others, on this page or through the API, may store what no form sends:  *)
(* the control plane decodes a request and does not validate it.  It also  *)
(* refuses fields it does not know, and both forms send two with a time    *)
(* condition: no request that has one is carried out.                      *)
(***************************************************************************)
EXTENDS Naturals

CONSTANTS
  Kinds,       \* the kinds of conditions that are looked at
  Parts,       \* the required parts that are looked at
  Contents,    \* the parts and the conditions that others give to the policy
  MaxVersions, \* bound: versions of the policy, the first of which is gone
  MaxFaults,   \* bound: failed calls and queries
  MaxEdits     \* bound: edits of the form, by page

AllKinds == {"mfa", "device", "network", "time"}
AllParts == {"name", "subjects", "resources"}

(* What a condition of a policy may be, and what a form may hold for it.    *)
(* Two settings, a level or lists of networks or tags or a schedule, are    *)
(* told apart.  A lax condition has a setting but lets more through than    *)
(* the page does by default: an optional second factor, networks with Tor.  *)
(* A device condition may be there without postures, and asks for nothing.  *)
Absent   == "none"
Settings == {"usual", "other"}
Lax      == {"lax usual", "lax other"}
Values   == Settings \cup Lax \cup {"empty"}

Policy   == [version : 1..MaxVersions, parts : SUBSET Parts, cond : [Kinds -> Values \cup {Absent}]]
NoPolicy == [version |-> 0, parts |-> {}, cond |-> [k \in Kinds |-> Absent]]
Nothing  == [missing |-> {}, cond |-> NoPolicy.cond]

VARIABLES
  screen,   \* the page that is open
  row,      \* the policy in the control plane
  query,    \* the query ["policy", id]
  form,     \* the fields
  touched,  \* history: the conditions edited since the form was last filled
  before,   \* history: the conditions that were on when it was filled again
  summary,  \* the dialog that shows what will be sent
  call,     \* the call that creates or updates the policy
  payload,  \* what the call has sent
  faults,   \* faults so far
  edits     \* edits so far

vars == <<screen, row, query, form, touched, before, summary, call, payload, faults, edits>>
-----------------------------------------------------------------------------
(* The form.                                                               *)

(* A device condition starts without postures; the others have a default.  *)
EmptyForm ==
  [filled |-> {}, on |-> {}, value |-> [k \in Kinds |-> IF k = "device" THEN "empty" ELSE "usual"]]

(* The page has no field for a second factor that is optional, and reads a  *)
(* block_tor that is left out, which is how the control plane says false,   *)
(* as true.                                                                 *)
Strict(v) == CASE v = "lax usual" -> "usual" [] v = "lax other" -> "other" [] OTHER -> v

(* Mutant: the conditions are switched on and keep their default values.    *)
Filled_Defaults(f, p) ==
  [f EXCEPT !.filled = p.parts, !.on = @ \cup {k \in Kinds : p.cond[k] # Absent}]

(* The effect that fills the form: it switches conditions on and never off, *)
(* and empties what the policy does not have.                               *)
Filled(f, p) ==
  [filled |-> p.parts,
   on     |-> f.on \cup {k \in Kinds : p.cond[k] # Absent},
   value  |-> [k \in Kinds |-> IF p.cond[k] # Absent THEN Strict(p.cond[k]) ELSE f.value[k]]]

(* buildPayload: what is sent for a condition, a device condition without   *)
(* postures being left out.  A list of subjects or resources that is empty  *)
(* is sent as the group "everyone" or the application "*".                  *)
Sent(f, k)   == IF k \in f.on /\ f.value[k] # "empty" THEN f.value[k] ELSE Absent
BuildPayload == [missing |-> Parts \ form.filled, cond |-> [k \in Kinds |-> Sent(form, k)]]

(* DecodeJSON refuses it: the form adds a time zone and rules.              *)
UnknownFields == "time" \in Kinds /\ payload.cond["time"] # Absent

(* An update replaces the name and every condition; a request that has no   *)
(* subjects or resources leaves those of the policy.                        *)
Updated(parts, cond) ==
  [version |-> row.version + 1, parts |-> parts \cup (row.parts \ {"name"}), cond |-> cond]

Stored(v) == {[version |-> v, parts |-> c.parts, cond |-> c.cond] : c \in Contents}

Init ==
  /\ screen \in {"create", "update"}
  /\ row \in Stored(2)
  /\ \E seen \in {NoPolicy} \cup {p \in Stored(1) : p.parts \ {"name"} \subseteq row.parts} :
       /\ query = [data |-> IF screen = "update" THEN seen ELSE NoPolicy,
                   flight |-> IF screen = "update" THEN "sent" ELSE "idle", read |-> NoPolicy]
       /\ form = IF query.data # NoPolicy THEN Filled(EmptyForm, query.data) ELSE EmptyForm
  /\ touched = {} /\ before = {}
  /\ summary = FALSE
  /\ call = "idle"
  /\ payload = Nothing
  /\ faults = 0 /\ edits = 0
-----------------------------------------------------------------------------
(* The query.                                                              *)

Focus ==
  /\ screen = "update" /\ query.flight = "idle"
  /\ query' = [query EXCEPT !.flight = "sent"]
  /\ UNCHANGED <<screen, row, form, touched, before, summary, call, payload, faults, edits>>

ReadPolicy ==
  /\ query.flight = "sent"
  /\ query' = [query EXCEPT !.flight = "read", !.read = row]
  /\ UNCHANGED <<screen, row, form, touched, before, summary, call, payload, faults, edits>>

Load(p) ==
  /\ form' = Filled(form, p)
  /\ touched' = {}
  /\ before' = form.on

(* Mutant: every answer fills the form.                                    *)
AnswerPolicy_Always ==
  /\ query.flight = "read"
  /\ query' = [data |-> query.read, flight |-> "idle", read |-> NoPolicy]
  /\ Load(query.read)
  /\ UNCHANGED <<screen, row, summary, call, payload, faults, edits>>

(* An answer that says what is known keeps the object, and the form.       *)
AnswerPolicy ==
  /\ query.flight = "read"
  /\ query' = [data |-> query.read, flight |-> "idle", read |-> NoPolicy]
  /\ IF query.read # query.data THEN Load(query.read) ELSE UNCHANGED <<form, touched, before>>
  /\ UNCHANGED <<screen, row, summary, call, payload, faults, edits>>

FailPolicy ==
  /\ query.flight # "idle"
  /\ faults < MaxFaults /\ faults' = faults + 1
  /\ query' = [query EXCEPT !.flight = "idle", !.read = NoPolicy]
  /\ UNCHANGED <<screen, row, form, touched, before, summary, call, payload, edits>>

(* Another administrator, or a program, updates the policy.                *)
OtherUpdate(content) ==
  /\ screen = "update"
  /\ row.version < MaxVersions
  /\ row' = Updated(content.parts, content.cond)
  /\ UNCHANGED <<screen, query, form, touched, before, summary, call, payload, faults, edits>>
-----------------------------------------------------------------------------
(* The fields, which the summary covers while it is open.                  *)

Editing ==
  /\ ~summary
  /\ edits < MaxEdits[screen] /\ edits' = edits + 1
  /\ UNCHANGED <<screen, row, query, before, summary, call, payload, faults>>

(* The name is typed or erased; subjects or resources are added until      *)
(* there are some, or removed until there is none.                         *)
EditPart(part) ==
  /\ part \in Parts
  /\ Editing
  /\ form' = [form EXCEPT !.filled = IF part \in @ THEN @ \ {part} ELSE @ \cup {part}]
  /\ UNCHANGED touched

(* A condition is switched on or off; or its level, tags or rules, which   *)
(* are there while it is on, are changed.                                  *)
EditCondition(k, values) ==
  /\ k \in Kinds
  /\ Editing
  /\ touched' = touched \cup {k}
  /\ \/ form' = [form EXCEPT !.on = IF k \in @ THEN @ \ {k} ELSE @ \cup {k}]
     \/ /\ k \in form.on
        /\ \E v \in values \ {form.value[k]} : form' = [form EXCEPT !.value[k] = v]

(* Mutant: a policy without subjects passes.                               *)
ShowSummary_AnySubject ==
  /\ ~summary
  /\ Parts \ {"subjects"} \subseteq form.filled
  /\ summary' = TRUE
  /\ UNCHANGED <<screen, row, query, form, touched, before, call, payload, faults, edits>>

ShowSummary ==
  /\ ~summary
  /\ form.filled = Parts
  /\ summary' = TRUE
  /\ UNCHANGED <<screen, row, query, form, touched, before, call, payload, faults, edits>>

CloseSummary ==
  /\ summary
  /\ summary' = FALSE
  /\ UNCHANGED <<screen, row, query, form, touched, before, call, payload, faults, edits>>

Confirm ==
  /\ summary /\ call = "idle"
  /\ call' = "sent"
  /\ payload' = BuildPayload
  /\ UNCHANGED <<screen, row, query, form, touched, before, summary, faults, edits>>

(* The summary is closed, be it another one than was confirmed; the page   *)
(* stays as it is.  An answer without a body is a success like any other.  *)
AnswerOk ==
  /\ call \in {"done", "void"}
  /\ call' = "idle"
  /\ summary' = FALSE
  /\ UNCHANGED <<screen, row, query, form, touched, before, payload, faults, edits>>

(* The call fails, or its answer is lost.                                  *)
Fail ==
  /\ call # "idle"
  /\ faults < MaxFaults /\ faults' = faults + 1
  /\ call' = "idle"
  /\ payload' = Nothing
  /\ UNCHANGED <<screen, row, query, form, touched, before, summary, edits>>
-----------------------------------------------------------------------------
(* The page that creates a policy: its sections, its summary and its call. *)

CreatePart(part)        == screen = "create" /\ EditPart(part)
CreateCondition(k, vs)  == screen = "create" /\ EditCondition(k, vs)

CreateGeneral   == CreatePart("name")
CreateSubjects  == CreatePart("subjects")
CreateResources == CreatePart("resources")
CreateMfa       == CreateCondition("mfa", Settings)
CreateDevice    == CreateCondition("device", Settings \cup {"empty"})
CreateNetwork   == CreateCondition("network", Settings \cup Lax)
CreateTime      == CreateCondition("time", Settings)

CreateSummary   == screen = "create" /\ CloseSummary
ValidateCreate  == screen = "create" /\ ShowSummary
ConfirmCreate   == screen = "create" /\ (Confirm \/ AnswerOk)

(* A policy that is created is none of the page's.                         *)
CommitCreate ==
  /\ screen = "create" /\ call = "sent"
  /\ ~UnknownFields
  /\ call' = "done"
  /\ payload' = Nothing
  /\ UNCHANGED <<screen, row, query, form, touched, before, summary, faults, edits>>

(* A request that cannot be decoded creates nothing, and the handler       *)
(* returns without an answer of its own: the server sends an empty 200.    *)
IgnoreCreate ==
  /\ screen = "create" /\ call = "sent"
  /\ UnknownFields
  /\ call' = "void"
  /\ payload' = Nothing
  /\ UNCHANGED <<screen, row, query, form, touched, before, summary, faults, edits>>

CreatePage ==
  \/ CreateGeneral \/ CreateSubjects \/ CreateResources
  \/ CreateMfa \/ CreateDevice \/ CreateNetwork \/ CreateTime
  \/ CreateSummary \/ ValidateCreate \/ ConfirmCreate \/ CommitCreate \/ IgnoreCreate
-----------------------------------------------------------------------------
(* The page that updates a policy.                                         *)

UpdatePart(part)       == screen = "update" /\ EditPart(part)
UpdateCondition(k, vs) == screen = "update" /\ EditCondition(k, vs)

UpdateGeneral   == UpdatePart("name")
UpdateSubjects  == UpdatePart("subjects")
UpdateResources == UpdatePart("resources")
UpdateMfa       == UpdateCondition("mfa", Settings)
UpdateDevice    == UpdateCondition("device", Settings \cup {"empty"})
UpdateNetwork   == UpdateCondition("network", Settings \cup Lax)
UpdateTime      == UpdateCondition("time", Settings)

UpdateSummary   == screen = "update" /\ CloseSummary
ValidateUpdate  == screen = "update" /\ ShowSummary
ConfirmUpdate   == screen = "update" /\ (Confirm \/ AnswerOk)

(* Whichever version the page had read.  The subjects and resources of the *)
(* request are never empty.                                                *)
CommitUpdate ==
  /\ screen = "update" /\ call = "sent"
  /\ ~UnknownFields
  /\ row.version < MaxVersions
  /\ row' = Updated(Parts \ (payload.missing \cap {"name"}), payload.cond)
  /\ call' = "done"
  /\ payload' = Nothing
  /\ UNCHANGED <<screen, query, form, touched, before, summary, faults, edits>>

(* A request that cannot be decoded is answered with an error.             *)
RefuseUpdate ==
  /\ screen = "update" /\ call = "sent"
  /\ UnknownFields
  /\ call' = "idle"
  /\ payload' = Nothing
  /\ UNCHANGED <<screen, row, query, form, touched, before, summary, faults, edits>>

UpdatePage ==
  \/ UpdateGeneral \/ UpdateSubjects \/ UpdateResources
  \/ UpdateMfa \/ UpdateDevice \/ UpdateNetwork \/ UpdateTime
  \/ UpdateSummary \/ ValidateUpdate \/ ConfirmUpdate \/ CommitUpdate \/ RefuseUpdate
-----------------------------------------------------------------------------
Next ==
  \/ CreatePage \/ UpdatePage \/ Fail
  \/ Focus \/ ReadPolicy \/ AnswerPolicy \/ FailPolicy
  \/ \E content \in Contents : OtherUpdate(content)

Spec == Init /\ [][Next]_vars
-----------------------------------------------------------------------------
Payloads == [missing : SUBSET Parts, cond : [Kinds -> Values \cup {Absent}]]

(* Every variable holds a value of its kind.                               *)
TypeOK ==
  /\ screen \in {"create", "update"}
  /\ row \in Policy
  /\ query \in [data : Policy \cup {NoPolicy}, flight : {"idle", "sent", "read"}, read : Policy \cup {NoPolicy}]
  /\ form \in [filled : SUBSET Parts, on : SUBSET Kinds, value : [Kinds -> Values]]
  /\ touched \subseteq Kinds /\ before \subseteq Kinds
  /\ summary \in BOOLEAN
  /\ call \in {"idle", "sent", "done", "void"}
  /\ payload \in Payloads
  /\ faults \in 0..MaxFaults /\ edits \in 0..MaxEdits[screen]

(* However often the policy is fetched again, and whoever changes it        *)
(* meanwhile, what the form would send for a condition that nobody edited   *)
(* is what the page has last read, and where it is not, it lets through no  *)
(* more: a lax condition is sent with its own setting but strict, and one   *)
(* that asks for nothing is left out.  Only a condition that an earlier     *)
(* answer or edit had switched on may come on top.                          *)
FormIsFaithful ==
  query.data # NoPolicy =>
    \A k \in Kinds \ touched :
      LET read == query.data.cond[k] IN
      \/ Sent(form, k) = read
      \/ read \in Lax /\ Sent(form, k) = Strict(read)
      \/ read = "empty" /\ Sent(form, k) = Absent
      \/ read = Absent /\ k \in before

(* "Everyone", "everything" or no name is only sent in place of what the    *)
(* policy, as the page last read it, does not have: a field that its user   *)
(* left or made empty never passes, whatever is answered behind the summary.*)
NothingByDefault ==
  [][payload'.missing # {} =>
       \/ payload' = payload
       \/ query.data # NoPolicy /\ payload'.missing = Parts \ query.data.parts]_vars

(* Fetching the policy again takes edits away only when it has changed.    *)
EditsSurviveRefetch ==
  [][touched # {} /\ touched' = {} => query'.data # query.data]_vars
=============================================================================
