----------------------------- MODULE ListPages -----------------------------
(***************************************************************************)
(* What the list pages of the web console have in common                   *)
(* (web-cp/src/views, web-cp/src/hooks, web-cp/src/services).              *)
(*                                                                         *)
(* A page shows the cached answer of a list query.  Its buttons open a     *)
(* confirmation dialog, a sheet that edits or re-enrols a row, or a form   *)
(* that creates one; each of them calls the control plane and invalidates  *)
(* the list when the call has succeeded.  Answers come when they come: the *)
(* page may have been refetched, closed or opened on another row.          *)
(*                                                                         *)
(* The control plane is the history of its rows: history[i] is what the    *)
(* rows were after i - 1 changes.  A query is answered with the index of   *)
(* the state it read; index 0 is "no data".                                *)
(***************************************************************************)
EXTENDS Naturals, Sequences, FiniteSets

CONSTANTS
  Units,       \* gateways, connectors, applications, policies, sessions or log entries
  NoUnit,      \* none of them
  Pages,       \* the pages that are looked at, among AllPages
  Chosen,      \* the units that a filter lets through
  Initially,   \* the rows that the control plane may start with
  MaxChanges,  \* bound: changes of the rows
  MaxCalls     \* bound: calls that change rows, and failures of calls and queries

Fleets    == {"gateways", "connectors"}
Filtered  == {"sessions", "logs"}
AllPages  == Fleets \cup Filtered \cup {"applications", "policies"}

VARIABLES
  page,     \* the page that is open
  history,  \* the rows of the control plane
  filter,   \* the filter of the page
  query,    \* the query cache: the lists by filter and the details by unit
  modal,    \* what is open in front of the page
  form,     \* the state of the page's own components, which its table's does not outlive
  call,     \* the calls that change rows
  expanded, \* the rows of the table that show their details
  owed,     \* history: for each list, the latest change that the console
            \* was told of while the list was shown
  faults    \* faults so far

vars == <<page, history, filter, query, modal, form, call, expanded, owed, faults>>
-----------------------------------------------------------------------------
(* The rows.                                                               *)

Status == {"absent", "pending", "up", "draining", "revoked"}
Now    == history[Len(history)]
Grown  == Len(history) - 1

(* What a change does to the status of a row.  Re-enrolment makes a new    *)
(* certificate wait for its program; an edited application stays as it is. *)
Effect(op, st) ==
  CASE op = "create" -> IF page \in Fleets THEN "pending" ELSE "up"
    [] op = "update" -> IF page \in Fleets THEN "pending" ELSE st
    [] op = "rotate" -> st
    [] op = "drain"  -> IF st = "revoked" THEN st ELSE "draining"
    [] op = "revoke" -> IF page \in Fleets THEN "revoked" ELSE "absent"
    [] op = "delete" -> "absent"

(* Revoking or deleting what is revoked or gone is an error.               *)
Refuses(op, st) == op \in {"revoke", "delete"} /\ st \in {"revoked", "absent"}

(* The queries: a list by its filter, a unit by its id.                    *)
Filters == {"all", "chosen"}
Keys    == Filters \cup Units
Listed(f) == IF f = "all" THEN Units ELSE Chosen

Indices   == 0..(MaxChanges + 1)
IdleQuery == [at |-> 0, err |-> FALSE, flight |-> "idle", read |-> 0]
NoModal   == [kind |-> "none", op |-> "none", unit |-> NoUnit, shown |-> NoUnit]
NewForm   == [token |-> NoUnit, busy |-> FALSE, public |-> FALSE, versions |-> NoUnit]
NoCall    == [at |-> "unused", op |-> "none", unit |-> NoUnit, live |-> FALSE, closes |-> FALSE]
CallIds   == 1..MaxCalls

(* isPending of an operation: its observer follows its latest call.        *)
UnderWay == {"sent", "done", "failed", "settling"}
Latest(op, c) == \A d \in CallIds : d > c => ~(call[d].live /\ call[d].op = op)
Pending(op) ==
  \E c \in CallIds : call[c].op = op /\ call[c].live /\ call[c].at \in UnderWay /\ Latest(op, c)
Used  == {c \in CallIds : call[c].at # "unused"}
Spare == Cardinality(Used) + faults < MaxCalls

(* The table or the cards of a page are there when there is data, and no   *)
(* error; they show the rows of the last answer.                           *)
TableShown == query[filter].at # 0 /\ ~query[filter].err
Shown(u)   == history[query[filter].at][u]
TableRows(p) == IF page = p /\ TableShown THEN {u \in Listed(filter) : Shown(u) # "absent"} ELSE {}
-----------------------------------------------------------------------------
(* The query cache.                                                        *)

(* Mutant: a fetch that starts anew keeps what the cancelled one had read. *)
Sent_KeepsRead(q) == [q EXCEPT !.flight = "sent"]

Sent(q) == [q EXCEPT !.flight = "sent", !.read = 0]

(* A fetch that is wanted while one is under way joins it.                 *)
Wanted(q) == IF q.flight = "idle" THEN Sent(q) ELSE q

(* Mutant: a refetch after a change joins the fetch that is under way.     *)
Refetched_Joins(q) == Wanted(q)

(* invalidateQueries on a query in use: what is under way is cancelled     *)
(* when there is data to show meanwhile, and joined otherwise.             *)
Refetched(q) == IF q.at # 0 THEN Sent(q) ELSE Wanted(q)

(* The queries in use: the list, the units whose program a sheet waits     *)
(* for, and the versions of the policy that were last looked at.           *)
Watched  == IF page \in Fleets THEN {form.token, modal.shown} \ {NoUnit} ELSE {}
Versions == {form.versions} \ {NoUnit}
Active   == {filter} \cup Watched \cup Versions
EnrolmentDone(u) == query[u].at # 0 /\ history[query[u].at][u] = "up"

(* The window gets the focus again: every query in use is refetched.       *)
Focus ==
  /\ \E k \in Active : query[k].flight = "idle"
  /\ query' = [k \in Keys |-> IF k \in Active THEN Wanted(query[k]) ELSE query[k]]
  /\ UNCHANGED <<page, history, filter, modal, form, call, expanded, owed, faults>>

ReadRows(k) ==
  /\ query[k].flight = "sent"
  /\ query' = [query EXCEPT ![k] = [@ EXCEPT !.flight = "read", !.read = Len(history)]]
  /\ UNCHANGED <<page, history, filter, modal, form, call, expanded, owed, faults>>

AnswerQuery(k) ==
  /\ query[k].flight = "read"
  /\ query' = [query EXCEPT ![k] = [IdleQuery EXCEPT !.at = query[k].read]]
  /\ UNCHANGED <<page, history, filter, modal, form, call, expanded, owed, faults>>

(* What belongs to the page stays when its table is gone, with the calls   *)
(* of its components; the rest is unmounted.                               *)
PageKinds    == {"none", "create", "warning", "versions"}
WithoutTable == [c \in CallIds |->
  IF call[c].op = "create" THEN call[c] ELSE [call[c] EXCEPT !.live = FALSE]]

(* A query fails for good.  The data stays (a sheet does not even look at  *)
(* the error), but a page whose list failed shows an error in place of its *)
(* table.                                                                  *)
FailQuery(k) ==
  /\ Spare
  /\ query[k].flight # "idle"
  /\ faults' = faults + 1
  /\ query' = [query EXCEPT ![k] = [IdleQuery EXCEPT !.at = query[k].at, !.err = k \in Filters]]
  /\ IF k = filter
       THEN /\ modal' = IF modal.kind \in PageKinds THEN modal ELSE NoModal
            /\ call' = WithoutTable /\ expanded' = {}
       ELSE UNCHANGED <<modal, call, expanded>>
  /\ UNCHANGED <<page, history, filter, form, owed>>

(* Another filter is another query, fetched anew even if it has data.      *)
SetFilter(f) ==
  /\ f # filter
  /\ modal = NoModal
  /\ filter' = f
  /\ query' = [query EXCEPT ![f] = Wanted(@)]
  /\ IF query[f].at # 0 /\ ~query[f].err THEN UNCHANGED <<call, expanded>>
     ELSE call' = WithoutTable /\ expanded' = {}
  /\ UNCHANGED <<page, history, modal, form, owed, faults>>
-----------------------------------------------------------------------------
(* Dialogs, sheets, forms and calls.                                       *)

(* A row of a table is clicked: it shows its details, or hides them.       *)
ToggleExpand(u) ==
  /\ modal = NoModal
  /\ expanded' = IF u \in expanded THEN expanded \ {u} ELSE expanded \cup {u}
  /\ UNCHANGED <<page, history, filter, query, modal, form, call, owed, faults>>

Open(kind, op, u) ==
  /\ modal = NoModal
  /\ modal' = [kind |-> kind, op |-> op, unit |-> u, shown |-> NoUnit]
  /\ UNCHANGED <<page, history, filter, query, form, call, expanded, owed, faults>>

Close(kind) ==
  /\ modal.kind = kind
  /\ modal' = NoModal
  /\ UNCHANGED <<page, history, filter, query, form, call, expanded, owed, faults>>

(* A call leaves.  closes: what the handler knew when it was pressed lets  *)
(* it close what is open on the answer.                                    *)
Start(op, u, closes) ==
  /\ Spare
  /\ Grown + Cardinality({c \in CallIds : call[c].at = "sent"}) < MaxChanges
  /\ call' = [call EXCEPT ![Cardinality(Used) + 1] =
                [at |-> "sent", op |-> op, unit |-> u, live |-> TRUE, closes |-> closes]]

Confirm(kind, closes) ==
  /\ modal.kind = kind
  /\ Start(modal.op, modal.unit, closes)
  /\ UNCHANGED <<page, history, filter, query, modal, form, expanded, owed, faults>>

(* A row that does not exist yet is asked for.                             *)
Create(u, closes) ==
  /\ Now[u] = "absent" /\ \A c \in Used : ~(call[c].op = "create" /\ call[c].unit = u)
  /\ Start("create", u, closes)
  /\ UNCHANGED <<page, history, filter, query, modal, expanded, owed, faults>>
-----------------------------------------------------------------------------
(* The control plane.                                                      *)

Commit(c) ==
  LET u == call[c].unit IN
  /\ call[c].at = "sent"
  /\ ~Refuses(call[c].op, Now[u])
  /\ history' = Append(history, [Now EXCEPT ![u] = Effect(call[c].op, @)])
  /\ call' = [call EXCEPT ![c].at = "done"]
  /\ UNCHANGED <<page, filter, query, modal, form, expanded, owed, faults>>

Refuse(c) ==
  /\ call[c].at = "sent"
  /\ \/ (Refuses(call[c].op, Now[call[c].unit]) /\ UNCHANGED faults)
     \/ (Spare /\ faults' = faults + 1)
  /\ call' = [call EXCEPT ![c].at = "failed"]
  /\ UNCHANGED <<page, history, filter, query, modal, form, expanded, owed>>
-----------------------------------------------------------------------------
(* The answers.                                                            *)

(* onSuccess of the hooks: the list is refetched, and what is cached under *)
(* its key; also is fetched because a sheet comes to wait for it.          *)
Invalidate(also) ==
  /\ query' = [k \in Keys |->
       IF k \in Active \ Versions THEN Refetched(query[k])
       ELSE IF k \in also THEN Wanted(query[k]) ELSE query[k]]
  /\ owed' = [owed EXCEPT ![filter] = IF query[filter].at # 0 THEN Len(history) ELSE @]

Over(c) == call' = [call EXCEPT ![c].at = "over"]

(* What an answer leaves open; the setters of a table that is gone do      *)
(* nothing.                                                                *)
ClosedBy(c, kinds) ==
  IF call[c].live /\ call[c].closes /\ modal.kind \in kinds THEN NoModal ELSE modal

(* A hook that returns the promise of its refetch keeps the call pending   *)
(* until that has ended, or another change has started it anew.            *)
AwaitRefetch(c) ==
  /\ call[c].at = "done"
  /\ Invalidate({})
  /\ call' = [call EXCEPT ![c].at = "settling"]
  /\ UNCHANGED <<page, history, filter, modal, form, expanded, faults>>

Settled(c) ==
  /\ call[c].at = "settling"
  /\ query[filter].flight = "idle" \/ \E d \in CallIds \ {c} : call[d].at = "settling"

AnswerFailed(c) ==
  /\ call[c].at = "failed"
  /\ Over(c)
  /\ form' = IF call[c].op = "create" THEN [form EXCEPT !.busy = FALSE] ELSE form
  /\ UNCHANGED <<page, history, filter, query, modal, expanded, owed, faults>>
=============================================================================
