--------------------------- MODULE ResourcePages ---------------------------
(***************************************************************************)
(* The list pages of the web console: the router mounts one of them.       *)
(***************************************************************************)
EXTENDS FleetPages, RecordPages

Init ==
  /\ page \in Pages
  /\ history \in {<<rows>> : rows \in Initially}
  /\ filter = "all"
  /\ query = [k \in Keys |-> IF k = "all" THEN Sent(IdleQuery) ELSE IdleQuery]
  /\ modal = NoModal
  /\ form = NewForm
  /\ call = [c \in CallIds |-> NoCall]
  /\ expanded = {}
  /\ owed = [f \in Filters |-> 0]
  /\ faults = 0

QueryStep(k) == ReadRows(k) \/ AnswerQuery(k)

Next ==
  \/ GatewayPage \/ ConnectorPage \/ ApplicationPage \/ PolicyPage \/ SessionPage \/ LogPage
  \/ Focus
  \/ \E k \in Keys : Poll(k) \/ QueryStep(k) \/ FailQuery(k)
  \/ \E c \in CallIds : Commit(c) \/ Refuse(c) \/ AnswerFailed(c)
  \/ \E u \in Units : Heartbeat(u)

Spec == Init /\ [][Next]_vars

(* Queries are answered, and intervals elapse.                             *)
Fairness == \A k \in Keys : WF_vars(QueryStep(k)) /\ WF_vars(Poll(k))
FairSpec == Spec /\ Fairness
-----------------------------------------------------------------------------
ModalKinds == {"none", "dialog", "sheet", "create", "warning", "view", "versions"}
Ops   == {"none", "create", "update", "rotate", "drain", "revoke", "delete"}

(* Every variable holds a value of its kind, and only a fetch that has     *)
(* been answered has read rows.                                            *)
TypeOK ==
  /\ page \in AllPages
  /\ history \in Seq([Units -> Status]) /\ Len(history) \in 1..(MaxChanges + 1)
  /\ filter \in Filters
  /\ query \in [Keys -> [at : Indices, err : BOOLEAN, flight : {"idle", "sent", "read"}, read : Indices]]
  /\ \A k \in Keys : query[k].read # 0 <=> query[k].flight = "read"
  /\ modal \in [kind : ModalKinds, op : Ops \cup {"version"},
                unit : Units \cup {NoUnit}, shown : Units \cup {NoUnit}]
  /\ form \in [token : Units \cup {NoUnit}, busy : BOOLEAN, public : BOOLEAN,
               versions : Units \cup {NoUnit}]
  /\ call \in [CallIds -> [at : {"unused", "over"} \cup UnderWay, op : Ops,
                           unit : Units \cup {NoUnit}, live : BOOLEAN, closes : BOOLEAN]]
  /\ expanded \subseteq Units
  /\ owed \in [Filters -> Indices]
  /\ faults \in Nat

(* The sheet that re-enrols a row never shows the commands of another row, *)
(* although its answer may come after the table was refetched or replaced. *)
SheetMatchesTarget ==
  modal.kind = "sheet" /\ modal.unit # NoUnit => modal.shown \in {NoUnit, modal.unit}

(* An action was confirmed while one of the same dialog was under way,     *)
(* which the guards of some actions allow.                                 *)
ConfirmedTwice ==
  \E d \in CallIds : call[d].op \notin {"none", "create", "update"} /\ ~call[d].closes

(* On the pages of the fleets and of the applications a dialog or a sheet  *)
(* is closed by the answer of an action on its own row only, however late  *)
(* an answer comes, unless an action was confirmed twice: from then on the *)
(* answers may be for dialogs that were closed by one another's.           *)
ClosedByOwnAnswer ==
  [][\A c \in CallIds :
       /\ GatewayAnswer(c) \/ ConnectorAnswer(c) \/ ApplicationAnswer(c)
       /\ modal.kind \in {"dialog", "sheet"} /\ modal' = NoModal
       => call[c].unit = modal.unit \/ (page \in Fleets /\ ConfirmedTwice)]_vars

(* Once the console was told that a change succeeded, the list it was      *)
(* showing comes to show that change, or an error: no fetch that read the  *)
(* rows before the change has the last word.                               *)
ListCatchesUp ==
  \A f \in Filters : (owed[f] > query[f].at) ~> (owed[f] <= query[f].at \/ query[f].err)

(* A sheet that waits for a program shows that it has connected, unless    *)
(* the sheet is closed or the row changes again.                           *)
EnrolmentSeen ==
  \A u \in Units :
    (u \in Watched /\ Now[u] = "up")
      ~> (EnrolmentDone(u) \/ u \notin Watched \/ Now[u] # "up")
=============================================================================
