--------------------------- MODULE GatewayEvents ---------------------------
(***************************************************************************)
(* Durable delivery of commands from the control plane (CP) to one         *)
(* gateway: the numbered event log and its acknowledgement cursor          *)
(* (internal/cp/events), the dispatcher's worker and the reconciliation of *)
(* a fresh control stream, the stream itself, and the gateway's stream     *)
(* manager, which runs one goroutine per message and acknowledges by       *)
(* number (internal/gateway/grpc_client/stream.go).                        *)
(*                                                                         *)
(* Gateways do not share any of this state, so one gateway is enough.      *)
(* A command's payload is abstracted to its number in the log.             *)
(***************************************************************************)
EXTENDS Naturals, Sequences, FiniteSets

CONSTANTS
  Commands,           \* the command types issued in a run
  SnapshotCommands,   \* CRL_SYNC and CONNECTOR_SYNC: complete states
  EarlyCommands,      \* acknowledged before their work is done
                      \* (ROTATE_GATEWAY_CERT, REVOKE_GATEWAY)
  FinalCommands,      \* those that end the process for good (REVOKE_GATEWAY)
  MaxSeq,             \* bound on the number of events
  QueueCap,           \* capacity of the gateway's sendCh
  FaultKinds,         \* which faults may happen
  MaxFaults           \* bound on the number of faults

ASSUME EventsAssumption ==
  /\ SnapshotCommands \subseteq Commands
  /\ EarlyCommands \subseteq Commands \ SnapshotCommands
  /\ FinalCommands \subseteq EarlyCommands
  /\ MaxSeq \in Nat /\ QueueCap \in Nat \ {0} /\ MaxFaults \in Nat
  /\ FaultKinds \subseteq {"break", "gatewayRestart", "cpRestart", "database"}

VARIABLES
  \* PostgreSQL
  log,        \* gateway_events: the command of every number allocated so far
  cursor,     \* gateway_events_acks.last_acked_seq
  barred,     \* the gateway is revoked, or its certificate is on the CRL
  \* control plane process
  owed,       \* requests that committed an event and have yet to call Wakeup
  wake,       \* the dispatcher's wake-up channel, of capacity 1, holds a token
  pc,         \* where the dispatcher's worker and the stream handler are
  stale,      \* the stream the worker got from the registry is not the current one
  from,       \* the cursor each of the two has read
  todo,       \* the events each of the two has still to send
  \* the control stream
  alive,      \* the newest stream accepted by the CP still works
  down,       \* numbers of the commands in flight to the gateway
  up,         \* numbers of the acknowledgements in flight to the CP
  \* gateway process
  session,    \* runSession is in its loops
  started,    \* goroutines per command that have not handled it yet
  acking,     \* goroutines per command about to queue the acknowledgement
  working,    \* goroutines per command with work left after that
  sendCh,     \* StreamManager.sendCh; it outlives a session
  applied,    \* per snapshot command, the number of the snapshot in memory
  \* bound and history
  faults,     \* faults so far
  received,   \* every number that recvLoop ever read
  handled,    \* numbers of which some handler ended, well or badly
  cut         \* numbers whose work the end of the process cut off

cpVars   == <<owed, wake, pc, stale, from, todo>>
netVars  == <<alive, down, up>>
procVars == <<started, acking, working, applied, handled, cut>>
vars     == <<log, cursor, barred, cpVars, netVars, session, procVars, sendCh, faults,
              received>>

(* The two goroutines of the CP that send events: the dispatcher's worker  *)
(* and the handler of the gateway's stream while it reconciles.            *)
Senders == {"worker", "handler"}
Seqs    == 1..MaxSeq

Promise == INSTANCE EventLog
             WITH log <- log, received <- received, cursor <- cursor
IsSnapshot(c) == Promise!IsSnapshot(c)
Superseded(s) == Promise!Superseded(s)
Covered(s)    == Promise!Covered(s)
Larger(m, n)  == Promise!Larger(m, n)

Least(s, S)         == s \in S /\ \A t \in S : s <= t

(* The registry holds a connection exactly while its handler runs: Connect *)
(* registers on entry and unregisters on return, and a second Connect is   *)
(* refused in between (OpenRefused).   *)
Registered == pc["handler"] # "idle"

(* conn.Send works while the stream the sender holds is the working one.   *)
Reachable(x) == alive /\ ~ (x = "worker" /\ stale)
-----------------------------------------------------------------------------
(* A gateway that was never connected, without events.                     *)
Init ==
  /\ log = <<>> /\ cursor = 0 /\ barred = FALSE
  /\ owed = 0 /\ wake = FALSE
  /\ pc = [x \in Senders |-> "idle"]
  /\ stale = FALSE
  /\ from = [x \in Senders |-> 0]
  /\ todo = [x \in Senders |-> {}]
  /\ alive = FALSE /\ down = <<>> /\ up = <<>>
  /\ session = FALSE
  /\ started = [s \in Seqs |-> 0]
  /\ acking = [s \in Seqs |-> 0]
  /\ working = [s \in Seqs |-> 0]
  /\ sendCh = <<>>
  /\ applied = [c \in SnapshotCommands |-> 0]
  /\ faults = 0
  /\ received = {}
  /\ handled = {} /\ cut = {}
-----------------------------------------------------------------------------
(* Administrative requests.                                                *)

(* One serializable transaction allocates the number and inserts the row;  *)
(* the row lock on the allocator makes numbers commit in order.  The       *)
(* request of a revocation has put the certificate on the CRL before.      *)
CreateEvent(c) ==
  /\ Len(log) < MaxSeq
  /\ log' = Append(log, c)
  /\ barred' = (barred \/ c \in FinalCommands)
  /\ owed' = owed + 1
  /\ UNCHANGED <<cursor, wake, pc, stale, from, todo, netVars, session,
                 procVars, sendCh, faults, received>>

Wakeup_LostWhenBusy ==
  /\ owed > 0
  /\ owed' = owed - 1
  /\ wake' = (wake \/ pc["worker"] = "idle")
  /\ UNCHANGED <<log, cursor, barred, pc, stale, from, todo, netVars, session,
                 procVars, sendCh, faults, received>>

(* A non-blocking send on the channel: a token that is there already will  *)
(* do for this request too.                                                *)
Wakeup ==
  /\ owed > 0
  /\ owed' = owed - 1
  /\ wake' = TRUE
  /\ UNCHANGED <<log, cursor, barred, pc, stale, from, todo, netVars, session,
                 procVars, sendCh, faults, received>>
-----------------------------------------------------------------------------
(* The dispatcher's worker, and what it shares with reconcileGateway.      *)

(* Take a token and look the gateway up; with no connection, wait for the  *)
(* next token.                                                             *)
WorkerWake ==
  /\ pc["worker"] = "idle" /\ wake
  /\ wake' = FALSE
  /\ IF Registered
       THEN pc' = [pc EXCEPT !["worker"] = "cursor"] /\ stale' = FALSE
       ELSE UNCHANGED <<pc, stale>>
  /\ UNCHANGED <<log, cursor, barred, owed, from, todo, netVars, session, procVars,
                 sendCh, faults, received>>

(* GetLastAckedSeqForGateway.                                              *)
ReadCursor(x) ==
  /\ pc[x] = "cursor"
  /\ from' = [from EXCEPT ![x] = cursor]
  /\ pc' = [pc EXCEPT ![x] = "list"]
  /\ UNCHANGED <<log, cursor, barred, owed, wake, stale, todo, netVars, session,
                 procVars, sendCh, faults, received>>

Compact_LastPerCommand(S) ==
  {s \in S : ~ \E t \in S : t > s /\ log[t] = log[s]}

(* Every action, and of each snapshot command the newest.                  *)
CompactGatewayEvents(S) ==
  {s \in S : ~ (IsSnapshot(log[s]) /\ \E t \in S : t > s /\ log[t] = log[s])}

(* deliverPending returns to the worker's loop, reconcileGateway to the    *)
(* receive loop of Connect.                                                *)
Done(x) == IF x = "worker" THEN "idle" ELSE "recv"

ListEvents_HandlerSkips(x) ==
  /\ pc[x] = "list"
  /\ LET pending == CompactGatewayEvents((from[x] + 1)..Len(log)) IN
       /\ from' = [from EXCEPT ![x] = 0]
       /\ todo' = [todo EXCEPT ![x] = IF x = "handler" THEN {} ELSE pending]
       /\ pc' = [pc EXCEPT ![x] = IF todo'[x] = {} THEN Done(x) ELSE "send"]
  /\ UNCHANGED <<log, cursor, barred, owed, wake, stale, netVars, session,
                 procVars, sendCh, faults, received>>

(* ListGatewayEventsAfter with the cursor read before, then compaction.    *)
(* The cursor was a local of the call: it is of no use after this.         *)
ListEvents(x) ==
  /\ pc[x] = "list"
  /\ LET pending == CompactGatewayEvents((from[x] + 1)..Len(log)) IN
       /\ from' = [from EXCEPT ![x] = 0]
       /\ todo' = [todo EXCEPT ![x] = pending]
       /\ pc' = [pc EXCEPT ![x] = IF pending = {} THEN Done(x) ELSE "send"]
  /\ UNCHANGED <<log, cursor, barred, owed, wake, stale, netVars, session,
                 procVars, sendCh, faults, received>>

(* conn.Send of the next event in ascending order; sendMu lets the two     *)
(* senders alternate between messages.                                     *)
SendNext(x) ==
  /\ pc[x] = "send" /\ Reachable(x)
  /\ \E s \in Seqs :
       /\ Least(s, todo[x])
       /\ down' = Append(down, s)
       /\ todo' = [todo EXCEPT ![x] = @ \ {s}]
       /\ pc' = [pc EXCEPT ![x] = IF todo[x] = {s} THEN Done(x) ELSE "send"]
  /\ UNCHANGED <<log, cursor, barred, owed, wake, stale, from, alive, up,
                 session, procVars, sendCh, faults, received>>

(* The first failed send ends the delivery: the worker waits for the next  *)
(* token, Connect returns and unregisters.                                 *)
SendFails(x) ==
  /\ pc[x] = "send" /\ ~ Reachable(x)
  /\ pc' = [pc EXCEPT ![x] = "idle"]
  /\ todo' = [todo EXCEPT ![x] = {}]
  /\ UNCHANGED <<log, cursor, barred, owed, wake, stale, from, netVars, session,
                 procVars, sendCh, faults, received>>

(* A query fails, or exceeds the worker's 30 seconds: nothing retries it.  *)
(* Connect answers with an error, which ends the stream.                   *)
QueryFails(x) ==
  /\ "database" \in FaultKinds /\ faults < MaxFaults
  /\ pc[x] \in {"cursor", "list"}
  /\ pc' = [pc EXCEPT ![x] = "idle"]
  /\ alive' = (alive /\ x = "worker")
  /\ faults' = faults + 1
  /\ UNCHANGED <<log, cursor, barred, owed, wake, stale, from, todo, down, up,
                 session, procVars, sendCh, received>>
-----------------------------------------------------------------------------
(* The CP's stream handler.                                                *)

(* The gateway opens a stream while none is registered: Connect registers  *)
(* it and starts to reconcile.  It refuses a gateway that is revoked.      *)
OpenStream ==
  /\ ~ session /\ ~ Registered /\ ~ barred
  /\ alive' = TRUE
  /\ session' = TRUE
  /\ down' = <<>> /\ up' = <<>>
  /\ pc' = [pc EXCEPT !["handler"] = "cursor"]
  /\ stale' = (pc["worker"] # "idle")
  /\ UNCHANGED <<log, cursor, barred, owed, wake, from, todo, procVars, sendCh,
                 faults, received>>

(* While the CP has not noticed the old stream's end it answers            *)
(* AlreadyExists; the gateway's send loop may lose a message to the        *)
(* refused stream before it learns.                                        *)
OpenRefused ==
  /\ ~ session /\ Registered
  /\ sendCh # <<>>
  /\ sendCh' = Tail(sendCh)
  /\ UNCHANGED <<log, cursor, barred, cpVars, netVars, session, procVars, faults,
                 received>>

(* handleCommandAck: refuse a number beyond the log, else GREATEST.        *)
CommandAck ==
  /\ pc["handler"] = "recv" /\ up # <<>>
  /\ up' = Tail(up)
  /\ cursor' = IF Head(up) <= Len(log) THEN Larger(cursor, Head(up)) ELSE cursor
  /\ UNCHANGED <<log, barred, cpVars, alive, down, session, procVars, sendCh,
                 faults, received>>

(* A query of handleCommandAck fails: the error is logged, the             *)
(* acknowledgement is gone and the stream goes on.                         *)
AckFails ==
  /\ "database" \in FaultKinds /\ faults < MaxFaults
  /\ pc["handler"] = "recv" /\ up # <<>>
  /\ up' = Tail(up)
  /\ faults' = faults + 1
  /\ UNCHANGED <<log, cursor, barred, cpVars, alive, down, session, procVars,
                 sendCh, received>>

(* The stream broke: Recv, or a query under the cancelled context, fails,  *)
(* at once or after some buffered messages; Connect returns.               *)
HandlerExits ==
  /\ Registered /\ ~ alive
  /\ pc' = [pc EXCEPT !["handler"] = "idle"]
  /\ todo' = [todo EXCEPT !["handler"] = {}]
  /\ UNCHANGED <<log, cursor, barred, owed, wake, stale, from, netVars, session,
                 procVars, sendCh, faults, received>>
-----------------------------------------------------------------------------
(* The gateway's stream manager.                                           *)

(* recvLoop: one goroutine per message.                                    *)
Receive ==
  /\ session /\ down # <<>>
  /\ started' = [started EXCEPT ![Head(down)] = @ + 1]
  /\ received' = received \cup {Head(down)}
  /\ down' = Tail(down)
  /\ UNCHANGED <<log, cursor, barred, cpVars, alive, up, session, acking,
                 working, applied, handled, cut, sendCh, faults>>

HandleMessage_AckFirst(s) ==
  /\ started[s] > 0
  /\ started' = [started EXCEPT ![s] = @ - 1]
  /\ acking' = [acking EXCEPT ![s] = @ + 1]
  /\ UNCHANGED <<log, cursor, barred, cpVars, netVars, session, working,
                 applied, handled, cut, sendCh, faults, received>>

(* handleMessage up to the call of CommandStatusUpdate, which is where a   *)
(* handler ends unless the command is acknowledged early.  A snapshot      *)
(* replaces what is in memory, whatever its number.  The acknowledgement   *)
(* does not carry the outcome: a failed RevokeByCPSession is acknowledged  *)
(* like a success.                                                         *)
HandleMessage(s) ==
  /\ started[s] > 0
  /\ started' = [started EXCEPT ![s] = @ - 1]
  /\ acking' = [acking EXCEPT ![s] = @ + 1]
  /\ applied' = IF IsSnapshot(log[s]) THEN [applied EXCEPT ![log[s]] = s]
                                      ELSE applied
  /\ handled' = IF log[s] \in EarlyCommands THEN handled ELSE handled \cup {s}
  /\ UNCHANGED <<log, cursor, barred, cpVars, netVars, session, working, cut,
                 sendCh, faults, received>>

QueueAck_Unbounded(s) ==
  /\ acking[s] > 0
  /\ acking' = [acking EXCEPT ![s] = @ - 1]
  /\ sendCh' = Append(sendCh, s)
  /\ UNCHANGED <<log, cursor, barred, cpVars, netVars, session, started,
                 working, applied, handled, cut, faults, received>>

(* The work that an early command leaves for after its acknowledgement; a  *)
(* renewal that failed (RenewNow) leaves none and is over.                 *)
WorkLeft(s) ==
  \/ log[s] \in EarlyCommands
     /\ working' = [working EXCEPT ![s] = @ + 1]
     /\ handled' = handled
  \/ log[s] \in EarlyCommands \ FinalCommands
     /\ handled' = handled \cup {s}
     /\ working' = working
  \/ log[s] \notin EarlyCommands
     /\ UNCHANGED <<working, handled>>

(* CommandStatusUpdate: Send fails fast when the queue is full, and the    *)
(* error is dropped.                                                       *)
QueueAck(s) ==
  /\ acking[s] > 0
  /\ acking' = [acking EXCEPT ![s] = @ - 1]
  /\ sendCh' = IF Len(sendCh) < QueueCap THEN Append(sendCh, s) ELSE sendCh
  /\ WorkLeft(s)
  /\ UNCHANGED <<log, cursor, barred, cpVars, netVars, session, started,
                 applied, cut, faults, received>>

(* The process ends: its goroutines, its queue and the snapshots it kept   *)
(* in memory are gone.                                                     *)
ProcessEnds ==
  /\ alive' = FALSE /\ session' = FALSE
  /\ down' = <<>> /\ sendCh' = <<>>
  /\ started' = [s \in Seqs |-> 0]
  /\ acking' = [s \in Seqs |-> 0]
  /\ working' = [s \in Seqs |-> 0]
  /\ applied' = [c \in SnapshotCommands |-> 0]
  /\ cut' = cut \cup {s \in Seqs : working[s] > 0}
  /\ UNCHANGED <<log, cursor, cpVars, up, received>>

(* ROTATE_GATEWAY_CERT, once acknowledged: RefreshConnection swaps the     *)
(* connection, which breaks the stream, or fails and leaves it alone.  The *)
(* break counts as a fault: the command may be delivered any number of     *)
(* times.                                                                  *)
FinishRenewal(s) ==
  /\ working[s] > 0 /\ log[s] \notin FinalCommands
  /\ working' = [working EXCEPT ![s] = @ - 1]
  /\ handled' = handled \cup {s}
  /\ \/ UNCHANGED <<alive, faults>>
     \/ alive' = FALSE /\ faults < MaxFaults /\ faults' = faults + 1
  /\ UNCHANGED <<log, cursor, barred, cpVars, down, up, session, started,
                 acking, applied, cut, sendCh, received>>

(* REVOKE_GATEWAY, ten seconds after its acknowledgement: the credentials  *)
(* are gone, and the process ends itself.                                  *)
FinishRevocation(s) ==
  /\ working[s] > 0 /\ log[s] \in FinalCommands
  /\ handled' = handled \cup {s}
  /\ ProcessEnds
  /\ UNCHANGED <<barred, faults>>

FinishWork(s) == FinishRenewal(s) \/ FinishRevocation(s)

(* sendLoop: the message has left the queue before stream.Send is tried,   *)
(* and a failed send ends the session.                                     *)
SendLoop ==
  /\ session /\ sendCh # <<>>
  /\ sendCh' = Tail(sendCh)
  /\ up' = IF alive THEN Append(up, Head(sendCh)) ELSE up
  /\ session' = alive
  /\ UNCHANGED <<log, cursor, barred, cpVars, alive, down, procVars, faults,
                 received>>

(* recvLoop's error ends the session, and sendLoop with it.                *)
SessionEnds ==
  /\ session /\ ~ alive
  /\ session' = FALSE
  /\ UNCHANGED <<log, cursor, barred, cpVars, netVars, procVars, sendCh, faults,
                 received>>
-----------------------------------------------------------------------------
(* Faults.                                                                 *)

Fault(kind) ==
  /\ kind \in FaultKinds /\ faults < MaxFaults
  /\ faults' = faults + 1

(* The network drops the stream.  Each side finds out in its own time, and *)
(* may still read what it had buffered.                                    *)
Break ==
  /\ Fault("break") /\ alive
  /\ alive' = FALSE
  /\ UNCHANGED <<log, cursor, barred, cpVars, down, up, session, procVars,
                 sendCh, received>>

(* The gateway process restarts.                                           *)
GatewayRestart ==
  /\ Fault("gatewayRestart")
  /\ ProcessEnds
  /\ UNCHANGED <<barred, handled>>

(* A revoked gateway is enrolled again, with a new certificate and in a    *)
(* new process: a restart too, counted with the faults.  Its log and its   *)
(* cursor are the old ones: AckGatewayEvents with number 0, in the         *)
(* request, changes nothing.                                               *)
EnrollGateway ==
  /\ barred /\ faults < MaxFaults
  /\ barred' = FALSE
  /\ faults' = faults + 1
  /\ ProcessEnds
  /\ UNCHANGED handled

(* The CP process restarts: the wake-up token, requests between commit and *)
(* Wakeup, the worker and the stream handler are gone.                     *)
ControlPlaneRestart ==
  /\ Fault("cpRestart")
  /\ alive' = FALSE /\ up' = <<>>
  /\ owed' = 0 /\ wake' = FALSE
  /\ pc' = [x \in Senders |-> "idle"]
  /\ todo' = [x \in Senders |-> {}]
  /\ UNCHANGED <<log, cursor, barred, stale, from, down, session, procVars,
                 sendCh, received>>
-----------------------------------------------------------------------------
SenderStep(x) ==
  \/ ReadCursor(x)
  \/ ListEvents(x)
  \/ SendNext(x)
  \/ SendFails(x)

ControlPlane ==
  \/ Wakeup
  \/ WorkerWake
  \/ \E x \in Senders : SenderStep(x)
  \/ OpenStream
  \/ CommandAck
  \/ HandlerExits

Gateway ==
  \/ Receive
  \/ \E s \in Seqs : HandleMessage(s) \/ QueueAck(s) \/ FinishWork(s)
  \/ SendLoop
  \/ SessionEnds

Faults ==
  \/ \E x \in Senders : QueryFails(x)
  \/ AckFails
  \/ OpenRefused
  \/ Break
  \/ GatewayRestart
  \/ ControlPlaneRestart

Next ==
  \/ \E c \in Commands : CreateEvent(c)
  \/ EnrollGateway
  \/ ControlPlane
  \/ Gateway
  \/ Faults

Spec == Init /\ [][Next]_vars

(* Goroutines are scheduled, a broken stream is noticed (keepalive) and a  *)
(* gateway without a stream retries every 5 seconds.  Nothing obliges an   *)
(* administrator to act or a fault to happen.                              *)
Fairness ==
  /\ WF_vars(Wakeup) /\ WF_vars(WorkerWake)
  /\ \A x \in Senders : WF_vars(SenderStep(x))
  /\ WF_vars(OpenStream) /\ WF_vars(CommandAck) /\ WF_vars(HandlerExits)
  /\ WF_vars(Receive)
  /\ \A s \in Seqs : /\ WF_vars(HandleMessage(s)) /\ WF_vars(QueueAck(s))
                     /\ WF_vars(FinishWork(s))
  /\ WF_vars(SendLoop) /\ WF_vars(SessionEnds)

FairSpec == Spec /\ Fairness
-----------------------------------------------------------------------------
FlagsOK ==
  /\ barred \in BOOLEAN /\ wake \in BOOLEAN /\ stale \in BOOLEAN
  /\ alive \in BOOLEAN /\ session \in BOOLEAN

CountersOK ==
  /\ log \in Seq(Commands) /\ Len(log) <= MaxSeq
  /\ cursor \in 0..MaxSeq
  /\ owed \in Nat
  /\ faults \in 0..MaxFaults
  /\ received \subseteq Seqs

SendersOK ==
  /\ pc \in [Senders -> {"idle", "cursor", "list", "send", "recv"}]
  /\ from \in [Senders -> 0..MaxSeq]
  /\ todo \in [Senders -> SUBSET Seqs]

QueuesOK ==
  /\ down \in Seq(Seqs) /\ up \in Seq(Seqs)
  /\ sendCh \in Seq(Seqs) /\ Len(sendCh) <= QueueCap

HandlersOK ==
  /\ started \in [Seqs -> Nat] /\ acking \in [Seqs -> Nat]
  /\ working \in [Seqs -> Nat]
  /\ applied \in [SnapshotCommands -> 0..MaxSeq]
  /\ handled \subseteq Seqs /\ cut \subseteq Seqs

(* Every variable has its type and the send queue never exceeds its        *)
(* capacity.                                                               *)
TypeOK == FlagsOK /\ CountersOK /\ SendersOK /\ QueuesOK /\ HandlersOK

(* Acknowledging by number loses nothing on the way to the gateway: each   *)
(* event up to the cursor was read by the gateway, or a later snapshot of  *)
(* its command stands for it.                                              *)
AckedReceived == \A s \in 1..cursor : Covered(s)

(* An event is acknowledged only after a handler of that very event ended, *)
(* never on mere receipt.  Three commands are acknowledged before their    *)
(* work is done: that work is then still under way, unless the process     *)
(* ended in the middle of it, and then nobody sends the command again.     *)
AckFollowsHandler ==
  cursor > 0 =>
    \/ cursor \in handled
    \/ log[cursor] \in EarlyCommands /\ (working[cursor] > 0 \/ cursor \in cut)

(* Acknowledgements come from concurrent handlers in any order, and from   *)
(* earlier sessions: the cursor never moves back.                          *)
CursorMonotone == [][cursor' >= cursor]_cursor

(* The channel keeps the promise of EventLog.                              *)
KeepsPromise == Promise!Spec

(* No wake-up is lost between a commit, the worker, a broken stream and    *)
(* the next one: while the gateway process stays up, every committed event *)
(* is eventually handled, unless a newer snapshot replaces it.             *)
EventuallyHandled ==
  \A s \in Seqs :
    (s <= Len(log)) ~> (s \in handled \/ (s <= Len(log) /\ Superseded(s)))

(* As long as the queue has room, the cursor catches up with the log for   *)
(* good once requests and faults stop.                                     *)
EventuallyAcked == <>[](cursor = Len(log))

(* Why AckedReceived holds.  Read in sending order, every event is preceded *)
(* by all that came before it in the log, up to what is covered: in what   *)
(* the gateway has read, in what is in flight, in what a sender still has  *)
(* to send.                                                                *)
ReceivedInOrder == \A t \in received : \A s \in 1..(t - 1) : Covered(s)

InFlight(s) == \E j \in 1..Len(down) : down[j] = s

FlightInOrder ==
  \A i \in 1..Len(down) : \A s \in 1..(down[i] - 1) :
    Covered(s) \/ \E j \in 1..(i - 1) : down[j] = s

SendersInOrder ==
  \A x \in Senders :
    pc[x] = "send" /\ Reachable(x) =>
      \A t \in todo[x] : \A s \in 1..(t - 1) :
        Covered(s) \/ InFlight(s) \/ s \in todo[x]

(* Only numbers that were allocated travel.                                *)
KnownNumbers ==
  /\ received \subseteq 1..Len(log)
  /\ \A i \in 1..Len(down) : down[i] <= Len(log)
  /\ \A x \in Senders : todo[x] \subseteq 1..Len(log)

(* What a sender believes the cursor to be is a past value of it.          *)
CursorReads == \A x \in Senders : from[x] <= cursor

(* Goroutines and acknowledgements only concern events that were read, and *)
(* acknowledgements only events that were handled, or whose handler        *)
(* acknowledges first and has gone on from there.                          *)
Begun(s) ==
  /\ s \in received
  /\ s \in handled \/ log[s] \in EarlyCommands

Answered(s) ==
  /\ s \in received
  /\ \/ s \in handled
     \/ log[s] \in EarlyCommands /\ (working[s] > 0 \/ s \in cut)

AckSources ==
  /\ \A s \in Seqs : started[s] > 0 => s \in received
  /\ \A s \in Seqs : acking[s] > 0 => Begun(s)
  /\ \A i \in 1..Len(sendCh) : Answered(sendCh[i])
  /\ \A i \in 1..Len(up) : Answered(up[i])
  /\ cursor > 0 => Answered(cursor)

DeliveryInv ==
  /\ KnownNumbers
  /\ ReceivedInOrder
  /\ FlightInOrder
  /\ SendersInOrder
  /\ CursorReads
  /\ AckSources
-----------------------------------------------------------------------------
(* Nothing is left to deliver, to handle or to acknowledge.                *)
Quiescent ==
  /\ session /\ alive /\ pc = [x \in Senders |-> Done(x)]
  /\ owed = 0 /\ ~ wake
  /\ cursor = Len(log)
  /\ down = <<>> /\ up = <<>> /\ sendCh = <<>>
  /\ \A s \in Seqs : started[s] = 0 /\ acking[s] = 0 /\ working[s] = 0

(* The state the gateway keeps in memory for a snapshot command is the     *)
(* newest one issued, once the gateway is synchronised.                    *)
SnapshotsCurrent ==
  Quiescent => \A s \in 1..Len(log) :
                 IsSnapshot(log[s]) /\ ~ Superseded(s) => applied[log[s]] = s
=============================================================================
