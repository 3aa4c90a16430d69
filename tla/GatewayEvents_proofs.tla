------------------------ MODULE GatewayEvents_proofs ------------------------
(***************************************************************************)
(* Proofs about GatewayEvents, for any number of events, any queue         *)
(* capacity and any number and mix of faults.                              *)
(***************************************************************************)
EXTENDS GatewayEvents, TLAPS

LEMMA TailFacts ==
  ASSUME NEW S, NEW q \in Seq(S), q # <<>>
  PROVE  /\ Head(q) \in S /\ Head(q) = q[1]
         /\ Tail(q) \in Seq(S) /\ Len(Tail(q)) = Len(q) - 1
         /\ \A i \in 1..Len(Tail(q)) : Tail(q)[i] = q[i + 1]
  OBVIOUS

LEMMA ElementFacts ==
  ASSUME NEW S, NEW q \in Seq(S)
  PROVE  Len(q) \in Nat /\ \A i \in 1..Len(q) : q[i] \in S
  OBVIOUS

LEMMA AppendFacts ==
  ASSUME NEW S, NEW q \in Seq(S), NEW e \in S
  PROVE  /\ Append(q, e) \in Seq(S) /\ Len(Append(q, e)) = Len(q) + 1
         /\ \A i \in 1..Len(q) : Append(q, e)[i] = q[i]
         /\ Append(q, e)[Len(q) + 1] = e
  OBVIOUS

LEMMA InitTypes == Init => TypeOK
<1> SUFFICES ASSUME Init PROVE TypeOK
  OBVIOUS
<1> USE EventsAssumption DEF Init, Senders, Seqs
<1>1. FlagsOK
  BY Zenon DEF FlagsOK
<1>2. CountersOK /\ SendersOK
  BY DEF CountersOK, SendersOK
<1>3. QueuesOK /\ HandlersOK
  BY DEF QueuesOK, HandlersOK
<1>4. QED
  BY <1>1, <1>2, <1>3 DEF TypeOK

LEMMA FlagsStep == FlagsOK /\ [Next]_vars => FlagsOK'
<1> SUFFICES ASSUME FlagsOK, [Next]_vars PROVE FlagsOK'
  OBVIOUS
<1> USE DEF FlagsOK
<1>1. ASSUME NEW c \in Commands, CreateEvent(c) PROVE FlagsOK'
  BY <1>1, Zenon DEF CreateEvent, netVars
<1>2. CASE Wakeup
  BY <1>2, Zenon DEF Wakeup, netVars
<1>3. CASE WorkerWake
  BY <1>3, Zenon DEF WorkerWake, netVars
<1>4. ASSUME NEW x \in Senders, SenderStep(x) PROVE FlagsOK'
  BY <1>4, Zenon DEF SenderStep, ReadCursor, ListEvents, SendNext, SendFails, netVars
<1>5. ASSUME NEW x \in Senders, QueryFails(x) PROVE FlagsOK'
  BY <1>5, Zenon DEF QueryFails
<1>6. CASE OpenStream
  BY <1>6, Zenon DEF OpenStream
<1>7. CASE OpenRefused \/ CommandAck \/ AckFails \/ HandlerExits
  BY <1>7, Zenon DEF OpenRefused, CommandAck, AckFails, HandlerExits, cpVars, netVars
<1>8. CASE Receive \/ SendLoop \/ SessionEnds
  BY <1>8, Zenon DEF Receive, SendLoop, SessionEnds, cpVars, netVars
<1>9. ASSUME NEW s \in Seqs, \/ HandleMessage(s) \/ QueueAck(s)
                           \/ FinishRenewal(s) \/ FinishRevocation(s)
      PROVE  FlagsOK'
  BY <1>9, Zenon DEF HandleMessage, QueueAck, FinishRenewal, FinishRevocation,
     ProcessEnds, cpVars, netVars
<1>10. CASE Break \/ GatewayRestart \/ EnrollGateway \/ ControlPlaneRestart
  BY <1>10, Zenon DEF Break, GatewayRestart, EnrollGateway, ProcessEnds,
     ControlPlaneRestart, cpVars
<1>11. CASE UNCHANGED vars
  BY <1>11, Zenon DEF vars, cpVars, netVars
<1>12. QED
  BY <1>1, <1>2, <1>3, <1>4, <1>5, <1>6, <1>7, <1>8, <1>9, <1>10, <1>11
     DEF Next, ControlPlane, Gateway, Faults, FinishWork

LEMMA CountersStep == TypeOK /\ [Next]_vars => CountersOK'
<1> SUFFICES ASSUME TypeOK, [Next]_vars PROVE CountersOK'
  OBVIOUS
<1>0. CountersOK /\ down \in Seq(Seqs) /\ up \in Seq(Seqs) /\ Seqs = 1..MaxSeq
      /\ MaxFaults \in Nat /\ MaxSeq \in Nat
  BY EventsAssumption DEF TypeOK, QueuesOK, Seqs
<1> USE <1>0 DEF CountersOK
<1>1. ASSUME NEW c \in Commands, CreateEvent(c) PROVE CountersOK'
  BY <1>1 DEF CreateEvent
<1>2. CASE Wakeup
  BY <1>2 DEF Wakeup
<1>3. CASE CommandAck
  <2>1. Head(up) \in 1..MaxSeq
    <3>1. up # <<>>
      BY <1>3 DEF CommandAck
    <3>2. QED
      BY <1>0, <3>1, TailFacts, Zenon
  <2>2. \/ cursor' = cursor
        \/ cursor' = Head(up)
    BY <1>3, Zenon DEF CommandAck, Larger, Promise!Larger
  <2>3. UNCHANGED <<log, owed, faults, received>>
    BY <1>3, Zenon DEF CommandAck, cpVars
  <2>4. QED
    BY <2>1, <2>2, <2>3
<1>4. CASE Receive
  <2>1. Head(down) \in Seqs
    <3>1. down # <<>>
      BY <1>4 DEF Receive
    <3>2. QED
      BY <1>0, <3>1, TailFacts, Zenon
  <2>2. QED
    BY <1>4, <2>1, Zenon DEF Receive, cpVars
<1>5. CASE ControlPlaneRestart
  BY <1>5 DEF ControlPlaneRestart, Fault
<1>6. CASE \/ Break \/ GatewayRestart \/ EnrollGateway \/ AckFails
           \/ \E s \in Seqs : FinishRenewal(s) /\ faults' # faults
  <2>1. faults < MaxFaults /\ faults' = faults + 1
        /\ UNCHANGED <<log, cursor, owed, received>>
    BY <1>6, Zenon DEF Break, GatewayRestart, EnrollGateway, ProcessEnds,
       AckFails, FinishRenewal, Fault, cpVars
  <2>2. QED
    BY <2>1
<1>7. ASSUME NEW x \in Senders, QueryFails(x) PROVE CountersOK'
  BY <1>7 DEF QueryFails
<1>8. CASE UNCHANGED <<log, cursor, owed, faults, received>>
  BY <1>8
<1>9. ASSUME NEW x \in Senders, SenderStep(x)
      PROVE  UNCHANGED <<log, cursor, owed, faults, received>>
  BY <1>9, Zenon DEF SenderStep, ReadCursor, ListEvents, SendNext, SendFails
<1>10. ASSUME NEW s \in Seqs,
              \/ HandleMessage(s) \/ QueueAck(s) \/ FinishRevocation(s)
              \/ FinishRenewal(s) /\ faults' = faults
       PROVE  UNCHANGED <<log, cursor, owed, faults, received>>
  BY <1>10, Zenon DEF HandleMessage, QueueAck, FinishRenewal, FinishRevocation,
     ProcessEnds, cpVars
<1>11. ASSUME \/ WorkerWake \/ OpenStream \/ HandlerExits \/ OpenRefused
              \/ SendLoop \/ SessionEnds \/ UNCHANGED vars
       PROVE  UNCHANGED <<log, cursor, owed, faults, received>>
  BY <1>11, Zenon DEF WorkerWake, OpenStream, HandlerExits, OpenRefused,
     SendLoop, SessionEnds, vars, cpVars
<1>12. QED
  BY <1>1, <1>2, <1>3, <1>4, <1>5, <1>6, <1>7, <1>8, <1>9, <1>10, <1>11
     DEF Next, ControlPlane, Gateway, Faults, FinishWork

LEMMA SendersStep == TypeOK /\ [Next]_vars => SendersOK'
<1> SUFFICES ASSUME TypeOK, [Next]_vars PROVE SendersOK'
  OBVIOUS
<1>0. SendersOK /\ Senders = {"worker", "handler"} /\ MaxSeq \in Nat
      /\ Seqs = 1..MaxSeq /\ cursor \in 0..MaxSeq /\ Len(log) \in 0..MaxSeq
  BY EventsAssumption DEF TypeOK, CountersOK, Senders, Seqs
<1> USE <1>0 DEF SendersOK
<1>1. CASE WorkerWake
  <2>1. \/ pc' = [pc EXCEPT !["worker"] = "cursor"]
        \/ pc' = pc
    BY <1>1, Zenon DEF WorkerWake
  <2>2. UNCHANGED <<from, todo>>
    BY <1>1, Zenon DEF WorkerWake
  <2>3. QED
    BY <2>1, <2>2
<1>2. ASSUME NEW x \in Senders, ReadCursor(x) PROVE SendersOK'
  BY <1>2 DEF ReadCursor
<1>3. ASSUME NEW x \in Senders, ListEvents(x) PROVE SendersOK'
  <2>1. from[x] \in 0..MaxSeq
    OBVIOUS
  <2>2. (from[x] + 1)..Len(log) \in SUBSET Seqs
    BY <2>1
  <2>3. CompactGatewayEvents((from[x] + 1)..Len(log)) \in SUBSET Seqs
    BY <2>2, Zenon DEF CompactGatewayEvents
  <2>4. PICK S \in SUBSET Seqs, p \in {"idle", "recv", "send"} :
          /\ from' = [from EXCEPT ![x] = 0]
          /\ todo' = [todo EXCEPT ![x] = S]
          /\ pc' = [pc EXCEPT ![x] = p]
    BY <1>3, <2>3 DEF ListEvents, Done
  <2>5. QED
    BY <2>4
<1>4. ASSUME NEW x \in Senders, SendNext(x) PROVE SendersOK'
  <2>1. PICK s \in Seqs, p \in {"idle", "recv", "send"} :
          /\ todo' = [todo EXCEPT ![x] = @ \ {s}]
          /\ pc' = [pc EXCEPT ![x] = p]
    BY <1>4 DEF SendNext, Done
  <2>2. from' = from
    BY <1>4 DEF SendNext
  <2>3. QED
    BY <2>1, <2>2
<1>5. ASSUME NEW x \in Senders, SendFails(x) \/ QueryFails(x)
      PROVE  SendersOK'
  <2>1. /\ pc' = [pc EXCEPT ![x] = "idle"]
        /\ todo' = [todo EXCEPT ![x] = {}] \/ todo' = todo
        /\ from' = from
    BY <1>5, Zenon DEF SendFails, QueryFails
  <2>2. QED
    BY <2>1
<1>6. CASE OpenStream \/ HandlerExits
  <2>1. /\ \/ pc' = [pc EXCEPT !["handler"] = "cursor"]
           \/ pc' = [pc EXCEPT !["handler"] = "idle"]
        /\ todo' = [todo EXCEPT !["handler"] = {}] \/ todo' = todo
        /\ from' = from
    BY <1>6, Zenon DEF OpenStream, HandlerExits
  <2>2. QED
    BY <2>1
<1>7. CASE ControlPlaneRestart
  BY <1>7 DEF ControlPlaneRestart
<1>8. CASE UNCHANGED <<pc, from, todo>>
  BY <1>8
<1>9. ASSUME NEW c \in Commands, CreateEvent(c) PROVE UNCHANGED <<pc, from, todo>>
  BY <1>9, Zenon DEF CreateEvent
<1>10. ASSUME NEW s \in Seqs,
              HandleMessage(s) \/ QueueAck(s) \/ FinishRenewal(s)
       PROVE  UNCHANGED <<pc, from, todo>>
  BY <1>10, Zenon DEF HandleMessage, QueueAck, FinishRenewal, cpVars
<1>11. ASSUME \/ Wakeup \/ CommandAck \/ AckFails \/ Receive \/ SendLoop \/ SessionEnds
              \/ OpenRefused \/ Break \/ ProcessEnds \/ UNCHANGED vars
       PROVE  UNCHANGED <<pc, from, todo>>
  BY <1>11, Zenon DEF Wakeup, CommandAck, AckFails, Receive, SendLoop, SessionEnds,
     OpenRefused, Break, ProcessEnds, vars, cpVars
<1>12. QED
  BY <1>1, <1>2, <1>3, <1>4, <1>5, <1>6, <1>7, <1>8, <1>9, <1>10, <1>11
     DEF Next, ControlPlane, Gateway, Faults, SenderStep,
         GatewayRestart, EnrollGateway, FinishWork, FinishRevocation

LEMMA QueuesStep == TypeOK /\ [Next]_vars => QueuesOK'
<1> SUFFICES ASSUME TypeOK, [Next]_vars PROVE QueuesOK'
  OBVIOUS
<1>0. QueuesOK /\ QueueCap \in Nat
  BY EventsAssumption DEF TypeOK
<1> USE <1>0 DEF QueuesOK
<1>1. ASSUME NEW x \in Senders, SendNext(x) PROVE QueuesOK'
  <2>1. PICK s \in Seqs : down' = Append(down, s)
    BY <1>1, Zenon DEF SendNext
  <2>2. UNCHANGED <<up, sendCh>>
    BY <1>1, Zenon DEF SendNext
  <2>3. QED
    BY <2>1, <2>2
<1>2. CASE OpenStream \/ ProcessEnds \/ ControlPlaneRestart
  <2>1. /\ down' = <<>> \/ down' = down
        /\ up' = <<>> \/ up' = up
        /\ sendCh' = <<>> \/ sendCh' = sendCh
    BY <1>2, Zenon DEF OpenStream, ProcessEnds, ControlPlaneRestart
  <2>2. <<>> \in Seq(Seqs) /\ Len(<<>>) <= QueueCap
    OBVIOUS
  <2>3. QED
    BY <2>1, <2>2
<1>3. CASE OpenRefused \/ SendLoop
  <2>1. /\ sendCh # <<>> /\ sendCh' = Tail(sendCh) /\ down' = down
        /\ up' = Append(up, Head(sendCh)) \/ up' = up
    BY <1>3, Zenon DEF OpenRefused, SendLoop, netVars
  <2>2. /\ Tail(sendCh) \in Seq(Seqs) /\ Len(Tail(sendCh)) = Len(sendCh) - 1
        /\ Head(sendCh) \in Seqs
    BY <1>0, <2>1, TailFacts, Zenon
  <2>3. Append(up, Head(sendCh)) \in Seq(Seqs)
    BY <2>2
  <2>4. Len(Tail(sendCh)) <= QueueCap
    BY <2>2
  <2>5. QED
    BY <2>1, <2>2, <2>3, <2>4, Zenon
<1>4. CASE CommandAck \/ AckFails
  <2>1. up # <<>> /\ up' = Tail(up) /\ UNCHANGED <<down, sendCh>>
    BY <1>4, Zenon DEF CommandAck, AckFails
  <2>2. QED
    BY <2>1, TailFacts, Zenon
<1>5. CASE Receive
  <2>1. down # <<>> /\ down' = Tail(down) /\ UNCHANGED <<up, sendCh>>
    BY <1>5, Zenon DEF Receive
  <2>2. QED
    BY <2>1, TailFacts, Zenon
<1>6. ASSUME NEW s \in Seqs, QueueAck(s) PROVE QueuesOK'
  <2>1. /\ UNCHANGED <<down, up>>
        /\ \/ Len(sendCh) < QueueCap /\ sendCh' = Append(sendCh, s)
           \/ sendCh' = sendCh
    BY <1>6, Zenon DEF QueueAck, netVars
  <2>2. Append(sendCh, s) \in Seq(Seqs) /\ Len(Append(sendCh, s)) = Len(sendCh) + 1
    OBVIOUS
  <2>3. Len(sendCh') <= QueueCap
    BY <2>1, <2>2
  <2>4. QED
    BY <2>1, <2>2, <2>3, Zenon
<1>7. CASE UNCHANGED <<down, up, sendCh>>
  BY <1>7
<1>8. ASSUME NEW c \in Commands, CreateEvent(c) PROVE UNCHANGED <<down, up, sendCh>>
  BY <1>8, Zenon DEF CreateEvent, netVars
<1>9. ASSUME NEW x \in Senders,
             ReadCursor(x) \/ ListEvents(x) \/ SendFails(x) \/ QueryFails(x)
      PROVE  UNCHANGED <<down, up, sendCh>>
  BY <1>9, Zenon DEF ReadCursor, ListEvents, SendFails, QueryFails, netVars
<1>10. ASSUME NEW s \in Seqs, HandleMessage(s) \/ FinishRenewal(s)
       PROVE  UNCHANGED <<down, up, sendCh>>
  BY <1>10, Zenon DEF HandleMessage, FinishRenewal, netVars
<1>11. ASSUME \/ Wakeup \/ WorkerWake \/ HandlerExits \/ SessionEnds \/ Break
              \/ UNCHANGED vars
       PROVE  UNCHANGED <<down, up, sendCh>>
  BY <1>11, Zenon DEF Wakeup, WorkerWake, HandlerExits, SessionEnds, Break,
     vars, netVars
<1>12. QED
  BY <1>1, <1>2, <1>3, <1>4, <1>5, <1>6, <1>7, <1>8, <1>9, <1>10, <1>11
     DEF Next, ControlPlane, Gateway, Faults, SenderStep,
         GatewayRestart, EnrollGateway, FinishWork, FinishRevocation

LEMMA HandlersStep == TypeOK /\ [Next]_vars => HandlersOK'
<1> SUFFICES ASSUME TypeOK, [Next]_vars PROVE HandlersOK'
  OBVIOUS
<1>0. HandlersOK /\ Seqs = 1..MaxSeq /\ MaxSeq \in Nat /\ down \in Seq(Seqs)
  BY EventsAssumption DEF TypeOK, QueuesOK, Seqs
<1> USE <1>0 DEF HandlersOK
<1>1. CASE Receive
  <2>1. /\ down # <<>>
        /\ started' = [started EXCEPT ![Head(down)] = @ + 1]
        /\ UNCHANGED <<acking, working, applied, handled, cut>>
    BY <1>1, Zenon DEF Receive
  <2>2. Head(down) \in Seqs
    BY <1>0, <2>1, TailFacts, Zenon
  <2>3. PICK n \in Seqs : started' = [started EXCEPT ![n] = @ + 1]
    BY <2>1, <2>2, Zenon
  <2>4. started' \in [Seqs -> Nat]
    BY <2>3
  <2>5. QED
    BY <2>1, <2>4
<1>2. ASSUME NEW s \in Seqs, HandleMessage(s) PROVE HandlersOK'
  <2>1. started' \in [Seqs -> Nat] /\ acking' \in [Seqs -> Nat]
    <3>1. /\ started[s] > 0
          /\ started' = [started EXCEPT ![s] = @ - 1]
          /\ acking' = [acking EXCEPT ![s] = @ + 1]
      BY <1>2, Zenon DEF HandleMessage
    <3>2. started[s] - 1 \in Nat /\ acking[s] + 1 \in Nat
      BY <3>1
    <3>3. QED
      BY <3>1, <3>2
  <2>2. applied' \in [SnapshotCommands -> 0..MaxSeq]
    BY <1>2 DEF HandleMessage, IsSnapshot, Promise!IsSnapshot
  <2>3. handled' \subseteq Seqs /\ UNCHANGED <<working, cut>>
    <3>1. handled' = handled \/ handled' = handled \cup {s}
      BY <1>2, Zenon DEF HandleMessage
    <3>2. UNCHANGED <<working, cut>>
      BY <1>2, Zenon DEF HandleMessage
    <3>3. QED
      BY <3>1, <3>2
  <2>4. QED
    BY <2>1, <2>2, <2>3
<1>3. ASSUME NEW s \in Seqs, QueueAck(s) PROVE HandlersOK'
  <2>1. /\ acking[s] > 0
        /\ acking' = [acking EXCEPT ![s] = @ - 1]
        /\ UNCHANGED <<started, applied, cut>>
    BY <1>3, Zenon DEF QueueAck
  <2>2. /\ working' = working \/ working' = [working EXCEPT ![s] = @ + 1]
        /\ handled' = handled \/ handled' = handled \cup {s}
    BY <1>3, Zenon DEF QueueAck, WorkLeft
  <2>3. acking[s] - 1 \in Nat /\ working[s] + 1 \in Nat
    BY <2>1
  <2>4. QED
    BY <2>1, <2>2, <2>3
<1>4. CASE GatewayRestart \/ EnrollGateway \/ \E s \in Seqs : FinishRevocation(s)
  <2>1. ProcessEnds /\ \E S \in SUBSET Seqs : handled' = handled \cup S
    <3>1. ASSUME GatewayRestart \/ EnrollGateway
          PROVE  ProcessEnds /\ handled' = handled \cup {}
      BY <3>1 DEF GatewayRestart, EnrollGateway
    <3>2. ASSUME NEW s \in Seqs, FinishRevocation(s)
          PROVE  ProcessEnds /\ handled' = handled \cup {s}
      BY <3>2, Zenon DEF FinishRevocation
    <3>3. {} \in SUBSET Seqs /\ \A s \in Seqs : {s} \in SUBSET Seqs
      OBVIOUS
    <3>4. QED
      BY <1>4, <3>1, <3>2, <3>3, Zenon
  <2>2. /\ started' = [s \in Seqs |-> 0] /\ acking' = [s \in Seqs |-> 0]
        /\ working' = [s \in Seqs |-> 0]
        /\ applied' = [c \in SnapshotCommands |-> 0]
        /\ cut' = cut \cup {s \in Seqs : working[s] > 0}
    BY <2>1, Zenon DEF ProcessEnds
  <2>3. handled' \subseteq Seqs /\ cut' \subseteq Seqs
    BY <2>1, <2>2
  <2>4. [c \in SnapshotCommands |-> 0] \in [SnapshotCommands -> 0..MaxSeq]
    OBVIOUS
  <2>5. QED
    BY <2>2, <2>3, <2>4
<1>5. ASSUME NEW s \in Seqs, FinishRenewal(s) PROVE HandlersOK'
  <2>1. /\ working[s] > 0
        /\ working' = [working EXCEPT ![s] = @ - 1]
        /\ handled' = handled \cup {s}
        /\ UNCHANGED <<started, acking, applied, cut>>
    BY <1>5, Zenon DEF FinishRenewal
  <2>2. working[s] - 1 \in Nat
    BY <2>1
  <2>3. QED
    BY <2>1, <2>2
<1>6. CASE UNCHANGED procVars
  BY <1>6 DEF procVars
<1>7. ASSUME NEW c \in Commands, CreateEvent(c) PROVE UNCHANGED procVars
  BY <1>7, Zenon DEF CreateEvent
<1>8. ASSUME NEW x \in Senders, SenderStep(x) \/ QueryFails(x)
      PROVE  UNCHANGED procVars
  BY <1>8, Zenon DEF SenderStep, ReadCursor, ListEvents, SendNext, SendFails,
     QueryFails
<1>9. ASSUME \/ Wakeup \/ WorkerWake \/ OpenStream \/ CommandAck \/ AckFails
             \/ HandlerExits \/ SendLoop \/ SessionEnds \/ OpenRefused \/ Break
             \/ ControlPlaneRestart \/ UNCHANGED vars
      PROVE  UNCHANGED procVars
  BY <1>9, Zenon DEF Wakeup, WorkerWake, OpenStream, CommandAck, AckFails, HandlerExits,
     SendLoop, SessionEnds, OpenRefused, Break, ControlPlaneRestart, vars
<1>10. QED
  BY <1>1, <1>2, <1>3, <1>4, <1>5, <1>6, <1>7, <1>8, <1>9
     DEF Next, ControlPlane, Gateway, Faults, FinishWork

(* Every variable keeps its type; in particular the send queue never holds *)
(* more than its capacity.                                                 *)
THEOREM TypeCorrect == Spec => []TypeOK
<1>1. TypeOK /\ [Next]_vars => TypeOK'
  <2>1. TypeOK => FlagsOK
    BY DEF TypeOK
  <2>2. QED
    BY <2>1, FlagsStep, CountersStep, SendersStep, QueuesStep, HandlersStep
       DEF TypeOK
<1>2. QED
  BY <1>1, InitTypes, PTL DEF Spec
-----------------------------------------------------------------------------
(* The order in which commands arrive.                                     *)

(* The log only grows at its end and what was received stays received.     *)
LEMMA HistoryGrows ==
  [Next]_vars => /\ log' = log \/ \E c \in Commands : log' = Append(log, c)
                 /\ Receive \/ received' = received
                 /\ received \subseteq received'
<1> SUFFICES ASSUME [Next]_vars
             PROVE  /\ log' = log \/ \E c \in Commands : log' = Append(log, c)
                    /\ Receive \/ received' = received
                    /\ received \subseteq received'
  OBVIOUS
<1>1. ASSUME NEW c \in Commands, CreateEvent(c)
      PROVE  log' = Append(log, c) /\ received' = received
  BY <1>1, Zenon DEF CreateEvent
<1>2. ASSUME Receive PROVE log' = log /\ received \subseteq received'
  BY <1>2, Zenon DEF Receive
<1>3. ASSUME NEW x \in Senders, SenderStep(x) \/ QueryFails(x)
      PROVE  UNCHANGED <<log, received>>
  BY <1>3, Zenon DEF SenderStep, ReadCursor, ListEvents, SendNext, SendFails,
     QueryFails
<1>4. ASSUME NEW s \in Seqs, HandleMessage(s) \/ QueueAck(s) \/ FinishRenewal(s)
      PROVE  UNCHANGED <<log, received>>
  BY <1>4, Zenon DEF HandleMessage, QueueAck, FinishRenewal
<1>5. ASSUME \/ Wakeup \/ WorkerWake \/ OpenStream \/ CommandAck \/ AckFails \/ HandlerExits
             \/ SendLoop \/ SessionEnds \/ OpenRefused \/ Break
             \/ ProcessEnds \/ ControlPlaneRestart \/ UNCHANGED vars
      PROVE  UNCHANGED <<log, received>>
  BY <1>5, Zenon DEF Wakeup, WorkerWake, OpenStream, CommandAck, AckFails, HandlerExits,
     SendLoop, SessionEnds, OpenRefused, Break, ProcessEnds,
     ControlPlaneRestart, vars
<1>6. QED
  BY <1>1, <1>2, <1>3, <1>4, <1>5 DEF Next, ControlPlane, Gateway, Faults,
         GatewayRestart, EnrollGateway, FinishWork, FinishRevocation

(* A covered event stays covered.                                          *)
LEMMA CoveredStable ==
  ASSUME TypeOK, [Next]_vars
  PROVE  /\ Len(log) <= Len(log')
         /\ \A s \in 1..Len(log) : Covered(s) => Covered(s)'
<1>1. log \in Seq(Commands)
  BY DEF TypeOK, CountersOK
<1>2. Len(log) <= Len(log') /\ \A s \in 1..Len(log) : log'[s] = log[s]
  BY <1>1, HistoryGrows
<1>3. received \subseteq received'
  BY HistoryGrows
<1>4. Len(log) \in Nat /\ Len(log') \in Nat
  BY <1>1, HistoryGrows
<1>5. QED
  BY <1>2, <1>3, <1>4 DEF Covered, Promise!Covered, Promise!Superseded,
     Promise!IsSnapshot

LEMMA ReceivedInOrderStep ==
  ASSUME TypeOK, DeliveryInv, [Next]_vars
  PROVE  ReceivedInOrder'
<1>1. \A s \in 1..Len(log) : Covered(s) => Covered(s)'
  BY CoveredStable
<1>2. received \subseteq 1..Len(log) /\ Len(log) \in Nat
  BY DEF DeliveryInv, KnownNumbers, TypeOK, CountersOK
<1>3. CASE received' = received
  BY <1>1, <1>2, <1>3 DEF DeliveryInv, ReceivedInOrder
<1>4. CASE Receive
  <2>1. down # <<>> /\ received' = received \cup {Head(down)}
    BY <1>4, Zenon DEF Receive
  <2>2. down \in Seq(Seqs)
    BY DEF TypeOK, QueuesOK
  <2>3. Head(down) = down[1] /\ 1 \in 1..Len(down) /\ down[1] \in Nat \ {0}
    BY <2>1, <2>2, EventsAssumption DEF Seqs
  <2>4. \A s \in 1..(down[1] - 1) : Covered(s)
    BY <2>3 DEF DeliveryInv, FlightInOrder
  <2>5. down[1] \in 1..Len(log)
    BY <2>3, <1>2 DEF DeliveryInv, KnownNumbers
  <2>6. QED
    BY <1>1, <1>2, <2>1, <2>3, <2>4, <2>5 DEF DeliveryInv, ReceivedInOrder
<1>5. Receive \/ received' = received
  BY HistoryGrows
<1>6. QED
  BY <1>3, <1>4, <1>5

(* How a step can change what is in flight, and what the senders hold.     *)
LEMMA FlightSteps ==
  [Next]_vars => \/ \E x \in Senders : SendNext(x)
                 \/ Receive
                 \/ (OpenStream \/ ProcessEnds) /\ down' = <<>>
                 \/ down' = down
<1>1. ASSUME NEW c \in Commands, CreateEvent(c) PROVE down' = down
  BY <1>1, Zenon DEF CreateEvent, netVars
<1>2. ASSUME NEW x \in Senders,
             ReadCursor(x) \/ ListEvents(x) \/ SendFails(x) \/ QueryFails(x)
      PROVE  down' = down
  BY <1>2, Zenon DEF ReadCursor, ListEvents, SendFails, QueryFails, netVars
<1>3. ASSUME NEW s \in Seqs,
             HandleMessage(s) \/ QueueAck(s) \/ FinishRenewal(s)
      PROVE  down' = down
  BY <1>3, Zenon DEF HandleMessage, QueueAck, FinishRenewal, netVars
<1>4. ASSUME \/ Wakeup \/ WorkerWake \/ CommandAck \/ AckFails \/ HandlerExits \/ SendLoop
             \/ SessionEnds \/ OpenRefused \/ Break \/ ControlPlaneRestart
             \/ UNCHANGED vars
      PROVE  down' = down
  BY <1>4, Zenon DEF Wakeup, WorkerWake, CommandAck, AckFails, HandlerExits, SendLoop,
     SessionEnds, OpenRefused, Break, ControlPlaneRestart, vars, netVars
<1>5. ASSUME OpenStream \/ ProcessEnds PROVE down' = <<>>
  BY <1>5, Zenon DEF OpenStream, ProcessEnds
<1>6. QED
  BY <1>1, <1>2, <1>3, <1>4, <1>5
     DEF Next, ControlPlane, Gateway, Faults, SenderStep,
         GatewayRestart, EnrollGateway, FinishWork, FinishRevocation

LEMMA HeadOfFlight ==
  ASSUME TypeOK, DeliveryInv, Receive
  PROVE  /\ Head(down) = down[1] /\ 1 \in 1..Len(down)
         /\ down[1] \in 1..Len(log)
         /\ received' = received \cup {down[1]}
         /\ Len(down') = Len(down) - 1 /\ Len(down) \in Nat
         /\ \A i \in 1..Len(down') : down'[i] = down[i + 1]
<1>1. /\ down # <<>> /\ down' = Tail(down)
      /\ received' = received \cup {Head(down)}
  BY Zenon DEF Receive
<1>2. down \in Seq(Seqs)
  BY DEF TypeOK, QueuesOK
<1>3. /\ Head(down) = down[1] /\ 1 \in 1..Len(down)
      /\ down[1] \in Nat \ {0}
  BY <1>1, <1>2, EventsAssumption DEF Seqs
<1>4. Len(log) \in Nat
  BY DEF TypeOK, CountersOK
<1>5. down[1] \in 1..Len(log)
  BY <1>3, <1>4 DEF DeliveryInv, KnownNumbers
<1>6. /\ Len(down') = Len(down) - 1 /\ Len(down) \in Nat
      /\ \A i \in 1..Len(down') : down'[i] = down[i + 1]
  BY <1>1, <1>2, TailFacts
<1>7. QED
  BY <1>1, <1>3, <1>5, <1>6, Zenon

(* The event a sender puts in flight, and what its delivery still holds.   *)
LEMMA SentEvent ==
  ASSUME TypeOK, DeliveryInv, NEW x \in Senders, SendNext(x)
  PROVE  \E s \in todo[x] :
           /\ s \in 1..Len(log)
           /\ \A r \in todo[x] : s <= r
           /\ Len(down') = Len(down) + 1 /\ Len(down) \in Nat
           /\ \A i \in 1..Len(down) : down'[i] = down[i]
           /\ down'[Len(down) + 1] = s
           /\ todo' = [todo EXCEPT ![x] = @ \ {s}]
<1>1. PICK s \in Seqs : /\ Least(s, todo[x])
                        /\ down' = Append(down, s)
                        /\ todo' = [todo EXCEPT ![x] = @ \ {s}]
  BY Zenon DEF SendNext
<1>2. s \in todo[x] /\ \A r \in todo[x] : s <= r
  BY <1>1, Zenon DEF Least
<1>3. s \in 1..Len(log)
  BY <1>2, Zenon DEF DeliveryInv, KnownNumbers
<1>4. /\ Len(down') = Len(down) + 1 /\ Len(down) \in Nat
      /\ \A i \in 1..Len(down) : down'[i] = down[i]
      /\ down'[Len(down) + 1] = s
  <2>1. down \in Seq(Seqs)
    BY DEF TypeOK, QueuesOK
  <2>2. QED
    BY <1>1, <2>1
<1>5. QED
  BY <1>1, <1>2, <1>3, <1>4, Zenon

LEMMA KnownNumbersStep ==
  ASSUME TypeOK, DeliveryInv, [Next]_vars
  PROVE  KnownNumbers'
<1>0. /\ 1..Len(log) \subseteq 1..Len(log')
      /\ \A n : n <= Len(log) /\ n \in Nat => n <= Len(log')
      /\ Len(log) \in Nat /\ Len(log') \in Nat
  <2>1. log \in Seq(Commands) /\ Len(log) \in Nat
    BY DEF TypeOK, CountersOK
  <2>2. Len(log') \in Nat
    BY <2>1, HistoryGrows
  <2>3. QED
    BY <2>1, <2>2, CoveredStable
<1>1. /\ received \subseteq 1..Len(log)
      /\ \A i \in 1..Len(down) : down[i] <= Len(log)
      /\ \A x \in Senders : todo[x] \subseteq 1..Len(log)
      /\ \A i \in 1..Len(down) : down[i] \in Nat
  BY EventsAssumption DEF DeliveryInv, KnownNumbers, TypeOK, QueuesOK, Seqs
<1>2. received' \subseteq 1..Len(log')
  <2>1. CASE Receive
    BY <1>0, <1>1, <2>1, HeadOfFlight
  <2>2. CASE received' = received
    BY <1>0, <1>1, <2>2
  <2>3. QED
    BY <2>1, <2>2, HistoryGrows
<1>3. \A i \in 1..Len(down') : down'[i] <= Len(log')
  <2>1. ASSUME NEW x \in Senders, SendNext(x)
        PROVE  \A i \in 1..Len(down') : down'[i] <= Len(log')
    BY <1>0, <1>1, <2>1, SentEvent
  <2>2. ASSUME Receive
        PROVE  \A i \in 1..Len(down') : down'[i] <= Len(log')
    BY <1>0, <1>1, <2>2, HeadOfFlight
  <2>3. CASE down' = <<>>
    BY <2>3
  <2>4. CASE down' = down
    BY <1>0, <1>1, <2>4
  <2>5. QED
    BY <2>1, <2>2, <2>3, <2>4, FlightSteps
<1>4. \A y \in Senders : todo'[y] \subseteq 1..Len(log')
  <2>0. todo \in [Senders -> SUBSET Seqs] /\ from \in [Senders -> 0..MaxSeq]
    BY DEF TypeOK, SendersOK
  <2>1. ASSUME NEW x \in Senders, ListEvents(x)
        PROVE  \A y \in Senders : todo'[y] \subseteq 1..Len(log')
    <3>1. /\ todo' = [todo EXCEPT ![x] = CompactGatewayEvents((from[x] + 1)..Len(log))]
          /\ log' = log
      BY <2>1, Zenon DEF ListEvents
    <3>2. (from[x] + 1)..Len(log) \subseteq 1..Len(log)
      BY <1>0, <2>0, EventsAssumption
    <3>3. CompactGatewayEvents((from[x] + 1)..Len(log)) \subseteq 1..Len(log)
      BY <3>2, Zenon DEF CompactGatewayEvents
    <3>4. QED
      BY <2>0, <3>1, <3>3, <1>1
  <2>2. ASSUME NEW x \in Senders, SendNext(x)
        PROVE  \A y \in Senders : todo'[y] \subseteq 1..Len(log')
    <3>1. PICK s : todo' = [todo EXCEPT ![x] = @ \ {s}]
      BY <2>2, SentEvent
    <3>2. QED
      BY <1>0, <1>1, <2>0, <3>1
  <2>3. ASSUME NEW x \in Senders, todo' = [todo EXCEPT ![x] = {}]
        PROVE  \A y \in Senders : todo'[y] \subseteq 1..Len(log')
    BY <1>0, <1>1, <2>0, <2>3
  <2>4. CASE todo' = [x \in Senders |-> {}]
    BY <2>4
  <2>5. CASE todo' = todo
    BY <1>0, <1>1, <2>5
  <2>6. ASSUME NEW x \in Senders, SendFails(x) PROVE todo' = [todo EXCEPT ![x] = {}]
    BY <2>6, Zenon DEF SendFails
  <2>7. ASSUME HandlerExits PROVE todo' = [todo EXCEPT !["handler"] = {}]
    BY <2>7, Zenon DEF HandlerExits
  <2>8. ASSUME ControlPlaneRestart PROVE todo' = [x \in Senders |-> {}]
    BY <2>8, Zenon DEF ControlPlaneRestart
  <2>9. ASSUME NEW c \in Commands, CreateEvent(c) PROVE todo' = todo
    BY <2>9, Zenon DEF CreateEvent
  <2>10. ASSUME NEW x \in Senders, ReadCursor(x) \/ QueryFails(x) PROVE todo' = todo
    BY <2>10, Zenon DEF ReadCursor, QueryFails
  <2>11. ASSUME NEW s \in Seqs,
                HandleMessage(s) \/ QueueAck(s) \/ FinishRenewal(s)
         PROVE  todo' = todo
    BY <2>11, Zenon DEF HandleMessage, QueueAck, FinishRenewal, cpVars
  <2>12. ASSUME \/ Wakeup \/ WorkerWake \/ OpenStream \/ CommandAck \/ AckFails \/ Receive
                \/ SendLoop \/ SessionEnds \/ OpenRefused \/ Break
                \/ ProcessEnds \/ UNCHANGED vars
         PROVE  todo' = todo
    BY <2>12, Zenon DEF Wakeup, WorkerWake, OpenStream, CommandAck, AckFails, Receive,
       SendLoop, SessionEnds, OpenRefused, Break, ProcessEnds, vars, cpVars
  <2>13. "handler" \in Senders
    BY DEF Senders
  <2>14. QED
    BY <2>1, <2>2, <2>3, <2>4, <2>5, <2>6, <2>7, <2>8, <2>9, <2>10, <2>11,
       <2>12, <2>13 DEF Next, ControlPlane, Gateway, Faults, SenderStep,
         GatewayRestart, EnrollGateway, FinishWork, FinishRevocation
<1>5. QED
  BY <1>2, <1>3, <1>4 DEF KnownNumbers

LEMMA FlightInOrderStep ==
  ASSUME TypeOK, DeliveryInv, [Next]_vars
  PROVE  FlightInOrder'
<1>1. \A s \in 1..Len(log) : Covered(s) => Covered(s)'
  BY CoveredStable
<1>2. /\ \A i \in 1..Len(down) : down[i] \in 1..Len(log)
      /\ Len(down) \in Nat /\ Len(log) \in Nat
  BY EventsAssumption DEF DeliveryInv, KnownNumbers, TypeOK, QueuesOK, CountersOK, Seqs
<1>3. \A i \in 1..Len(down) : \A s \in 1..(down[i] - 1) :
        Covered(s)' \/ \E j \in 1..(i - 1) : down[j] = s
  BY <1>1, <1>2 DEF DeliveryInv, FlightInOrder
<1>4. CASE down' = down
  BY <1>3, <1>4 DEF FlightInOrder
<1>5. CASE down' = <<>>
  BY <1>5 DEF FlightInOrder
<1>6. CASE Receive
  <2>1. /\ Len(down') = Len(down) - 1 /\ 1 \in 1..Len(down)
        /\ \A i \in 1..Len(down') : down'[i] = down[i + 1]
        /\ down[1] \in received'
    BY <1>6, HeadOfFlight
  <2>2. \A s \in {down[1]} : Covered(s)'
    BY <2>1 DEF Covered, Promise!Covered
  <2>3. SUFFICES ASSUME NEW i \in 1..Len(down'), NEW s \in 1..(down'[i] - 1),
                        ~ Covered(s)'
                 PROVE  \E j \in 1..(i - 1) : down'[j] = s
    BY DEF FlightInOrder
  <2>4. i + 1 \in 1..Len(down) /\ s \in 1..(down[i + 1] - 1)
    BY <1>2, <2>1
  <2>5. PICK j \in 1..i : down[j] = s
    BY <1>2, <1>3, <2>3, <2>4
  <2>6. j # 1
    BY <2>2, <2>3, <2>5
  <2>7. j - 1 \in 1..(i - 1) /\ down'[j - 1] = s
    <3>1. j \in Nat /\ i \in Nat /\ j - 1 \in 1..(i - 1) /\ j - 1 \in 1..Len(down')
      BY <1>2, <2>1, <2>4, <2>5, <2>6
    <3>2. down'[j - 1] = down[(j - 1) + 1] /\ (j - 1) + 1 = j
      BY <2>1, <3>1
    <3> QED
      BY <2>5, <3>1, <3>2
  <2>8. QED
    BY <2>7
<1>7. ASSUME NEW x \in Senders, SendNext(x) PROVE FlightInOrder'
  <2>1. PICK n \in todo[x] :
          /\ n \in 1..Len(log) /\ \A r \in todo[x] : n <= r
          /\ Len(down') = Len(down) + 1
          /\ \A i \in 1..Len(down) : down'[i] = down[i]
          /\ down'[Len(down) + 1] = n
    BY <1>7, SentEvent
  <2>2. pc[x] = "send" /\ Reachable(x)
    BY <1>7, Zenon DEF SendNext
  <2>3. \A s \in 1..(n - 1) : Covered(s) \/ InFlight(s)
    BY <2>1, <2>2 DEF DeliveryInv, SendersInOrder, KnownNumbers
  <2>4. \A s \in 1..(n - 1) :
          Covered(s)' \/ \E j \in 1..Len(down) : down'[j] = s
    BY <1>1, <1>2, <2>1, <2>3 DEF InFlight
  <2>5. SUFFICES ASSUME NEW i \in 1..Len(down'), NEW s \in 1..(down'[i] - 1),
                        ~ Covered(s)'
                 PROVE  \E j \in 1..(i - 1) : down'[j] = s
    BY DEF FlightInOrder
  <2>6. CASE i = Len(down) + 1
    <3>1. s \in 1..(n - 1) /\ i - 1 = Len(down)
      BY <1>2, <2>1, <2>5, <2>6
    <3> QED
      BY <2>4, <2>5, <3>1
  <2>7. CASE i \in 1..Len(down)
    <3>1. s \in 1..(down[i] - 1)
      BY <2>1, <2>5, <2>7
    <3>2. PICK j \in 1..(i - 1) : down[j] = s
      BY <1>3, <2>5, <2>7, <3>1
    <3>3. j \in 1..Len(down)
      BY <1>2, <2>7
    <3> QED
      BY <2>1, <3>2, <3>3
  <2>8. QED
    BY <1>2, <2>1, <2>6, <2>7
<1>8. QED
  BY <1>4, <1>5, <1>6, <1>7, FlightSteps

(* x is in the middle of a delivery over a stream that works.              *)
Sending(x) == pc[x] = "send" /\ Reachable(x)

(* A delivery that goes on holds what it held, unless it is x's own step.  *)
LEMMA SendingKept ==
  ASSUME TypeOK, [Next]_vars, NEW x \in Senders, Sending(x)'
  PROVE  \/ ListEvents(x) \/ SendNext(x)
         \/ Sending(x) /\ todo'[x] = todo[x] /\ ~ OpenStream
<1>0. /\ pc \in [Senders -> {"idle", "cursor", "list", "send", "recv"}]
      /\ todo \in [Senders -> SUBSET Seqs] /\ Senders = {"worker", "handler"}
  BY DEF TypeOK, SendersOK, Senders
<1>1. pc'[x] = "send" /\ alive'
  BY Zenon DEF Sending, Reachable
<1>2. ~ (x = "worker" /\ stale')
  BY Zenon DEF Sending, Reachable
<1>3. ASSUME pc' = pc, todo' = todo, alive' => alive /\ stale' = stale
      PROVE  Sending(x) /\ todo'[x] = todo[x]
  <2>1. alive /\ stale' = stale
    BY <1>1, <1>3, Zenon
  <2>2. ~ (x = "worker" /\ stale)
    BY <1>2, <2>1, Zenon
  <2>3. pc[x] = "send" /\ todo'[x] = todo[x]
    BY <1>1, <1>3, Zenon
  <2>4. QED
    BY <2>1, <2>2, <2>3, Zenon DEF Sending, Reachable
<1>4. ASSUME NEW y \in Senders, NEW p \in {"idle", "cursor", "list", "recv"},
             pc' = [pc EXCEPT ![y] = p],
             todo' = todo \/ todo' = [todo EXCEPT ![y] = {}],
             alive' => alive, stale' = stale \/ y = "worker"
      PROVE  Sending(x) /\ todo'[x] = todo[x]
  <2>1. x # y /\ pc[x] = "send" /\ todo'[x] = todo[x]
    BY <1>0, <1>1, <1>4
  <2>2. alive
    BY <1>1, <1>4, Zenon
  <2>3. ~ (x = "worker" /\ stale)
    BY <1>2, <1>4, <2>1, Zenon
  <2>4. QED
    BY <2>1, <2>2, <2>3, Zenon DEF Sending, Reachable
<1>5. ASSUME NEW y \in Senders, y # x, ListEvents(y) \/ SendNext(y)
      PROVE  Sending(x) /\ todo'[x] = todo[x]
  <2>1. /\ UNCHANGED <<alive, stale>>
        /\ \E S : todo' = [todo EXCEPT ![y] = S]
        /\ \E p : pc' = [pc EXCEPT ![y] = p]
    BY <1>5, Zenon DEF ListEvents, SendNext, netVars
  <2>2. pc'[x] = pc[x] /\ todo'[x] = todo[x]
    BY <1>0, <1>5, <2>1
  <2>3. QED
    BY <1>1, <1>2, <2>1, <2>2, Zenon DEF Sending, Reachable
<1>6. ASSUME NEW y \in Senders, ReadCursor(y) \/ SendFails(y) \/ QueryFails(y)
      PROVE  Sending(x) /\ todo'[x] = todo[x]
  <2>1. /\ pc' = [pc EXCEPT ![y] = "list"] \/ pc' = [pc EXCEPT ![y] = "idle"]
        /\ todo' = todo \/ todo' = [todo EXCEPT ![y] = {}]
        /\ alive' => alive
        /\ stale' = stale
    <3>1. CASE ReadCursor(y)
      BY <3>1, Zenon DEF ReadCursor, netVars
    <3>2. CASE SendFails(y)
      BY <3>2, Zenon DEF SendFails, netVars
    <3>3. CASE QueryFails(y)
      BY <3>3, Zenon DEF QueryFails
    <3>4. QED
      BY <1>6, <3>1, <3>2, <3>3, Zenon
  <2>2. QED
    BY <1>4, <2>1, Zenon
<1>7. ASSUME HandlerExits PROVE Sending(x) /\ todo'[x] = todo[x]
  <2>1. /\ pc' = [pc EXCEPT !["handler"] = "idle"]
        /\ todo' = [todo EXCEPT !["handler"] = {}]
        /\ alive' => alive
        /\ stale' = stale
    BY <1>7, Zenon DEF HandlerExits, netVars
  <2>2. QED
    BY <1>0, <1>4, <2>1, Zenon
<1>8. ASSUME WorkerWake PROVE Sending(x) /\ todo'[x] = todo[x]
  <2>1. /\ \/ pc' = [pc EXCEPT !["worker"] = "cursor"]
           \/ pc' = pc /\ stale' = stale
        /\ todo' = todo /\ alive' = alive
    BY <1>8, Zenon DEF WorkerWake, netVars
  <2>2. CASE pc' = [pc EXCEPT !["worker"] = "cursor"]
    BY <1>0, <1>4, <2>1, <2>2, Zenon
  <2>3. CASE pc' = pc /\ stale' = stale
    BY <1>3, <2>1, <2>3, Zenon
  <2>4. QED
    BY <2>1, <2>2, <2>3, Zenon
<1>9. ~ OpenStream
  <2>1. SUFFICES ASSUME OpenStream PROVE FALSE
    OBVIOUS
  <2>2. /\ pc' = [pc EXCEPT !["handler"] = "cursor"]
        /\ stale' = (pc["worker"] # "idle")
    BY <2>1, Zenon DEF OpenStream
  <2>3. x = "worker" /\ pc["worker"] = "send"
    BY <1>0, <1>1, <2>2
  <2>4. pc["worker"] # "idle"
    BY <2>3
  <2>5. QED
    BY <1>2, <2>2, <2>3, <2>4, Zenon
<1>10. ~ ControlPlaneRestart
  BY <1>1, Zenon DEF ControlPlaneRestart
<1>11. ASSUME NEW c \in Commands, CreateEvent(c)
       PROVE  Sending(x) /\ todo'[x] = todo[x]
  BY <1>3, <1>11, Zenon DEF CreateEvent, netVars
<1>12. ASSUME NEW s \in Seqs,
              HandleMessage(s) \/ QueueAck(s) \/ FinishRenewal(s)
       PROVE  Sending(x) /\ todo'[x] = todo[x]
  <2>1. UNCHANGED <<pc, todo, stale>>
    BY <1>12, Zenon DEF HandleMessage, QueueAck, FinishRenewal, cpVars
  <2>2. alive' = alive \/ alive' = FALSE
    BY <1>12, Zenon DEF HandleMessage, QueueAck, FinishRenewal, netVars
  <2>3. QED
    BY <1>3, <2>1, <2>2
<1>13. ASSUME \/ Wakeup \/ CommandAck \/ AckFails \/ Receive \/ SendLoop \/ SessionEnds
              \/ OpenRefused \/ UNCHANGED vars
       PROVE  Sending(x) /\ todo'[x] = todo[x]
  <2>1. pc' = pc /\ todo' = todo /\ alive' = alive /\ stale' = stale
    BY <1>13, Zenon DEF Wakeup, CommandAck, AckFails, Receive, SendLoop, SessionEnds,
       OpenRefused, vars, cpVars, netVars
  <2>2. QED
    BY <1>3, <2>1, Zenon
<1>14. ASSUME Break \/ ProcessEnds PROVE Sending(x) /\ todo'[x] = todo[x]
  <2>1. pc' = pc /\ todo' = todo /\ ~ alive'
    BY <1>14, Zenon DEF Break, ProcessEnds, cpVars
  <2>2. QED
    BY <1>1, <2>1, Zenon
<1>15. CASE ControlPlane
  <2>1. CASE \E y \in Senders : SenderStep(y)
    BY <1>5, <1>6, <1>9, <2>1, Zenon DEF SenderStep
  <2>2. QED
    BY <1>7, <1>8, <1>9, <1>13, <1>15, <2>1, Zenon DEF ControlPlane
<1>16. CASE Gateway
  BY <1>9, <1>12, <1>13, <1>14, <1>16, Zenon
     DEF Gateway, FinishWork, FinishRevocation
<1>17. CASE Faults
  BY <1>6, <1>9, <1>10, <1>13, <1>14, <1>17, Zenon DEF Faults, GatewayRestart
<1>18. QED
  BY <1>9, <1>11, <1>13, <1>14, <1>15, <1>16, <1>17, Zenon
     DEF Next, EnrollGateway

LEMMA AckedIsReceived ==
  ASSUME TypeOK, DeliveryInv
  PROVE  AckedReceived
<1>1. cursor \in Nat /\ (cursor > 0 => cursor \in received)
  BY EventsAssumption DEF TypeOK, CountersOK, DeliveryInv, AckSources, Answered
<1>2. \A t \in received : Covered(t)
  BY DEF Covered, Promise!Covered
<1>3. QED
  BY <1>1, <1>2 DEF AckedReceived, DeliveryInv, ReceivedInOrder

LEMMA SendersInOrderStep ==
  ASSUME TypeOK, DeliveryInv, [Next]_vars
  PROVE  SendersInOrder'
<1>0. /\ todo \in [Senders -> SUBSET Seqs] /\ from \in [Senders -> 0..MaxSeq]
      /\ Len(log) \in Nat /\ Len(down) \in Nat /\ MaxSeq \in Nat /\ cursor \in Nat
      /\ \A y \in Senders : todo[y] \subseteq 1..Len(log) /\ from[y] <= cursor
  BY EventsAssumption DEF TypeOK, SendersOK, CountersOK, QueuesOK, DeliveryInv,
     KnownNumbers, CursorReads
<1>1. SUFFICES ASSUME NEW x \in Senders, Sending(x)',
                      NEW t \in todo'[x], NEW s \in 1..(t - 1),
                      ~ Covered(s)', ~ InFlight(s)'
               PROVE  s \in todo'[x]
  BY DEF SendersInOrder, Sending
<1>2. ASSUME Sending(x), t \in todo[x]
      PROVE  InFlight(s) \/ s \in todo[x]
  <2>1. t \in 1..Len(log) /\ s \in 1..Len(log)
    BY <1>0, <1>2
  <2>2. Covered(s) \/ InFlight(s) \/ s \in todo[x]
    BY <1>2 DEF DeliveryInv, SendersInOrder, Sending
  <2>3. QED
    BY <1>1, <2>1, <2>2, CoveredStable
<1>3. ASSUME NEW y \in Senders, SendNext(y), InFlight(s) PROVE FALSE
  <2>1. InFlight(s)'
    BY <1>0, <1>3, SentEvent DEF InFlight
  <2>2. QED
    BY <1>1, <2>1
<1>4. CASE ListEvents(x)
  <2>1. /\ todo' = [todo EXCEPT ![x] = CompactGatewayEvents((from[x] + 1)..Len(log))]
        /\ log' = log
    BY <1>4, Zenon DEF ListEvents
  <2>2. todo'[x] = CompactGatewayEvents((from[x] + 1)..Len(log))
    BY <1>0, <2>1
  <2>3. from[x] \in Nat /\ from[x] <= cursor
    BY <1>0
  <2>4. t \in (from[x] + 1)..Len(log)
    BY <2>2 DEF CompactGatewayEvents
  <2>5. CASE s <= from[x]
    <3>1. s \in 1..cursor /\ s \in 1..Len(log)
      BY <1>0, <2>3, <2>4, <2>5
    <3>2. Covered(s)
      BY <3>1, AckedIsReceived DEF AckedReceived
    <3>3. QED
      BY <1>1, <3>1, <3>2, CoveredStable
  <2>6. CASE s \in (from[x] + 1)..Len(log)
    <3>1. s \in 1..Len(log)
      BY <2>3, <2>6
    <3>2. ~ Covered(s)
      BY <1>1, <3>1, CoveredStable
    <3>3. s \in CompactGatewayEvents((from[x] + 1)..Len(log))
      BY <1>0, <2>3, <2>6, <3>2 DEF CompactGatewayEvents, Covered, IsSnapshot,
         Promise!Covered, Promise!Superseded, Promise!IsSnapshot
    <3>4. QED
      BY <2>2, <3>3
  <2>7. QED
    BY <1>0, <2>3, <2>4, <2>5, <2>6
<1>5. CASE SendNext(x)
  <2>1. Sending(x)
    BY <1>5, Zenon DEF SendNext, Sending
  <2>2. PICK n \in todo[x] : /\ todo' = [todo EXCEPT ![x] = @ \ {n}]
                             /\ Len(down') = Len(down) + 1
                             /\ down'[Len(down) + 1] = n
    BY <1>5, SentEvent
  <2>3. todo'[x] = todo[x] \ {n}
    BY <1>0, <2>2
  <2>4. s # n
    BY <1>0, <1>1, <2>2 DEF InFlight
  <2>5. s \in todo[x]
    BY <1>2, <1>3, <1>5, <2>1, <2>3
  <2>6. QED
    BY <2>3, <2>4, <2>5
<1>6. CASE Sending(x) /\ todo'[x] = todo[x] /\ ~ OpenStream
  <2>1. SUFFICES ASSUME InFlight(s) PROVE FALSE
    BY <1>2, <1>6
  <2>2. CASE down' = down
    BY <1>1, <2>1, <2>2 DEF InFlight
  <2>3. CASE Receive
    <3>1. PICK j \in 1..Len(down) : down[j] = s
      BY <2>1 DEF InFlight
    <3>2. CASE j = 1
      <4>1. s \in received'
        BY <2>3, <3>1, <3>2, HeadOfFlight
      <4>2. QED
        BY <1>1, <4>1 DEF Covered, Promise!Covered
    <3>3. CASE j # 1
      <4>1. j - 1 \in 1..Len(down') /\ down'[j - 1] = s
        BY <2>3, <3>1, <3>3, HeadOfFlight
      <4>2. QED
        BY <1>1, <4>1 DEF InFlight
    <3>4. QED
      BY <3>2, <3>3
  <2>4. ~ ProcessEnds
    BY <1>1, Zenon DEF ProcessEnds, Sending, Reachable
  <2>5. QED
    BY <1>3, <1>6, <2>1, <2>2, <2>3, <2>4, FlightSteps
<1>7. QED
  BY <1>1, <1>4, <1>5, <1>6, SendingKept
-----------------------------------------------------------------------------
(* Where acknowledgements come from.                                       *)

LEMMA CursorSteps ==
  ASSUME TypeOK, [Next]_vars
  PROVE  \/ cursor' = cursor
         \/ /\ CommandAck /\ up # <<>> /\ Head(up) = up[1]
            /\ cursor' = Head(up) /\ cursor' >= cursor
<1>1. CASE CommandAck
  <2>1. /\ up # <<>>
        /\ cursor' = cursor \/ cursor' = Larger(cursor, Head(up))
    BY <1>1, Zenon DEF CommandAck
  <2>2. Head(up) = up[1] /\ Head(up) \in Nat /\ cursor \in Nat
    BY <2>1, EventsAssumption DEF TypeOK, QueuesOK, CountersOK, Seqs
  <2>3. QED
    BY <1>1, <2>1, <2>2 DEF Larger, Promise!Larger
<1>2. ASSUME NEW c \in Commands, CreateEvent(c) PROVE cursor' = cursor
  BY <1>2, Zenon DEF CreateEvent
<1>3. ASSUME NEW x \in Senders, SenderStep(x) \/ QueryFails(x)
      PROVE  cursor' = cursor
  BY <1>3, Zenon DEF SenderStep, ReadCursor, ListEvents, SendNext, SendFails,
     QueryFails
<1>4. ASSUME NEW s \in Seqs, HandleMessage(s) \/ QueueAck(s) \/ FinishRenewal(s)
      PROVE  cursor' = cursor
  BY <1>4, Zenon DEF HandleMessage, QueueAck, FinishRenewal
<1>5. ASSUME \/ Wakeup \/ WorkerWake \/ OpenStream \/ AckFails \/ HandlerExits \/ Receive
             \/ SendLoop \/ SessionEnds \/ OpenRefused \/ Break
             \/ ProcessEnds \/ ControlPlaneRestart \/ UNCHANGED vars
      PROVE  cursor' = cursor
  BY <1>5, Zenon DEF Wakeup, WorkerWake, OpenStream, AckFails, HandlerExits, Receive,
     SendLoop, SessionEnds, OpenRefused, Break, ProcessEnds,
     ControlPlaneRestart, vars
<1>6. QED
  BY <1>1, <1>2, <1>3, <1>4, <1>5 DEF Next, ControlPlane, Gateway, Faults,
         GatewayRestart, EnrollGateway, FinishWork, FinishRevocation

LEMMA CursorReadsStep ==
  ASSUME TypeOK, DeliveryInv, [Next]_vars
  PROVE  CursorReads'
<1>0. /\ from \in [Senders -> 0..MaxSeq] /\ cursor \in Nat /\ cursor' \in Nat
      /\ \A x \in Senders : from[x] <= cursor /\ from[x] \in Nat
  BY EventsAssumption, CountersStep
     DEF TypeOK, SendersOK, CountersOK, DeliveryInv, CursorReads
<1>1. cursor' >= cursor
  BY <1>0, CursorSteps
<1>2. ASSUME NEW x \in Senders, ReadCursor(x) PROVE CursorReads'
  <2>1. from' = [from EXCEPT ![x] = cursor] /\ cursor' = cursor
    BY <1>2, Zenon DEF ReadCursor
  <2>2. QED
    BY <1>0, <2>1 DEF CursorReads
<1>3. ASSUME NEW x \in Senders, ListEvents(x) PROVE CursorReads'
  <2>1. from' = [from EXCEPT ![x] = 0] /\ cursor' = cursor
    BY <1>3, Zenon DEF ListEvents
  <2>2. QED
    BY <1>0, <2>1 DEF CursorReads
<1>4. CASE from' = from
  BY <1>0, <1>1, <1>4 DEF CursorReads
<1>5. ASSUME NEW c \in Commands, CreateEvent(c) PROVE from' = from
  BY <1>5, Zenon DEF CreateEvent
<1>6. ASSUME NEW x \in Senders, SendNext(x) \/ SendFails(x) \/ QueryFails(x)
      PROVE  from' = from
  BY <1>6, Zenon DEF SendNext, SendFails, QueryFails
<1>7. ASSUME NEW s \in Seqs,
             HandleMessage(s) \/ QueueAck(s) \/ FinishRenewal(s)
      PROVE  from' = from
  BY <1>7, Zenon DEF HandleMessage, QueueAck, FinishRenewal, cpVars
<1>8. ASSUME \/ Wakeup \/ WorkerWake \/ OpenStream \/ CommandAck \/ AckFails \/ HandlerExits
             \/ Receive \/ SendLoop \/ SessionEnds \/ OpenRefused \/ Break
             \/ ProcessEnds \/ ControlPlaneRestart \/ UNCHANGED vars
      PROVE  from' = from
  BY <1>8, Zenon DEF Wakeup, WorkerWake, OpenStream, CommandAck, AckFails, HandlerExits,
     Receive, SendLoop, SessionEnds, OpenRefused, Break, ProcessEnds,
     ControlPlaneRestart, vars, cpVars
<1>9. QED
  BY <1>2, <1>3, <1>4, <1>5, <1>6, <1>7, <1>8
     DEF Next, ControlPlane, Gateway, Faults, SenderStep,
         GatewayRestart, EnrollGateway, FinishWork, FinishRevocation

(* How a step can change the goroutines of the gateway.                    *)
LEMMA HandlerSteps ==
  [Next]_vars => \/ Receive
                 \/ \E s \in Seqs : HandleMessage(s) \/ QueueAck(s) \/ FinishRenewal(s)
                 \/ ProcessEnds /\ handled \subseteq handled'
                 \/ UNCHANGED procVars
<1>1. ASSUME NEW c \in Commands, CreateEvent(c) PROVE UNCHANGED procVars
  BY <1>1, Zenon DEF CreateEvent
<1>2. ASSUME NEW x \in Senders, SenderStep(x) \/ QueryFails(x)
      PROVE  UNCHANGED procVars
  BY <1>2, Zenon DEF SenderStep, ReadCursor, ListEvents, SendNext, SendFails,
     QueryFails
<1>3. ASSUME \/ Wakeup \/ WorkerWake \/ OpenStream \/ CommandAck \/ AckFails
             \/ HandlerExits \/ SendLoop \/ SessionEnds \/ OpenRefused \/ Break
             \/ ControlPlaneRestart \/ UNCHANGED vars
      PROVE  UNCHANGED procVars
  BY <1>3, Zenon DEF Wakeup, WorkerWake, OpenStream, CommandAck, AckFails,
     HandlerExits, SendLoop, SessionEnds, OpenRefused, Break,
     ControlPlaneRestart, vars
<1>4. ASSUME \/ GatewayRestart \/ EnrollGateway
             \/ \E s \in Seqs : FinishRevocation(s)
      PROVE  ProcessEnds /\ handled \subseteq handled'
  BY <1>4 DEF GatewayRestart, EnrollGateway, FinishRevocation
<1>5. QED
  BY <1>1, <1>2, <1>3, <1>4 DEF Next, ControlPlane, Gateway, Faults, FinishWork

(* Work that is under way ends, goes on, or is cut off with the process.   *)
LEMMA WorkSteps ==
  ASSUME TypeOK, [Next]_vars
  PROVE  /\ handled \subseteq handled' /\ cut \subseteq cut'
         /\ \A n \in Seqs :
              working[n] > 0 => n \in handled' \/ working'[n] > 0 \/ n \in cut'
<1>0. working \in [Seqs -> Nat] /\ started \in [Seqs -> Nat]
  BY DEF TypeOK, HandlersOK
<1>1. ASSUME handled \subseteq handled', UNCHANGED <<working, cut>>
      PROVE  /\ handled \subseteq handled' /\ cut \subseteq cut'
             /\ \A n \in Seqs :
                  working[n] > 0 => n \in handled' \/ working'[n] > 0 \/ n \in cut'
  BY <1>1
<1>2. ASSUME Receive \/ UNCHANGED procVars
      PROVE  handled \subseteq handled' /\ UNCHANGED <<working, cut>>
  BY <1>2, Zenon DEF Receive, procVars
<1>3. ASSUME NEW s \in Seqs, HandleMessage(s)
      PROVE  handled \subseteq handled' /\ UNCHANGED <<working, cut>>
  BY <1>3 DEF HandleMessage
<1>4. ASSUME NEW s \in Seqs, QueueAck(s)
      PROVE  /\ handled \subseteq handled' /\ cut \subseteq cut'
             /\ \A n \in Seqs : working[n] > 0 => working'[n] > 0
  <2>1. /\ handled' = handled \/ handled' = handled \cup {s}
        /\ working' = working \/ working' = [working EXCEPT ![s] = @ + 1]
        /\ cut' = cut
    BY <1>4, Zenon DEF QueueAck, WorkLeft
  <2>2. QED
    BY <1>0, <2>1
<1>5. ASSUME NEW s \in Seqs, FinishRenewal(s)
      PROVE  /\ handled \subseteq handled' /\ cut \subseteq cut'
             /\ \A n \in Seqs : working[n] > 0 => n \in handled' \/ working'[n] > 0
  <2>1. /\ handled' = handled \cup {s} /\ cut' = cut
        /\ working' = [working EXCEPT ![s] = @ - 1]
    BY <1>5, Zenon DEF FinishRenewal
  <2>2. QED
    BY <1>0, <2>1
<1>6. ASSUME ProcessEnds
      PROVE  /\ cut \subseteq cut'
             /\ \A n \in Seqs : working[n] > 0 => n \in cut'
  BY <1>6 DEF ProcessEnds
<1>7. QED
  BY <1>1, <1>2, <1>3, <1>4, <1>5, <1>6, HandlerSteps

(* An event that was answered stays so, and the command of an event that   *)
(* was read stays what it is.                                              *)
LEMMA AnsweredStable ==
  ASSUME TypeOK, DeliveryInv, [Next]_vars, NEW n \in Seqs
  PROVE  /\ Begun(n) => Begun(n)'
         /\ Answered(n) => Answered(n)'
<1>1. SUFFICES ASSUME n \in received
               PROVE  /\ Begun(n) => Begun(n)'
                      /\ Answered(n) => Answered(n)'
  BY Zenon DEF Begun, Answered
<1>2. n \in received'
  BY <1>1, HistoryGrows
<1>3. log'[n] = log[n]
  <2>1. n \in 1..Len(log) /\ log \in Seq(Commands)
    BY <1>1 DEF DeliveryInv, KnownNumbers, TypeOK, CountersOK
  <2>2. QED
    BY <2>1, HistoryGrows
<1>4. QED
  BY <1>2, <1>3, WorkSteps DEF Begun, Answered

(* The acknowledgement that leaves the handler is an answer.               *)
LEMMA AckIsAnswer ==
  ASSUME TypeOK, NEW s \in Seqs, QueueAck(s), Begun(s)
  PROVE  Answered(s)'
<1>1. /\ log' = log /\ received' = received
      /\ s \in received
      /\ s \in handled \/ log[s] \in EarlyCommands
  BY Zenon DEF QueueAck, Begun
<1>2. CASE handled' = handled \cup {s}
  BY <1>1, <1>2 DEF Answered
<1>3. CASE log[s] \in EarlyCommands /\ working' = [working EXCEPT ![s] = @ + 1]
  <2>1. working'[s] > 0
    BY <1>3 DEF TypeOK, HandlersOK
  <2>2. QED
    BY <1>1, <1>3, <2>1 DEF Answered
<1>4. CASE log[s] \notin EarlyCommands /\ handled' = handled
  BY <1>1, <1>4, Zenon DEF Answered
<1>5. QED
  BY <1>2, <1>3, <1>4, Zenon DEF QueueAck, WorkLeft

(* How a step can change the two queues of acknowledgements.               *)
LEMMA AckQueueSteps ==
  [Next]_vars =>
    /\ \/ \E s \in Seqs : QueueAck(s) /\ sendCh' = Append(sendCh, s)
       \/ sendCh # <<>> /\ sendCh' = Tail(sendCh)
       \/ sendCh' = <<>>
       \/ sendCh' = sendCh
    /\ \/ SendLoop /\ sendCh # <<>> /\ up' = Append(up, Head(sendCh))
       \/ up # <<>> /\ up' = Tail(up)
       \/ up' = <<>>
       \/ up' = up
<1> DEFINE G == /\ \/ \E s \in Seqs : QueueAck(s) /\ sendCh' = Append(sendCh, s)
                   \/ sendCh # <<>> /\ sendCh' = Tail(sendCh)
                   \/ sendCh' = <<>>
                   \/ sendCh' = sendCh
                /\ \/ SendLoop /\ sendCh # <<>> /\ up' = Append(up, Head(sendCh))
                   \/ up # <<>> /\ up' = Tail(up)
                   \/ up' = <<>>
                   \/ up' = up
<1>1. ASSUME NEW c \in Commands, CreateEvent(c) PROVE G
  BY <1>1, Zenon DEF CreateEvent, netVars
<1>2. ASSUME NEW x \in Senders, SenderStep(x) \/ QueryFails(x) PROVE G
  BY <1>2, Zenon DEF SenderStep, ReadCursor, ListEvents, SendNext, SendFails,
     QueryFails, netVars
<1>3. ASSUME NEW s \in Seqs, HandleMessage(s) \/ FinishRenewal(s) PROVE G
  BY <1>3, Zenon DEF HandleMessage, FinishRenewal, netVars
<1>4. ASSUME NEW s \in Seqs, QueueAck(s) PROVE G
  <2>1. sendCh' = Append(sendCh, s) \/ sendCh' = sendCh
    BY <1>4, Zenon DEF QueueAck
  <2>2. up' = up
    BY <1>4, Zenon DEF QueueAck, netVars
  <2>3. QED
    BY <1>4, <2>1, <2>2, Zenon
<1>5. CASE SendLoop
  <2>1. sendCh # <<>> /\ sendCh' = Tail(sendCh)
    BY <1>5, Zenon DEF SendLoop
  <2>2. up' = Append(up, Head(sendCh)) \/ up' = up
    BY <1>5, Zenon DEF SendLoop
  <2>3. QED
    BY <1>5, <2>1, <2>2, Zenon
<1>6. CASE CommandAck \/ AckFails \/ OpenRefused
  BY <1>6, Zenon DEF CommandAck, AckFails, OpenRefused, netVars
<1>7. CASE OpenStream \/ ProcessEnds \/ ControlPlaneRestart
  BY <1>7, Zenon DEF OpenStream, ProcessEnds, ControlPlaneRestart
<1>8. CASE \/ Wakeup \/ WorkerWake \/ HandlerExits \/ Receive \/ SessionEnds
           \/ Break \/ UNCHANGED vars
  BY <1>8, Zenon DEF Wakeup, WorkerWake, HandlerExits, Receive, SessionEnds,
     Break, vars, netVars
<1>9. QED
  BY <1>1, <1>2, <1>3, <1>4, <1>5, <1>6, <1>7, <1>8, Zenon
     DEF Next, ControlPlane, Gateway, Faults,
         GatewayRestart, EnrollGateway, FinishWork, FinishRevocation

LEMMA AckSourcesStep ==
  ASSUME TypeOK, DeliveryInv, [Next]_vars
  PROVE  AckSources'
<1>0. /\ sendCh \in Seq(Seqs) /\ up \in Seq(Seqs)
      /\ started \in [Seqs -> Nat] /\ acking \in [Seqs -> Nat]
      /\ Seqs = 1..MaxSeq /\ MaxSeq \in Nat
  BY EventsAssumption DEF TypeOK, QueuesOK, HandlersOK, Seqs
<1>1. /\ \A s \in Seqs : started[s] > 0 => s \in received
      /\ \A s \in Seqs : acking[s] > 0 => Begun(s)
      /\ \A i \in 1..Len(sendCh) : Answered(sendCh[i])
      /\ \A i \in 1..Len(up) : Answered(up[i])
      /\ cursor > 0 => Answered(cursor)
  BY Zenon DEF DeliveryInv, AckSources
<1> DEFINE B(n) == /\ n \in received'
                   /\ n \in handled' \/ log'[n] \in EarlyCommands
<1> DEFINE A(n) == /\ n \in received'
                   /\ \/ n \in handled'
                      \/ /\ log'[n] \in EarlyCommands
                         /\ working'[n] > 0 \/ n \in cut'
<1>2. \A n \in Seqs : Begun(n) => B(n)
  BY AnsweredStable DEF Begun
<1>3. \A n \in Seqs : Answered(n) => A(n)
  BY AnsweredStable DEF Answered
<1> HIDE DEF A, B
<1>4. \A s \in Seqs : started'[s] > 0 => s \in received'
  <2>1. CASE Receive
    <3>1. /\ down # <<>> /\ started' = [started EXCEPT ![Head(down)] = @ + 1]
          /\ received' = received \cup {Head(down)}
      BY <2>1, Zenon DEF Receive
    <3>2. Head(down) \in Seqs
      BY <3>1 DEF TypeOK, QueuesOK
    <3>3. QED
      BY <1>0, <1>1, <3>1, <3>2
  <2>2. ASSUME NEW s \in Seqs, HandleMessage(s)
        PROVE  \A n \in Seqs : started'[n] > 0 => started[n] > 0
    <3>1. started[s] > 0 /\ started' = [started EXCEPT ![s] = @ - 1]
      BY <2>2, Zenon DEF HandleMessage
    <3>2. QED
      BY <1>0, <3>1
  <2>3. ASSUME NEW s \in Seqs, QueueAck(s) \/ FinishRenewal(s)
        PROVE  started' = started
    BY <2>3, Zenon DEF QueueAck, FinishRenewal
  <2>4. ASSUME ProcessEnds PROVE started' = [s \in Seqs |-> 0]
    BY <2>4, Zenon DEF ProcessEnds
  <2>5. ASSUME UNCHANGED procVars PROVE started' = started
    BY <2>5, Zenon DEF procVars
  <2>6. CASE started' = [s \in Seqs |-> 0]
    BY <2>6
  <2>7. CASE \A n \in Seqs : started'[n] > 0 => started[n] > 0
    BY <1>1, <2>7, HistoryGrows
  <2>8. QED
    BY <2>1, <2>2, <2>3, <2>4, <2>5, <2>6, <2>7, HandlerSteps
<1>5. \A n \in Seqs : acking'[n] > 0 => B(n)
  <2>1. ASSUME NEW s \in Seqs, HandleMessage(s)
        PROVE  /\ B(s)
               /\ \A n \in Seqs : n # s => acking'[n] = acking[n]
    <3>1. /\ started[s] > 0 /\ acking' = [acking EXCEPT ![s] = @ + 1]
          /\ received' = received /\ log' = log
      BY <2>1, Zenon DEF HandleMessage
    <3>2. s \in handled' \/ log[s] \in EarlyCommands
      BY <2>1 DEF HandleMessage
    <3>3. s \in received'
      BY <1>1, <3>1
    <3>4. QED
      BY <1>0, <3>1, <3>2, <3>3 DEF B
  <2>2. ASSUME NEW s \in Seqs, QueueAck(s)
        PROVE  \A n \in Seqs : acking'[n] > 0 => acking[n] > 0
    <3>1. acking[s] > 0 /\ acking' = [acking EXCEPT ![s] = @ - 1]
      BY <2>2, Zenon DEF QueueAck
    <3>2. QED
      BY <1>0, <3>1
  <2>3. ASSUME ProcessEnds PROVE acking' = [s \in Seqs |-> 0]
    BY <2>3, Zenon DEF ProcessEnds
  <2>4. ASSUME Receive \/ UNCHANGED procVars \/ \E s \in Seqs : FinishRenewal(s)
        PROVE  acking' = acking
    BY <2>4, Zenon DEF Receive, FinishRenewal, procVars
  <2>5. CASE acking' = [s \in Seqs |-> 0]
    BY <2>5
  <2>6. CASE \A n \in Seqs : acking'[n] > 0 => acking[n] > 0
    BY <1>1, <1>2, <2>6
  <2>7. ASSUME NEW s \in Seqs, HandleMessage(s)
        PROVE  \A n \in Seqs : acking'[n] > 0 => B(n)
    BY <1>1, <1>2, <2>1, <2>7
  <2>8. QED
    BY <2>2, <2>3, <2>4, <2>5, <2>6, <2>7, HandlerSteps
<1>6. \A i \in 1..Len(sendCh') : \E n \in Seqs : sendCh'[i] = n /\ A(n)
  <2>0. ASSUME NEW k \in 1..Len(sendCh)
        PROVE  \E n \in Seqs : sendCh[k] = n /\ A(n)
    <3>1. sendCh[k] \in Seqs
      BY <1>0, ElementFacts, Zenon
    <3>2. QED
      BY <1>1, <1>3, <3>1, Zenon
  <2>1. ASSUME NEW s \in Seqs, QueueAck(s), sendCh' = Append(sendCh, s)
        PROVE  \A i \in 1..Len(sendCh') : \E n \in Seqs : sendCh'[i] = n /\ A(n)
    <3>1. acking[s] > 0
      BY <2>1, Zenon DEF QueueAck
    <3>2. A(s)
      BY <1>1, <2>1, <3>1, AckIsAnswer DEF A, Answered
    <3>3. /\ Len(sendCh') = Len(sendCh) + 1 /\ Len(sendCh) \in Nat
          /\ \A i \in 1..Len(sendCh) : sendCh'[i] = sendCh[i]
          /\ sendCh'[Len(sendCh) + 1] = s
      BY <1>0, <2>1
    <3>4. QED
      BY <2>0, <3>2, <3>3
  <2>2. ASSUME sendCh # <<>>, sendCh' = Tail(sendCh)
        PROVE  \A i \in 1..Len(sendCh') : \E n \in Seqs : sendCh'[i] = n /\ A(n)
    <3>1. /\ Len(sendCh') = Len(sendCh) - 1 /\ Len(sendCh) \in Nat
          /\ \A i \in 1..Len(sendCh') : sendCh'[i] = sendCh[i + 1]
      BY <1>0, <2>2
    <3>2. QED
      BY <2>0, <3>1
  <2>3. CASE sendCh' = <<>>
    BY <2>3
  <2>4. CASE sendCh' = sendCh
    BY <2>0, <2>4
  <2>5. QED
    BY <2>1, <2>2, <2>3, <2>4, AckQueueSteps
<1>7. \A i \in 1..Len(up') : \E n \in Seqs : up'[i] = n /\ A(n)
  <2>0. ASSUME NEW k \in 1..Len(up)
        PROVE  \E n \in Seqs : up[k] = n /\ A(n)
    <3>1. up[k] \in Seqs
      BY <1>0, ElementFacts, Zenon
    <3>2. QED
      BY <1>1, <1>3, <3>1, Zenon
  <2>1. ASSUME sendCh # <<>>, up' = Append(up, Head(sendCh))
        PROVE  \A i \in 1..Len(up') : \E n \in Seqs : up'[i] = n /\ A(n)
    <3>1. 1 \in 1..Len(sendCh) /\ Head(sendCh) = sendCh[1] /\ sendCh[1] \in Seqs
      BY <1>0, <2>1
    <3>2. A(sendCh[1])
      BY <1>1, <1>3, <3>1
    <3>3. /\ Len(up') = Len(up) + 1 /\ Len(up) \in Nat
          /\ \A i \in 1..Len(up) : up'[i] = up[i]
          /\ up'[Len(up) + 1] = sendCh[1]
      BY <1>0, <2>1, <3>1
    <3>4. QED
      BY <2>0, <3>1, <3>2, <3>3
  <2>2. ASSUME up # <<>>, up' = Tail(up)
        PROVE  \A i \in 1..Len(up') : \E n \in Seqs : up'[i] = n /\ A(n)
    <3>1. /\ Len(up') = Len(up) - 1 /\ Len(up) \in Nat
          /\ \A i \in 1..Len(up') : up'[i] = up[i + 1]
      BY <1>0, <2>2
    <3>2. QED
      BY <2>0, <3>1
  <2>3. CASE up' = <<>>
    BY <2>3
  <2>4. CASE up' = up
    BY <2>0, <2>4
  <2>5. QED
    BY <2>1, <2>2, <2>3, <2>4, AckQueueSteps
<1>8. cursor' > 0 => \E n \in Seqs : cursor' = n /\ A(n)
  <2>1. ASSUME up # <<>>, cursor' = Head(up), Head(up) = up[1]
        PROVE  \E n \in Seqs : cursor' = n /\ A(n)
    <3>1. 1 \in 1..Len(up) /\ up[1] \in Seqs
      BY <1>0, <2>1
    <3>2. QED
      BY <1>1, <1>3, <2>1, <3>1
  <2>2. ASSUME cursor' = cursor, cursor' > 0
        PROVE  \E n \in Seqs : cursor' = n /\ A(n)
    <3>1. cursor \in Seqs
      BY <1>0, <2>2 DEF TypeOK, CountersOK
    <3>2. QED
      BY <1>1, <1>3, <2>2, <3>1
  <2>3. QED
    BY <2>1, <2>2, CursorSteps
<1>9. \A i \in 1..Len(sendCh') : A(sendCh'[i])
  BY <1>6, Zenon
<1>10. \A i \in 1..Len(up') : A(up'[i])
  BY <1>7, Zenon
<1>11. cursor' > 0 => A(cursor')
  BY <1>8, Zenon
<1>12. QED
  BY <1>4, <1>5, <1>9, <1>10, <1>11, Zenon DEF AckSources, Answered, Begun, A, B, Seqs

(* Delivery in order, from the log to the cursor, is inductive.            *)
LEMMA InitDelivery == Init => DeliveryInv
<1> SUFFICES ASSUME Init PROVE DeliveryInv
  OBVIOUS
<1>1. /\ log = <<>> /\ received = {} /\ down = <<>> /\ up = <<>> /\ sendCh = <<>>
      /\ cursor = 0 /\ pc = [x \in Senders |-> "idle"]
      /\ from = [x \in Senders |-> 0] /\ todo = [x \in Senders |-> {}]
      /\ started = [s \in Seqs |-> 0] /\ acking = [s \in Seqs |-> 0]
  BY Zenon DEF Init
<1>2. KnownNumbers /\ ReceivedInOrder /\ FlightInOrder /\ CursorReads
  BY <1>1 DEF KnownNumbers, ReceivedInOrder, FlightInOrder, CursorReads
<1>3. SendersInOrder
  BY <1>1 DEF SendersInOrder
<1>4. AckSources
  BY <1>1 DEF AckSources
<1>5. QED
  BY <1>2, <1>3, <1>4 DEF DeliveryInv

LEMMA DeliveryStep ==
  ASSUME TypeOK, DeliveryInv, [Next]_vars
  PROVE  DeliveryInv'
BY KnownNumbersStep, ReceivedInOrderStep, FlightInOrderStep, SendersInOrderStep,
   CursorReadsStep, AckSourcesStep DEF DeliveryInv

THEOREM InOrder == Spec => []DeliveryInv
<1>1. TypeOK /\ DeliveryInv /\ [Next]_vars => DeliveryInv'
  BY DeliveryStep
<1>2. QED
  BY <1>1, InitDelivery, TypeCorrect, PTL DEF Spec

(* Every event up to the acknowledgement cursor was read by the gateway or *)
(* is replaced by a later snapshot, so the CP may skip it for ever.        *)
THEOREM AckedReceivedHolds == Spec => []AckedReceived
<1>1. TypeOK /\ DeliveryInv => AckedReceived
  BY AckedIsReceived
<1>2. QED
  BY <1>1, InOrder, TypeCorrect, PTL

(* The acknowledged event itself went through its handler, or is of a      *)
(* command acknowledged early whose work is under way or was cut off.      *)
THEOREM AckFollowsHandlerHolds == Spec => []AckFollowsHandler
<1>1. DeliveryInv => AckFollowsHandler
  BY Zenon DEF DeliveryInv, AckSources, Answered, AckFollowsHandler
<1>2. QED
  BY <1>1, InOrder, PTL

(* The cursor never moves back, however the acknowledgements interleave.   *)
THEOREM CursorMonotoneHolds == Spec => CursorMonotone
<1>1. TypeOK /\ [Next]_vars => [cursor' >= cursor]_cursor
  BY CursorSteps
<1>2. QED
  BY <1>1, TypeCorrect, PTL DEF Spec, CursorMonotone
-----------------------------------------------------------------------------
(* The channel implements EventLog: the variables that EventLog knows move *)
(* in three actions only, and each of them is an action of EventLog.       *)

LEMMA LogSteps ==
  [Next]_vars => \/ \E c \in Commands : CreateEvent(c)
                 \/ Receive
                 \/ CommandAck
                 \/ UNCHANGED <<log, received, cursor>>
<1>1. ASSUME NEW x \in Senders, SenderStep(x) \/ QueryFails(x)
      PROVE  UNCHANGED <<log, received, cursor>>
  BY <1>1, Zenon DEF SenderStep, ReadCursor, ListEvents, SendNext, SendFails,
     QueryFails
<1>2. ASSUME NEW s \in Seqs, HandleMessage(s) \/ QueueAck(s) \/ FinishRenewal(s)
      PROVE  UNCHANGED <<log, received, cursor>>
  BY <1>2, Zenon DEF HandleMessage, QueueAck, FinishRenewal
<1>3. ASSUME \/ Wakeup \/ WorkerWake \/ OpenStream \/ AckFails \/ HandlerExits
             \/ SendLoop \/ SessionEnds \/ OpenRefused \/ Break
             \/ ProcessEnds \/ ControlPlaneRestart \/ UNCHANGED vars
      PROVE  UNCHANGED <<log, received, cursor>>
  BY <1>3, Zenon DEF Wakeup, WorkerWake, OpenStream, AckFails, HandlerExits, SendLoop,
     SessionEnds, OpenRefused, Break, ProcessEnds, ControlPlaneRestart, vars
<1>4. QED
  BY <1>1, <1>2, <1>3 DEF Next, ControlPlane, Gateway, Faults,
         GatewayRestart, EnrollGateway, FinishWork, FinishRevocation

(* The durable channel keeps the promise of EventLog: first deliveries in  *)
(* order up to superseded snapshots, and a cursor that only names commands *)
(* the gateway has read.                                                   *)
THEOREM KeepsPromiseHolds == Spec => KeepsPromise
<1>1. Init => Promise!Init
  BY Zenon DEF Init, Promise!Init
<1>2. ASSUME TypeOK, DeliveryInv, [Next]_vars
      PROVE  [Promise!Next]_(Promise!logVars)
  <2>1. ASSUME NEW c \in Commands, CreateEvent(c) PROVE Promise!Create(c)
    BY <2>1, Zenon DEF CreateEvent, Promise!Create
  <2>2. ASSUME Receive PROVE \E t \in 1..Len(log) : Promise!Receive(t)
    <3>1. /\ down[1] \in 1..Len(log) /\ 1 \in 1..Len(down)
          /\ received' = received \cup {down[1]}
      BY <1>2, <2>2, HeadOfFlight
    <3>2. \A s \in 1..(down[1] - 1) : Covered(s)
      BY <1>2, <3>1 DEF DeliveryInv, FlightInOrder
    <3>3. UNCHANGED <<log, cursor>>
      BY <2>2, Zenon DEF Receive
    <3>4. QED
      BY <3>1, <3>2, <3>3, Zenon DEF Promise!Receive, Covered
  <2>3. ASSUME CommandAck
        PROVE  \/ \E t \in 1..Len(log) : Promise!Acknowledge(t)
               \/ UNCHANGED <<log, received, cursor>>
    <3>1. /\ up # <<>> /\ UNCHANGED <<log, received>>
          /\ cursor' = cursor \/ cursor' = Larger(cursor, Head(up))
      BY <2>3, Zenon DEF CommandAck
    <3>2. 1 \in 1..Len(up) /\ Head(up) = up[1]
      BY <1>2, <3>1 DEF TypeOK, QueuesOK
    <3>3. up[1] \in received
      BY <1>2, <3>2, Zenon DEF DeliveryInv, AckSources, Answered
    <3>4. up[1] \in 1..Len(log)
      BY <1>2, <3>3, Zenon DEF DeliveryInv, KnownNumbers
    <3>5. QED
      BY <3>1, <3>2, <3>3, <3>4, Zenon DEF Promise!Acknowledge, Larger
  <2>4. QED
    BY <1>2, <2>1, <2>2, <2>3, LogSteps DEF Promise!Next, Promise!logVars
<1>3. QED
  BY <1>1, <1>2, InOrder, TypeCorrect, PTL DEF Spec, KeepsPromise, Promise!Spec
=============================================================================
