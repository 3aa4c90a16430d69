------------------------- MODULE UserSessions_proofs -------------------------
(***************************************************************************)
(* The theorems about UserSessions, for every set of logins, callbacks,    *)
(* requests, logouts and handlers, and every length of time.               *)
(***************************************************************************)
EXTENDS UserSessions, TLAPS

(* The invariant, in the groups of variables that actions change together.  *)

ClockTyped ==
  /\ now \in 0..MaxTime
  /\ faults \in 0..MaxFaults
  /\ restarts \in 0..MaxRestarts
  /\ synced \in BOOLEAN

CpTyped ==
  /\ row \in [Sessions -> {"none", "active", "revoked"}]
  /\ expires \in [Sessions -> Nat]
  /\ revoking \in SUBSET Sessions
  /\ event \in [Sessions -> {"none", "logged", "acked"}]
  /\ token \in [Sessions -> [issued: BOOLEAN, exp: Nat, until: Nat]]

(* Who holds a token holds claims. *)
CallbacksTyped ==
  /\ callback \in [Callbacks -> Callback]
  /\ \A c \in Callbacks : callback[c].pc = "holding" => callback[c].claims \in Claims

RedisTyped ==
  /\ record \in [Callbacks -> [claims: Claims, until: Nat] \cup {None}]
  /\ index \in [Sessions -> SUBSET Callbacks]

StreamsTyped ==
  /\ streams \in SUBSET (Key \X Requests)
  /\ cancelled \in SUBSET Requests

(* A request or a logout under way has a session at hand. *)
VisitsTyped ==
  /\ request \in [Requests -> Visit]
  /\ logout \in [Logouts -> Visit]
  /\ \A r \in Requests :
       request[r].pc # "idle" => request[r].id \in Callbacks /\ request[r].claims \in Claims
  /\ \A l \in Logouts :
       logout[l].pc # "idle" => logout[l].id \in Callbacks /\ logout[l].claims \in Claims

HandlersTyped ==
  /\ handler \in [Handlers -> Handler]
  /\ \A h \in Handlers : handler[h].pc # "idle" => handler[h].sid \in Sessions

LinkTyped ==
  /\ up \in BOOLEAN
  /\ sent \in SUBSET Sessions
  /\ received \in SUBSET Sessions
  /\ helloAck \in [list: SUBSET Sessions, read: BOOLEAN] \cup {None}

(* RevocationStore holds the expiry of the row, and only of revoked rows. *)
RevocationsExact ==
  /\ revocations \in [Sessions -> Nat]
  /\ \A s \in Sessions :
       revocations[s] # 0 => revocations[s] = expires[s] /\ row[s] = "revoked"

(* A record, and a token in the hands of a callback, come from a one-time   *)
(* token that is spent.                                                     *)
Holds(c, s) == \/ callback[c].pc = "holding" /\ callback[c].claims.sid = s
               \/ record[c] # None /\ record[c].claims.sid = s

HeldOnce ==
  /\ \A c \in Callbacks : record[c] # None => callback[c].pc = "over"
  /\ \A s \in Sessions : \A c \in Callbacks :
       Holds(c, s) => token[s].issued /\ token[s].until = 0
  /\ \A s \in Sessions : \A c, d \in Callbacks : Holds(c, s) /\ Holds(d, s) => c = d

(* Whatever is on its way to revoke a session, the session is revoked in    *)
(* the database.                                                            *)
OnlyRevoked ==
  /\ \A s \in Sessions :
       s \in revoking \/ event[s] # "none" \/ s \in received => row[s] = "revoked"
  /\ \A s \in Sessions : s \in received => event[s] # "none"
  /\ \A s \in Sessions : event[s] = "acked" => s \in received
  /\ \A h \in Handlers : handler[h].pc # "idle" =>
       /\ row[handler[h].sid] = "revoked"
       /\ \A s \in handler[h].rest : row[s] = "revoked"
  /\ helloAck # None => \A s \in helloAck.list : row[s] = "revoked"

Told(s) == Refused(s) \/ Pending(s)

HelloAtWork == \E h \in Handlers : handler[h].pc # "idle" /\ handler[h].hello

(* What the gateway received it knows of, is about to record, or has lost   *)
(* in a restart: then the HelloAck that will make it synced tells it again. *)
ReceivedIsTold ==
  /\ \A s \in received :
       \/ Told(s)
       \/ /\ ~synced
          /\ ~HelloAtWork
          /\ helloAck # None /\ helloAck.read => s \in helloAck.list
  /\ helloAck # None /\ ~helloAck.read => helloAck.list = {}

IInv ==
  /\ ClockTyped /\ CpTyped /\ CallbacksTyped /\ RedisTyped
  /\ StreamsTyped /\ VisitsTyped /\ HandlersTyped /\ LinkTyped
  /\ RevocationsExact /\ HeldOnce /\ OnlyRevoked
  /\ IndexedUnlessRevoked /\ ReceivedIsTold
-----------------------------------------------------------------------------
(* Which steps change a group of variables; the others leave it alone.      *)

LEMMA ClockFrame ==
  Next => \/ Tick
          \/ \E s \in Sessions : CreateEventFails(s)
          \/ Connect
          \/ Break
          \/ \E c \in Callbacks : \E s \in Sessions : ExchangeToken(c, s)
          \/ \E c \in Callbacks : Create(c)
          \/ \E l \in Logouts : Destroy(l)
          \/ \E h \in Handlers : ReceiveHelloAck(h)
          \/ \E h \in Handlers : Revoke(h)
          \/ \E h \in Handlers : ReadIndex(h)
          \/ \E h \in Handlers : DeleteSessions(h)
          \/ Restart
          \/ UNCHANGED <<now, faults, restarts, synced>>
BY Zenon DEF Next, ControlPlane, CallbackStep, RequestStep, LogoutStep, HandlerStep,
   Receive, cpVars, redisVars, memoryVars, linkVars, processVars,
   CreateUserSessionForGateway, CreateUserSession, RevokeActiveUserSession, CreateEvent,
   Acknowledge, ReadSession, Admit, Refuse, Register, OpenStream, EndRequest,
   ReadForLogout, ReceiveCommand

LEMMA CpFrame ==
  Next => \/ \E s \in Sessions : CreateUserSessionForGateway(s)
          \/ \E s \in Sessions : CreateUserSession(s)
          \/ \E s \in Sessions : RevokeActiveUserSession(s)
          \/ \E s \in Sessions : CreateEvent(s)
          \/ \E s \in Sessions : CreateEventFails(s)
          \/ \E s \in Sessions : Acknowledge(s)
          \/ \E c \in Callbacks : \E s \in Sessions : ExchangeToken(c, s)
          \/ UNCHANGED <<row, expires, revoking, event, token>>
BY Zenon DEF Next, ControlPlane, CallbackStep, RequestStep, LogoutStep, HandlerStep,
   Receive, cpVars, redisVars, memoryVars, linkVars, processVars, Tick, Connect, Break,
   Create, ReadSession, Admit, Refuse, Register, OpenStream, EndRequest, ReadForLogout,
   Destroy, ReceiveCommand, ReceiveHelloAck, Revoke, ReadIndex, DeleteSessions, Restart

LEMMA CallbacksFrame ==
  Next => \/ \E c \in Callbacks : \E s \in Sessions : ExchangeToken(c, s)
          \/ \E c \in Callbacks : Create(c)
          \/ Restart
          \/ UNCHANGED <<callback>>
BY Zenon DEF Next, ControlPlane, CallbackStep, RequestStep, LogoutStep, HandlerStep,
   Receive, cpVars, redisVars, memoryVars, linkVars, processVars, Tick,
   CreateUserSessionForGateway, CreateUserSession, RevokeActiveUserSession, CreateEvent,
   CreateEventFails, Acknowledge, Connect, Break, ReadSession, Admit, Refuse, Register,
   OpenStream, EndRequest, ReadForLogout, Destroy, ReceiveCommand, ReceiveHelloAck,
   Revoke, ReadIndex, DeleteSessions

LEMMA RedisFrame ==
  Next => \/ \E c \in Callbacks : Create(c)
          \/ \E r \in Requests : Refuse(r)
          \/ \E l \in Logouts : Destroy(l)
          \/ \E h \in Handlers : DeleteSessions(h)
          \/ UNCHANGED <<record, index>>
BY Zenon DEF Next, ControlPlane, CallbackStep, RequestStep, LogoutStep, HandlerStep,
   Receive, cpVars, redisVars, memoryVars, linkVars, processVars, Tick,
   CreateUserSessionForGateway, CreateUserSession, RevokeActiveUserSession, CreateEvent,
   CreateEventFails, Acknowledge, Connect, Break, ExchangeToken, ReadSession, Admit,
   Register, OpenStream, EndRequest, ReadForLogout, ReceiveCommand, ReceiveHelloAck,
   Revoke, ReadIndex, Restart

LEMMA StreamsFrame ==
  Next => \/ \E r \in Requests : Register(r)
          \/ \E r \in Requests : EndRequest(r)
          \/ \E h \in Handlers : DeleteSessions(h)
          \/ Restart
          \/ UNCHANGED <<streams, cancelled>>
BY Zenon DEF Next, ControlPlane, CallbackStep, RequestStep, LogoutStep, HandlerStep,
   Receive, cpVars, redisVars, memoryVars, linkVars, processVars, Tick,
   CreateUserSessionForGateway, CreateUserSession, RevokeActiveUserSession, CreateEvent,
   CreateEventFails, Acknowledge, Connect, Break, ExchangeToken, Create, ReadSession,
   Admit, Refuse, OpenStream, ReadForLogout, Destroy, ReceiveCommand, ReceiveHelloAck,
   Revoke, ReadIndex

LEMMA VisitsFrame ==
  Next => \/ \E r \in Requests : \E c \in Callbacks : ReadSession(r, c)
          \/ \E r \in Requests : Admit(r)
          \/ \E r \in Requests : Refuse(r)
          \/ \E r \in Requests : Register(r)
          \/ \E r \in Requests : OpenStream(r)
          \/ \E r \in Requests : EndRequest(r)
          \/ \E l \in Logouts : \E c \in Callbacks : ReadForLogout(l, c)
          \/ \E l \in Logouts : Destroy(l)
          \/ Restart
          \/ UNCHANGED <<request, logout>>
BY Zenon DEF Next, ControlPlane, CallbackStep, RequestStep, LogoutStep, HandlerStep,
   Receive, cpVars, redisVars, memoryVars, linkVars, processVars, Tick,
   CreateUserSessionForGateway, CreateUserSession, RevokeActiveUserSession, CreateEvent,
   CreateEventFails, Acknowledge, Connect, Break, ExchangeToken, Create, ReceiveCommand,
   ReceiveHelloAck, Revoke, ReadIndex, DeleteSessions

LEMMA HandlersFrame ==
  Next => \/ Break
          \/ \E h \in Handlers : \E s \in Sessions : ReceiveCommand(h, s)
          \/ \E h \in Handlers : ReceiveHelloAck(h)
          \/ \E h \in Handlers : Revoke(h)
          \/ \E h \in Handlers : ReadIndex(h)
          \/ \E h \in Handlers : DeleteSessions(h)
          \/ Restart
          \/ UNCHANGED <<handler>>
BY Zenon DEF Next, ControlPlane, CallbackStep, RequestStep, LogoutStep, HandlerStep,
   Receive, cpVars, redisVars, memoryVars, linkVars, processVars, Tick,
   CreateUserSessionForGateway, CreateUserSession, RevokeActiveUserSession, CreateEvent,
   CreateEventFails, Acknowledge, Connect, ExchangeToken, Create, ReadSession, Admit,
   Refuse, Register, OpenStream, EndRequest, ReadForLogout, Destroy

LEMMA LinkFrame ==
  Next => \/ Connect
          \/ Break
          \/ \E h \in Handlers : \E s \in Sessions : ReceiveCommand(h, s)
          \/ \E h \in Handlers : ReceiveHelloAck(h)
          \/ Restart
          \/ UNCHANGED <<up, sent, received, helloAck>>
BY Zenon DEF Next, ControlPlane, CallbackStep, RequestStep, LogoutStep, HandlerStep,
   Receive, cpVars, redisVars, memoryVars, linkVars, processVars, Tick,
   CreateUserSessionForGateway, CreateUserSession, RevokeActiveUserSession, CreateEvent,
   CreateEventFails, Acknowledge, ExchangeToken, Create, ReadSession, Admit, Refuse,
   Register, OpenStream, EndRequest, ReadForLogout, Destroy, Revoke, ReadIndex,
   DeleteSessions
-----------------------------------------------------------------------------
(* Types. *)

(* A handler that has done with a session is idle, or at the next of its list. *)
LEMMA NextOfSteps ==
  ASSUME HandlersTyped, NEW h \in Handlers, NEW next \in NextOf(h)
  PROVE  \/ next = IdleHandler /\ handler[h].rest = {}
         \/ /\ next \in Handler /\ next.pc = "revoke" /\ next.hello = handler[h].hello
            /\ next.sid \in handler[h].rest /\ next.rest = handler[h].rest \ {next.sid}
<1>1. CASE handler[h].rest = {}
  BY <1>1 DEF NextOf
<1>2. CASE handler[h].rest # {}
  <2>1. PICK s \in handler[h].rest :
          next = [handler[h] EXCEPT !.pc = "revoke", !.sid = s, !.rest = @ \ {s}, !.ids = {}]
    BY <1>2, Zenon DEF NextOf
  <2>2. handler[h] \in Handler
    BY DEF HandlersTyped
  <2> QED BY <2>1, <2>2 DEF Handler
<1>3. QED BY <1>1, <1>2

LEMMA NextOfTyped ==
  ASSUME HandlersTyped, NEW h \in Handlers, NEW next \in NextOf(h)
  PROVE  next \in Handler /\ (next.pc # "idle" => next.sid \in Sessions)
<1>1. IdleHandler \in Handler /\ IdleHandler.pc = "idle"
  BY DEF Handler, IdleHandler
<1>2. handler[h].rest \subseteq Sessions
  BY DEF HandlersTyped, Handler
<1>3. QED BY <1>1, <1>2, NextOfSteps

(* Each step keeps each group: one step per action that changes it, and one *)
(* for the others.                                                          *)
LEMMA ClockTypedStep == IInv /\ [Next]_vars => ClockTyped'
<1> SUFFICES ASSUME IInv, [Next]_vars PROVE ClockTyped'
  OBVIOUS
<1>0. ClockTyped
  BY DEF IInv
<1>1. ASSUME Tick
     PROVE  ClockTyped'
  <2>1. /\ now < MaxTime
        /\ now' = now + 1
        /\ UNCHANGED <<faults, restarts, synced>>
    BY <1>1, Zenon DEF Tick, cpVars, redisVars, memoryVars, linkVars, processVars
  <2> QED BY <1>0, <2>1, TimesAssumption DEF ClockTyped
<1>2. ASSUME NEW s \in Sessions, CreateEventFails(s)
     PROVE  ClockTyped'
  <2>1. /\ s \in revoking
        /\ faults < MaxFaults /\ faults' = faults + 1
        /\ UNCHANGED <<now, restarts, synced>>
    BY <1>2, Zenon DEF CreateEventFails, Fault, cpVars, redisVars, memoryVars, linkVars,
       processVars
  <2> QED BY <1>0, <2>1, TimesAssumption DEF ClockTyped
<1>3. ASSUME Connect
     PROVE  ClockTyped'
  <2>1. /\ UNCHANGED faults \/ (faults < MaxFaults /\ faults' = faults + 1)
        /\ UNCHANGED <<now, restarts, synced>>
    BY <1>3, Zenon DEF Connect, Fault, cpVars, redisVars, memoryVars, linkVars, processVars
  <2> QED BY <1>0, <2>1, TimesAssumption DEF ClockTyped
<1>4. ASSUME Break
     PROVE  ClockTyped'
  <2>1. /\ faults < MaxFaults /\ faults' = faults + 1
        /\ UNCHANGED <<now, restarts, synced>>
    BY <1>4, Zenon DEF Break, Fault, cpVars, redisVars, memoryVars, linkVars, processVars
  <2> QED BY <1>0, <2>1, TimesAssumption DEF ClockTyped
<1>5. ASSUME NEW c \in Callbacks, NEW s \in Sessions, ExchangeToken(c, s)
     PROVE  ClockTyped'
  <2>1. /\ callback[c].pc = "new"
        /\ token[s].issued
        /\ now < token[s].until
        /\ UNCHANGED faults \/ (faults < MaxFaults /\ faults' = faults + 1)
        /\ UNCHANGED <<now, restarts, synced>>
    BY <1>5, Zenon DEF ExchangeToken, Fault, cpVars, redisVars, memoryVars, linkVars,
       processVars
  <2> QED BY <1>0, <2>1, TimesAssumption DEF ClockTyped
<1>6. ASSUME NEW c \in Callbacks, Create(c)
     PROVE  ClockTyped'
  <2>1. /\ callback[c].pc = "holding"
        /\ UNCHANGED faults \/ (faults < MaxFaults /\ faults' = faults + 1)
        /\ UNCHANGED <<now, restarts, synced>>
    BY <1>6, Zenon DEF Create, Fault, cpVars, redisVars, memoryVars, linkVars, processVars
  <2> QED BY <1>0, <2>1, TimesAssumption DEF ClockTyped
<1>7. ASSUME NEW l \in Logouts, Destroy(l)
     PROVE  ClockTyped'
  <2>1. /\ logout[l].pc = "read"
        /\ UNCHANGED faults \/ (faults < MaxFaults /\ faults' = faults + 1)
        /\ UNCHANGED <<now, restarts, synced>>
    BY <1>7, Zenon DEF Destroy, Fault, cpVars, redisVars, memoryVars, linkVars, processVars
  <2> QED BY <1>0, <2>1, TimesAssumption DEF ClockTyped
<1>8. ASSUME NEW h \in Handlers, ReceiveHelloAck(h)
     PROVE  ClockTyped'
  <2>1. /\ helloAck # None
        /\ handler[h].pc = "idle"
        /\ \/ /\ helloAck.list = {}
              /\ handler' = handler
              /\ synced' = (synced \/ helloAck.read)
           \/ \E s \in helloAck.list :
                /\ handler' = [handler EXCEPT ![h] =
                     [pc |-> "revoke", sid |-> s, rest |-> helloAck.list \ {s}, ids |-> {},
                      alive |-> TRUE, hello |-> TRUE]]
                /\ synced' = synced
        /\ UNCHANGED <<now, faults, restarts>>
    BY <1>8, Zenon DEF ReceiveHelloAck, cpVars, redisVars, memoryVars, linkVars, processVars
  <2> QED BY <1>0, <2>1, TimesAssumption DEF ClockTyped
<1>9. ASSUME NEW h \in Handlers, Revoke(h)
     PROVE  ClockTyped'
  <2>1. /\ handler[h].pc = "revoke"
        /\ synced' = (synced \/ (handler[h].hello /\ handler[h].rest = {}))
        /\ UNCHANGED <<now, faults, restarts>>
    BY <1>9, Zenon DEF Revoke, cpVars, redisVars, memoryVars, linkVars, processVars
  <2> QED BY <1>0, <2>1, TimesAssumption DEF ClockTyped
<1>10. ASSUME NEW h \in Handlers, ReadIndex(h)
     PROVE  ClockTyped'
  <2>1. /\ handler[h].pc = "members"
        /\ UNCHANGED faults \/ (faults < MaxFaults /\ faults' = faults + 1)
        /\ UNCHANGED <<now, restarts, synced>>
    BY <1>10, Zenon DEF ReadIndex, Fault, cpVars, redisVars, memoryVars, linkVars,
       processVars
  <2> QED BY <1>0, <2>1, TimesAssumption DEF ClockTyped
<1>11. ASSUME NEW h \in Handlers, DeleteSessions(h)
     PROVE  ClockTyped'
  <2>1. /\ handler[h].pc = "delete"
        /\ UNCHANGED faults \/ (faults < MaxFaults /\ faults' = faults + 1)
        /\ UNCHANGED <<now, restarts, synced>>
    BY <1>11, Zenon DEF DeleteSessions, Fault, RevokeStreams, cpVars, redisVars,
       memoryVars, linkVars, processVars
  <2> QED BY <1>0, <2>1, TimesAssumption DEF ClockTyped
<1>12. ASSUME Restart
     PROVE  ClockTyped'
  <2>1. /\ restarts < MaxRestarts
        /\ restarts' = restarts + 1
        /\ synced' = FALSE
        /\ UNCHANGED <<now, faults>>
    BY <1>12, Zenon DEF Restart, cpVars, redisVars, memoryVars, linkVars, processVars
  <2>2. synced' \in BOOLEAN
    BY <2>1, Zenon
  <2>3. now' \in 0..MaxTime /\ faults' \in 0..MaxFaults
    BY <1>0, <2>1, Zenon DEF ClockTyped
  <2>4. restarts' \in 0..MaxRestarts
    BY <1>0, <2>1, TimesAssumption, SMT DEF ClockTyped
  <2> QED BY <2>2, <2>3, <2>4, Zenon DEF ClockTyped
<1>13. ASSUME UNCHANGED <<now, faults, restarts, synced>> PROVE ClockTyped'
  BY <1>0, <1>13 DEF ClockTyped
<1>14. QED
  BY <1>1, <1>2, <1>3, <1>4, <1>5, <1>6, <1>7, <1>8, <1>9, <1>10, <1>11, <1>12, <1>13,
     ClockFrame, Zenon DEF vars, cpVars, redisVars, memoryVars, linkVars, processVars

LEMMA CpTypedStep == IInv /\ [Next]_vars => CpTyped'
<1> SUFFICES ASSUME IInv, [Next]_vars PROVE CpTyped'
  OBVIOUS
<1>0. CpTyped /\ ClockTyped
  BY DEF IInv
<1>1. ASSUME NEW s \in Sessions, CreateUserSessionForGateway(s)
     PROVE  CpTyped'
  <2>1. /\ row[s] = "none"
        /\ row' = [row EXCEPT ![s] = "active"]
        /\ expires' = [expires EXCEPT ![s] = now + TTL]
        /\ UNCHANGED <<revoking, event, token>>
    BY <1>1, Zenon DEF CreateUserSessionForGateway, cpVars, redisVars, memoryVars,
       linkVars, processVars
  <2> QED BY <1>0, <2>1, TimesAssumption DEF CpTyped, ClockTyped
<1>2. ASSUME NEW s \in Sessions, CreateUserSession(s)
     PROVE  CpTyped'
  <2>1. /\ row[s] # "none"
        /\ ~token[s].issued
        /\ token' = [token EXCEPT ![s] =
               [issued |-> TRUE, exp |-> now + TTL, until |-> now + TokenTTL]]
        /\ UNCHANGED <<row, expires, revoking, event>>
    BY <1>2, Zenon DEF CreateUserSession, cpVars, redisVars, memoryVars, linkVars,
       processVars
  <2> QED BY <1>0, <2>1, TimesAssumption DEF CpTyped, ClockTyped
<1>3. ASSUME NEW s \in Sessions, RevokeActiveUserSession(s)
     PROVE  CpTyped'
  <2>1. /\ row[s] = "active"
        /\ row' = [row EXCEPT ![s] = "revoked"]
        /\ revoking' = revoking \cup {s}
        /\ UNCHANGED <<expires, event, token>>
    BY <1>3, Zenon DEF RevokeActiveUserSession, cpVars, redisVars, memoryVars, linkVars,
       processVars
  <2> QED BY <1>0, <2>1, TimesAssumption DEF CpTyped, ClockTyped
<1>4. ASSUME NEW s \in Sessions, CreateEvent(s)
     PROVE  CpTyped'
  <2>1. /\ s \in revoking
        /\ revoking' = revoking \ {s}
        /\ event' = [event EXCEPT ![s] = "logged"]
        /\ UNCHANGED <<row, expires, token>>
    BY <1>4, Zenon DEF CreateEvent, cpVars, redisVars, memoryVars, linkVars, processVars
  <2> QED BY <1>0, <2>1, TimesAssumption DEF CpTyped, ClockTyped
<1>5. ASSUME NEW s \in Sessions, CreateEventFails(s)
     PROVE  CpTyped'
  <2>1. /\ s \in revoking
        /\ revoking' = revoking \ {s}
        /\ UNCHANGED <<row, expires, event, token>>
    BY <1>5, Zenon DEF CreateEventFails, Fault, cpVars, redisVars, memoryVars, linkVars,
       processVars
  <2> QED BY <1>0, <2>1, TimesAssumption DEF CpTyped, ClockTyped
<1>6. ASSUME NEW s \in Sessions, Acknowledge(s)
     PROVE  CpTyped'
  <2>1. /\ event[s] = "logged"
        /\ s \in received
        /\ event' = [event EXCEPT ![s] = "acked"]
        /\ UNCHANGED <<row, expires, revoking, token>>
    BY <1>6, Zenon DEF Acknowledge, cpVars, redisVars, memoryVars, linkVars, processVars
  <2> QED BY <1>0, <2>1, TimesAssumption DEF CpTyped, ClockTyped
<1>7. ASSUME NEW c \in Callbacks, NEW s \in Sessions, ExchangeToken(c, s)
     PROVE  CpTyped'
  <2>1. /\ callback[c].pc = "new"
        /\ token[s].issued
        /\ now < token[s].until
        /\ token' = [token EXCEPT ![s].until = 0]
        /\ UNCHANGED <<row, expires, revoking, event>>
    BY <1>7, Zenon DEF ExchangeToken, Fault, cpVars, redisVars, memoryVars, linkVars,
       processVars
  <2> QED BY <1>0, <2>1, TimesAssumption DEF CpTyped, ClockTyped
<1>8. ASSUME UNCHANGED <<row, expires, revoking, event, token>> PROVE CpTyped'
  BY <1>0, <1>8 DEF CpTyped
<1>9. QED
  BY <1>1, <1>2, <1>3, <1>4, <1>5, <1>6, <1>7, <1>8, CpFrame, Zenon DEF vars, cpVars,
     redisVars, memoryVars, linkVars, processVars

LEMMA CallbacksTypedStep == IInv /\ [Next]_vars => CallbacksTyped'
<1> SUFFICES ASSUME IInv, [Next]_vars PROVE CallbacksTyped'
  OBVIOUS
<1>0. CallbacksTyped /\ CpTyped
  BY DEF IInv
<1>1. ASSUME NEW c \in Callbacks, NEW s \in Sessions, ExchangeToken(c, s)
     PROVE  CallbacksTyped'
  <2>1. /\ callback[c].pc = "new"
        /\ token[s].issued
        /\ now < token[s].until
        /\ \/ callback' = [callback EXCEPT ![c] =
                  [pc |-> "holding", claims |-> [sid |-> s, exp |-> token[s].exp]]]
           \/ callback' = [callback EXCEPT ![c].pc = "over"]
    BY <1>1, Zenon DEF ExchangeToken, Fault, cpVars, redisVars, memoryVars, linkVars,
       processVars
  <2>2. [sid |-> s, exp |-> token[s].exp] \in Claims
    BY <1>0 DEF CpTyped, Claims
  <2>3. CASE callback' = [callback EXCEPT ![c] =
               [pc |-> "holding", claims |-> [sid |-> s, exp |-> token[s].exp]]]
    BY <1>0, <2>2, <2>3 DEF CallbacksTyped, Callback
  <2>4. CASE callback' = [callback EXCEPT ![c].pc = "over"]
    BY <1>0, <2>4 DEF CallbacksTyped, Callback
  <2> QED BY <2>1, <2>3, <2>4
<1>2. ASSUME NEW c \in Callbacks, Create(c)
     PROVE  CallbacksTyped'
  <2>1. /\ callback[c].pc = "holding"
        /\ callback' = [callback EXCEPT ![c].pc = "over"]
    BY <1>2, Zenon DEF Create, Fault, cpVars, redisVars, memoryVars, linkVars, processVars
  <2> QED BY <1>0, <2>1 DEF CallbacksTyped, Callback
<1>3. ASSUME Restart
     PROVE  CallbacksTyped'
  <2>1. /\ restarts < MaxRestarts
        /\ callback' = [c \in Callbacks |-> IF callback[c].pc = "holding"
                                           THEN [callback[c] EXCEPT !.pc = "over"] ELSE callback[c]]
    BY <1>3, Zenon DEF Restart, cpVars, redisVars, memoryVars, linkVars, processVars
  <2> QED BY <1>0, <2>1 DEF CallbacksTyped, Callback
<1>4. ASSUME UNCHANGED <<callback>> PROVE CallbacksTyped'
  BY <1>0, <1>4 DEF CallbacksTyped
<1>5. QED
  BY <1>1, <1>2, <1>3, <1>4, CallbacksFrame, Zenon DEF vars, cpVars, redisVars,
     memoryVars, linkVars, processVars

LEMMA RedisTypedStep == IInv /\ [Next]_vars => RedisTyped'
<1> SUFFICES ASSUME IInv, [Next]_vars PROVE RedisTyped'
  OBVIOUS
<1>0. RedisTyped /\ ClockTyped /\ CallbacksTyped /\ VisitsTyped /\ HandlersTyped
  BY DEF IInv
<1>1. ASSUME NEW c \in Callbacks, Create(c)
     PROVE  RedisTyped'
  <2>1. /\ callback[c].pc = "holding"
        /\ \/ /\ record' = [record EXCEPT ![c] =
                     [claims |-> callback[c].claims, until |-> now + GatewayTTL]]
              /\ index' = [index EXCEPT ![callback[c].claims.sid] = @ \cup {c}]
           \/ UNCHANGED <<record, index>>
    BY <1>1, Zenon DEF Create, Fault, cpVars, redisVars, memoryVars, linkVars, processVars
  <2> QED BY <1>0, <2>1, TimesAssumption DEF RedisTyped, ClockTyped, CallbacksTyped
<1>2. ASSUME NEW r \in Requests, Refuse(r)
     PROVE  RedisTyped'
  <2>1. /\ request[r].pc = "read"
        /\ record' = [record EXCEPT ![request[r].id] = None] \/ UNCHANGED record
        /\ UNCHANGED <<index>>
    BY <1>2, Zenon DEF Refuse, cpVars, redisVars, memoryVars, linkVars, processVars
  <2> QED BY <1>0, <2>1, TimesAssumption DEF RedisTyped
<1>3. ASSUME NEW l \in Logouts, Destroy(l)
     PROVE  RedisTyped'
  <2>1. /\ logout[l].pc = "read"
        /\ \/ /\ record' = [record EXCEPT ![logout[l].id] = None]
              /\ \/ index' = [index EXCEPT ![logout[l].claims.sid] = @ \ {logout[l].id}]
                 \/ index' = index
           \/ UNCHANGED <<record, index>>
    BY <1>3, Zenon DEF Destroy, Fault, cpVars, redisVars, memoryVars, linkVars, processVars
  <2> QED BY <1>0, <2>1, TimesAssumption DEF RedisTyped, VisitsTyped, HandlersTyped,
             Handler, Callback, Claims
<1>4. ASSUME NEW h \in Handlers, DeleteSessions(h)
     PROVE  RedisTyped'
  <2>1. /\ handler[h].pc = "delete"
        /\ \/ /\ record' = [c \in Callbacks |-> IF c \in handler[h].ids THEN None ELSE record[c]]
              /\ index' = [index EXCEPT ![handler[h].sid] = {}]
           \/ UNCHANGED <<record, index>>
    BY <1>4, Zenon DEF DeleteSessions, Fault, RevokeStreams, cpVars, redisVars,
       memoryVars, linkVars, processVars
  <2>2. CASE /\ record' = [c \in Callbacks |-> IF c \in handler[h].ids THEN None ELSE record[c]]
             /\ index' = [index EXCEPT ![handler[h].sid] = {}]
    <3>1. record' \in [Callbacks -> [claims: Claims, until: Nat] \cup {None}]
      BY <1>0, <2>2 DEF RedisTyped
    <3>2. index' \in [Sessions -> SUBSET Callbacks]
      BY <1>0, <2>2 DEF RedisTyped
    <3> QED BY <3>1, <3>2 DEF RedisTyped
  <2> QED BY <1>0, <2>1, <2>2 DEF RedisTyped
<1>5. ASSUME UNCHANGED <<record, index>> PROVE RedisTyped'
  BY <1>0, <1>5 DEF RedisTyped
<1>6. QED
  BY <1>1, <1>2, <1>3, <1>4, <1>5, RedisFrame, Zenon DEF vars, cpVars, redisVars,
     memoryVars, linkVars, processVars

LEMMA StreamsTypedStep == IInv /\ [Next]_vars => StreamsTyped'
<1> SUFFICES ASSUME IInv, [Next]_vars PROVE StreamsTyped'
  OBVIOUS
<1>0. StreamsTyped /\ VisitsTyped
  BY DEF IInv
<1>1. ASSUME NEW r \in Requests, Register(r)
     PROVE  StreamsTyped'
  <2>1. /\ request[r].pc = "admitted"
        /\ streams' = streams \cup {<<Prefixed(request[r].id), r>>}
        /\ cancelled' = cancelled \ {r}
    BY <1>1, Zenon DEF Register, cpVars, redisVars, memoryVars, linkVars, processVars
  <2>2. Prefixed(request[r].id) \in Key
    BY <1>0, <2>1 DEF VisitsTyped, Key, Prefixed
  <2> QED BY <1>0, <2>1, <2>2 DEF StreamsTyped
<1>2. ASSUME NEW r \in Requests, EndRequest(r)
     PROVE  StreamsTyped'
  <2>1. /\ request[r].pc \in {"admitted", "registered", "open"}
        /\ streams' = {e \in streams : e[2] # r}
        /\ UNCHANGED <<cancelled>>
    BY <1>2, Zenon DEF EndRequest, cpVars, redisVars, memoryVars, linkVars, processVars
  <2> QED BY <1>0, <2>1 DEF StreamsTyped
<1>3. ASSUME NEW h \in Handlers, DeleteSessions(h)
     PROVE  StreamsTyped'
  <2>1. /\ handler[h].pc = "delete"
        /\ streams' \subseteq streams
        /\ cancelled' = cancelled \cup
               {e[2] : e \in {f \in streams : \E c \in handler[h].ids : f[1] = Bare(c)}}
    BY <1>3, Zenon DEF DeleteSessions, Fault, RevokeStreams, cpVars, redisVars,
       memoryVars, linkVars, processVars
  <2> QED BY <1>0, <2>1 DEF StreamsTyped
<1>4. ASSUME Restart
     PROVE  StreamsTyped'
  <2>1. /\ restarts < MaxRestarts
        /\ streams' = {}
        /\ cancelled' = {}
    BY <1>4, Zenon DEF Restart, cpVars, redisVars, memoryVars, linkVars, processVars
  <2> QED BY <1>0, <2>1 DEF StreamsTyped
<1>5. ASSUME UNCHANGED <<streams, cancelled>> PROVE StreamsTyped'
  BY <1>0, <1>5 DEF StreamsTyped
<1>6. QED
  BY <1>1, <1>2, <1>3, <1>4, <1>5, StreamsFrame, Zenon DEF vars, cpVars, redisVars,
     memoryVars, linkVars, processVars

LEMMA VisitsTypedStep == IInv /\ [Next]_vars => VisitsTyped'
<1> SUFFICES ASSUME IInv, [Next]_vars PROVE VisitsTyped'
  OBVIOUS
<1>0. VisitsTyped /\ RedisTyped
  BY DEF IInv
<1>1. ASSUME NEW r \in Requests, NEW c \in Callbacks, ReadSession(r, c)
     PROVE  VisitsTyped'
  <2>1. /\ record[c] # None
        /\ request' = [request EXCEPT ![r] = [pc |-> "read", id |-> c, claims |-> record[c].claims]]
        /\ UNCHANGED <<logout>>
    BY <1>1, Zenon DEF ReadSession, Stored, cpVars, redisVars, memoryVars, linkVars,
       processVars
  <2> QED BY <1>0, <2>1 DEF VisitsTyped, RedisTyped, Visit
<1>2. ASSUME NEW r \in Requests, Admit(r)
     PROVE  VisitsTyped'
  <2>1. /\ request[r].pc = "read"
        /\ request' = [request EXCEPT ![r].pc = "admitted"]
        /\ UNCHANGED <<logout>>
    BY <1>2, Zenon DEF Admit, cpVars, redisVars, memoryVars, linkVars, processVars
  <2> QED BY <1>0, <2>1 DEF VisitsTyped, Visit
<1>3. ASSUME NEW r \in Requests, Refuse(r)
     PROVE  VisitsTyped'
  <2>1. /\ request[r].pc = "read"
        /\ request' = [request EXCEPT ![r] = IdleRequest]
        /\ UNCHANGED <<logout>>
    BY <1>3, Zenon DEF Refuse, cpVars, redisVars, memoryVars, linkVars, processVars
  <2> QED BY <1>0, <2>1 DEF VisitsTyped, Visit, IdleRequest
<1>4. ASSUME NEW r \in Requests, Register(r)
     PROVE  VisitsTyped'
  <2>1. /\ request[r].pc = "admitted"
        /\ request' = [request EXCEPT ![r].pc = "registered"]
        /\ UNCHANGED <<logout>>
    BY <1>4, Zenon DEF Register, cpVars, redisVars, memoryVars, linkVars, processVars
  <2> QED BY <1>0, <2>1 DEF VisitsTyped, Visit
<1>5. ASSUME NEW r \in Requests, OpenStream(r)
     PROVE  VisitsTyped'
  <2>1. /\ request[r].pc = "registered"
        /\ request' = [request EXCEPT ![r].pc = "open"]
        /\ UNCHANGED <<logout>>
    BY <1>5, Zenon DEF OpenStream, cpVars, redisVars, memoryVars, linkVars, processVars
  <2> QED BY <1>0, <2>1 DEF VisitsTyped, Visit
<1>6. ASSUME NEW r \in Requests, EndRequest(r)
     PROVE  VisitsTyped'
  <2>1. /\ request[r].pc \in {"admitted", "registered", "open"}
        /\ request' = [request EXCEPT ![r] = IdleRequest]
        /\ UNCHANGED <<logout>>
    BY <1>6, Zenon DEF EndRequest, cpVars, redisVars, memoryVars, linkVars, processVars
  <2> QED BY <1>0, <2>1 DEF VisitsTyped, Visit, IdleRequest
<1>7. ASSUME NEW l \in Logouts, NEW c \in Callbacks, ReadForLogout(l, c)
     PROVE  VisitsTyped'
  <2>1. /\ record[c] # None
        /\ logout' = [logout EXCEPT ![l] = [pc |-> "read", id |-> c, claims |-> record[c].claims]]
        /\ UNCHANGED <<request>>
    BY <1>7, Zenon DEF ReadForLogout, Stored, cpVars, redisVars, memoryVars, linkVars,
       processVars
  <2> QED BY <1>0, <2>1 DEF VisitsTyped, RedisTyped, Visit
<1>8. ASSUME NEW l \in Logouts, Destroy(l)
     PROVE  VisitsTyped'
  <2>1. /\ logout[l].pc = "read"
        /\ logout' = [logout EXCEPT ![l] = IdleRequest]
        /\ UNCHANGED <<request>>
    BY <1>8, Zenon DEF Destroy, Fault, cpVars, redisVars, memoryVars, linkVars, processVars
  <2> QED BY <1>0, <2>1 DEF VisitsTyped, Visit, IdleRequest
<1>9. ASSUME Restart
     PROVE  VisitsTyped'
  <2>1. /\ restarts < MaxRestarts
        /\ request' = [r \in Requests |-> IdleRequest]
        /\ logout' = [l \in Logouts |-> IdleRequest]
    BY <1>9, Zenon DEF Restart, cpVars, redisVars, memoryVars, linkVars, processVars
  <2> QED BY <1>0, <2>1 DEF VisitsTyped, Visit, IdleRequest
<1>10. ASSUME UNCHANGED <<request, logout>> PROVE VisitsTyped'
  BY <1>0, <1>10 DEF VisitsTyped
<1>11. QED
  BY <1>1, <1>2, <1>3, <1>4, <1>5, <1>6, <1>7, <1>8, <1>9, <1>10, VisitsFrame, Zenon DEF
     vars, cpVars, redisVars, memoryVars, linkVars, processVars

LEMMA HandlersTypedStep == IInv /\ [Next]_vars => HandlersTyped'
<1> SUFFICES ASSUME IInv, [Next]_vars PROVE HandlersTyped'
  OBVIOUS
<1>0. HandlersTyped /\ RedisTyped /\ LinkTyped
  BY DEF IInv
<1>1. ASSUME Break
     PROVE  HandlersTyped'
  <2>1. /\ handler' = [h \in Handlers |-> [handler[h] EXCEPT !.alive = FALSE]]
    BY <1>1, Zenon DEF Break, Fault, cpVars, redisVars, memoryVars, linkVars, processVars
  <2>2. \A r \in Handler :
          LET d == [r EXCEPT !.alive = FALSE] IN d \in Handler /\ d.pc = r.pc /\ d.sid = r.sid
    BY DEF Handler
  <2>3. \A h \in Handlers : /\ handler'[h] \in Handler /\ handler'[h].pc = handler[h].pc
                            /\ handler'[h].sid = handler[h].sid
    BY <1>0, <2>1, <2>2 DEF HandlersTyped
  <2> QED BY <1>0, <2>1, <2>3 DEF HandlersTyped
<1>2. ASSUME NEW h \in Handlers, NEW s \in Sessions, ReceiveCommand(h, s)
     PROVE  HandlersTyped'
  <2>1. /\ event[s] = "logged"
        /\ handler[h].pc = "idle"
        /\ handler' = [handler EXCEPT ![h] = [pc |-> "revoke", sid |-> s, rest |-> {}, ids |-> {},
                                                 alive |-> TRUE, hello |-> FALSE]]
    BY <1>2, Zenon DEF ReceiveCommand, cpVars, redisVars, memoryVars, linkVars, processVars
  <2> QED BY <1>0, <2>1 DEF HandlersTyped, Handler
<1>3. ASSUME NEW h \in Handlers, ReceiveHelloAck(h)
     PROVE  HandlersTyped'
  <2>1. /\ helloAck # None
        /\ handler[h].pc = "idle"
        /\ \/ /\ helloAck.list = {}
              /\ handler' = handler
              /\ synced' = (synced \/ helloAck.read)
           \/ \E s \in helloAck.list :
                /\ handler' = [handler EXCEPT ![h] =
                     [pc |-> "revoke", sid |-> s, rest |-> helloAck.list \ {s}, ids |-> {},
                      alive |-> TRUE, hello |-> TRUE]]
                /\ synced' = synced
    BY <1>3, Zenon DEF ReceiveHelloAck, cpVars, redisVars, memoryVars, linkVars, processVars
  <2>2. ASSUME NEW s \in helloAck.list,
               handler' = [handler EXCEPT ![h] =
                 [pc |-> "revoke", sid |-> s, rest |-> helloAck.list \ {s}, ids |-> {},
                  alive |-> TRUE, hello |-> TRUE]]
        PROVE  HandlersTyped'
    <3>1. [pc |-> "revoke", sid |-> s, rest |-> helloAck.list \ {s}, ids |-> {},
           alive |-> TRUE, hello |-> TRUE] \in Handler /\ s \in Sessions
      BY <1>0, <2>1, SMT DEF LinkTyped, Handler
    <3> QED BY <1>0, <2>2, <3>1, SMT DEF HandlersTyped
  <2> QED BY <1>0, <2>1, <2>2, SMT DEF HandlersTyped
<1>4. ASSUME NEW h \in Handlers, Revoke(h)
     PROVE  HandlersTyped'
  <2>1. /\ handler[h].pc = "revoke"
        /\ handler' = [handler EXCEPT ![h].pc = "members"]
    BY <1>4, Zenon DEF Revoke, cpVars, redisVars, memoryVars, linkVars, processVars
  <2> QED BY <1>0, <2>1 DEF HandlersTyped, Handler
<1>5. ASSUME NEW h \in Handlers, ReadIndex(h)
     PROVE  HandlersTyped'
  <2>1. /\ handler[h].pc = "members"
        /\ \/ handler' = [handler EXCEPT ![h].pc = "delete", ![h].ids = index[handler[h].sid]]
           \/ \E next \in NextOf(h) : handler' = [handler EXCEPT ![h] = next]
    BY <1>5, Zenon DEF ReadIndex, Fault, cpVars, redisVars, memoryVars, linkVars,
       processVars
  <2>2. CASE handler' = [handler EXCEPT ![h].pc = "delete", ![h].ids = index[handler[h].sid]]
    <3>1. index[handler[h].sid] \in SUBSET Callbacks
      BY <1>0, <2>1 DEF HandlersTyped, RedisTyped
    <3>2. [handler[h] EXCEPT !.pc = "delete", !.ids = index[handler[h].sid]] \in Handler
      BY <1>0, <3>1 DEF HandlersTyped, Handler
    <3>3. handler' = [handler EXCEPT ![h] =
                        [handler[h] EXCEPT !.pc = "delete", !.ids = index[handler[h].sid]]]
      BY <1>0, <2>2 DEF HandlersTyped, Handler
    <3> QED BY <1>0, <2>1, <3>2, <3>3 DEF HandlersTyped, Handler
  <2>3. ASSUME NEW next \in NextOf(h), handler' = [handler EXCEPT ![h] = next]
        PROVE  HandlersTyped'
    BY <1>0, <2>3, NextOfTyped DEF HandlersTyped
  <2> QED BY <2>1, <2>2, <2>3
<1>6. ASSUME NEW h \in Handlers, DeleteSessions(h)
     PROVE  HandlersTyped'
  <2>1. /\ handler[h].pc = "delete"
        /\ \E next \in NextOf(h) : handler' = [handler EXCEPT ![h] = next]
    BY <1>6, Zenon DEF DeleteSessions, Fault, RevokeStreams, cpVars, redisVars,
       memoryVars, linkVars, processVars
  <2>2. PICK next \in NextOf(h) : handler' = [handler EXCEPT ![h] = next]
    BY <2>1
  <2> QED BY <1>0, <2>2, NextOfTyped DEF HandlersTyped
<1>7. ASSUME Restart
     PROVE  HandlersTyped'
  <2>1. /\ restarts < MaxRestarts
        /\ handler' = [h \in Handlers |-> IdleHandler]
    BY <1>7, Zenon DEF Restart, cpVars, redisVars, memoryVars, linkVars, processVars
  <2> QED BY <1>0, <2>1 DEF HandlersTyped, Handler, IdleHandler
<1>8. ASSUME UNCHANGED <<handler>> PROVE HandlersTyped'
  BY <1>0, <1>8 DEF HandlersTyped
<1>9. QED
  BY <1>1, <1>2, <1>3, <1>4, <1>5, <1>6, <1>7, <1>8, HandlersFrame, Zenon DEF vars,
     cpVars, redisVars, memoryVars, linkVars, processVars

LEMMA LinkTypedStep == IInv /\ [Next]_vars => LinkTyped'
<1> SUFFICES ASSUME IInv, [Next]_vars PROVE LinkTyped'
  OBVIOUS
<1>0. LinkTyped /\ CpTyped
  BY DEF IInv
<1>1. ASSUME Connect
     PROVE  LinkTyped'
  <2>1. /\ up' = TRUE
        /\ sent' = {}
        /\ \/ helloAck' = [list |-> ListRevokedUserSessionByOrg, read |-> TRUE]
           \/ helloAck' = [list |-> {}, read |-> FALSE]
        /\ UNCHANGED <<received>>
    BY <1>1, Zenon DEF Connect, Fault, cpVars, redisVars, memoryVars, linkVars, processVars
  <2>2. ListRevokedUserSessionByOrg \subseteq Sessions
    BY DEF ListRevokedUserSessionByOrg
  <2>3. helloAck' \in [list: SUBSET Sessions, read: BOOLEAN]
    <3>1. [list |-> ListRevokedUserSessionByOrg, read |-> TRUE] \in [list: SUBSET Sessions, read: BOOLEAN]
      BY <2>2
    <3>2. [list |-> {}, read |-> FALSE] \in [list: SUBSET Sessions, read: BOOLEAN]
      OBVIOUS
    <3> QED BY <2>1, <3>1, <3>2
  <2>4. up' \in BOOLEAN /\ sent' \in SUBSET Sessions /\ received' \in SUBSET Sessions
    BY <1>0, <2>1, Zenon DEF LinkTyped
  <2> QED BY <2>3, <2>4, Zenon DEF LinkTyped
<1>2. ASSUME Break
     PROVE  LinkTyped'
  <2>1. /\ up' = FALSE
        /\ helloAck' = None
        /\ UNCHANGED <<sent, received>>
    BY <1>2, Zenon DEF Break, Fault, cpVars, redisVars, memoryVars, linkVars, processVars
  <2> QED BY <1>0, <2>1 DEF LinkTyped
<1>3. ASSUME NEW h \in Handlers, NEW s \in Sessions, ReceiveCommand(h, s)
     PROVE  LinkTyped'
  <2>1. /\ event[s] = "logged"
        /\ handler[h].pc = "idle"
        /\ sent' = sent \cup {s}
        /\ received' = received \cup {s}
        /\ UNCHANGED <<up, helloAck>>
    BY <1>3, Zenon DEF ReceiveCommand, cpVars, redisVars, memoryVars, linkVars, processVars
  <2> QED BY <1>0, <2>1 DEF LinkTyped
<1>4. ASSUME NEW h \in Handlers, ReceiveHelloAck(h)
     PROVE  LinkTyped'
  <2>1. /\ helloAck # None
        /\ handler[h].pc = "idle"
        /\ helloAck' = None
        /\ UNCHANGED <<up, sent, received>>
    BY <1>4, Zenon DEF ReceiveHelloAck, cpVars, redisVars, memoryVars, linkVars, processVars
  <2> QED BY <1>0, <2>1 DEF LinkTyped
<1>5. ASSUME Restart
     PROVE  LinkTyped'
  <2>1. /\ restarts < MaxRestarts
        /\ up' = FALSE
        /\ helloAck' = None
        /\ UNCHANGED <<sent, received>>
    BY <1>5, Zenon DEF Restart, cpVars, redisVars, memoryVars, linkVars, processVars
  <2> QED BY <1>0, <2>1 DEF LinkTyped
<1>6. ASSUME UNCHANGED <<up, sent, received, helloAck>> PROVE LinkTyped'
  BY <1>0, <1>6 DEF LinkTyped
<1>7. QED
  BY <1>1, <1>2, <1>3, <1>4, <1>5, <1>6, LinkFrame, Zenon DEF vars, cpVars, redisVars,
     memoryVars, linkVars, processVars

-----------------------------------------------------------------------------
(* The steps of the invariant. *)

(* What ReadIndex and DeleteSessions do to the handlers: h keeps what is left *)
(* of its list, or takes its next session from it.                            *)
Continues(h) ==
  /\ \A k \in Handlers : k # h => handler'[k] = handler[k]
  /\ handler'[h].pc # "idle" =>
       /\ handler'[h].sid \in {handler[h].sid} \cup handler[h].rest
       /\ handler'[h].rest \subseteq handler[h].rest
       /\ handler'[h].hello = handler[h].hello
  /\ \A s \in handler[h].rest :
       \/ handler'[h].pc # "idle" /\ s \in handler'[h].rest
       \/ handler'[h].pc = "revoke" /\ handler'[h].sid = s

(* Both ways of going on from a session, the next of the list or none, and  *)
(* going on with the same one.                                              *)
LEMMA NextContinues ==
  ASSUME HandlersTyped, NEW h \in Handlers,
         \E next \in NextOf(h) : handler' = [handler EXCEPT ![h] = next]
  PROVE  Continues(h)
<1>1. PICK next \in NextOf(h) : handler' = [handler EXCEPT ![h] = next]
  OBVIOUS
<1>2. handler'[h] = next /\ \A k \in Handlers : k # h => handler'[k] = handler[k]
  BY <1>1 DEF HandlersTyped
<1>3. CASE next = IdleHandler /\ handler[h].rest = {}
  BY <1>2, <1>3 DEF Continues, IdleHandler
<1>4. CASE /\ next \in Handler /\ next.pc = "revoke" /\ next.hello = handler[h].hello
           /\ next.sid \in handler[h].rest /\ next.rest = handler[h].rest \ {next.sid}
  BY <1>2, <1>4 DEF Continues
<1>5. QED BY <1>3, <1>4, NextOfSteps

LEMMA IdsContinue ==
  ASSUME HandlersTyped, NEW h \in Handlers, NEW ids, handler[h].pc # "idle",
         handler' = [handler EXCEPT ![h].pc = "delete", ![h].ids = ids]
  PROVE  Continues(h)
<1>1. /\ handler'[h].pc = "delete" /\ handler'[h].sid = handler[h].sid
      /\ handler'[h].rest = handler[h].rest /\ handler'[h].hello = handler[h].hello
  BY DEF HandlersTyped, Handler
<1>2. \A k \in Handlers : k # h => handler'[k] = handler[k]
  BY DEF HandlersTyped
<1>3. QED BY <1>1, <1>2 DEF Continues

LEMMA RevocationsFrame ==
  Next => \/ \E s \in Sessions : CreateUserSessionForGateway(s)
          \/ \E s \in Sessions : RevokeActiveUserSession(s)
          \/ \E h \in Handlers : Revoke(h)
          \/ Restart
          \/ UNCHANGED <<revocations, row, expires>>
BY Zenon DEF Next, ControlPlane, CallbackStep, RequestStep, LogoutStep, HandlerStep,
   Receive, cpVars, redisVars, memoryVars, linkVars, processVars, Tick, CreateUserSession,
   CreateEvent, CreateEventFails, Acknowledge, Connect, Break, ExchangeToken, Create,
   ReadSession, Admit, Refuse, Register, OpenStream, EndRequest, ReadForLogout, Destroy,
   ReceiveCommand, ReceiveHelloAck, ReadIndex, DeleteSessions

(* RevocationStore only takes an expiry from the row that ListRevoked or the*)
(* command read, and forgets it in a restart.                               *)
LEMMA RevocationsExactStep == IInv /\ [Next]_vars => RevocationsExact'
<1> SUFFICES ASSUME IInv, [Next]_vars PROVE RevocationsExact'
  OBVIOUS
<1>0. RevocationsExact /\ CpTyped /\ HandlersTyped /\ OnlyRevoked
  BY DEF IInv
<1>1. ASSUME NEW s \in Sessions, CreateUserSessionForGateway(s)
     PROVE  RevocationsExact'
  <2>1. /\ row[s] = "none"
        /\ row' = [row EXCEPT ![s] = "active"]
        /\ expires' = [expires EXCEPT ![s] = now + TTL]
        /\ UNCHANGED <<revocations>>
    BY <1>1, Zenon DEF CreateUserSessionForGateway, cpVars, redisVars, memoryVars,
       linkVars, processVars
  <2> QED BY <1>0, <2>1 DEF RevocationsExact
<1>2. ASSUME NEW s \in Sessions, RevokeActiveUserSession(s)
     PROVE  RevocationsExact'
  <2>1. /\ row[s] = "active"
        /\ row' = [row EXCEPT ![s] = "revoked"]
        /\ UNCHANGED <<revocations, expires>>
    BY <1>2, Zenon DEF RevokeActiveUserSession, cpVars, redisVars, memoryVars, linkVars,
       processVars
  <2> QED BY <1>0, <2>1 DEF RevocationsExact
<1>3. ASSUME NEW h \in Handlers, Revoke(h)
     PROVE  RevocationsExact'
  <2>1. /\ handler[h].pc = "revoke"
        /\ revocations' = [revocations EXCEPT ![handler[h].sid] = expires[handler[h].sid]]
        /\ UNCHANGED <<row, expires>>
    BY <1>3, Zenon DEF Revoke, cpVars, redisVars, memoryVars, linkVars, processVars
  <2> QED BY <1>0, <2>1 DEF RevocationsExact, CpTyped, OnlyRevoked
<1>4. ASSUME Restart
     PROVE  RevocationsExact'
  <2>1. /\ restarts < MaxRestarts
        /\ revocations' = [s \in Sessions |-> 0]
        /\ UNCHANGED <<row, expires>>
    BY <1>4, Zenon DEF Restart, cpVars, redisVars, memoryVars, linkVars, processVars
  <2> QED BY <1>0, <2>1 DEF RevocationsExact
<1>5. ASSUME UNCHANGED <<revocations, row, expires>> PROVE RevocationsExact'
  BY <1>0, <1>5 DEF RevocationsExact
<1>6. QED
  BY <1>1, <1>2, <1>3, <1>4, <1>5, RevocationsFrame, Zenon DEF vars, cpVars, redisVars,
     memoryVars, linkVars, processVars

LEMMA IndexedFrame ==
  Next => \/ \E s \in Sessions : CreateUserSessionForGateway(s)
          \/ \E s \in Sessions : RevokeActiveUserSession(s)
          \/ \E c \in Callbacks : Create(c)
          \/ \E r \in Requests : Refuse(r)
          \/ \E l \in Logouts : Destroy(l)
          \/ \E h \in Handlers : DeleteSessions(h)
          \/ UNCHANGED <<record, index, row>>
BY Zenon DEF Next, ControlPlane, CallbackStep, RequestStep, LogoutStep, HandlerStep,
   Receive, cpVars, redisVars, memoryVars, linkVars, processVars, Tick, CreateUserSession,
   CreateEvent, CreateEventFails, Acknowledge, Connect, Break, ExchangeToken, ReadSession,
   Admit, Register, OpenStream, EndRequest, ReadForLogout, ReceiveCommand,
   ReceiveHelloAck, Revoke, ReadIndex, Restart

(* Create writes record and index together; a logout removes both; the      *)
(* index is only dropped by a revocation, whose row is revoked.             *)
LEMMA IndexedUnlessRevokedStep == IInv /\ [Next]_vars => IndexedUnlessRevoked'
<1> SUFFICES ASSUME IInv, [Next]_vars PROVE IndexedUnlessRevoked'
  OBVIOUS
<1>0. IndexedUnlessRevoked /\ RedisTyped /\ CpTyped /\ CallbacksTyped
     /\ HandlersTyped /\ VisitsTyped /\ OnlyRevoked
  BY DEF IInv
<1>1. ASSUME NEW s \in Sessions, CreateUserSessionForGateway(s)
     PROVE  IndexedUnlessRevoked'
  <2>1. /\ row[s] = "none"
        /\ row' = [row EXCEPT ![s] = "active"]
        /\ UNCHANGED <<record, index>>
    BY <1>1, Zenon DEF CreateUserSessionForGateway, cpVars, redisVars, memoryVars,
       linkVars, processVars
  <2> QED BY <1>0, <2>1 DEF IndexedUnlessRevoked
<1>2. ASSUME NEW s \in Sessions, RevokeActiveUserSession(s)
     PROVE  IndexedUnlessRevoked'
  <2>1. /\ row[s] = "active"
        /\ row' = [row EXCEPT ![s] = "revoked"]
        /\ UNCHANGED <<record, index>>
    BY <1>2, Zenon DEF RevokeActiveUserSession, cpVars, redisVars, memoryVars, linkVars,
       processVars
  <2> QED BY <1>0, <2>1 DEF IndexedUnlessRevoked
<1>3. ASSUME NEW c \in Callbacks, Create(c)
     PROVE  IndexedUnlessRevoked'
  <2>1. /\ callback[c].pc = "holding"
        /\ \/ /\ record' = [record EXCEPT ![c] =
                     [claims |-> callback[c].claims, until |-> now + GatewayTTL]]
              /\ index' = [index EXCEPT ![callback[c].claims.sid] = @ \cup {c}]
           \/ UNCHANGED <<record, index>>
        /\ UNCHANGED <<row>>
    BY <1>3, Zenon DEF Create, Fault, cpVars, redisVars, memoryVars, linkVars, processVars
  <2> QED BY <1>0, <2>1 DEF IndexedUnlessRevoked, RedisTyped, CallbacksTyped, Claims
<1>4. ASSUME NEW r \in Requests, Refuse(r)
     PROVE  IndexedUnlessRevoked'
  <2>1. /\ request[r].pc = "read"
        /\ record' = [record EXCEPT ![request[r].id] = None] \/ UNCHANGED record
        /\ UNCHANGED <<index, row>>
    BY <1>4, Zenon DEF Refuse, cpVars, redisVars, memoryVars, linkVars, processVars
  <2> QED BY <1>0, <2>1 DEF IndexedUnlessRevoked, RedisTyped
<1>5. ASSUME NEW l \in Logouts, Destroy(l)
     PROVE  IndexedUnlessRevoked'
  <2>1. /\ logout[l].pc = "read"
        /\ \/ /\ record' = [record EXCEPT ![logout[l].id] = None]
              /\ \/ index' = [index EXCEPT ![logout[l].claims.sid] = @ \ {logout[l].id}]
                 \/ index' = index
           \/ UNCHANGED <<record, index>>
        /\ UNCHANGED <<row>>
    BY <1>5, Zenon DEF Destroy, Fault, cpVars, redisVars, memoryVars, linkVars, processVars
  <2> QED BY <1>0, <2>1 DEF IndexedUnlessRevoked, RedisTyped, Claims
<1>6. ASSUME NEW h \in Handlers, DeleteSessions(h)
     PROVE  IndexedUnlessRevoked'
  <2>1. /\ handler[h].pc = "delete"
        /\ \/ /\ record' = [c \in Callbacks |-> IF c \in handler[h].ids THEN None ELSE record[c]]
              /\ index' = [index EXCEPT ![handler[h].sid] = {}]
           \/ UNCHANGED <<record, index>>
        /\ UNCHANGED <<row>>
    BY <1>6, Zenon DEF DeleteSessions, Fault, RevokeStreams, cpVars, redisVars,
       memoryVars, linkVars, processVars
  <2>2. handler[h].sid \in Sessions /\ row[handler[h].sid] = "revoked"
    BY <1>0, <2>1 DEF HandlersTyped, OnlyRevoked
  <2>3. \A c \in Callbacks : record'[c] # None => record'[c] = record[c]
    BY <1>0, <2>1 DEF RedisTyped
  <2>4. \A s \in Sessions : s # handler[h].sid => index'[s] = index[s]
    BY <1>0, <2>1 DEF RedisTyped
  <2>5. \A c \in Callbacks : record[c] # None => record[c].claims.sid \in Sessions
    BY <1>0 DEF RedisTyped, Claims
  <2> QED BY <1>0, <2>1, <2>2, <2>3, <2>4, <2>5 DEF IndexedUnlessRevoked
<1>7. ASSUME UNCHANGED <<record, index, row>> PROVE IndexedUnlessRevoked'
  BY <1>0, <1>7 DEF IndexedUnlessRevoked
<1>8. QED
  BY <1>1, <1>2, <1>3, <1>4, <1>5, <1>6, <1>7, IndexedFrame, Zenon DEF vars, cpVars,
     redisVars, memoryVars, linkVars, processVars

LEMMA HeldFrame ==
  Next => \/ \E s \in Sessions : CreateUserSession(s)
          \/ \E c \in Callbacks : \E s \in Sessions : ExchangeToken(c, s)
          \/ \E c \in Callbacks : Create(c)
          \/ \E r \in Requests : Refuse(r)
          \/ \E l \in Logouts : Destroy(l)
          \/ \E h \in Handlers : DeleteSessions(h)
          \/ Restart
          \/ UNCHANGED <<callback, record, token>>
BY Zenon DEF Next, ControlPlane, CallbackStep, RequestStep, LogoutStep, HandlerStep,
   Receive, cpVars, redisVars, memoryVars, linkVars, processVars, Tick,
   CreateUserSessionForGateway, RevokeActiveUserSession, CreateEvent, CreateEventFails,
   Acknowledge, Connect, Break, ReadSession, Admit, Register, OpenStream, EndRequest,
   ReadForLogout, ReceiveCommand, ReceiveHelloAck, Revoke, ReadIndex

(* ExchangeToken spends the token it reads, and a callback writes at most   *)
(* one record.                                                              *)
LEMMA HeldOnceStep == IInv /\ [Next]_vars => HeldOnce'
<1> SUFFICES ASSUME IInv, [Next]_vars PROVE HeldOnce'
  OBVIOUS
<1>0. HeldOnce /\ RedisTyped /\ CpTyped /\ CallbacksTyped /\ ClockTyped
  BY DEF IInv
<1>1. ASSUME NEW s \in Sessions, CreateUserSession(s)
     PROVE  HeldOnce'
  <2>1. /\ row[s] # "none"
        /\ ~token[s].issued
        /\ token' = [token EXCEPT ![s] =
               [issued |-> TRUE, exp |-> now + TTL, until |-> now + TokenTTL]]
        /\ UNCHANGED <<callback, record>>
    BY <1>1, Zenon DEF CreateUserSession, cpVars, redisVars, memoryVars, linkVars,
       processVars
  <2> QED BY <1>0, <2>1 DEF HeldOnce, Holds
<1>2. ASSUME NEW c \in Callbacks, NEW s \in Sessions, ExchangeToken(c, s)
     PROVE  HeldOnce'
  <2>1. /\ callback[c].pc = "new"
        /\ token[s].issued
        /\ now < token[s].until
        /\ \/ callback' = [callback EXCEPT ![c] =
                  [pc |-> "holding", claims |-> [sid |-> s, exp |-> token[s].exp]]]
           \/ callback' = [callback EXCEPT ![c].pc = "over"]
        /\ token' = [token EXCEPT ![s].until = 0]
        /\ UNCHANGED <<record>>
    BY <1>2, Zenon DEF ExchangeToken, Fault, cpVars, redisVars, memoryVars, linkVars,
       processVars
  <2>2. record[c] = None /\ callback[c].pc # "holding"
    BY <1>0, <2>1 DEF HeldOnce
  <2>3. \A d \in Callbacks : ~Holds(d, s)
    BY <1>0, <2>1, SMT DEF HeldOnce, ClockTyped
  <2>4. /\ \A d \in Callbacks : d # c => callback'[d] = callback[d]
        /\ \A u \in Sessions : u # s => token'[u] = token[u]
        /\ token'[s].issued /\ token'[s].until = 0
    BY <1>0, <2>1 DEF CallbacksTyped, CpTyped
  <2>5. callback'[c].pc = "holding" => callback'[c].claims.sid = s
    BY <1>0, <2>1 DEF CallbacksTyped, Callback
  <2>6. \A u \in Sessions : Holds(c, u)' => u = s
    BY <2>1, <2>2, <2>5 DEF Holds
  <2>7. \A d \in Callbacks : \A u \in Sessions : d # c => (Holds(d, u)' <=> Holds(d, u))
    BY <2>1, <2>4 DEF Holds
  <2>8. \A d \in Callbacks : record'[d] # None => callback'[d].pc = "over"
    BY <1>0, <2>1, <2>2, <2>4 DEF HeldOnce
  <2>9. \A u \in Sessions : \A d \in Callbacks : Holds(d, u)' => token'[u].issued /\ token'[u].until = 0
    BY <1>0, <2>3, <2>4, <2>6, <2>7 DEF HeldOnce
  <2>10. \A u \in Sessions : \A d, e \in Callbacks : Holds(d, u)' /\ Holds(e, u)' => d = e
    BY <1>0, <2>3, <2>6, <2>7 DEF HeldOnce
  <2> QED BY <2>8, <2>9, <2>10 DEF HeldOnce
<1>3. ASSUME NEW c \in Callbacks, Create(c)
     PROVE  HeldOnce'
  <2>1. /\ callback[c].pc = "holding"
        /\ callback' = [callback EXCEPT ![c].pc = "over"]
        /\ \/ /\ record' = [record EXCEPT ![c] =
                     [claims |-> callback[c].claims, until |-> now + GatewayTTL]]
              /\ index' = [index EXCEPT ![callback[c].claims.sid] = @ \cup {c}]
           \/ UNCHANGED <<record, index>>
        /\ UNCHANGED <<token>>
    BY <1>3, Zenon DEF Create, Fault, cpVars, redisVars, memoryVars, linkVars, processVars
  <2> QED BY <1>0, <2>1 DEF HeldOnce, Holds, RedisTyped, CallbacksTyped
<1>4. ASSUME NEW r \in Requests, Refuse(r)
     PROVE  HeldOnce'
  <2>1. /\ request[r].pc = "read"
        /\ record' = [record EXCEPT ![request[r].id] = None] \/ UNCHANGED record
        /\ UNCHANGED <<callback, token>>
    BY <1>4, Zenon DEF Refuse, cpVars, redisVars, memoryVars, linkVars, processVars
  <2>2. \A c \in Callbacks : record'[c] = record[c] \/ record'[c] = None
    BY <1>0, <2>1 DEF RedisTyped
  <2> QED BY <1>0, <2>1, <2>2 DEF HeldOnce, Holds
<1>5. ASSUME NEW l \in Logouts, Destroy(l)
     PROVE  HeldOnce'
  <2>1. /\ logout[l].pc = "read"
        /\ \/ /\ record' = [record EXCEPT ![logout[l].id] = None]
              /\ \/ index' = [index EXCEPT ![logout[l].claims.sid] = @ \ {logout[l].id}]
                 \/ index' = index
           \/ UNCHANGED <<record, index>>
        /\ UNCHANGED <<callback, token>>
    BY <1>5, Zenon DEF Destroy, Fault, cpVars, redisVars, memoryVars, linkVars, processVars
  <2>2. \A c \in Callbacks : record'[c] = record[c] \/ record'[c] = None
    BY <1>0, <2>1 DEF RedisTyped
  <2> QED BY <1>0, <2>1, <2>2 DEF HeldOnce, Holds
<1>6. ASSUME NEW h \in Handlers, DeleteSessions(h)
     PROVE  HeldOnce'
  <2>1. /\ handler[h].pc = "delete"
        /\ \/ /\ record' = [c \in Callbacks |-> IF c \in handler[h].ids THEN None ELSE record[c]]
              /\ index' = [index EXCEPT ![handler[h].sid] = {}]
           \/ UNCHANGED <<record, index>>
        /\ UNCHANGED <<callback, token>>
    BY <1>6, Zenon DEF DeleteSessions, Fault, RevokeStreams, cpVars, redisVars,
       memoryVars, linkVars, processVars
  <2> QED BY <1>0, <2>1 DEF HeldOnce, Holds
<1>7. ASSUME Restart
     PROVE  HeldOnce'
  <2>1. /\ restarts < MaxRestarts
        /\ callback' = [c \in Callbacks |-> IF callback[c].pc = "holding"
                                           THEN [callback[c] EXCEPT !.pc = "over"] ELSE callback[c]]
        /\ UNCHANGED <<record, token>>
    BY <1>7, Zenon DEF Restart, cpVars, redisVars, memoryVars, linkVars, processVars
  <2> QED BY <1>0, <2>1 DEF HeldOnce, Holds
<1>8. ASSUME UNCHANGED <<callback, record, token>> PROVE HeldOnce'
  BY <1>0, <1>8 DEF HeldOnce, Holds
<1>9. QED
  BY <1>1, <1>2, <1>3, <1>4, <1>5, <1>6, <1>7, <1>8, HeldFrame, Zenon DEF vars, cpVars,
     redisVars, memoryVars, linkVars, processVars

LEMMA OnlyFrame ==
  Next => \/ \E s \in Sessions : CreateUserSessionForGateway(s)
          \/ \E s \in Sessions : RevokeActiveUserSession(s)
          \/ \E s \in Sessions : CreateEvent(s)
          \/ \E s \in Sessions : CreateEventFails(s)
          \/ \E s \in Sessions : Acknowledge(s)
          \/ Connect
          \/ Break
          \/ \E h \in Handlers : \E s \in Sessions : ReceiveCommand(h, s)
          \/ \E h \in Handlers : ReceiveHelloAck(h)
          \/ \E h \in Handlers : Revoke(h)
          \/ \E h \in Handlers : ReadIndex(h)
          \/ \E h \in Handlers : DeleteSessions(h)
          \/ Restart
          \/ UNCHANGED <<row, revoking, event, received, handler, helloAck>>
BY Zenon DEF Next, ControlPlane, CallbackStep, RequestStep, LogoutStep, HandlerStep,
   Receive, cpVars, redisVars, memoryVars, linkVars, processVars, Tick, CreateUserSession,
   ExchangeToken, Create, ReadSession, Admit, Refuse, Register, OpenStream, EndRequest,
   ReadForLogout, Destroy

(* A revocation starts at the row and goes through event, delivery, HelloAck*)
(* and handler without ever gaining a session.                              *)
LEMMA OnlyRevokedStep == IInv /\ [Next]_vars => OnlyRevoked'
<1> SUFFICES ASSUME IInv, [Next]_vars PROVE OnlyRevoked'
  OBVIOUS
<1>0. OnlyRevoked /\ CpTyped /\ HandlersTyped /\ LinkTyped
  BY DEF IInv
<1>1. ASSUME NEW s \in Sessions, CreateUserSessionForGateway(s)
     PROVE  OnlyRevoked'
  <2>1. /\ row[s] = "none"
        /\ row' = [row EXCEPT ![s] = "active"]
        /\ UNCHANGED <<revoking, event, received, handler, helloAck>>
    BY <1>1, Zenon DEF CreateUserSessionForGateway, cpVars, redisVars, memoryVars,
       linkVars, processVars
  <2> QED BY <1>0, <2>1 DEF OnlyRevoked
<1>2. ASSUME NEW s \in Sessions, RevokeActiveUserSession(s)
     PROVE  OnlyRevoked'
  <2>1. /\ row[s] = "active"
        /\ row' = [row EXCEPT ![s] = "revoked"]
        /\ revoking' = revoking \cup {s}
        /\ UNCHANGED <<event, received, handler, helloAck>>
    BY <1>2, Zenon DEF RevokeActiveUserSession, cpVars, redisVars, memoryVars, linkVars,
       processVars
  <2> QED BY <1>0, <2>1 DEF OnlyRevoked, CpTyped
<1>3. ASSUME NEW s \in Sessions, CreateEvent(s)
     PROVE  OnlyRevoked'
  <2>1. /\ s \in revoking
        /\ revoking' = revoking \ {s}
        /\ event' = [event EXCEPT ![s] = "logged"]
        /\ UNCHANGED <<row, received, handler, helloAck>>
    BY <1>3, Zenon DEF CreateEvent, cpVars, redisVars, memoryVars, linkVars, processVars
  <2> QED BY <1>0, <2>1 DEF OnlyRevoked
<1>4. ASSUME NEW s \in Sessions, CreateEventFails(s)
     PROVE  OnlyRevoked'
  <2>1. /\ s \in revoking
        /\ revoking' = revoking \ {s}
        /\ UNCHANGED <<row, event, received, handler, helloAck>>
    BY <1>4, Zenon DEF CreateEventFails, Fault, cpVars, redisVars, memoryVars, linkVars,
       processVars
  <2> QED BY <1>0, <2>1 DEF OnlyRevoked
<1>5. ASSUME NEW s \in Sessions, Acknowledge(s)
     PROVE  OnlyRevoked'
  <2>1. /\ event[s] = "logged"
        /\ s \in received
        /\ event' = [event EXCEPT ![s] = "acked"]
        /\ UNCHANGED <<row, revoking, received, handler, helloAck>>
    BY <1>5, Zenon DEF Acknowledge, cpVars, redisVars, memoryVars, linkVars, processVars
  <2> QED BY <1>0, <2>1 DEF OnlyRevoked
<1>6. ASSUME Connect
     PROVE  OnlyRevoked'
  <2>1. /\ \/ helloAck' = [list |-> ListRevokedUserSessionByOrg, read |-> TRUE]
           \/ helloAck' = [list |-> {}, read |-> FALSE]
        /\ UNCHANGED <<row, revoking, event, received, handler>>
    BY <1>6, Zenon DEF Connect, Fault, cpVars, redisVars, memoryVars, linkVars, processVars
  <2> QED BY <1>0, <2>1 DEF OnlyRevoked, ListRevokedUserSessionByOrg
<1>7. ASSUME Break
     PROVE  OnlyRevoked'
  <2>1. /\ handler' = [h \in Handlers |-> [handler[h] EXCEPT !.alive = FALSE]]
        /\ helloAck' = None
        /\ UNCHANGED <<row, revoking, event, received>>
    BY <1>7, Zenon DEF Break, Fault, cpVars, redisVars, memoryVars, linkVars, processVars
  <2> QED BY <1>0, <2>1 DEF OnlyRevoked, HandlersTyped, LinkTyped, Handler
<1>8. ASSUME NEW h \in Handlers, NEW s \in Sessions, ReceiveCommand(h, s)
     PROVE  OnlyRevoked'
  <2>1. /\ event[s] = "logged"
        /\ handler[h].pc = "idle"
        /\ received' = received \cup {s}
        /\ handler' = [handler EXCEPT ![h] = [pc |-> "revoke", sid |-> s, rest |-> {}, ids |-> {},
                                                 alive |-> TRUE, hello |-> FALSE]]
        /\ UNCHANGED <<row, revoking, event, helloAck>>
    BY <1>8, Zenon DEF ReceiveCommand, cpVars, redisVars, memoryVars, linkVars, processVars
  <2> QED BY <1>0, <2>1 DEF OnlyRevoked
<1>9. ASSUME NEW h \in Handlers, ReceiveHelloAck(h)
     PROVE  OnlyRevoked'
  <2>1. /\ helloAck # None
        /\ handler[h].pc = "idle"
        /\ \/ /\ helloAck.list = {}
              /\ handler' = handler
              /\ synced' = (synced \/ helloAck.read)
           \/ \E s \in helloAck.list :
                /\ handler' = [handler EXCEPT ![h] =
                     [pc |-> "revoke", sid |-> s, rest |-> helloAck.list \ {s}, ids |-> {},
                      alive |-> TRUE, hello |-> TRUE]]
                /\ synced' = synced
        /\ helloAck' = None
        /\ UNCHANGED <<row, revoking, event, received>>
    BY <1>9, Zenon DEF ReceiveHelloAck, cpVars, redisVars, memoryVars, linkVars, processVars
  <2> QED BY <1>0, <2>1 DEF OnlyRevoked, HandlersTyped
<1>10. ASSUME NEW h \in Handlers, Revoke(h)
     PROVE  OnlyRevoked'
  <2>1. /\ handler[h].pc = "revoke"
        /\ handler' = [handler EXCEPT ![h].pc = "members"]
        /\ UNCHANGED <<row, revoking, event, received, helloAck>>
    BY <1>10, Zenon DEF Revoke, cpVars, redisVars, memoryVars, linkVars, processVars
  <2> QED BY <1>0, <2>1 DEF OnlyRevoked
<1>11. ASSUME NEW h \in Handlers, ReadIndex(h)
     PROVE  OnlyRevoked'
  <2>1. /\ handler[h].pc = "members"
        /\ \/ handler' = [handler EXCEPT ![h].pc = "delete", ![h].ids = index[handler[h].sid]]
           \/ \E next \in NextOf(h) : handler' = [handler EXCEPT ![h] = next]
        /\ UNCHANGED <<row, revoking, event, received, helloAck>>
    BY <1>11, Zenon DEF ReadIndex, Fault, cpVars, redisVars, memoryVars, linkVars,
       processVars
  <2>2. Continues(h)
    BY <1>0, <2>1, NextContinues, IdsContinue
  <2> QED BY <1>0, <2>1, <2>2 DEF OnlyRevoked, Continues
<1>12. ASSUME NEW h \in Handlers, DeleteSessions(h)
     PROVE  OnlyRevoked'
  <2>1. /\ handler[h].pc = "delete"
        /\ \E next \in NextOf(h) : handler' = [handler EXCEPT ![h] = next]
        /\ UNCHANGED <<row, revoking, event, received, helloAck>>
    BY <1>12, Zenon DEF DeleteSessions, Fault, RevokeStreams, cpVars, redisVars,
       memoryVars, linkVars, processVars
  <2>2. Continues(h)
    BY <1>0, <2>1, NextContinues, IdsContinue
  <2> QED BY <1>0, <2>1, <2>2 DEF OnlyRevoked, Continues
<1>13. ASSUME Restart
     PROVE  OnlyRevoked'
  <2>1. /\ restarts < MaxRestarts
        /\ handler' = [h \in Handlers |-> IdleHandler]
        /\ helloAck' = None
        /\ UNCHANGED <<row, revoking, event, received>>
    BY <1>13, Zenon DEF Restart, cpVars, redisVars, memoryVars, linkVars, processVars
  <2> QED BY <1>0, <2>1 DEF OnlyRevoked, IdleHandler
<1>14. ASSUME UNCHANGED <<row, revoking, event, received, handler, helloAck>> PROVE OnlyRevoked'
  BY <1>0, <1>14 DEF OnlyRevoked
<1>15. QED
  BY <1>1, <1>2, <1>3, <1>4, <1>5, <1>6, <1>7, <1>8, <1>9, <1>10, <1>11, <1>12, <1>13,
     <1>14, OnlyFrame, Zenon DEF vars, cpVars, redisVars, memoryVars, linkVars,
     processVars

LEMMA ToldFrame ==
  Next => \/ Tick
          \/ \E s \in Sessions : CreateUserSessionForGateway(s)
          \/ \E s \in Sessions : RevokeActiveUserSession(s)
          \/ Connect
          \/ Break
          \/ \E h \in Handlers : \E s \in Sessions : ReceiveCommand(h, s)
          \/ \E h \in Handlers : ReceiveHelloAck(h)
          \/ \E h \in Handlers : Revoke(h)
          \/ \E h \in Handlers : ReadIndex(h)
          \/ \E h \in Handlers : DeleteSessions(h)
          \/ Restart
          \/ UNCHANGED <<now, expires, row, received, synced, handler, helloAck, revocations>>
BY Zenon DEF Next, ControlPlane, CallbackStep, RequestStep, LogoutStep, HandlerStep,
   Receive, cpVars, redisVars, memoryVars, linkVars, processVars, CreateUserSession,
   CreateEvent, CreateEventFails, Acknowledge, ExchangeToken, Create, ReadSession, Admit,
   Refuse, Register, OpenStream, EndRequest, ReadForLogout, Destroy

(* A command is received by a handler that will record it; a restart loses  *)
(* both, and leaves the gateway unsynchronised until a HelloAck whose list is*)
(* read after the row was revoked.                                          *)
LEMMA ReceivedIsToldStep == IInv /\ [Next]_vars => ReceivedIsTold'
<1> SUFFICES ASSUME IInv, [Next]_vars PROVE ReceivedIsTold'
  OBVIOUS
<1>0. ReceivedIsTold /\ OnlyRevoked /\ RevocationsExact /\ ClockTyped
     /\ CpTyped /\ HandlersTyped /\ LinkTyped
  BY DEF IInv
<1>1. ASSUME Tick
     PROVE  ReceivedIsTold'
  <2>1. /\ now < MaxTime
        /\ now' = now + 1
        /\ UNCHANGED <<expires, row, received, synced, handler, helloAck, revocations>>
    BY <1>1, Zenon DEF Tick, cpVars, redisVars, memoryVars, linkVars, processVars
  <2> QED BY <1>0, <2>1 DEF ReceivedIsTold, Told, Refused, IsRevoked, Pending,
             HelloAtWork, RevocationsExact, ClockTyped, CpTyped, LinkTyped
<1>2. ASSUME NEW s \in Sessions, CreateUserSessionForGateway(s)
     PROVE  ReceivedIsTold'
  <2>1. /\ row[s] = "none"
        /\ expires' = [expires EXCEPT ![s] = now + TTL]
        /\ row' = [row EXCEPT ![s] = "active"]
        /\ UNCHANGED <<now, received, synced, handler, helloAck, revocations>>
    BY <1>2, Zenon DEF CreateUserSessionForGateway, cpVars, redisVars, memoryVars,
       linkVars, processVars
  <2> QED BY <1>0, <2>1 DEF ReceivedIsTold, Told, Refused, IsRevoked, Pending,
             HelloAtWork, OnlyRevoked
<1>3. ASSUME NEW s \in Sessions, RevokeActiveUserSession(s)
     PROVE  ReceivedIsTold'
  <2>1. /\ row[s] = "active"
        /\ row' = [row EXCEPT ![s] = "revoked"]
        /\ UNCHANGED <<now, expires, received, synced, handler, helloAck, revocations>>
    BY <1>3, Zenon DEF RevokeActiveUserSession, cpVars, redisVars, memoryVars, linkVars,
       processVars
  <2> QED BY <1>0, <2>1 DEF ReceivedIsTold, Told, Refused, IsRevoked, Pending, HelloAtWork
<1>4. ASSUME Connect
     PROVE  ReceivedIsTold'
  <2>1. /\ \/ helloAck' = [list |-> ListRevokedUserSessionByOrg, read |-> TRUE]
           \/ helloAck' = [list |-> {}, read |-> FALSE]
        /\ UNCHANGED <<now, expires, row, received, synced, handler, revocations>>
    BY <1>4, Zenon DEF Connect, Fault, cpVars, redisVars, memoryVars, linkVars, processVars
  <2> QED BY <1>0, <2>1 DEF ReceivedIsTold, Told, Refused, IsRevoked, Pending,
             HelloAtWork, OnlyRevoked, ClockTyped, CpTyped, LinkTyped,
             ListRevokedUserSessionByOrg
<1>5. ASSUME Break
     PROVE  ReceivedIsTold'
  <2>1. /\ handler' = [h \in Handlers |-> [handler[h] EXCEPT !.alive = FALSE]]
        /\ helloAck' = None
        /\ UNCHANGED <<now, expires, row, received, synced, revocations>>
    BY <1>5, Zenon DEF Break, Fault, cpVars, redisVars, memoryVars, linkVars, processVars
  <2>2. \A k \in Handlers : /\ handler'[k].pc = handler[k].pc /\ handler'[k].sid = handler[k].sid
                            /\ handler'[k].rest = handler[k].rest /\ handler'[k].hello = handler[k].hello
    BY <1>0, <2>1 DEF HandlersTyped, Handler
  <2>3. \A s \in Sessions : Told(s) => Told(s)'
    BY <1>0, <2>1, <2>2 DEF Told, Refused, IsRevoked, Pending
  <2>4. HelloAtWork' => HelloAtWork
    BY <1>0, <2>1, <2>2 DEF HelloAtWork
  <2> QED BY <1>0, <2>1, <2>3, <2>4 DEF ReceivedIsTold, LinkTyped
<1>6. ASSUME NEW h \in Handlers, NEW s \in Sessions, ReceiveCommand(h, s)
     PROVE  ReceivedIsTold'
  <2>1. /\ event[s] = "logged"
        /\ handler[h].pc = "idle"
        /\ received' = received \cup {s}
        /\ handler' = [handler EXCEPT ![h] = [pc |-> "revoke", sid |-> s, rest |-> {}, ids |-> {},
                                                 alive |-> TRUE, hello |-> FALSE]]
        /\ UNCHANGED <<now, expires, row, synced, helloAck, revocations>>
    BY <1>6, Zenon DEF ReceiveCommand, cpVars, redisVars, memoryVars, linkVars, processVars
  <2> QED BY <1>0, <2>1 DEF ReceivedIsTold, Told, Refused, IsRevoked, Pending,
             HelloAtWork, HandlersTyped
<1>7. ASSUME NEW h \in Handlers, ReceiveHelloAck(h)
     PROVE  ReceivedIsTold'
  <2>1. /\ helloAck # None
        /\ handler[h].pc = "idle"
        /\ \/ /\ helloAck.list = {}
              /\ handler' = handler
              /\ synced' = (synced \/ helloAck.read)
           \/ \E s \in helloAck.list :
                /\ handler' = [handler EXCEPT ![h] =
                     [pc |-> "revoke", sid |-> s, rest |-> helloAck.list \ {s}, ids |-> {},
                      alive |-> TRUE, hello |-> TRUE]]
                /\ synced' = synced
        /\ helloAck' = None
        /\ UNCHANGED <<now, expires, row, received, revocations>>
    BY <1>7, Zenon DEF ReceiveHelloAck, cpVars, redisVars, memoryVars, linkVars, processVars
  <2>2. CASE /\ helloAck.list = {}
             /\ handler' = handler
             /\ synced' = (synced \/ helloAck.read)
    <3>1. \A s \in Sessions : Told(s) => Told(s)'
      BY <2>1, <2>2 DEF Told, Refused, IsRevoked, Pending
    <3>2. HelloAtWork' => HelloAtWork
      BY <2>2 DEF HelloAtWork
    <3>3. ASSUME NEW s \in received, ~Told(s) PROVE ~synced /\ ~HelloAtWork /\ ~helloAck.read
      BY <1>0, <2>1, <2>2, <3>3, Zenon DEF ReceivedIsTold
    <3>4. ASSUME NEW s \in received, ~Told(s) PROVE ~synced'
      BY <2>2, <3>3, <3>4, Zenon
    <3> QED BY <1>0, <2>1, <3>1, <3>2, <3>3, <3>4, Zenon DEF ReceivedIsTold, LinkTyped
  <2>3. ASSUME NEW n \in helloAck.list, synced' = synced,
               handler' = [handler EXCEPT ![h] =
                 [pc |-> "revoke", sid |-> n, rest |-> helloAck.list \ {n}, ids |-> {},
                  alive |-> TRUE, hello |-> TRUE]]
        PROVE  ReceivedIsTold'
    <3>1. /\ \A k \in Handlers : k # h => handler'[k] = handler[k]
          /\ handler'[h].pc = "revoke" /\ handler'[h].sid = n /\ handler'[h].rest = helloAck.list \ {n}
      BY <1>0, <2>3 DEF HandlersTyped
    <3>2. \A s \in Sessions : Told(s) => Told(s)'
      BY <1>0, <2>1, <3>1 DEF Told, Refused, IsRevoked, Pending
    <3>3. \A s \in helloAck.list : Told(s)'
      BY <3>1 DEF Told, Pending
    <3>4. helloAck.read
      BY <1>0, <2>1, <2>3, Zenon DEF ReceivedIsTold
    <3> QED BY <1>0, <2>1, <3>2, <3>3, <3>4, Zenon DEF ReceivedIsTold, LinkTyped
  <2> QED BY <2>1, <2>2, <2>3
<1>8. ASSUME NEW h \in Handlers, Revoke(h)
     PROVE  ReceivedIsTold'
  <2>1. /\ handler[h].pc = "revoke"
        /\ synced' = (synced \/ (handler[h].hello /\ handler[h].rest = {}))
        /\ handler' = [handler EXCEPT ![h].pc = "members"]
        /\ revocations' = [revocations EXCEPT ![handler[h].sid] = expires[handler[h].sid]]
        /\ UNCHANGED <<now, expires, row, received, helloAck>>
    BY <1>8, Zenon DEF Revoke, cpVars, redisVars, memoryVars, linkVars, processVars
  <2> QED BY <1>0, <2>1 DEF ReceivedIsTold, Told, Refused, IsRevoked, Pending,
             HelloAtWork, RevocationsExact, ClockTyped, CpTyped, HandlersTyped
<1>9. ASSUME NEW h \in Handlers, ReadIndex(h)
     PROVE  ReceivedIsTold'
  <2>1. /\ handler[h].pc = "members"
        /\ \/ handler' = [handler EXCEPT ![h].pc = "delete", ![h].ids = index[handler[h].sid]]
           \/ \E next \in NextOf(h) : handler' = [handler EXCEPT ![h] = next]
        /\ UNCHANGED <<now, expires, row, received, synced, helloAck, revocations>>
    BY <1>9, Zenon DEF ReadIndex, Fault, cpVars, redisVars, memoryVars, linkVars,
       processVars
  <2>2. Continues(h)
    BY <1>0, <2>1, NextContinues, IdsContinue
  <2>3. \A s \in Sessions : Told(s) => Told(s)'
    BY <1>0, <2>1, <2>2 DEF Told, Refused, IsRevoked, Pending, Continues
  <2>4. HelloAtWork' => HelloAtWork
    BY <1>0, <2>1, <2>2 DEF HelloAtWork, Continues
  <2> QED BY <1>0, <2>1, <2>3, <2>4 DEF ReceivedIsTold, LinkTyped
<1>10. ASSUME NEW h \in Handlers, DeleteSessions(h)
     PROVE  ReceivedIsTold'
  <2>1. /\ handler[h].pc = "delete"
        /\ \E next \in NextOf(h) : handler' = [handler EXCEPT ![h] = next]
        /\ UNCHANGED <<now, expires, row, received, synced, helloAck, revocations>>
    BY <1>10, Zenon DEF DeleteSessions, Fault, RevokeStreams, cpVars, redisVars,
       memoryVars, linkVars, processVars
  <2>2. Continues(h)
    BY <1>0, <2>1, NextContinues, IdsContinue
  <2>3. \A s \in Sessions : Told(s) => Told(s)'
    BY <1>0, <2>1, <2>2 DEF Told, Refused, IsRevoked, Pending, Continues
  <2>4. HelloAtWork' => HelloAtWork
    BY <1>0, <2>1, <2>2 DEF HelloAtWork, Continues
  <2> QED BY <1>0, <2>1, <2>3, <2>4 DEF ReceivedIsTold, LinkTyped
<1>11. ASSUME Restart
     PROVE  ReceivedIsTold'
  <2>1. /\ restarts < MaxRestarts
        /\ synced' = FALSE
        /\ handler' = [h \in Handlers |-> IdleHandler]
        /\ helloAck' = None
        /\ revocations' = [s \in Sessions |-> 0]
        /\ UNCHANGED <<now, expires, row, received>>
    BY <1>11, Zenon DEF Restart, cpVars, redisVars, memoryVars, linkVars, processVars
  <2> QED BY <1>0, <2>1 DEF ReceivedIsTold, HelloAtWork, IdleHandler
<1>12. ASSUME UNCHANGED <<now, expires, row, received, synced, handler, helloAck, revocations>>
      PROVE  ReceivedIsTold'
  BY <1>0, <1>12 DEF ReceivedIsTold, Told, Refused, IsRevoked, Pending, HelloAtWork
<1>13. QED
  BY <1>1, <1>2, <1>3, <1>4, <1>5, <1>6, <1>7, <1>8, <1>9, <1>10, <1>11, <1>12, ToldFrame,
     Zenon DEF vars, cpVars, redisVars, memoryVars, linkVars, processVars

-----------------------------------------------------------------------------
(* The theorems. *)

(* Initially nothing is issued, held, recorded or received.                 *)
LEMMA InitIInv == Init => IInv
<1> SUFFICES ASSUME Init PROVE IInv
  OBVIOUS
<1>1. ClockTyped
  <2>1. synced \in BOOLEAN
    BY Zenon DEF Init
  <2>2. now \in 0..MaxTime /\ faults \in 0..MaxFaults /\ restarts \in 0..MaxRestarts
    BY TimesAssumption, SMT DEF Init
  <2> QED BY <2>1, <2>2, Zenon DEF ClockTyped
<1>2. CpTyped /\ CallbacksTyped /\ RedisTyped /\ StreamsTyped
  BY DEF Init, CpTyped, CallbacksTyped, RedisTyped, StreamsTyped, Callback, IdleCallback
<1>3. VisitsTyped /\ HandlersTyped
  BY DEF Init, VisitsTyped, HandlersTyped, Visit, Handler, IdleRequest, IdleHandler
<1>4. LinkTyped
  BY Zenon DEF Init, LinkTyped
<1>5. HeldOnce
  BY DEF Init, HeldOnce, Holds, IdleCallback
<1>6. RevocationsExact /\ IndexedUnlessRevoked
  BY DEF Init, RevocationsExact, IndexedUnlessRevoked
<1>7. OnlyRevoked
  BY DEF Init, OnlyRevoked, IdleHandler
<1>8. ReceivedIsTold
  BY DEF Init, ReceivedIsTold
<1>9. QED BY <1>1, <1>2, <1>3, <1>4, <1>5, <1>6, <1>7, <1>8 DEF IInv

(* The invariant is inductive.                                              *)
LEMMA Inductive == Spec => []IInv
<1>1. IInv /\ [Next]_vars => IInv'
  BY ClockTypedStep, CpTypedStep, CallbacksTypedStep, RedisTypedStep, StreamsTypedStep,
     VisitsTypedStep, HandlersTypedStep, LinkTypedStep, RevocationsExactStep, HeldOnceStep,
     OnlyRevokedStep, IndexedUnlessRevokedStep, ReceivedIsToldStep, Zenon DEF IInv
<1>2. QED BY InitIInv, <1>1, PTL DEF Spec

(* The variables keep their types: callbacks, requests, logouts and handlers *)
(* are always in a state their code can be in.                               *)
THEOREM TypeCorrect == Spec => []TypeOK
<1>1. IInv => TypeOK
  BY Zenon DEF IInv, TypeOK, ClockTyped, CpTyped, CallbacksTyped, RedisTyped, StreamsTyped,
     VisitsTyped, HandlersTyped, LinkTyped, RevocationsExact
<1>2. QED BY Inductive, <1>1, PTL

(* However many browsers present the one-time token of a login              *)
(* (stream_handler.go:575), one record at most comes of it, whatever the    *)
(* order and the failures.                                                  *)
THEOREM OneSessionPerLoginHolds == Spec => []OneSessionPerLogin
<1>1. IInv => OneSessionPerLogin
  BY DEF IInv, HeldOnce, Holds, OneSessionPerLogin, RedisTyped, Claims
<1>2. QED BY Inductive, <1>1, PTL

(* No logout, expiry or revocation takes the record of an unrevoked session *)
(* out of the index that a later revocation looks it up in (session.go:286). *)
THEOREM IndexedUnlessRevokedHolds == Spec => []IndexedUnlessRevoked
<1>1. IInv => IndexedUnlessRevoked
  BY DEF IInv
<1>2. QED BY Inductive, <1>1, PTL

(* A synchronised gateway knows of every revocation that was acknowledged,  *)
(* even when an acknowledgement of a later event took it along and the      *)
(* process that received it is gone.                                        *)
LEMMA ToldIsKnown == IInv => AckedIsKnown
<1> SUFFICES ASSUME IInv, NEW s \in Sessions, event[s] = "acked", synced
             PROVE  IsRevoked(s) \/ Pending(s) \/ expires[s] <= now
  BY DEF AckedIsKnown
<1>1. s \in received
  BY DEF IInv, OnlyRevoked
<1>2. Told(s)
  BY <1>1 DEF IInv, ReceivedIsTold
<1>3. QED BY <1>2 DEF Told, Refused

THEOREM AckedIsKnownHolds == Spec => []AckedIsKnown
<1>1. QED BY Inductive, ToldIsKnown, PTL

(* After the acknowledgement no request of the session is admitted before   *)
(* it expires: whatever Redis still holds, Admit asks the memory last       *)
(* (session.go:102).                                                        *)
THEOREM AckedNotAdmittedHolds == Spec => AckedNotAdmitted
<1> DEFINE Refuses ==
      \A r \in Requests : \A s \in Sessions :
        /\ request[r].pc = "read" /\ request'[r].pc = "admitted"
        /\ request[r].claims.sid = s
        /\ event[s] = "acked" /\ synced /\ ~Pending(s)
        => expires[s] <= now
<1>1. IInv /\ [Next]_vars => Refuses
  <2> SUFFICES ASSUME IInv, [Next]_vars, NEW r \in Requests, NEW s \in Sessions,
                      request[r].pc = "read", request'[r].pc = "admitted",
                      request[r].claims.sid = s, event[s] = "acked", synced, ~Pending(s)
               PROVE  expires[s] <= now
    OBVIOUS
  <2>0. VisitsTyped /\ AckedIsKnown
    BY ToldIsKnown DEF IInv
  <2>1. ASSUME NEW q \in Requests, NEW c \in Callbacks, ReadSession(q, c) PROVE expires[s] <= now
    <3>1. /\ request' = [request EXCEPT ![q] = [pc |-> "read", id |-> c, claims |-> record[c].claims]]
      BY <2>1, Zenon DEF ReadSession, Stored, cpVars, redisVars, memoryVars, linkVars,
         processVars
    <3> QED BY <2>0, <3>1 DEF VisitsTyped
  <2>2. ASSUME NEW q \in Requests, Admit(q) PROVE expires[s] <= now
    <3>1. request' = [request EXCEPT ![q].pc = "admitted"] /\ ~IsRevoked(request[q].claims.sid)
      BY <2>2, Zenon DEF Admit
    <3>2. q = r
      BY <2>0, <3>1 DEF VisitsTyped
    <3> QED BY <2>0, <3>1, <3>2 DEF AckedIsKnown
  <2>3. ASSUME NEW q \in Requests, Refuse(q) PROVE expires[s] <= now
    <3>1. /\ request[q].pc = "read"
          /\ request' = [request EXCEPT ![q] = IdleRequest]
      BY <2>3, Zenon DEF Refuse, cpVars, redisVars, memoryVars, linkVars, processVars
    <3> QED BY <2>0, <3>1 DEF IdleRequest
  <2>4. ASSUME NEW q \in Requests, Register(q) PROVE expires[s] <= now
    <3>1. /\ request[q].pc = "admitted"
          /\ request' = [request EXCEPT ![q].pc = "registered"]
      BY <2>4, Zenon DEF Register, cpVars, redisVars, memoryVars, linkVars, processVars
    <3> QED BY <2>0, <3>1 DEF VisitsTyped
  <2>5. ASSUME NEW q \in Requests, OpenStream(q) PROVE expires[s] <= now
    <3>1. /\ request[q].pc = "registered"
          /\ request' = [request EXCEPT ![q].pc = "open"]
      BY <2>5, Zenon DEF OpenStream, cpVars, redisVars, memoryVars, linkVars, processVars
    <3> QED BY <2>0, <3>1 DEF VisitsTyped
  <2>6. ASSUME NEW q \in Requests, EndRequest(q) PROVE expires[s] <= now
    <3>1. /\ request[q].pc \in {"admitted", "registered", "open"}
          /\ request' = [request EXCEPT ![q] = IdleRequest]
      BY <2>6, Zenon DEF EndRequest, cpVars, redisVars, memoryVars, linkVars, processVars
    <3> QED BY <2>0, <3>1 DEF VisitsTyped
  <2>7. ASSUME NEW l \in Logouts, NEW c \in Callbacks, ReadForLogout(l, c) PROVE expires[s] <= now
    <3>1. /\ UNCHANGED <<request>>
      BY <2>7, Zenon DEF ReadForLogout, Stored, cpVars, redisVars, memoryVars, linkVars,
         processVars
    <3> QED BY <2>0, <3>1 DEF VisitsTyped
  <2>8. ASSUME NEW l \in Logouts, Destroy(l) PROVE expires[s] <= now
    <3>1. /\ logout[l].pc = "read"
          /\ UNCHANGED <<request>>
      BY <2>8, Zenon DEF Destroy, Fault, cpVars, redisVars, memoryVars, linkVars,
         processVars
    <3> QED BY <2>0, <3>1 DEF VisitsTyped
  <2>9. ASSUME Restart PROVE expires[s] <= now
    <3>1. /\ restarts < MaxRestarts
          /\ request' = [p \in Requests |-> IdleRequest]
      BY <2>9, Zenon DEF Restart, cpVars, redisVars, memoryVars, linkVars, processVars
    <3> QED BY <2>0, <3>1 DEF IdleRequest
  <2>10. ASSUME UNCHANGED <<request, logout>> PROVE expires[s] <= now
    BY <2>10
  <2>11. QED
    BY <2>1, <2>2, <2>3, <2>4, <2>5, <2>6, <2>7, <2>8, <2>9, <2>10, VisitsFrame, Zenon DEF
       vars, cpVars, redisVars, memoryVars, linkVars, processVars
<1>2. QED BY Inductive, <1>1, PTL DEF Spec, AckedNotAdmitted
-----------------------------------------------------------------------------
(* The refinement of LoginAccess.  What it needs of the state: a callback   *)
(* keeps the claims it once got, and records, requests and the spent        *)
(* one-time token agree with them.                                          *)

ClaimsSpent ==
  /\ \A c \in Callbacks : callback[c].pc = "new" => callback[c].claims = None
  /\ \A c \in Callbacks : callback[c].claims # None =>
       token[callback[c].claims.sid].issued /\ token[callback[c].claims.sid].until = 0
  /\ \A c \in Callbacks : record[c] # None => record[c].claims = callback[c].claims

VisitsClaimed ==
  \A r \in Requests :
    /\ request[r].pc = "idle" => request[r] = IdleRequest
    /\ request[r].pc # "idle" => request[r].claims = callback[request[r].id].claims

AccessInv == ClaimsSpent /\ VisitsClaimed

LEMMA ClaimsAre ==
  ASSUME IInv, NEW c \in Callbacks
  PROVE  /\ callback[c].claims # None => callback[c].claims \in Claims
         /\ callback[c].pc = "holding" => callback[c].claims \in Claims /\ callback[c].claims # None
         /\ record[c] # None => record[c].claims \in Claims
BY NoneAssumption DEF IInv, CallbacksTyped, Callback, RedisTyped

(* Claims are given once.                                                   *)
LEMMA ClaimsKept ==
  ASSUME IInv, ClaimsSpent, [Next]_vars
  PROVE  \A c \in Callbacks : callback[c].claims # None => callback'[c].claims = callback[c].claims
<1>0. callback \in [Callbacks -> Callback] /\ ClaimsSpent
  BY DEF IInv, CallbacksTyped
<1>1. ASSUME NEW c \in Callbacks, NEW s \in Sessions, ExchangeToken(c, s)
      PROVE  \A d \in Callbacks : callback[d].claims # None => callback'[d].claims = callback[d].claims
  <2>1. /\ callback[c].pc = "new"
        /\ \E x : callback' = [callback EXCEPT ![c] = x]
    BY <1>1 DEF ExchangeToken
  <2>2. callback[c].claims = None /\ \A d \in Callbacks : d # c => callback'[d] = callback[d]
    BY <1>0, <2>1 DEF ClaimsSpent
  <2> QED BY <2>2
<1>2. ASSUME NEW c \in Callbacks, Create(c)
      PROVE  \A d \in Callbacks : callback'[d].claims = callback[d].claims
  <2>1. callback' = [callback EXCEPT ![c].pc = "over"]
    BY <1>2 DEF Create
  <2> QED BY <1>0, <2>1 DEF Callback
<1>3. ASSUME Restart
      PROVE  \A d \in Callbacks : callback'[d].claims = callback[d].claims
  <2>1. callback' = [c \in Callbacks |-> IF callback[c].pc = "holding"
                                         THEN [callback[c] EXCEPT !.pc = "over"] ELSE callback[c]]
    BY <1>3 DEF Restart
  <2> QED BY <1>0, <2>1 DEF Callback
<1>4. CASE UNCHANGED <<callback>>
  BY <1>4
<1> QED BY <1>1, <1>2, <1>3, <1>4, CallbacksFrame, Zenon DEF vars, processVars

LEMMA ClaimsSpentStep ==
  ASSUME IInv, AccessInv, [Next]_vars
  PROVE  ClaimsSpent'
<1>0. /\ ClaimsSpent /\ CpTyped /\ CallbacksTyped /\ RedisTyped /\ HeldOnce
      /\ callback \in [Callbacks -> Callback]
      /\ \A c \in Callbacks : callback[c].claims # None => callback[c].claims.sid \in Sessions
  BY ClaimsAre DEF IInv, AccessInv, CallbacksTyped, Claims
<1>1. ASSUME NEW s \in Sessions, CreateUserSession(s)
      PROVE  ClaimsSpent'
  <2>1. /\ ~token[s].issued /\ UNCHANGED <<callback, record>>
        /\ \E x : token' = [token EXCEPT ![s] = x]
    BY <1>1, Zenon DEF CreateUserSession, redisVars, processVars
  <2>2. \A u \in Sessions : u # s => token'[u] = token[u]
    BY <1>0, <2>1 DEF CpTyped
  <2> QED BY <1>0, <2>1, <2>2 DEF ClaimsSpent
<1>2. ASSUME NEW c \in Callbacks, NEW s \in Sessions, ExchangeToken(c, s)
      PROVE  ClaimsSpent'
  <2>1. /\ callback[c].pc = "new" /\ token[s].issued
        /\ token' = [token EXCEPT ![s].until = 0]
        /\ \/ callback' = [callback EXCEPT ![c] =
                             [pc |-> "holding", claims |-> [sid |-> s, exp |-> token[s].exp]]]
           \/ callback' = [callback EXCEPT ![c].pc = "over"]
        /\ UNCHANGED record
    BY <1>2, Zenon DEF ExchangeToken, redisVars
  <2>2. record[c] = None /\ callback[c].claims = None
    BY <1>0, <2>1 DEF HeldOnce, ClaimsSpent
  <2>3. /\ \A d \in Callbacks : d # c => callback'[d] = callback[d]
        /\ token'[s].issued /\ token'[s].until = 0
        /\ \A u \in Sessions : u # s => token'[u] = token[u]
    BY <1>0, <2>1 DEF CpTyped
  <2>4. /\ callback'[c].pc # "new"
        /\ callback'[c].claims # None => callback'[c].claims.sid = s
    BY <1>0, <2>1, <2>2 DEF Callback
  <2>5. \A u \in Sessions : token[u].issued /\ token[u].until = 0 => token'[u].issued /\ token'[u].until = 0
    BY <2>3
  <2> QED BY <1>0, <2>1, <2>2, <2>3, <2>4, <2>5 DEF ClaimsSpent
<1>3. ASSUME UNCHANGED token,
             \A d \in Callbacks : callback'[d].claims = callback[d].claims
                                  /\ (callback'[d].pc = "new" => callback[d].pc = "new"),
             \A d \in Callbacks : record'[d] # None => record'[d].claims = callback[d].claims
      PROVE  ClaimsSpent'
  BY <1>0, <1>3 DEF ClaimsSpent
<1>4. ASSUME NEW c \in Callbacks, Create(c)
      PROVE  ClaimsSpent'
  <2>1. /\ callback' = [callback EXCEPT ![c].pc = "over"]
        /\ UNCHANGED token
        /\ \/ record' = [record EXCEPT ![c] = [claims |-> callback[c].claims, until |-> now + GatewayTTL]]
           \/ record' = record
    BY <1>4, Zenon DEF Create, cpVars, redisVars
  <2>2. \A d \in Callbacks : callback'[d].claims = callback[d].claims
                             /\ (callback'[d].pc = "new" => callback[d].pc = "new")
    BY <1>0, <2>1 DEF Callback
  <2>3. \A d \in Callbacks : record'[d] # None => record'[d].claims = callback[d].claims
    BY <1>0, <2>1 DEF RedisTyped, ClaimsSpent
  <2> QED BY <1>3, <2>1, <2>2, <2>3
<1>5. ASSUME UNCHANGED <<token, callback>>,
             \A d \in Callbacks : record'[d] = record[d] \/ record'[d] = None
      PROVE  ClaimsSpent'
  BY <1>0, <1>5 DEF ClaimsSpent
<1>6. ASSUME NEW r \in Requests, Refuse(r)
      PROVE  ClaimsSpent'
  <2>1. /\ UNCHANGED <<token, callback>>
        /\ record' = [record EXCEPT ![request[r].id] = None] \/ record' = record
    BY <1>6, Zenon DEF Refuse, cpVars
  <2> QED BY <1>0, <1>5, <2>1 DEF RedisTyped
<1>7. ASSUME NEW l \in Logouts, Destroy(l)
      PROVE  ClaimsSpent'
  <2>1. /\ UNCHANGED <<token, callback>>
        /\ record' = [record EXCEPT ![logout[l].id] = None] \/ record' = record
    BY <1>7, Zenon DEF Destroy, cpVars, redisVars
  <2> QED BY <1>0, <1>5, <2>1 DEF RedisTyped
<1>8. ASSUME NEW h \in Handlers, DeleteSessions(h)
      PROVE  ClaimsSpent'
  <2>1. /\ UNCHANGED <<token, callback>>
        /\ \/ record' = [c \in Callbacks |-> IF c \in handler[h].ids THEN None ELSE record[c]]
           \/ record' = record
    BY <1>8, Zenon DEF DeleteSessions, cpVars, redisVars
  <2> QED BY <1>5, <2>1
<1>9. CASE Restart
  <2>1. /\ callback' = [c \in Callbacks |-> IF callback[c].pc = "holding"
                                            THEN [callback[c] EXCEPT !.pc = "over"] ELSE callback[c]]
        /\ UNCHANGED <<token, record>>
    BY <1>9, Zenon DEF Restart, cpVars, redisVars
  <2>2. \A d \in Callbacks : callback'[d].claims = callback[d].claims
                             /\ (callback'[d].pc = "new" => callback[d].pc = "new")
    BY <1>0, <2>1 DEF Callback
  <2> QED BY <1>0, <1>3, <2>1, <2>2 DEF ClaimsSpent
<1>10. CASE UNCHANGED <<callback, record, token>>
  BY <1>5, <1>10
<1> QED
  BY <1>1, <1>2, <1>4, <1>6, <1>7, <1>8, <1>9, <1>10, HeldFrame, Zenon
     DEF vars, cpVars, redisVars, processVars

LEMMA VisitsClaimedStep ==
  ASSUME IInv, AccessInv, [Next]_vars
  PROVE  VisitsClaimed'
<1>0. /\ VisitsClaimed /\ ClaimsSpent /\ VisitsTyped /\ request \in [Requests -> Visit]
      /\ \A r \in Requests : request[r].pc # "idle" => request[r].id \in Callbacks
  BY DEF IInv, AccessInv, VisitsTyped
<1>1. \A r \in Requests : request[r].pc # "idle" =>
        callback'[request[r].id].claims = request[r].claims
  <2> SUFFICES ASSUME NEW r \in Requests, request[r].pc # "idle"
               PROVE  callback'[request[r].id].claims = request[r].claims
    OBVIOUS
  <2>1. request[r].id \in Callbacks /\ request[r].claims # None
        /\ callback[request[r].id].claims = request[r].claims
    BY <1>0, NoneAssumption DEF VisitsTyped, VisitsClaimed
  <2> QED BY <2>1, ClaimsKept DEF AccessInv
<1>2. ASSUME \A r \in Requests :
               \/ request'[r] = request[r] \/ request'[r] = IdleRequest
               \/ /\ request[r].pc # "idle" /\ request'[r].pc # "idle"
                  /\ request'[r].id = request[r].id /\ request'[r].claims = request[r].claims
      PROVE  VisitsClaimed'
  BY <1>0, <1>1, <1>2 DEF VisitsClaimed, IdleRequest
<1>3. ASSUME NEW q \in Requests, NEW c \in Callbacks, ReadSession(q, c)
      PROVE  VisitsClaimed'
  <2>1. /\ request' = [request EXCEPT ![q] = [pc |-> "read", id |-> c, claims |-> record[c].claims]]
        /\ record[c] # None /\ UNCHANGED callback
    BY <1>3, Zenon DEF ReadSession, Stored, processVars
  <2>2. /\ request'[q] = [pc |-> "read", id |-> c, claims |-> callback'[c].claims]
        /\ \A r \in Requests : r # q => request'[r] = request[r]
    BY <1>0, <2>1 DEF ClaimsSpent
  <2> QED BY <1>0, <1>1, <2>2 DEF VisitsClaimed
<1>4. ASSUME NEW q \in Requests, NEW pc \in {"admitted", "registered", "open"},
             request[q].pc # "idle", request' = [request EXCEPT ![q].pc = pc]
      PROVE  VisitsClaimed'
  <2>1. /\ request'[q].pc # "idle" /\ request'[q].id = request[q].id
        /\ request'[q].claims = request[q].claims
        /\ \A r \in Requests : r # q => request'[r] = request[r]
    BY <1>0, <1>4 DEF Visit
  <2> QED BY <1>2, <1>4, <2>1
<1>5. ASSUME NEW q \in Requests, request' = [request EXCEPT ![q] = IdleRequest]
      PROVE  VisitsClaimed'
  BY <1>0, <1>2, <1>5
<1>6. ASSUME NEW q \in Requests, Admit(q) \/ Register(q) \/ OpenStream(q)
      PROVE  VisitsClaimed'
  BY <1>4, <1>6 DEF Admit, Register, OpenStream
<1>7. ASSUME NEW q \in Requests, Refuse(q) \/ EndRequest(q)
      PROVE  VisitsClaimed'
  BY <1>5, <1>7 DEF Refuse, EndRequest
<1>8. CASE Restart
  <2>1. request' = [r \in Requests |-> IdleRequest]
    BY <1>8 DEF Restart
  <2> QED BY <1>2, <2>1
<1>9. CASE UNCHANGED request
  BY <1>2, <1>9
<1> QED
  <2>1. \A l \in Logouts : \A c \in Callbacks : ReadForLogout(l, c) => UNCHANGED request
    BY Zenon DEF ReadForLogout
  <2>2. \A l \in Logouts : Destroy(l) => UNCHANGED request
    BY Zenon DEF Destroy
  <2> QED BY <1>3, <1>6, <1>7, <1>8, <1>9, <2>1, <2>2, VisitsFrame, Zenon DEF vars, processVars

LEMMA AccessInvariant == Spec => [](IInv /\ AccessInv)
<1>1. Init => AccessInv
  BY DEF Init, AccessInv, ClaimsSpent, VisitsClaimed, IdleCallback, IdleRequest
<1>2. IInv /\ AccessInv /\ [Next]_vars => AccessInv'
  BY ClaimsSpentStep, VisitsClaimedStep DEF AccessInv
<1> QED BY <1>1, <1>2, Inductive, PTL DEF Spec

(* The state of LoginAccess, and what leaves a part of it alone.            *)
Tokens  == [s \in Sessions |-> TokenOf(s)]
Seats   == [c \in Callbacks |-> SeatOf(c)]
Visits  == [r \in Requests |-> [stage |-> StageOf(r), seat |-> request[r].id]]
Revoked == {s \in Sessions : row[s] = "revoked"}
Expired == {s \in Sessions : row[s] # "none" /\ expires[s] <= now}
Barred  == {s \in Sessions : IsRevoked(s)}

LEMMA AccessFrame ==
  /\ UNCHANGED token => UNCHANGED Tokens
  /\ UNCHANGED callback => UNCHANGED Holders
  /\ UNCHANGED <<callback, record, now>> => UNCHANGED Seats
  /\ UNCHANGED request => UNCHANGED Visits
  /\ UNCHANGED row => UNCHANGED Revoked
  /\ UNCHANGED <<row, expires, now>> => UNCHANGED Expired
  /\ UNCHANGED <<revocations, now>> => UNCHANGED Barred
BY DEF Tokens, TokenOf, Holders, Seats, SeatOf, Stored, Visits, StageOf, Revoked, Expired, Barred,
       IsRevoked

(* Seats that only close.                                                   *)
LEMMA SeatsClose ==
  ASSUME \A c \in Callbacks : SeatOf(c)' \in {SeatOf(c), "closed"}
  PROVE  \E C \in SUBSET Callbacks : Access!Close(C)
<1> DEFINE C == {c \in Callbacks : SeatOf(c)' = "closed"}
<1>1. \A c \in Callbacks : SeatOf(c)' = IF c \in C THEN "closed" ELSE Seats[c]
  BY DEF Seats
<1>2. Seats' = [c \in Callbacks |-> IF c \in C THEN "closed" ELSE Seats[c]]
  BY <1>1 DEF Seats
<1> HIDE DEF C
<1>3. C \in SUBSET Callbacks
  BY DEF C
<1>4. Access!Close(C)
  BY <1>2 DEF Access!Close, Seats
<1> QED BY <1>3, <1>4

LEMMA Leaves ==
  ASSUME UNCHANGED <<Tokens, Holders, Visits, Revoked, Expired, Barred>>,
         \A c \in Callbacks : SeatOf(c)' \in {SeatOf(c), "closed"}
  PROVE  Access!Next
<1>1. PICK C \in SUBSET Callbacks : Access!Close(C)
  BY SeatsClose
<1>2. Access!Leave(C)
  BY <1>1, Zenon DEF Access!Leave, Tokens, Visits, Revoked, Expired, Barred
<1> QED BY <1>2, Zenon DEF Access!Next

LEMMA SameSeats ==
  ASSUME UNCHANGED Seats
  PROVE  \A c \in Callbacks : SeatOf(c)' \in {SeatOf(c), "closed"}
<1>1. \A c \in Callbacks : Seats[c] = SeatOf(c) /\ Seats'[c] = SeatOf(c)'
  BY DEF Seats
<1> QED BY <1>1

(* A session whose record may have gone is closed.                          *)
LEMMA SeatsMayClose ==
  ASSUME UNCHANGED <<callback, now>>,
         \A c \in Callbacks : record'[c] = record[c] \/ record'[c] = None
  PROVE  \A c \in Callbacks : SeatOf(c)' \in {SeatOf(c), "closed"}
<1> SUFFICES ASSUME NEW c \in Callbacks PROVE SeatOf(c)' \in {SeatOf(c), "closed"}
  OBVIOUS
<1>1. CASE record'[c] = record[c]
  BY <1>1 DEF SeatOf, Stored
<1>2. CASE record'[c] = None
  BY <1>2 DEF SeatOf, Stored
<1> QED BY <1>1, <1>2

LEMMA SameHolders ==
  ASSUME \A c \in Callbacks : callback'[c].claims = callback[c].claims
  PROVE  Holders' = Holders
<1>1. \A hold \in Sessions \X Callbacks : hold[2] \in Callbacks
  OBVIOUS
<1> QED BY <1>1 DEF Holders

(* The control plane. *)
LEMMA OfferStep ==
  ASSUME IInv, NEW s \in Sessions, CreateUserSession(s)
  PROVE  Access!Next
<1>1. /\ ~token[s].issued
      /\ token' = [token EXCEPT ![s] = [issued |-> TRUE, exp |-> now + TTL, until |-> now + TokenTTL]]
      /\ UNCHANGED <<now, row, expires, revocations, callback, record, request>>
  BY Zenon DEF CreateUserSession, redisVars, memoryVars, processVars
<1>2. now + TokenTTL # 0
  BY TimesAssumption DEF IInv, ClockTyped
<1>3. Tokens' = [Tokens EXCEPT ![s] = "offered"] /\ Tokens[s] = "none"
  <2>1. TokenOf(s) = "none" /\ TokenOf(s)' = "offered"
    BY <1>1, <1>2 DEF TokenOf, IInv, CpTyped
  <2>2. \A u \in Sessions : u # s => TokenOf(u)' = TokenOf(u)
    BY <1>1 DEF TokenOf, IInv, CpTyped
  <2>3. \A u \in Sessions : TokenOf(u)' = IF u = s THEN "offered" ELSE TokenOf(u)
    BY <2>1, <2>2
  <2> HIDE DEF TokenOf
  <2> QED BY <2>1, <2>3 DEF Tokens
<1>4. UNCHANGED <<Holders, Seats, Visits, Revoked, Expired, Barred>>
  BY <1>1, AccessFrame
<1>5. Access!Offer(s)
  BY <1>3, <1>4, Zenon DEF Access!Offer, Tokens, Seats, Visits, Revoked, Expired, Barred
<1> QED BY <1>5, Zenon DEF Access!Next

LEMMA LoginStep ==
  ASSUME IInv, NEW s \in Sessions, CreateUserSessionForGateway(s)
  PROVE  Access!Next
<1>1. /\ row[s] = "none" /\ row' = [row EXCEPT ![s] = "active"]
      /\ expires' = [expires EXCEPT ![s] = now + TTL]
      /\ UNCHANGED <<now, token, revocations, callback, record, request>>
  BY Zenon DEF CreateUserSessionForGateway, redisVars, memoryVars, processVars
<1>2. UNCHANGED <<Tokens, Holders, Seats, Visits, Barred>>
  BY <1>1, AccessFrame
<1>3. Revoked' = Revoked
  BY <1>1 DEF Revoked, IInv, CpTyped
<1> DEFINE S == {u \in {s} : now + TTL <= now}
<1>4. Expired' = Expired \cup S
  <2>1. \A u \in Sessions : u # s => row'[u] = row[u] /\ expires'[u] = expires[u]
    BY <1>1 DEF IInv, CpTyped
  <2>2. row'[s] = "active" /\ expires'[s] = now + TTL
    BY <1>1 DEF IInv, CpTyped
  <2> QED BY <1>1, <2>1, <2>2 DEF Expired
<1>5. Barred' = Barred \ S
  <2>1. s \notin Barred
    BY <1>1 DEF Barred, IsRevoked, IInv, ClockTyped, RevocationsExact
  <2> QED BY <1>2, <2>1
<1>6. S \in SUBSET Sessions
  OBVIOUS
<1> HIDE DEF S
<1>7. PICK C \in SUBSET Callbacks : Access!Close(C)
  BY <1>2, SameSeats, SeatsClose
<1>8. Access!Expire(S, C)
  BY <1>2, <1>3, <1>4, <1>5, <1>7, Zenon DEF Access!Expire, Tokens, Visits, Revoked, Expired, Barred
<1> QED BY <1>6, <1>8, Zenon DEF Access!Next

LEMMA RevokeStep ==
  ASSUME IInv, NEW s \in Sessions, RevokeActiveUserSession(s)
  PROVE  Access!Next
<1>1. /\ row[s] = "active" /\ row' = [row EXCEPT ![s] = "revoked"]
      /\ UNCHANGED <<now, expires, token, revocations, callback, record, request>>
  BY Zenon DEF RevokeActiveUserSession, redisVars, memoryVars, processVars
<1>2. UNCHANGED <<Tokens, Holders, Seats, Visits, Barred>>
  BY <1>1, AccessFrame
<1>3. /\ row'[s] = "revoked"
      /\ \A u \in Sessions : u # s => row'[u] = row[u]
  BY <1>1 DEF IInv, CpTyped
<1>4. Revoked' = Revoked \cup {s} /\ Expired' = Expired
  BY <1>1, <1>3 DEF Revoked, Expired
<1>5. Access!Revoke(s)
  BY <1>2, <1>4, Zenon DEF Access!Revoke, Tokens, Seats, Visits, Revoked, Expired, Barred
<1> QED BY <1>5, Zenon DEF Access!Next

LEMMA TickStep ==
  ASSUME IInv, Tick
  PROVE  Access!Next
<1>1. /\ now' = now + 1 /\ now \in Nat
      /\ UNCHANGED <<row, expires, token, revocations, callback, record, request>>
  <2>1. now \in Nat
    BY TimesAssumption DEF IInv, ClockTyped
  <2> QED BY <2>1, Zenon DEF Tick, cpVars, redisVars, memoryVars, processVars
<1>2. UNCHANGED <<Tokens, Holders, Visits, Revoked>>
  BY <1>1, AccessFrame
<1>3. Expired' = Expired \cup Expired'
  BY <1>1 DEF Expired, IInv, CpTyped
<1>4. Barred' = Barred \ Expired'
  BY <1>1 DEF Barred, Expired, IsRevoked, IInv, CpTyped, RevocationsExact
<1>5. \A c \in Callbacks : SeatOf(c)' \in {SeatOf(c), "closed"}
  BY <1>1 DEF SeatOf, Stored, IInv, RedisTyped
<1>6. PICK C \in SUBSET Callbacks : Access!Close(C)
  BY <1>5, SeatsClose
<1>7. PICK S \in SUBSET Sessions : S = Expired'
  BY DEF Expired
<1>8. Access!Expire(S, C)
  BY <1>2, <1>3, <1>4, <1>6, <1>7, Zenon DEF Access!Expire, Tokens, Visits, Revoked, Expired, Barred
<1> QED BY <1>8, Zenon DEF Access!Next

(* The callback. *)
LEMMA TakeStep ==
  ASSUME IInv, AccessInv, NEW c \in Callbacks, NEW s \in Sessions, ExchangeToken(c, s)
  PROVE  Access!Next
<1>1. /\ callback[c].pc = "new" /\ token[s].issued /\ now < token[s].until
      /\ token' = [token EXCEPT ![s].until = 0]
      /\ \/ callback' = [callback EXCEPT ![c] =
                           [pc |-> "holding", claims |-> [sid |-> s, exp |-> token[s].exp]]]
         \/ callback' = [callback EXCEPT ![c].pc = "over"]
      /\ UNCHANGED <<now, row, expires, revocations, record, request>>
  BY Zenon DEF ExchangeToken, redisVars, memoryVars
<1>2. UNCHANGED <<Visits, Revoked, Expired, Barred>>
  BY <1>1, AccessFrame
<1>3. token[s].until # 0
  BY <1>1, TimesAssumption DEF IInv, ClockTyped, CpTyped
<1>4. Tokens[s] = "offered" /\ Tokens' = [Tokens EXCEPT ![s] = "spent"]
  <2>1. TokenOf(s) = "offered" /\ TokenOf(s)' = "spent"
    BY <1>1, <1>3 DEF TokenOf, IInv, CpTyped
  <2>2. \A u \in Sessions : u # s => TokenOf(u)' = TokenOf(u)
    BY <1>1 DEF TokenOf, IInv, CpTyped
  <2>3. \A u \in Sessions : TokenOf(u)' = IF u = s THEN "spent" ELSE TokenOf(u)
    BY <2>1, <2>2
  <2> HIDE DEF TokenOf
  <2> QED BY <2>1, <2>3 DEF Tokens
<1>5. callback[c].claims = None /\ callback \in [Callbacks -> Callback]
  BY <1>1 DEF AccessInv, ClaimsSpent, IInv, CallbacksTyped
<1>6. \A d \in Callbacks : d # c => callback'[d] = callback[d]
  BY <1>1, <1>5
<1>7. ASSUME callback' = [callback EXCEPT ![c] =
                            [pc |-> "holding", claims |-> [sid |-> s, exp |-> token[s].exp]]]
      PROVE  Access!Take(s, c)
  <2>1. callback'[c] = [pc |-> "holding", claims |-> [sid |-> s, exp |-> token[s].exp]]
    BY <1>5, <1>7
  <2>2. \A d \in Callbacks : SeatOf(d)' = SeatOf(d)
    BY <1>1, <1>6, <2>1 DEF SeatOf, Stored
  <2>3. Seats' = Seats
    BY <2>2 DEF Seats
  <2>4. Holders' = Holders \cup {<<s, c>>}
    <3>1. callback'[c].claims # None /\ callback'[c].claims.sid = s
      BY <2>1, NoneAssumption DEF IInv, CpTyped, Claims
    <3>2. \A hold \in Sessions \X Callbacks :
            hold \in Holders' <=> hold \in Holders \/ (hold[2] = c /\ hold[1] = s)
      BY <1>5, <1>6, <3>1 DEF Holders
    <3>3. Holders' \subseteq Sessions \X Callbacks /\ Holders \subseteq Sessions \X Callbacks
      BY DEF Holders
    <3>4. \A hold \in Sessions \X Callbacks : hold[2] = c /\ hold[1] = s <=> hold = <<s, c>>
      OBVIOUS
    <3> HIDE DEF Holders
    <3> QED BY <3>2, <3>3, <3>4
  <2>5. \A hold \in Holders : hold[1] # s /\ hold[2] # c
    BY <1>3, <1>5 DEF Holders, AccessInv, ClaimsSpent
  <2> QED BY <1>2, <1>4, <2>3, <2>4, <2>5, Zenon
          DEF Access!Take, Tokens, Seats, Visits, Revoked, Expired, Barred
<1>8. ASSUME callback' = [callback EXCEPT ![c].pc = "over"]
      PROVE  Access!Lose(s, c)
  <2>1. callback'[c].pc = "over" /\ callback'[c].claims = callback[c].claims
    BY <1>5, <1>8 DEF Callback
  <2>2. Holders' = Holders
    BY <1>6, <2>1, SameHolders
  <2>3. record[c] = None
    BY <1>1 DEF IInv, HeldOnce
  <2>4. \A d \in Callbacks : SeatOf(d)' = IF d \in {c} THEN "closed" ELSE SeatOf(d)
    BY <1>1, <1>6, <2>1, <2>3 DEF SeatOf, Stored
  <2>5. Seats' = [d \in Callbacks |-> IF d \in {c} THEN "closed" ELSE Seats[d]]
    <3> HIDE DEF SeatOf
    <3> QED BY <2>4 DEF Seats
  <2> QED BY <1>2, <1>4, <2>2, <2>5, Zenon
          DEF Access!Lose, Access!Close, Tokens, Seats, Visits, Revoked, Expired, Barred
<1> QED BY <1>1, <1>7, <1>8, Zenon DEF Access!Next

LEMMA OpenStep ==
  ASSUME IInv, AccessInv, NEW c \in Callbacks, Create(c)
  PROVE  Access!Next
<1>1. /\ callback[c].pc = "holding" /\ callback' = [callback EXCEPT ![c].pc = "over"]
      /\ \/ record' = [record EXCEPT ![c] = [claims |-> callback[c].claims, until |-> now + GatewayTTL]]
         \/ record' = record
      /\ UNCHANGED <<now, row, expires, token, revocations, request>>
  BY Zenon DEF Create, cpVars, redisVars, memoryVars
<1>2. UNCHANGED <<Tokens, Visits, Revoked, Expired, Barred>>
  BY <1>1, AccessFrame
<1>3. /\ callback'[c].pc = "over" /\ callback'[c].claims = callback[c].claims
      /\ \A d \in Callbacks : d # c => callback'[d] = callback[d] /\ record'[d] = record[d]
  BY <1>1 DEF IInv, CallbacksTyped, Callback, RedisTyped
<1>4. Holders' = Holders
  BY <1>3, SameHolders
<1>5. /\ SeatOf(c) = "none" /\ SeatOf(c)' \in {"open", "closed"}
      /\ \A d \in Callbacks : d # c => SeatOf(d)' = SeatOf(d)
  BY <1>1, <1>3 DEF SeatOf, Stored
<1>6. <<callback[c].claims.sid, c>> \in Holders /\ callback[c].claims.sid \in Sessions
  <2>1. callback[c].claims \in Claims /\ callback[c].claims # None
    BY <1>1, ClaimsAre
  <2>2. callback[c].claims.sid \in Sessions
    BY <2>1 DEF Claims
  <2> QED BY <2>1, <2>2 DEF Holders
<1> HIDE DEF SeatOf
<1>7. CASE SeatOf(c)' = "open"
  <2>1. Seats' = [Seats EXCEPT ![c] = "open"] /\ Seats[c] = "none"
    BY <1>5, <1>7 DEF Seats
  <2>2. Access!Open(c)
    BY <1>2, <1>4, <1>6, <2>1, Zenon DEF Access!Open, Tokens, Seats, Visits, Revoked, Expired, Barred
  <2> QED BY <2>2, Zenon DEF Access!Next
<1>8. CASE SeatOf(c)' = "closed"
  BY <1>2, <1>4, <1>5, <1>8, Leaves
<1> QED BY <1>5, <1>7, <1>8

(* The requests. *)
LEMMA VisitIs ==
  ASSUME NEW r \in Requests
  PROVE  /\ Visits[r] = [stage |-> StageOf(r), seat |-> request[r].id]
         /\ Visits[r].stage = StageOf(r) /\ Visits[r].seat = request[r].id
BY DEF Visits

LEMMA LookStep ==
  ASSUME IInv, AccessInv, NEW r \in Requests, NEW c \in Callbacks, ReadSession(r, c)
  PROVE  Access!Next
<1>1. /\ request[r].pc = "idle" /\ Stored(c)
      /\ request' = [request EXCEPT ![r] = [pc |-> "read", id |-> c, claims |-> record[c].claims]]
      /\ UNCHANGED <<now, row, expires, token, revocations, callback, record>>
  BY Zenon DEF ReadSession, cpVars, redisVars, memoryVars
<1>2. UNCHANGED <<Tokens, Holders, Seats, Revoked, Expired, Barred>>
  BY <1>1, AccessFrame
<1>3. Visits[r] = Access!NoVisit
  BY <1>1, VisitIs DEF StageOf, Access!NoVisit, AccessInv, VisitsClaimed, IdleRequest
<1>4. Visits' = [Visits EXCEPT ![r] = [stage |-> "looking", seat |-> c]]
  BY <1>1 DEF Visits, StageOf, IInv, VisitsTyped
<1>5. Seats[c] = "open"
  BY <1>1 DEF Seats, SeatOf, IInv, HeldOnce, Stored
<1>6. Access!Look(r, c)
  BY <1>2, <1>3, <1>4, <1>5, Zenon
     DEF Access!Look, Tokens, Seats, Visits, Revoked, Expired, Barred
<1> QED BY <1>6, Zenon DEF Access!Next

LEMMA AdmitStep ==
  ASSUME IInv, AccessInv, NEW r \in Requests, Admit(r)
  PROVE  Access!Next
<1>1. /\ request[r].pc = "read" /\ ~IsRevoked(request[r].claims.sid)
      /\ request' = [request EXCEPT ![r].pc = "admitted"]
      /\ UNCHANGED <<now, row, expires, token, revocations, callback, record>>
  BY Zenon DEF Admit, cpVars, redisVars, memoryVars
<1>2. UNCHANGED <<Tokens, Holders, Seats, Revoked, Expired, Barred>>
  BY <1>1, AccessFrame
<1>3. Visits' = [Visits EXCEPT ![r].stage = "served"] /\ Visits[r].stage = "looking"
  <2>1. /\ request'[r].pc = "admitted" /\ request'[r].id = request[r].id
        /\ \A q \in Requests : q # r => request'[q] = request[q]
    BY <1>1 DEF IInv, VisitsTyped, Visit
  <2>2. /\ StageOf(r) = "looking" /\ StageOf(r)' = "served"
        /\ \A q \in Requests : q # r => StageOf(q)' = StageOf(q)
    BY <1>1, <2>1 DEF StageOf
  <2> HIDE DEF StageOf
  <2> QED BY <2>1, <2>2 DEF Visits
<1> DEFINE s == request[r].claims.sid
<1>4. s \in Sessions \ Barred /\ <<s, Visits[r].seat>> \in Holders
  <2>1. /\ request[r].id \in Callbacks /\ request[r].claims \in Claims
        /\ request[r].claims = callback[request[r].id].claims
    BY <1>1 DEF IInv, VisitsTyped, AccessInv, VisitsClaimed
  <2>2. s \in Sessions /\ callback[request[r].id].claims # None
    BY <2>1, NoneAssumption DEF Claims
  <2>3. <<s, request[r].id>> \in Holders
    BY <2>1, <2>2 DEF Holders
  <2>4. s \in Sessions \ Barred
    BY <1>1, <2>2 DEF Barred
  <2> QED BY <2>3, <2>4, VisitIs
<1>5. Access!Admit(r)
  BY <1>2, <1>3, <1>4, Zenon DEF Access!Admit, Tokens, Seats, Visits, Revoked, Expired, Barred
<1> QED BY <1>5, Zenon DEF Access!Next

LEMMA EndStep ==
  ASSUME IInv, NEW r \in Requests, Refuse(r) \/ EndRequest(r)
  PROVE  Access!Next
<1>1. /\ request' = [request EXCEPT ![r] = IdleRequest]
      /\ \/ record' = record
         \/ record' = [record EXCEPT ![request[r].id] = None]
      /\ UNCHANGED <<now, row, expires, token, revocations, callback>>
  BY Zenon DEF Refuse, EndRequest, cpVars, redisVars, memoryVars
<1>2. UNCHANGED <<Tokens, Holders, Revoked, Expired, Barred>>
  BY <1>1, AccessFrame
<1>3. Visits' = [Visits EXCEPT ![r] = Access!NoVisit]
  BY <1>1 DEF Visits, StageOf, IdleRequest, Access!NoVisit, IInv, VisitsTyped
<1>4. \A c \in Callbacks : record'[c] = record[c] \/ record'[c] = None
  BY <1>1 DEF IInv, RedisTyped
<1>5. PICK C \in SUBSET Callbacks : Access!Close(C)
  BY <1>1, <1>4, SeatsMayClose, SeatsClose
<1>6. Access!End(r, C)
  BY <1>2, <1>3, <1>5, Zenon DEF Access!End, Tokens, Visits, Revoked, Expired, Barred
<1> QED BY <1>6, Zenon DEF Access!Next

(* A request on its way with the session it was admitted with.              *)
LEMMA ServeStep ==
  ASSUME IInv, NEW r \in Requests, Register(r) \/ OpenStream(r)
  PROVE  Access!Next
<1>1. /\ request[r].pc \in {"admitted", "registered"}
      /\ \E pc \in {"registered", "open"} : request' = [request EXCEPT ![r].pc = pc]
      /\ UNCHANGED <<now, row, expires, token, revocations, callback, record>>
  BY Zenon DEF Register, OpenStream, cpVars, redisVars, memoryVars
<1>2. UNCHANGED <<Tokens, Holders, Seats, Revoked, Expired, Barred>>
  BY <1>1, AccessFrame
<1>3. Visits' = Visits
  <2>1. /\ request'[r].pc \in {"registered", "open"} /\ request'[r].id = request[r].id
        /\ \A q \in Requests : q # r => request'[q] = request[q]
    BY <1>1 DEF IInv, VisitsTyped, Visit
  <2>2. \A q \in Requests : StageOf(q)' = StageOf(q) /\ request'[q].id = request[q].id
    BY <1>1, <2>1 DEF StageOf
  <2> HIDE DEF StageOf
  <2> QED BY <2>2 DEF Visits
<1> QED BY <1>2, <1>3, SameSeats, Leaves

(* The logouts and the revocations. *)
LEMMA LogoutLeaves ==
  ASSUME IInv, NEW l \in Logouts, Destroy(l)
  PROVE  Access!Next
<1>1. /\ \/ record' = record
         \/ record' = [record EXCEPT ![logout[l].id] = None]
      /\ UNCHANGED <<now, row, expires, token, revocations, callback, request>>
  BY Zenon DEF Destroy, cpVars, redisVars, memoryVars
<1>2. \A c \in Callbacks : record'[c] = record[c] \/ record'[c] = None
  BY <1>1 DEF IInv, RedisTyped
<1> QED BY <1>1, <1>2, AccessFrame, SeatsMayClose, Leaves

LEMMA DeleteLeaves ==
  ASSUME NEW h \in Handlers, DeleteSessions(h)
  PROVE  Access!Next
<1>1. /\ \/ record' = record
         \/ record' = [c \in Callbacks |-> IF c \in handler[h].ids THEN None ELSE record[c]]
      /\ UNCHANGED <<now, row, expires, token, revocations, callback, request>>
  BY Zenon DEF DeleteSessions, cpVars, redisVars
<1>2. \A c \in Callbacks : record'[c] = record[c] \/ record'[c] = None
  BY <1>1
<1> QED BY <1>1, <1>2, AccessFrame, SeatsMayClose, Leaves

LEMMA BarStep ==
  ASSUME IInv, NEW h \in Handlers, Revoke(h)
  PROVE  Access!Next
<1> DEFINE s == handler[h].sid
<1>1. /\ handler[h].pc = "revoke"
      /\ revocations' = [revocations EXCEPT ![s] = expires[s]]
      /\ UNCHANGED <<now, row, expires, token, callback, record, request>>
  BY Zenon DEF Revoke, cpVars, redisVars
<1>2. UNCHANGED <<Tokens, Holders, Seats, Visits, Revoked, Expired>>
  BY <1>1, AccessFrame
<1>3. s \in Revoked
  BY <1>1 DEF IInv, HandlersTyped, OnlyRevoked, Revoked
<1>4. s \in Sessions /\ revocations \in [Sessions -> Nat] /\ expires[s] \in Nat /\ now \in Nat
  BY <1>1, TimesAssumption DEF IInv, HandlersTyped, RevocationsExact, CpTyped, ClockTyped
<1> HIDE DEF s
<1>5. \A u \in Sessions : revocations'[u] = IF u = s THEN expires[s] ELSE revocations[u]
  BY <1>1, <1>4
<1>6. CASE now < expires[s]
  <2>1. Barred' = Barred \cup {s}
    BY <1>1, <1>4, <1>5, <1>6 DEF Barred, IsRevoked
  <2>2. Access!Bar(s)
    BY <1>2, <1>3, <2>1, Zenon DEF Access!Bar, Tokens, Seats, Visits, Revoked, Expired, Barred
  <2> QED BY <1>4, <2>2, Zenon DEF Access!Next
<1>7. CASE ~(now < expires[s])
  <2>1. s \notin Barred /\ Barred' = Barred \ {s}
    BY <1>1, <1>4, <1>5, <1>7 DEF Barred, IsRevoked, IInv, RevocationsExact
  <2> QED BY <1>2, <2>1, SameSeats, Leaves
<1> QED BY <1>6, <1>7

LEMMA RestartStep ==
  ASSUME IInv, Restart
  PROVE  Access!Next
<1>1. /\ revocations' = [s \in Sessions |-> 0] /\ request' = [r \in Requests |-> IdleRequest]
      /\ callback' = [c \in Callbacks |-> IF callback[c].pc = "holding"
                                          THEN [callback[c] EXCEPT !.pc = "over"] ELSE callback[c]]
      /\ UNCHANGED <<now, row, expires, token, record>>
  BY Zenon DEF Restart, cpVars, redisVars
<1>2. UNCHANGED <<Tokens, Revoked, Expired>>
  BY <1>1, AccessFrame
<1>3. \A c \in Callbacks :
        /\ callback'[c].claims = callback[c].claims
        /\ callback[c].pc # "holding" => callback'[c] = callback[c]
        /\ callback[c].pc = "holding" => callback'[c].pc = "over"
  BY <1>1 DEF IInv, CallbacksTyped, Callback
<1>4. Holders' = Holders
  BY <1>3, SameHolders
<1>5. Barred' = {}
  BY <1>1, TimesAssumption DEF Barred, IsRevoked, IInv, ClockTyped
<1>6. Visits' = [r \in Requests |-> Access!NoVisit]
  BY <1>1 DEF Visits, StageOf, IdleRequest, Access!NoVisit
<1>7. \A c \in Callbacks : SeatOf(c)' \in {SeatOf(c), "closed"}
  <2> SUFFICES ASSUME NEW c \in Callbacks PROVE SeatOf(c)' \in {SeatOf(c), "closed"}
    OBVIOUS
  <2>1. CASE callback[c].pc # "holding"
    BY <1>1, <1>3, <2>1 DEF SeatOf, Stored
  <2>2. CASE callback[c].pc = "holding"
    BY <1>1, <1>3, <2>2 DEF SeatOf, Stored, IInv, HeldOnce
  <2> QED BY <2>1, <2>2
<1>8. PICK C \in SUBSET Callbacks : Access!Close(C)
  BY <1>7, SeatsClose
<1>9. Access!Restart(C)
  BY <1>2, <1>4, <1>5, <1>6, <1>8, Zenon
     DEF Access!Restart, Tokens, Visits, Revoked, Expired, Barred
<1> QED BY <1>9, Zenon DEF Access!Next

(* The steps between the two sides that nobody sees.                        *)
LEMMA UnseenStep ==
  ASSUME UNCHANGED <<now, row, expires, token, revocations, callback, record, request>>
  PROVE  Access!Next
BY AccessFrame, SameSeats, Leaves

LEMMA Unseen ==
  ASSUME \/ \E s \in Sessions : CreateEvent(s) \/ CreateEventFails(s) \/ Acknowledge(s)
         \/ Connect \/ Break
         \/ \E l \in Logouts, c \in Callbacks : ReadForLogout(l, c)
         \/ \E h \in Handlers : ReadIndex(h) \/ Receive(h)
         \/ UNCHANGED vars
  PROVE  Access!Next
<1>1. UNCHANGED <<now, row, expires, token, revocations, callback, record, request>>
  BY Zenon DEF CreateEvent, CreateEventFails, Acknowledge, Connect, Break, ReadForLogout, ReadIndex,
     Receive, ReceiveHelloAck, ReceiveCommand, vars, cpVars, redisVars, memoryVars, linkVars, processVars
<1> QED BY <1>1, UnseenStep

LEMMA AccessStep ==
  ASSUME IInv, AccessInv, [Next]_vars
  PROVE  Access!Next
<1>1. ASSUME NEW s \in Sessions, ControlPlane(s)
      PROVE  Access!Next
  BY <1>1, OfferStep, LoginStep, RevokeStep, Unseen DEF ControlPlane
<1>2. ASSUME NEW c \in Callbacks, CallbackStep(c)
      PROVE  Access!Next
  BY <1>2, TakeStep, OpenStep DEF CallbackStep
<1>3. ASSUME NEW r \in Requests, RequestStep(r)
      PROVE  Access!Next
  BY <1>3, LookStep, AdmitStep, EndStep, ServeStep DEF RequestStep
<1>4. ASSUME NEW l \in Logouts, LogoutStep(l)
      PROVE  Access!Next
  BY <1>4, LogoutLeaves, Unseen DEF LogoutStep
<1>5. ASSUME NEW h \in Handlers, HandlerStep(h) \/ Receive(h)
      PROVE  Access!Next
  BY <1>5, BarStep, DeleteLeaves, Unseen DEF HandlerStep
<1>6. CASE Tick \/ Restart
  BY <1>6, TickStep, RestartStep
<1>7. CASE Connect \/ Break \/ UNCHANGED vars
  BY <1>7, Unseen
<1> QED BY <1>1, <1>2, <1>3, <1>4, <1>5, <1>6, <1>7, Zenon DEF Next

LEMMA AccessInit == Init => Access!Init
<1> SUFFICES ASSUME Init PROVE Access!Init
  OBVIOUS
<1>1. /\ now = 0 /\ row = [s \in Sessions |-> "none"]
      /\ token = [s \in Sessions |-> [issued |-> FALSE, exp |-> 0, until |-> 0]]
      /\ callback = [c \in Callbacks |-> IdleCallback]
      /\ request = [r \in Requests |-> IdleRequest]
      /\ revocations = [s \in Sessions |-> 0]
  BY DEF Init
<1>2. Tokens = [s \in Sessions |-> "none"]
  BY <1>1 DEF Tokens, TokenOf
<1>3. Holders = {}
  BY <1>1 DEF Holders, IdleCallback
<1>4. Seats = [c \in Callbacks |-> "none"]
  BY <1>1 DEF Seats, SeatOf, IdleCallback
<1>5. Visits = [r \in Requests |-> Access!NoVisit]
  BY <1>1 DEF Visits, StageOf, IdleRequest, Access!NoVisit
<1>6. Revoked = {} /\ Expired = {} /\ Barred = {}
  BY <1>1 DEF Revoked, Expired, Barred, IsRevoked
<1> QED BY <1>2, <1>3, <1>4, <1>5, <1>6, Zenon
        DEF Access!Init, Tokens, Seats, Visits, Revoked, Expired, Barred

(* Whatever is lost, fails or restarts, and however many logins, browsers, *)
(* requests, logouts and handlers there are: a login is held by one browser *)
(* for good, its gateway session is opened at most once and stays closed    *)
(* once closed, and no request is admitted while its login is barred, which *)
(* only a revocation can bring about.                                       *)
THEOREM GivesAccessHolds == Spec => GivesAccess
<1>1. IInv /\ AccessInv /\ [Next]_vars => Access!Next
  BY AccessStep
<1> QED BY <1>1, AccessInit, AccessInvariant, PTL DEF Spec, GivesAccess, Access!Spec
=============================================================================
