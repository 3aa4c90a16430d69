---------------------------- MODULE UserSessions ----------------------------
(***************************************************************************)
(* The sessions of users, from the login to the last request.              *)
(*                                                                         *)
(* The control plane records a session when the identity provider vouches  *)
(* for the user, and hands the browser a one-time token for it             *)
(* (internal/cp/identity).  The gateway exchanges that token for a signed  *)
(* session token, which it keeps in its own Redis under a random gateway   *)
(* session id; an index lists the gateway sessions of each control-plane   *)
(* session (internal/gateway/session).  A revocation travels as a command  *)
(* of the durable channel, and again in the HelloAck of every control      *)
(* stream (internal/gateway/grpc_client).                                  *)
(*                                                                         *)
(* A callback is one visit of a browser to the callback of the gateway; it *)
(* generates at most one gateway session id, and the id is named after it. *)
(* Of the durable channel this module keeps what GatewayEvents shows of    *)
(* it: an event is delivered again on every control stream until it is     *)
(* acknowledged, and once the gateway has received it, the acknowledgement *)
(* of a later event may acknowledge it, however far its own handler is.    *)
(***************************************************************************)
EXTENDS Naturals, FiniteSets

CONSTANTS
  Sessions,     \* control-plane sessions: one per login
  Callbacks,    \* callbacks, and the gateway session ids they generate
  Requests,     \* requests being served at once
  Logouts,      \* logouts being served at once
  Handlers,     \* goroutines handling messages of the control plane at once
  None,         \* nothing
  TTL,          \* how long a control-plane session and its token last
  TokenTTL,     \* how long a one-time token may wait
  GatewayTTL,   \* how long the gateway's Redis keeps a session
  MaxTime,      \* bound: the clock
  MaxFaults,    \* bound: failed calls and lost control streams
  MaxRestarts   \* bound: gateway restarts

ASSUME SessionsAssumption == None \notin Sessions \cup Callbacks
ASSUME TimesAssumption ==
  /\ {TTL, TokenTTL, GatewayTTL, MaxTime, MaxFaults, MaxRestarts} \subseteq Nat
  /\ TokenTTL > 0

VARIABLES
  now,          \* the clock
  row,          \* user_sessions: the state of each session
  expires,      \* user_sessions.expires_at
  revoking,     \* sessions revoked in the database whose event is not yet written
  event,        \* the revocation event of a session: "none", "logged" or "acked"
  token,        \* the control plane's Redis: the one-time token of a session
  callback,     \* the callbacks
  record,       \* the gateway's Redis: session:<id>
  index,        \* the gateway's Redis: index:cp-session:<cp session>
  revocations,  \* RevocationStore: until when a session counts as revoked
  streams,      \* ActiveStreamRegistry: which stream is registered under which key
  cancelled,    \* requests whose stream context is cancelled
  request,      \* the requests
  logout,       \* the logouts
  handler,      \* the goroutines handling messages
  up,           \* a control stream is established
  sent,         \* revocations sent on it
  received,     \* revocations some gateway process has received
  helloAck,     \* the HelloAck on its way to the gateway
  synced,       \* this gateway process has handled a HelloAck with the list
  faults,       \* faults so far
  restarts      \* gateway restarts so far

cpVars      == <<row, expires, revoking, event, token>>
redisVars   == <<record, index>>
memoryVars  == <<revocations, streams, cancelled>>
linkVars    == <<up, sent, received, helloAck>>
processVars == <<callback, request, logout, handler>>
vars == <<now, cpVars, redisVars, memoryVars, linkVars, processVars, synced, faults, restarts>>

\* the signed session token: which session, and its exp claim
Claims == [sid: Sessions, exp: Nat]

IdleCallback == [pc |-> "new", claims |-> None]
IdleRequest  == [pc |-> "idle", id |-> None, claims |-> None]
IdleHandler  == [pc |-> "idle", sid |-> None, rest |-> {}, ids |-> {}, alive |-> FALSE, hello |-> FALSE]

Callback == [pc: {"new", "holding", "over"}, claims: Claims \cup {None}]
Visit    == [pc: {"idle", "read", "admitted", "registered", "open"},
             id: Callbacks \cup {None}, claims: Claims \cup {None}]
Handler  == [pc: {"idle", "revoke", "members", "delete"}, sid: Sessions \cup {None},
             rest: SUBSET Sessions, ids: SUBSET Callbacks, alive: BOOLEAN, hello: BOOLEAN]

\* sessionKey(id), and the bare id: two different keys of the stream registry
Prefixed(c) == [prefix |-> "session:", id |-> c]
Bare(c)     == [prefix |-> "", id |-> c]
Key == [prefix: {"session:", ""}, id: Callbacks]

ASSUME NoneAssumption == None \notin Claims

(* One invariant per module says what the variables range over. *)
TypeOK ==
  /\ now \in 0..MaxTime
  /\ row \in [Sessions -> {"none", "active", "revoked"}]
  /\ expires \in [Sessions -> Nat]
  /\ revoking \in SUBSET Sessions
  /\ event \in [Sessions -> {"none", "logged", "acked"}]
  /\ token \in [Sessions -> [issued: BOOLEAN, exp: Nat, until: Nat]]
  /\ callback \in [Callbacks -> Callback]
  /\ record \in [Callbacks -> [claims: Claims, until: Nat] \cup {None}]
  /\ index \in [Sessions -> SUBSET Callbacks]
  /\ revocations \in [Sessions -> Nat]
  /\ streams \in SUBSET (Key \X Requests)
  /\ cancelled \in SUBSET Requests
  /\ request \in [Requests -> Visit]
  /\ logout \in [Logouts -> Visit]
  /\ handler \in [Handlers -> Handler]
  /\ up \in BOOLEAN
  /\ sent \in SUBSET Sessions
  /\ received \in SUBSET Sessions
  /\ helloAck \in [list: SUBSET Sessions, read: BOOLEAN] \cup {None}
  /\ synced \in BOOLEAN
  /\ faults \in 0..MaxFaults
  /\ restarts \in 0..MaxRestarts

Init ==
  /\ now = 0
  /\ row = [s \in Sessions |-> "none"]
  /\ expires = [s \in Sessions |-> 0]
  /\ revoking = {}
  /\ event = [s \in Sessions |-> "none"]
  /\ token = [s \in Sessions |-> [issued |-> FALSE, exp |-> 0, until |-> 0]]
  /\ callback = [c \in Callbacks |-> IdleCallback]
  /\ record = [c \in Callbacks |-> None]
  /\ index = [s \in Sessions |-> {}]
  /\ revocations = [s \in Sessions |-> 0]
  /\ streams = {}
  /\ cancelled = {}
  /\ request = [r \in Requests |-> IdleRequest]
  /\ logout = [l \in Logouts |-> IdleRequest]
  /\ handler = [h \in Handlers |-> IdleHandler]
  /\ up = FALSE
  /\ sent = {}
  /\ received = {}
  /\ helloAck = None
  /\ synced = FALSE
  /\ faults = 0
  /\ restarts = 0

(* A fault spends one of the faults the model allows. *)
Fault == faults < MaxFaults /\ faults' = faults + 1

Tick ==
  /\ now < MaxTime
  /\ now' = now + 1
  /\ UNCHANGED <<cpVars, redisVars, memoryVars, linkVars, processVars, synced, faults, restarts>>
-----------------------------------------------------------------------------
(* The control plane. *)

(* ExchangeService consumes the state of the login and records the session. *)
CreateUserSessionForGateway(s) ==
  /\ row[s] = "none"
  /\ row' = [row EXCEPT ![s] = "active"]
  /\ expires' = [expires EXCEPT ![s] = now + TTL]
  /\ UNCHANGED <<now, revoking, event, token, redisVars, memoryVars, linkVars, processVars,
                 synced, faults, restarts>>

(* CreateUserSession signs the session token at the present time, some time *)
(* after the session was recorded, and stores it under a fresh one-time    *)
(* token.                                                                  *)
CreateUserSession(s) ==
  /\ row[s] # "none"
  /\ ~token[s].issued
  /\ token' = [token EXCEPT ![s] = [issued |-> TRUE, exp |-> now + TTL, until |-> now + TokenTTL]]
  /\ UNCHANGED <<now, row, expires, revoking, event, redisVars, memoryVars, linkVars, processVars,
                 synced, faults, restarts>>

(* RevokeUserSession first updates the row, if it is active... *)
RevokeActiveUserSession(s) ==
  /\ row[s] = "active"
  /\ now < expires[s]
  /\ row' = [row EXCEPT ![s] = "revoked"]
  /\ revoking' = revoking \cup {s}
  /\ UNCHANGED <<now, expires, event, token, redisVars, memoryVars, linkVars, processVars,
                 synced, faults, restarts>>

(* ...and then writes the event that tells the gateway. *)
CreateEvent(s) ==
  /\ s \in revoking
  /\ revoking' = revoking \ {s}
  /\ event' = [event EXCEPT ![s] = "logged"]
  /\ UNCHANGED <<now, row, expires, token, redisVars, memoryVars, linkVars, processVars,
                 synced, faults, restarts>>

(* Nothing undoes the update when the event cannot be written. *)
CreateEventFails(s) ==
  /\ s \in revoking
  /\ Fault
  /\ revoking' = revoking \ {s}
  /\ UNCHANGED <<now, row, expires, event, token, redisVars, memoryVars, linkVars, processVars,
                 synced, restarts>>

ListRevokedUserSessionByOrg == {s \in Sessions : row[s] = "revoked" /\ now < expires[s]}

(* Mutant: the HelloAck never carries the revoked sessions. *)
Connect_EmptyList ==
  /\ ~up
  /\ up' = TRUE
  /\ sent' = {}
  /\ helloAck' = [list |-> {}, read |-> TRUE]
  /\ UNCHANGED <<now, cpVars, received, redisVars, memoryVars, processVars, synced, faults, restarts>>

(* A control stream is established; its HelloAck carries the revoked        *)
(* sessions, or an empty list when the query fails.                         *)
Connect ==
  /\ ~up
  /\ up' = TRUE
  /\ sent' = {}
  /\ \/ /\ helloAck' = [list |-> ListRevokedUserSessionByOrg, read |-> TRUE]
        /\ UNCHANGED faults
     \/ /\ Fault
        /\ helloAck' = [list |-> {}, read |-> FALSE]
  /\ UNCHANGED <<now, cpVars, received, redisVars, memoryVars, processVars, synced, restarts>>

(* The stream breaks: what is in flight is lost, and the context of every   *)
(* handler of that stream is cancelled.                                     *)
Break ==
  /\ up
  /\ Fault
  /\ up' = FALSE
  /\ helloAck' = None
  /\ handler' = [h \in Handlers |-> [handler[h] EXCEPT !.alive = FALSE]]
  /\ UNCHANGED <<now, cpVars, sent, received, redisVars, memoryVars, callback, request, logout,
                 synced, restarts>>

(* The event is acknowledged, by its own handler or by that of a later one. *)
Acknowledge(s) ==
  /\ event[s] = "logged"
  /\ s \in received
  /\ event' = [event EXCEPT ![s] = "acked"]
  /\ UNCHANGED <<now, row, expires, revoking, token, redisVars, memoryVars, linkVars, processVars,
                 synced, faults, restarts>>
-----------------------------------------------------------------------------
(* The gateway: a session is created by the callback. *)

(* Mutant: the token is read and left in Redis (GET for GETDEL). *)
ExchangeToken_Get(c, s) ==
  /\ callback[c].pc = "new"
  /\ token[s].issued
  /\ now < token[s].until
  /\ callback' = [callback EXCEPT ![c] =
                    [pc |-> "holding", claims |-> [sid |-> s, exp |-> token[s].exp]]]
  /\ UNCHANGED <<now, cpVars, redisVars, memoryVars, linkVars,
                 request, logout, handler, synced, faults, restarts>>

(* ExchangeToken takes the token out of the control plane's Redis (GETDEL). *)
(* The answer may be lost on the way back.                                  *)
ExchangeToken(c, s) ==
  /\ callback[c].pc = "new"
  /\ token[s].issued
  /\ now < token[s].until
  /\ token' = [token EXCEPT ![s].until = 0]
  /\ \/ /\ callback' = [callback EXCEPT ![c] =
                          [pc |-> "holding", claims |-> [sid |-> s, exp |-> token[s].exp]]]
        /\ UNCHANGED faults
     \/ /\ callback' = [callback EXCEPT ![c].pc = "over"]
        /\ Fault
  /\ UNCHANGED <<now, row, expires, revoking, event, redisVars, memoryVars, linkVars,
                 request, logout, handler, synced, restarts>>

(* Create verifies the token and writes the record and the index in one     *)
(* transaction of Redis.                                                    *)
Create(c) ==
  LET claims == callback[c].claims IN
  /\ callback[c].pc = "holding"
  /\ callback' = [callback EXCEPT ![c].pc = "over"]
  /\ \/ /\ now < claims.exp
        /\ record' = [record EXCEPT ![c] = [claims |-> claims, until |-> now + GatewayTTL]]
        /\ index' = [index EXCEPT ![claims.sid] = @ \cup {c}]
        /\ UNCHANGED faults
     \/ /\ claims.exp <= now
        /\ UNCHANGED <<redisVars, faults>>
     \/ /\ now < claims.exp
        /\ Fault
        /\ UNCHANGED redisVars
  /\ UNCHANGED <<now, cpVars, memoryVars, linkVars, request, logout, handler, synced, restarts>>
-----------------------------------------------------------------------------
(* The gateway: a request. *)

Stored(c) == record[c] # None /\ now < record[c].until

IsRevoked(s) == now < revocations[s]

(* Get reads the record... *)
ReadSession(r, c) ==
  /\ request[r].pc = "idle"
  /\ Stored(c)
  /\ request' = [request EXCEPT ![r] = [pc |-> "read", id |-> c, claims |-> record[c].claims]]
  /\ UNCHANGED <<now, cpVars, redisVars, memoryVars, linkVars, callback, logout, handler,
                 synced, faults, restarts>>

(* Mutant: the revocations are not consulted; the deletion of the record does it all. *)
Admit_NoRevocations(r) ==
  /\ request[r].pc = "read"
  /\ now < request[r].claims.exp
  /\ request' = [request EXCEPT ![r].pc = "admitted"]
  /\ UNCHANGED <<now, cpVars, redisVars, memoryVars, linkVars, callback, logout, handler,
                 synced, faults, restarts>>

(* ...verifies the token, and only then looks at the revocations. *)
Admit(r) ==
  LET claims == request[r].claims IN
  /\ request[r].pc = "read"
  /\ now < claims.exp
  /\ ~IsRevoked(claims.sid)
  /\ request' = [request EXCEPT ![r].pc = "admitted"]
  /\ UNCHANGED <<now, cpVars, redisVars, memoryVars, linkVars, callback, logout, handler,
                 synced, faults, restarts>>

(* A record whose token no longer verifies is deleted; the index keeps it. *)
Refuse(r) ==
  LET claims == request[r].claims IN
  /\ request[r].pc = "read"
  /\ \/ /\ claims.exp <= now
        /\ record' = [record EXCEPT ![request[r].id] = None]
     \/ /\ now < claims.exp
        /\ IsRevoked(claims.sid)
        /\ UNCHANGED record
  /\ request' = [request EXCEPT ![r] = IdleRequest]
  /\ UNCHANGED <<now, cpVars, index, memoryVars, linkVars, callback, logout, handler,
                 synced, faults, restarts>>

(* The proxy registers its stream under the session id it finds in the      *)
(* request's context, which Get left there as a key of Redis.               *)
Register(r) ==
  /\ request[r].pc = "admitted"
  /\ request' = [request EXCEPT ![r].pc = "registered"]
  /\ streams' = streams \cup {<<Prefixed(request[r].id), r>>}
  /\ cancelled' = cancelled \ {r}
  /\ UNCHANGED <<now, cpVars, redisVars, revocations, linkVars, callback, logout, handler,
                 synced, faults, restarts>>

(* A cancelled context fails the opening of the stream, and nothing after. *)
OpenStream(r) ==
  /\ request[r].pc = "registered"
  /\ r \notin cancelled
  /\ request' = [request EXCEPT ![r].pc = "open"]
  /\ UNCHANGED <<now, cpVars, redisVars, memoryVars, linkVars, callback, logout, handler,
                 synced, faults, restarts>>

EndRequest(r) ==
  /\ request[r].pc \in {"admitted", "registered", "open"}
  /\ request' = [request EXCEPT ![r] = IdleRequest]
  /\ streams' = {e \in streams : e[2] # r}
  /\ UNCHANGED <<now, cpVars, redisVars, revocations, cancelled, linkVars, callback, logout,
                 handler, synced, faults, restarts>>
-----------------------------------------------------------------------------
(* The gateway: a logout. *)

(* Destroy reads the record to learn which index names it... *)
ReadForLogout(l, c) ==
  /\ logout[l].pc = "idle"
  /\ Stored(c)
  /\ logout' = [logout EXCEPT ![l] = [pc |-> "read", id |-> c, claims |-> record[c].claims]]
  /\ UNCHANGED <<now, cpVars, redisVars, memoryVars, linkVars, callback, request, handler,
                 synced, faults, restarts>>

(* ...and deletes both, or the record alone when the token has expired, or  *)
(* nothing when Redis does not answer.                                      *)
Destroy(l) ==
  LET visit == logout[l] IN
  /\ visit.pc = "read"
  /\ logout' = [logout EXCEPT ![l] = IdleRequest]
  /\ \/ /\ record' = [record EXCEPT ![visit.id] = None]
        /\ index' = IF now < visit.claims.exp
                    THEN [index EXCEPT ![visit.claims.sid] = @ \ {visit.id}]
                    ELSE index
        /\ UNCHANGED faults
     \/ /\ Fault
        /\ UNCHANGED redisVars
  /\ UNCHANGED <<now, cpVars, memoryVars, linkVars, callback, request, handler, synced, restarts>>
-----------------------------------------------------------------------------
(* The gateway: messages of the control plane, one goroutine each. *)

(* A revocation command is sent once per control stream until acknowledged. *)
ReceiveCommand(h, s) ==
  /\ up
  /\ event[s] = "logged"
  /\ s \notin sent
  /\ handler[h].pc = "idle"
  /\ sent' = sent \cup {s}
  /\ received' = received \cup {s}
  /\ handler' = [handler EXCEPT ![h] = [pc |-> "revoke", sid |-> s, rest |-> {}, ids |-> {},
                                        alive |-> TRUE, hello |-> FALSE]]
  /\ UNCHANGED <<now, cpVars, redisVars, memoryVars, up, helloAck, callback, request, logout,
                 synced, faults, restarts>>

(* What a handler is when it has done with a session: at the next of the    *)
(* HelloAck's list, or finished.                                            *)
NextOf(h) ==
  IF handler[h].rest = {} THEN {IdleHandler}
  ELSE {[handler[h] EXCEPT !.pc = "revoke", !.sid = s, !.rest = @ \ {s}, !.ids = {}] :
          s \in handler[h].rest}

(* The HelloAck's sessions are revoked one after the other. *)
ReceiveHelloAck(h) ==
  /\ helloAck # None
  /\ handler[h].pc = "idle"
  /\ helloAck' = None
  /\ \/ /\ helloAck.list = {}
        /\ UNCHANGED handler
        /\ synced' = (synced \/ helloAck.read)
     \/ /\ \E s \in helloAck.list :
             handler' = [handler EXCEPT ![h] =
               [pc |-> "revoke", sid |-> s, rest |-> helloAck.list \ {s}, ids |-> {},
                alive |-> TRUE, hello |-> TRUE]]
        /\ UNCHANGED synced
  /\ UNCHANGED <<now, cpVars, redisVars, memoryVars, up, sent, received, callback, request, logout,
                 faults, restarts>>

(* RevokeByCPSession: the memory of the gateway first... *)
Revoke(h) ==
  /\ handler[h].pc = "revoke"
  /\ revocations' = [revocations EXCEPT ![handler[h].sid] = expires[handler[h].sid]]
  /\ handler' = [handler EXCEPT ![h].pc = "members"]
  /\ synced' = (synced \/ (handler[h].hello /\ handler[h].rest = {}))
  /\ UNCHANGED <<now, cpVars, redisVars, streams, cancelled, linkVars, callback, request, logout,
                 faults, restarts>>

(* ...then the gateway sessions the index lists, if Redis answers and the   *)
(* control stream the message came on is still there...                     *)
ReadIndex(h) ==
  LET ids == index[handler[h].sid] IN
  /\ handler[h].pc = "members"
  /\ \/ /\ handler[h].alive
        /\ ids # {}
        /\ handler' = [handler EXCEPT ![h].pc = "delete", ![h].ids = ids]
        /\ UNCHANGED faults
     \/ /\ handler[h].alive => ids = {}
        /\ \E next \in NextOf(h) : handler' = [handler EXCEPT ![h] = next]
        /\ UNCHANGED faults
     \/ /\ handler[h].alive
        /\ Fault
        /\ \E next \in NextOf(h) : handler' = [handler EXCEPT ![h] = next]
  /\ UNCHANGED <<now, cpVars, redisVars, memoryVars, linkVars, callback, request, logout,
                 synced, restarts>>

(* ActiveStreamRegistry.RevokeSession(id): the streams under that very key. *)
RevokeStreams(ids) ==
  LET found == {e \in streams : \E c \in ids : e[1] = Bare(c)} IN
  /\ streams' = streams \ found
  /\ cancelled' = cancelled \cup {e[2] : e \in found}

(* ...whose streams are cancelled, and which are deleted with the index in  *)
(* one transaction, unless Redis or the control stream fails.               *)
DeleteSessions(h) ==
  LET ids == handler[h].ids IN
  /\ handler[h].pc = "delete"
  /\ RevokeStreams(ids)
  /\ \/ /\ handler[h].alive
        /\ record' = [c \in Callbacks |-> IF c \in ids THEN None ELSE record[c]]
        /\ index' = [index EXCEPT ![handler[h].sid] = {}]
        /\ UNCHANGED faults
     \/ /\ ~handler[h].alive
        /\ UNCHANGED <<redisVars, faults>>
     \/ /\ handler[h].alive
        /\ Fault
        /\ UNCHANGED redisVars
  /\ \E next \in NextOf(h) : handler' = [handler EXCEPT ![h] = next]
  /\ UNCHANGED <<now, cpVars, revocations, linkVars, callback, request, logout, synced, restarts>>

(* The gateway restarts: Redis stays, its memory and goroutines do not. *)
Restart ==
  /\ restarts < MaxRestarts
  /\ restarts' = restarts + 1
  /\ up' = FALSE
  /\ helloAck' = None
  /\ revocations' = [s \in Sessions |-> 0]
  /\ streams' = {}
  /\ cancelled' = {}
  /\ callback' = [c \in Callbacks |-> IF callback[c].pc = "holding"
                                      THEN [callback[c] EXCEPT !.pc = "over"] ELSE callback[c]]
  /\ request' = [r \in Requests |-> IdleRequest]
  /\ logout' = [l \in Logouts |-> IdleRequest]
  /\ handler' = [h \in Handlers |-> IdleHandler]
  /\ synced' = FALSE
  /\ UNCHANGED <<now, cpVars, redisVars, sent, received, faults>>
-----------------------------------------------------------------------------
ControlPlane(s) ==
  \/ CreateUserSessionForGateway(s)
  \/ CreateUserSession(s)
  \/ RevokeActiveUserSession(s)
  \/ CreateEvent(s)
  \/ CreateEventFails(s)
  \/ Acknowledge(s)

CallbackStep(c) == Create(c) \/ \E s \in Sessions : ExchangeToken(c, s)

RequestStep(r) ==
  \/ \E c \in Callbacks : ReadSession(r, c)
  \/ Admit(r)
  \/ Refuse(r)
  \/ Register(r)
  \/ OpenStream(r)
  \/ EndRequest(r)

LogoutStep(l) == Destroy(l) \/ \E c \in Callbacks : ReadForLogout(l, c)

HandlerStep(h) == Revoke(h) \/ ReadIndex(h) \/ DeleteSessions(h)

Receive(h) == ReceiveHelloAck(h) \/ \E s \in Sessions : ReceiveCommand(h, s)

Next ==
  \/ Tick
  \/ \E s \in Sessions : ControlPlane(s)
  \/ Connect
  \/ Break
  \/ \E c \in Callbacks : CallbackStep(c)
  \/ \E r \in Requests : RequestStep(r)
  \/ \E l \in Logouts : LogoutStep(l)
  \/ \E h \in Handlers : HandlerStep(h) \/ Receive(h)
  \/ Restart

Spec == Init /\ [][Next]_vars

(* The stream manager reconnects for ever, the dispatcher sends what is     *)
(* logged, and the goroutines of the gateway run.                           *)
Fairness ==
  /\ WF_vars(Connect)
  /\ WF_vars(\E h \in Handlers : Receive(h))
  /\ \A h \in Handlers : WF_vars(HandlerStep(h))

FairSpec == Spec /\ Fairness
-----------------------------------------------------------------------------
(* Safety. *)

(* A login gives one session to one browser: whoever presents the one-time  *)
(* token again, no second record of the same control-plane session appears. *)
OneSessionPerLogin ==
  \A c, d \in Callbacks :
    record[c] # None /\ record[d] # None /\ record[c].claims.sid = record[d].claims.sid => c = d

(* The index finds every session that has not been revoked: no logout or    *)
(* expiry hides a record from the revocation to come.                       *)
IndexedUnlessRevoked ==
  \A c \in Callbacks :
    record[c] # None => \/ c \in index[record[c].claims.sid]
                        \/ row[record[c].claims.sid] = "revoked"

\* a handler of this process has yet to record that s is revoked
Pending(s) ==
  \E h \in Handlers : \/ handler[h].pc = "revoke" /\ handler[h].sid = s
                      \/ handler[h].pc # "idle" /\ s \in handler[h].rest

(* The gateway knows of every revocation it was sent: what an earlier       *)
(* process received, and an acknowledgement of a later event acknowledged,  *)
(* comes back with the first HelloAck that has the list.                    *)
AckedIsKnown ==
  \A s \in Sessions :
    event[s] = "acked" /\ synced => IsRevoked(s) \/ Pending(s) \/ expires[s] <= now

(* Once a revocation is acknowledged and no handler has it to record, no    *)
(* request of the session is admitted before the session would have         *)
(* expired, whatever record a callback or a failed deletion left behind.    *)
AckedNotAdmitted ==
  [][\A r \in Requests : \A s \in Sessions :
       /\ request[r].pc = "read" /\ request'[r].pc = "admitted"
       /\ request[r].claims.sid = s
       /\ event[s] = "acked" /\ synced /\ ~Pending(s)
       => expires[s] <= now]_vars

(* The system gives access the way LoginAccess promises: one holder per     *)
(* login for good, a gateway session that is never opened again, and no     *)
(* admission of a login that the gateway has been told to refuse.           *)
TokenOf(s) ==
  IF ~token[s].issued THEN "none" ELSE IF token[s].until # 0 THEN "offered" ELSE "spent"

Holders == {hold \in Sessions \X Callbacks :
              /\ callback[hold[2]].claims # None
              /\ callback[hold[2]].claims.sid = hold[1]}

SeatOf(c) ==
  IF callback[c].pc # "over" THEN "none" ELSE IF Stored(c) THEN "open" ELSE "closed"

StageOf(r) ==
  IF request[r].pc = "idle" THEN "none"
  ELSE IF request[r].pc = "read" THEN "looking" ELSE "served"

Access == INSTANCE LoginAccess
            WITH token <- [s \in Sessions |-> TokenOf(s)],
                 holders <- Holders,
                 seat <- [c \in Callbacks |-> SeatOf(c)],
                 visit <- [r \in Requests |-> [stage |-> StageOf(r), seat |-> request[r].id]],
                 revoked <- {s \in Sessions : row[s] = "revoked"},
                 expired <- {s \in Sessions : row[s] # "none" /\ expires[s] <= now},
                 barred <- {s \in Sessions : IsRevoked(s)}

GivesAccess == Access!Spec

(* What introduction.md:21 says of a revocation, that it is real-time: the  *)
(* streams of the sessions it deletes are cancelled with them.              *)
StreamsFollowSession ==
  [][\A h \in Handlers : \A r \in Requests :
       /\ handler[h].pc = "delete" /\ handler'[h].pc # "delete"
       /\ restarts' = restarts
       /\ request[r].pc \in {"registered", "open"} /\ request[r].id \in handler[h].ids
       => r \in cancelled']_vars
-----------------------------------------------------------------------------
(* Liveness. *)

Refused(s) == IsRevoked(s) \/ expires[s] <= now

(* Every HelloAck brings the list of revoked sessions: handleHello only     *)
(* logs that it could not be read, and nothing sends it again.              *)
ListsArrive == [](helloAck = None \/ helloAck.read)

(* If lists arrive, a revocation whose event was written takes effect at    *)
(* the gateway, and takes effect again after every restart, until the       *)
(* session expires.                                                         *)
RevocationTakesEffect ==
  ListsArrive => \A s \in Sessions : [](event[s] # "none" => <>[]Refused(s))
=============================================================================
