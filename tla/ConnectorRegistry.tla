------------------------- MODULE ConnectorRegistry -------------------------
(***************************************************************************)
(* The gateway's registry of live connectors.                              *)
(*                                                                         *)
(* A connector reaches its gateway twice: a gRPC management stream and a   *)
(* QUIC tunnel, each served by a goroutine of its own for as long as the   *)
(* connection lasts (server/grpc/handler.go, server/quic/quic.go).  Both   *)
(* write the one entry the registry keeps per connector, under its lock    *)
(* (registry/register.go).  The control-plane client closes and detaches   *)
(* sessions from a third side: one goroutine per command it receives, and  *)
(* a check of every entry whenever a control-plane session starts          *)
(* (grpc_client/stream.go).                                                *)
(*                                                                         *)
(* A stream identity stands for one connection and is used once; which     *)
(* connector opened it, the serial of the certificate it presented and the *)
(* applications its Hello announces are attributes of the stream.          *)
(* managementAttached and tunnelAttached are always set together with the  *)
(* session they guard, so an entry keeps only the session; State is only   *)
(* ever "active" (nothing calls SetState) and is left out, as are          *)
(* heartbeats and application health.                                      *)
(***************************************************************************)
EXTENDS Naturals, FiniteSets, Functions

CONSTANTS
  Connectors,        \* connector ids
  Subdomains,        \* public names of applications
  Serials,           \* certificate serial numbers
  Mgmt,              \* management streams, each used once
  Tunnels,           \* QUIC connections, each used once
  Owner,             \* the connector a stream's certificate names
  Serial,            \* the serial number of that certificate
  Apps,              \* the subdomains the Hello of a management stream lists
  Handlers,          \* goroutines that may be evicting a connector at once
  None,              \* nil
  MaxCommands,       \* bound: commands the control plane issues
  MaxCloseAll,       \* bound: how many of them are gateway certificate rotations
  MaxSessions,       \* bound: control-plane sessions
  MaxRestarts        \* bound: gateway restarts

Streams == Mgmt \cup Tunnels

ASSUME StreamsAssumption ==
  /\ Mgmt \cap Tunnels = {}
  /\ None \notin Streams
  /\ None \notin Connectors
  /\ None \notin Serials
  /\ Owner \in [Streams -> Connectors]
  /\ Serial \in [Streams -> Serials]
  /\ Apps \in [Mgmt -> SUBSET Subdomains]

ASSUME BoundsAssumption == {MaxCommands, MaxCloseAll, MaxSessions, MaxRestarts} \subseteq Nat

VARIABLES
  phase,        \* how far the goroutine serving each stream is
  live,         \* streams whose connection is up and whose context is not cancelled
  entries,      \* Registry.connectors
  routing,      \* Registry.routing: subdomain -> connector id
  incarnation,  \* how often a connector's entry was removed: which object a pointer is to
  crl,          \* Registry.crlSerials
  authorized,   \* Registry.authConnectors
  revoked,      \* connectors revoked in the control plane's database
  commands,     \* commands and lists on their way to the gateway
  handler,      \* the goroutines that evict a connector
  verifyDue,    \* a control-plane session just started: VerifyGatewayConnections is next
  verifying,    \* the connectors that VerifyGatewayConnections still has to close
  issued,       \* commands issued
  rotations,    \* of them, gateway certificate rotations
  sessions,     \* control-plane sessions started
  restarts      \* gateway restarts

registry == <<entries, routing, incarnation>>
lists    == <<crl, authorized>>
cpVars   == <<revoked, issued, rotations>>
verify   == <<verifyDue, verifying, sessions>>
vars     == <<phase, live, registry, lists, cpVars, commands, handler, verify, restarts>>

Phases == {"idle", "hello", "authorized", "checked", "running", "done"}
Planes == {"mgmt", "tunnel"}

Entry == [mgmt: Mgmt \cup {None}, tunnel: Tunnels \cup {None},
          apps: SUBSET Subdomains,
          grpcCert: Serials \cup {None}, quicCert: Serials \cup {None}]

Command == [kind: {"evict"}, connector: Connectors]
             \cup [kind: {"crl"}, serials: SUBSET Serials]
             \cup [kind: {"authorized"}, connectors: SUBSET Connectors]
             \cup [kind: {"closeAll"}]

HandlerPcs == {"idle", "send", "close", "readTunnel", "detachTunnel",
               "readManagement", "detachManagement"}

HandlerState == [pc: HandlerPcs, connector: Connectors \cup {None},
                 object: Nat, arg: Streams \cup {None}]

IdleHandler == [pc |-> "idle", connector |-> None, object |-> 0, arg |-> None]

(* One invariant per module says what the variables range over. *)
TypeOK ==
  /\ phase \in [Streams -> Phases]
  /\ live \in SUBSET Streams
  /\ DOMAIN entries \in SUBSET Connectors
  /\ \A c \in DOMAIN entries : entries[c] \in Entry
  /\ DOMAIN routing \in SUBSET Subdomains
  /\ \A s \in DOMAIN routing : routing[s] \in Connectors
  /\ incarnation \in [Connectors -> Nat]
  /\ crl \in SUBSET Serials
  /\ authorized \in SUBSET Connectors
  /\ revoked \in SUBSET Connectors
  /\ commands \in SUBSET Command
  /\ handler \in [Handlers -> HandlerState]
  /\ verifyDue \in BOOLEAN
  /\ verifying \in SUBSET Connectors
  /\ issued \in 0..MaxCommands
  /\ rotations \in 0..MaxCloseAll
  /\ sessions \in 0..MaxSessions
  /\ restarts \in 0..MaxRestarts

(* registry.New: both lists are empty until the control plane sends them. *)
Init ==
  /\ phase = [x \in Streams |-> "idle"]
  /\ live = {}
  /\ entries = << >>
  /\ routing = << >>
  /\ incarnation = [c \in Connectors |-> 0]
  /\ crl = {}
  /\ authorized = {}
  /\ revoked = {}
  /\ commands = {}
  /\ handler = [h \in Handlers |-> IdleHandler]
  /\ verifyDue = FALSE
  /\ verifying = {}
  /\ issued = 0
  /\ rotations = 0
  /\ sessions = 0
  /\ restarts = 0
-----------------------------------------------------------------------------
(* The registry's own operations. *)

IsCrlRevoked(serial) == serial \in crl

IsConnectorAuthorized(c) == c \in authorized

NewEntry == [mgmt |-> None, tunnel |-> None, apps |-> {}, grpcCert |-> None, quicCert |-> None]

(* getOrCreateLocked *)
EntryOf(c) == IF c \in DOMAIN entries THEN entries[c] ELSE NewEntry

(* The session entry c holds on a plane: None as well when there is no entry. *)
Registered(c, plane) == EntryOf(c)[plane]

PutEntry(c, entry) ==
  entries' = [d \in DOMAIN entries \cup {c} |-> IF d = c THEN entry ELSE entries[d]]

(* Mutant: the routes of a removed entry stay. *)
RemoveIfFullyDetached_KeepsRoutes(c, entry) ==
  IF entry.mgmt # None \/ entry.tunnel # None
    THEN PutEntry(c, entry) /\ UNCHANGED <<routing, incarnation>>
    ELSE /\ entries' = Restrict(entries, DOMAIN entries \ {c})
         /\ UNCHANGED routing
         /\ incarnation' = [incarnation EXCEPT ![c] = @ + 1]

(* removeIfFullyDetachedLocked: the routes of every application of the entry *)
(* go with it, whichever connector they lead to.                             *)
RemoveIfFullyDetached(c, entry) ==
  IF entry.mgmt # None \/ entry.tunnel # None
    THEN PutEntry(c, entry) /\ UNCHANGED <<routing, incarnation>>
    ELSE /\ entries' = Restrict(entries, DOMAIN entries \ {c})
         /\ routing' = Restrict(routing, DOMAIN routing \ entry.apps)
         /\ incarnation' = [incarnation EXCEPT ![c] = @ + 1]

(* Mutant: a detach does not ask whose session the entry holds. *)
Detach_Stale(c, plane, session) ==
  IF c \notin DOMAIN entries
    THEN UNCHANGED registry
    ELSE RemoveIfFullyDetached(c, [entries[c] EXCEPT ![plane] = None])

(* DetachManagement and DetachTunnel: a stale detach is ignored. *)
Detach(c, plane, session) ==
  IF c \notin DOMAIN entries \/ Registered(c, plane) # session
    THEN UNCHANGED registry
    ELSE RemoveIfFullyDetached(c, [entries[c] EXCEPT ![plane] = None])

(* Mutant: the tunnel is left open. *)
ForceClose_Management(c) == live' = live \ {Registered(c, "mgmt")}

(* ForceCloseConnector: both transports are closed, the entry stays. *)
ForceClose(c) == live' = live \ {Registered(c, "mgmt"), Registered(c, "tunnel")}
-----------------------------------------------------------------------------
(* The goroutine of a management stream: Server.Connect. *)

OpenManagement(m) ==
  /\ phase[m] = "idle"
  /\ IF IsCrlRevoked(Serial[m])
       THEN phase' = [phase EXCEPT ![m] = "done"] /\ live' = live
       ELSE phase' = [phase EXCEPT ![m] = "hello"] /\ live' = live \cup {m}
  /\ UNCHANGED <<registry, lists, cpVars, commands, handler, verify, restarts>>

ReceiveHello(m) ==
  /\ phase[m] = "hello"
  /\ IF m \in live /\ IsConnectorAuthorized(Owner[m])
       THEN phase' = [phase EXCEPT ![m] = "authorized"] /\ live' = live
       ELSE phase' = [phase EXCEPT ![m] = "done"] /\ live' = live \ {m}
  /\ UNCHANGED <<registry, lists, cpVars, commands, handler, verify, restarts>>

(* A newer stream of the connector displaces, and closes, the older one. *)
AttachManagement(m) ==
  LET c == Owner[m] IN
  /\ phase[m] = "authorized"
  /\ phase' = [phase EXCEPT ![m] = "running"]
  /\ live' = live \ {Registered(c, "mgmt")}
  /\ PutEntry(c, [EntryOf(c) EXCEPT !.mgmt = m, !.apps = Apps[m], !.grpcCert = Serial[m]])
  /\ routing' = [s \in DOMAIN routing \cup Apps[m] |-> IF s \in Apps[m] THEN c ELSE routing[s]]
  /\ UNCHANGED <<incarnation, lists, cpVars, commands, handler, verify, restarts>>

(* The receive loop ends when the stream does; the deferred detach follows. *)
EndManagement(m) ==
  /\ phase[m] = "running"
  /\ m \notin live
  /\ phase' = [phase EXCEPT ![m] = "done"]
  /\ Detach(Owner[m], "mgmt", m)
  /\ UNCHANGED <<live, lists, cpVars, commands, handler, verify, restarts>>
-----------------------------------------------------------------------------
(* The goroutine of a tunnel: handleQUICConnection.  The revocation check it *)
(* makes first looks the Subject's serialNumber attribute up in the list of  *)
(* certificate serials; certificates carry no such attribute, so it never    *)
(* refuses anyone and does not appear here.                                  *)

OpenTunnel(t) ==
  /\ phase[t] = "idle"
  /\ IF Owner[t] \in DOMAIN entries
       THEN phase' = [phase EXCEPT ![t] = "checked"] /\ live' = live \cup {t}
       ELSE phase' = [phase EXCEPT ![t] = "done"] /\ live' = live
  /\ UNCHANGED <<registry, lists, cpVars, commands, handler, verify, restarts>>

AttachTunnel(t) ==
  LET c == Owner[t] IN
  /\ phase[t] = "checked"
  /\ phase' = [phase EXCEPT ![t] = "running"]
  /\ live' = live \ {Registered(c, "tunnel")}
  /\ PutEntry(c, [EntryOf(c) EXCEPT !.tunnel = t, !.quicCert = Serial[t]])
  /\ UNCHANGED <<routing, incarnation, lists, cpVars, commands, handler, verify, restarts>>

(* Mutant: the detach is skipped. *)
EndTunnel_NoDetach(t) ==
  /\ phase[t] = "running"
  /\ t \notin live
  /\ phase' = [phase EXCEPT ![t] = "done"]
  /\ UNCHANGED <<live, registry, lists, cpVars, commands, handler, verify, restarts>>

EndTunnel(t) ==
  /\ phase[t] = "running"
  /\ t \notin live
  /\ phase' = [phase EXCEPT ![t] = "done"]
  /\ Detach(Owner[t], "tunnel", t)
  /\ UNCHANGED <<live, lists, cpVars, commands, handler, verify, restarts>>

(* The network, or the connector, ends a connection. *)
Lose(x) ==
  /\ x \in live
  /\ live' = live \ {x}
  /\ UNCHANGED <<phase, registry, lists, cpVars, commands, handler, verify, restarts>>
-----------------------------------------------------------------------------
(* The control plane.  Its commands reach the gateway and are handled in any *)
(* order, each by a goroutine of its own.                                    *)

ActiveConnectors(out) == [kind |-> "authorized", connectors |-> Connectors \ out]

RevokedSerials(out) == [kind |-> "crl", serials |-> {Serial[x] : x \in {y \in Streams : Owner[y] \in out}}]

Evict(c) == [kind |-> "evict", connector |-> c]

(* Service.RevokeConnector: three commands, in this order. *)
RevokeConnector(c) ==
  /\ c \notin revoked
  /\ issued < MaxCommands
  /\ issued' = issued + 1
  /\ revoked' = revoked \cup {c}
  /\ commands' = commands \cup {Evict(c), RevokedSerials(revoked'), ActiveConnectors(revoked')}
  /\ UNCHANGED <<phase, live, registry, lists, rotations, handler, verify, restarts>>

(* Service.SendRotateConnectorCmd: the connector is to come back renewed. *)
RotateConnector(c) ==
  /\ c \notin revoked
  /\ issued < MaxCommands
  /\ issued' = issued + 1
  /\ commands' = commands \cup {Evict(c)}
  /\ UNCHANGED <<phase, live, registry, lists, revoked, rotations, handler, verify, restarts>>

(* Service.RotateGatewayCert *)
RotateGatewayCert ==
  /\ issued < MaxCommands
  /\ rotations < MaxCloseAll
  /\ issued' = issued + 1
  /\ rotations' = rotations + 1
  /\ commands' = commands \cup {[kind |-> "closeAll"]}
  /\ UNCHANGED <<phase, live, registry, lists, revoked, handler, verify, restarts>>
-----------------------------------------------------------------------------
(* The control-plane client: handleMessage and runSession. *)

(* A session starts: the HelloAck with the list of active connectors is on  *)
(* its way, and the connections are verified without waiting for it.        *)
StartSession ==
  /\ sessions < MaxSessions
  /\ ~verifyDue
  /\ verifying = {}
  /\ sessions' = sessions + 1
  /\ verifyDue' = TRUE
  /\ commands' = commands \cup {ActiveConnectors(revoked)}
  /\ UNCHANGED <<phase, live, registry, lists, cpVars, handler, verifying, restarts>>

ConnectorRevoked(entry) == {entry.grpcCert, entry.quicCert} \cap crl # {}

VerifyGatewayConnections ==
  /\ verifyDue
  /\ verifyDue' = FALSE
  /\ verifying' = {c \in DOMAIN entries : c \notin authorized \/ ConnectorRevoked(entries[c])}
  /\ UNCHANGED <<phase, live, registry, lists, cpVars, commands, handler, sessions, restarts>>

CloseUnverified(c) ==
  /\ c \in verifying
  /\ ForceClose(c)
  /\ verifying' = verifying \ {c}
  /\ UNCHANGED <<phase, registry, lists, cpVars, commands, handler, verifyDue, sessions, restarts>>

SetCrlEntries ==
  \E command \in commands :
    /\ command.kind = "crl"
    /\ crl' = command.serials
    /\ commands' = commands \ {command}
    /\ UNCHANGED <<phase, live, registry, authorized, cpVars, handler, verify, restarts>>

SetAuthorizedConnectors ==
  \E command \in commands :
    /\ command.kind = "authorized"
    /\ authorized' = command.connectors
    /\ commands' = commands \ {command}
    /\ UNCHANGED <<phase, live, registry, crl, cpVars, handler, verify, restarts>>

(* Every session is closed and forgotten, the entries are kept. *)
CloseAllConnectorConnection ==
  /\ [kind |-> "closeAll"] \in commands
  /\ commands' = commands \ {[kind |-> "closeAll"]}
  /\ live' = {x \in live : \A c \in DOMAIN entries : x \notin {entries[c].mgmt, entries[c].tunnel}}
  /\ entries' = [c \in DOMAIN entries |-> [entries[c] EXCEPT !.mgmt = None, !.tunnel = None]]
  /\ UNCHANGED <<phase, routing, incarnation, lists, cpVars, handler, verify, restarts>>
-----------------------------------------------------------------------------
(* RevokeConnector, RevokeConnectorCert and RotateConnectorCert share their  *)
(* body in handleMessage.  It keeps the pointer to the entry it looked up    *)
(* and reads the pointer's fields, without the lock, again at each use.      *)

Advance(h, pc, arg) == handler' = [handler EXCEPT ![h].pc = pc, ![h].arg = arg]

(* A field of the entry the goroutine points to: an entry that was removed  *)
(* has no sessions and never gets one again.                                *)
Pointed(h, plane) ==
  LET c == handler[h].connector IN
  IF handler[h].object = incarnation[c] THEN Registered(c, plane) ELSE None

LookUp(h) ==
  \E command \in commands :
    /\ command.kind = "evict"
    /\ handler[h].pc = "idle"
    /\ commands' = commands \ {command}
    /\ IF Registered(command.connector, "mgmt") # None
         THEN handler' = [handler EXCEPT ![h] =
                [pc |-> "send", connector |-> command.connector,
                 object |-> incarnation[command.connector], arg |-> None]]
         ELSE UNCHANGED handler
    /\ UNCHANGED <<phase, live, registry, lists, cpVars, verify, restarts>>

(* The command is sent to the connector on the stream read a second time.   *)
SendToConnector(h) ==
  /\ handler[h].pc = "send"
  /\ Pointed(h, "mgmt") # None
  /\ Advance(h, "close", None)
  /\ UNCHANGED <<phase, live, registry, lists, cpVars, commands, verify, restarts>>

CloseEvicted(h) ==
  /\ handler[h].pc = "close"
  /\ ForceClose(handler[h].connector)
  /\ Advance(h, "readTunnel", None)
  /\ UNCHANGED <<phase, registry, lists, cpVars, commands, verify, restarts>>

ReadTunnel(h) ==
  /\ handler[h].pc = "readTunnel"
  /\ Advance(h, "detachTunnel", Pointed(h, "tunnel"))
  /\ UNCHANGED <<phase, live, registry, lists, cpVars, commands, verify, restarts>>

DetachTunnel(h) ==
  /\ handler[h].pc = "detachTunnel"
  /\ Detach(handler[h].connector, "tunnel", handler[h].arg)
  /\ Advance(h, "readManagement", None)
  /\ UNCHANGED <<phase, live, lists, cpVars, commands, verify, restarts>>

ReadManagement(h) ==
  /\ handler[h].pc = "readManagement"
  /\ Advance(h, "detachManagement", Pointed(h, "mgmt"))
  /\ UNCHANGED <<phase, live, registry, lists, cpVars, commands, verify, restarts>>

DetachManagement(h) ==
  /\ handler[h].pc = "detachManagement"
  /\ Detach(handler[h].connector, "mgmt", handler[h].arg)
  /\ handler' = [handler EXCEPT ![h] = IdleHandler]
  /\ UNCHANGED <<phase, live, lists, cpVars, commands, verify, restarts>>

(* The process ends and starts over with an empty registry: it was stopped,  *)
(* or a goroutine dereferenced the management session that was there when it *)
(* looked and is gone when it sends.  The control plane sends again those    *)
(* commands the gateway had not acknowledged.                                *)
Panicking == \E h \in Handlers : handler[h].pc = "send" /\ Pointed(h, "mgmt") = None

Restart ==
  /\ restarts < MaxRestarts \/ Panicking
  /\ restarts' = IF restarts < MaxRestarts THEN restarts + 1 ELSE restarts
  /\ phase' = [x \in Streams |-> IF phase[x] = "idle" THEN "idle" ELSE "done"]
  /\ live' = {}
  /\ entries' = << >>
  /\ routing' = << >>
  /\ incarnation' = [c \in Connectors |-> 0]
  /\ crl' = {}
  /\ authorized' = {}
  /\ \E again \in SUBSET {Evict(handler[h].connector) : h \in {g \in Handlers : handler[g].pc # "idle"}} :
       commands' = commands \cup again
  /\ handler' = [h \in Handlers |-> IdleHandler]
  /\ verifyDue' = FALSE
  /\ verifying' = {}
  /\ UNCHANGED <<cpVars, sessions>>
-----------------------------------------------------------------------------
ServeManagement(m) == AttachManagement(m) \/ EndManagement(m)

ServeTunnel(t) == AttachTunnel(t) \/ EndTunnel(t)

ManagementStep(m) == OpenManagement(m) \/ ReceiveHello(m) \/ ServeManagement(m)

TunnelStep(t) == OpenTunnel(t) \/ ServeTunnel(t)

HandlerStep(h) ==
  \/ LookUp(h) \/ SendToConnector(h) \/ CloseEvicted(h)
  \/ ReadTunnel(h) \/ DetachTunnel(h) \/ ReadManagement(h) \/ DetachManagement(h)

ClientStep ==
  \/ VerifyGatewayConnections
  \/ \E c \in Connectors : CloseUnverified(c)
  \/ SetCrlEntries
  \/ SetAuthorizedConnectors
  \/ CloseAllConnectorConnection

ControlPlaneStep ==
  \/ \E c \in Connectors : RevokeConnector(c) \/ RotateConnector(c)
  \/ RotateGatewayCert
  \/ StartSession

Next ==
  \/ \E m \in Mgmt : ManagementStep(m)
  \/ \E t \in Tunnels : TunnelStep(t)
  \/ \E x \in Streams : Lose(x)
  \/ \E h \in Handlers : HandlerStep(h)
  \/ ClientStep
  \/ ControlPlaneStep
  \/ Restart

Spec == Init /\ [][Next]_vars

(* Goroutines that can take a step do: the scheduler is fair.  Nothing makes *)
(* a connector connect, a connection fail or the control plane act; a        *)
(* goroutine that dereferences nil brings the process down.                  *)
Fairness ==
  /\ \A m \in Mgmt : WF_vars(ServeManagement(m))
  /\ \A t \in Tunnels : WF_vars(ServeTunnel(t))
  /\ \A h \in Handlers : WF_vars(HandlerStep(h))
  /\ WF_vars(ClientStep)
  /\ WF_vars(Panicking /\ Restart)

FairSpec == Spec /\ Fairness
-----------------------------------------------------------------------------
PlaneOf(x) == IF x \in Mgmt THEN "mgmt" ELSE "tunnel"

IsRegistered(x) == Registered(Owner[x], PlaneOf(x)) = x

(* A session the registry hands out is served by a goroutine that will      *)
(* detach it: however attachments, displacements, stale detaches, evictions  *)
(* and CloseAll interleave, no entry is left holding the session of a        *)
(* handler that has returned, which nobody would ever take out.              *)
SessionsServed ==
  \A c \in DOMAIN entries : \A plane \in Planes :
    LET x == entries[c][plane] IN
    x # None => phase[x] = "running" /\ Owner[x] = c /\ PlaneOf(x) = plane

(* Of the connections a connector has on one plane, at most one is open and  *)
(* attached, and it is the one the registry hands out: an older one was      *)
(* closed when it was displaced, and its late detach does not take out its   *)
(* successor.  (Without eviction commands, which break it: see the README.)  *)
OpenIsRegistered ==
  \A x \in live : phase[x] = "running" => IsRegistered(x)

(* The gateway keeps connections in service the way ServingSessions         *)
(* promises, evictions included, which OpenIsRegistered leaves out: none    *)
(* comes back once it is out, and an open one leaves only to its successor, *)
(* to an eviction or with all the others; a late detach takes out nothing.  *)
StageOf(x) ==
  IF phase[x] = "idle" THEN "new"
  ELSE IF phase[x] \in {"hello", "authorized", "checked"} THEN "coming" ELSE "past"

Evicted == {handler[h].connector : h \in {g \in Handlers : handler[g].pc # "idle"}}

Serving == INSTANCE ServingSessions
             WITH Slot <- [x \in Streams |-> <<Owner[x], PlaneOf(x)>>],
                  stage <- [x \in Streams |-> StageOf(x)],
                  open <- live,
                  serving <- {x \in Streams : IsRegistered(x)},
                  evicted <- Evicted

KeepsServing == Serving!Spec

(* Requests for a subdomain reach the connector that announces it, as long   *)
(* as it has either plane, and otherwise nobody: the routing table agrees    *)
(* with the entries after every attachment, displacement and detachment, of  *)
(* connectors that announce none of another's applications.  A connector may *)
(* announce another list each time it connects.  Routes are only added then, *)
(* so the one exception is an application that the connector announced on    *)
(* one of its streams and not on another: its route may stay.                *)
Past(m) == phase[m] \in {"running", "done"}

Dropped(s, c) ==
  \E m, n \in Mgmt :
    /\ Owner[m] = c /\ Past(m) /\ s \in Apps[m]
    /\ Owner[n] = c /\ Past(n) /\ s \notin Apps[n]

RoutesLead ==
  \A c \in DOMAIN entries : \A s \in entries[c].apps :
    s \in DOMAIN routing /\ routing[s] = c

RoutesMeant ==
  \A s \in DOMAIN routing :
    \/ routing[s] \in DOMAIN entries /\ s \in entries[routing[s]].apps
    \/ Dropped(s, routing[s])

RoutesExact == RoutesLead /\ RoutesMeant

(* A connection that has failed or was closed leaves the registry: requests  *)
(* are not sent to it forever.                                               *)
ClosedLeaves ==
  \A x \in Streams : (x \notin live /\ IsRegistered(x)) ~> ~IsRegistered(x)

(* Closing is certain once decided: a tunnel that is registered when an      *)
(* eviction is about to close the connector's transports, or when            *)
(* VerifyGatewayConnections has found the connector unauthorised or revoked, *)
(* is not the one requests are sent to for long, whatever attaches between.  *)
Condemned(c) ==
  \/ c \in verifying
  \/ \E h \in Handlers : handler[h].pc \in {"send", "close"} /\ handler[h].connector = c

CutOff ==
  \A t \in Tunnels : (Condemned(Owner[t]) /\ IsRegistered(t)) ~> ~IsRegistered(t)

(* Once a connector is revoked and the gateway has everything the control    *)
(* plane sent, no tunnel of that connector stays in service.                 *)
RevokedLeaves ==
  \A c \in Connectors, t \in Tunnels :
    (c \in revoked /\ commands = {} /\ Owner[t] = c /\ IsRegistered(t)) ~> ~IsRegistered(t)
=============================================================================
