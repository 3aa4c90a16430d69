----------------------- MODULE ConnectorRegistry_proofs -----------------------
(***************************************************************************)
(* The theorems about ConnectorRegistry, for every set of connectors,      *)
(* streams, lists and eviction goroutines.                                 *)
(***************************************************************************)
EXTENDS ConnectorRegistry, TLAPS

EntriesTyped ==
  /\ DOMAIN entries \in SUBSET Connectors
  /\ \A c \in DOMAIN entries : entries[c] \in Entry

RoutingTyped ==
  /\ DOMAIN routing \in SUBSET Subdomains
  /\ \A s \in DOMAIN routing : routing[s] \in Connectors
  /\ incarnation \in [Connectors -> Nat]

LEMMA PutEntryTyped ==
  ASSUME EntriesTyped, NEW c \in Connectors, NEW entry \in Entry, PutEntry(c, entry)
  PROVE  EntriesTyped'
BY DEF EntriesTyped, PutEntry

LEMMA WithoutTyped ==
  ASSUME NEW entry \in Entry, NEW plane \in Planes
  PROVE  [entry EXCEPT ![plane] = None] \in Entry
BY DEF Entry, Planes

LEMMA RemoveTyped ==
  ASSUME EntriesTyped, RoutingTyped, NEW c \in Connectors, NEW entry \in Entry,
         RemoveIfFullyDetached(c, entry)
  PROVE  EntriesTyped' /\ RoutingTyped'
<1>1. CASE entry.mgmt # None \/ entry.tunnel # None
  <2>1. PutEntry(c, entry) /\ UNCHANGED <<routing, incarnation>>
    BY <1>1 DEF RemoveIfFullyDetached
  <2>2. QED BY <2>1, PutEntryTyped DEF RoutingTyped
<1>2. CASE ~(entry.mgmt # None \/ entry.tunnel # None)
  <2>1. /\ entries' = Restrict(entries, DOMAIN entries \ {c})
        /\ routing' = Restrict(routing, DOMAIN routing \ entry.apps)
        /\ incarnation' = [incarnation EXCEPT ![c] = @ + 1]
    BY <1>2 DEF RemoveIfFullyDetached
  <2>2. QED BY <2>1 DEF EntriesTyped, RoutingTyped, Restrict
<1>3. QED BY <1>1, <1>2

LEMMA DetachTyped ==
  ASSUME EntriesTyped, RoutingTyped, NEW c \in Connectors, NEW plane \in Planes, NEW session,
         Detach(c, plane, session)
  PROVE  EntriesTyped' /\ RoutingTyped'
<1>1. CASE UNCHANGED registry
  BY <1>1 DEF registry, EntriesTyped, RoutingTyped
<1>2. CASE c \in DOMAIN entries /\ RemoveIfFullyDetached(c, [entries[c] EXCEPT ![plane] = None])
  <2>1. [entries[c] EXCEPT ![plane] = None] \in Entry
    BY <1>2, WithoutTyped DEF EntriesTyped
  <2>2. QED BY <1>2, <2>1, RemoveTyped
<1>3. QED BY <1>1, <1>2 DEF Detach
-----------------------------------------------------------------------------
(* The invariant, in the groups of variables that actions change together.  *)

StreamsTyped ==
  /\ phase \in [Streams -> Phases]
  /\ live \in SUBSET Streams

ListsTyped ==
  /\ crl \in SUBSET Serials
  /\ authorized \in SUBSET Connectors
  /\ revoked \in SUBSET Connectors
  /\ commands \in SUBSET Command

(* A goroutine that is evicting knows whom: its detaches are of a connector. *)
HandlersTyped ==
  /\ handler \in [Handlers -> HandlerState]
  /\ \A h \in Handlers : handler[h].pc # "idle" => handler[h].connector \in Connectors

ClientTyped ==
  /\ verifyDue \in BOOLEAN
  /\ verifying \in SUBSET Connectors
  /\ issued \in 0..MaxCommands
  /\ rotations \in 0..MaxCloseAll
  /\ sessions \in 0..MaxSessions
  /\ restarts \in 0..MaxRestarts

IInv ==
  /\ StreamsTyped /\ EntriesTyped /\ RoutingTyped
  /\ ListsTyped /\ HandlersTyped /\ ClientTyped
  /\ SessionsServed

LEMMA InitInv == Init => IInv
<1> SUFFICES ASSUME Init PROVE IInv
  OBVIOUS
<1>1. StreamsTyped
  BY DEF Init, StreamsTyped, Phases
<1>2. EntriesTyped /\ RoutingTyped /\ SessionsServed
  BY DEF Init, EntriesTyped, RoutingTyped, SessionsServed
<1>3. ListsTyped
  BY DEF Init, ListsTyped
<1>4. HandlersTyped
  BY DEF Init, HandlersTyped, HandlerState, HandlerPcs, IdleHandler
<1>5. ClientTyped
  <2>1. verifyDue \in BOOLEAN
    BY Zenon DEF Init
  <2>2. /\ verifying = {} /\ issued = 0 /\ rotations = 0
        /\ sessions = 0 /\ restarts = 0
    BY Zenon DEF Init
  <2>3. MaxCommands \in Nat /\ MaxCloseAll \in Nat /\ MaxSessions \in Nat /\ MaxRestarts \in Nat
    BY BoundsAssumption
  <2>4. QED BY <2>1, <2>2, <2>3 DEF ClientTyped
<1>6. QED BY <1>1, <1>2, <1>3, <1>4, <1>5 DEF IInv
-----------------------------------------------------------------------------
(* One lemma for each group: a step keeps it. *)

LEMMA StreamsStep == IInv /\ [Next]_vars => StreamsTyped'
<1> SUFFICES ASSUME IInv, [Next]_vars PROVE StreamsTyped'
  OBVIOUS
<1>0. phase \in [Streams -> Phases] /\ live \in SUBSET Streams
  BY DEF IInv, StreamsTyped
<1>1. ASSUME NEW m \in Mgmt, ManagementStep(m) PROVE StreamsTyped'
  <2>1. m \in Streams /\ {"hello", "authorized", "running", "done"} \subseteq Phases
    BY DEF Streams, Phases
  <2>2. \E p \in {"hello", "authorized", "running", "done"} : phase' = [phase EXCEPT ![m] = p]
    BY <1>1, Zenon DEF ManagementStep, ServeManagement, OpenManagement, ReceiveHello, AttachManagement, EndManagement
  <2>3. live' \in SUBSET (live \cup {m})
    BY <1>1 DEF ManagementStep, ServeManagement, OpenManagement, ReceiveHello, AttachManagement, EndManagement
  <2>4. QED BY <1>0, <2>1, <2>2, <2>3 DEF StreamsTyped
<1>2. ASSUME NEW t \in Tunnels, TunnelStep(t) PROVE StreamsTyped'
  <2>1. t \in Streams /\ {"checked", "running", "done"} \subseteq Phases
    BY DEF Streams, Phases
  <2>2. \E p \in {"checked", "running", "done"} : phase' = [phase EXCEPT ![t] = p]
    BY <1>2, Zenon DEF TunnelStep, ServeTunnel, OpenTunnel, AttachTunnel, EndTunnel
  <2>3. live' \in SUBSET (live \cup {t})
    BY <1>2 DEF TunnelStep, ServeTunnel, OpenTunnel, AttachTunnel, EndTunnel
  <2>4. QED BY <1>0, <2>1, <2>2, <2>3 DEF StreamsTyped
<1>3. ASSUME NEW x \in Streams, Lose(x) PROVE StreamsTyped'
  BY <1>0, <1>3 DEF StreamsTyped, Lose
<1>4. ASSUME NEW h \in Handlers, HandlerStep(h) PROVE StreamsTyped'
  <2>1. phase' = phase /\ live' \in SUBSET live
    BY <1>4 DEF HandlerStep, LookUp, SendToConnector, CloseEvicted, ForceClose, ReadTunnel,
                DetachTunnel, ReadManagement, DetachManagement
  <2>2. QED BY <1>0, <2>1 DEF StreamsTyped
<1>5. ASSUME ClientStep PROVE StreamsTyped'
  <2>1. phase' = phase /\ live' \in SUBSET live
    <3>1. CASE VerifyGatewayConnections \/ SetCrlEntries \/ SetAuthorizedConnectors
      <4>1. phase' = phase /\ live' = live
        BY <3>1, Zenon DEF VerifyGatewayConnections, SetCrlEntries, SetAuthorizedConnectors
      <4>2. QED BY <4>1
    <3>2. ASSUME NEW c \in Connectors, CloseUnverified(c) PROVE phase' = phase /\ live' \in SUBSET live
      BY <3>2 DEF CloseUnverified, ForceClose
    <3>3. CASE CloseAllConnectorConnection
      BY <3>3 DEF CloseAllConnectorConnection
    <3>4. QED BY <1>5, <3>1, <3>2, <3>3, Zenon DEF ClientStep
  <2>2. QED BY <1>0, <2>1 DEF StreamsTyped
<1>6. ASSUME ControlPlaneStep PROVE StreamsTyped'
  <2>1. UNCHANGED <<phase, live>>
    BY <1>6 DEF ControlPlaneStep, RevokeConnector, RotateConnector, RotateGatewayCert, StartSession
  <2>2. QED BY <1>0, <2>1 DEF StreamsTyped
<1>7. ASSUME Restart PROVE StreamsTyped'
  <2>1. /\ phase' = [x \in Streams |-> IF phase[x] = "idle" THEN "idle" ELSE "done"]
        /\ live' = {}
    BY <1>7, Zenon DEF Restart
  <2>2. QED BY <2>1 DEF StreamsTyped, Phases
<1>8. CASE UNCHANGED vars
  BY <1>0, <1>8 DEF vars, StreamsTyped
<1>9. QED BY <1>1, <1>2, <1>3, <1>4, <1>5, <1>6, <1>7, <1>8, Zenon DEF Next

(* CloseAllConnectorConnection clears both fields of every entry. *)
LEMMA ClearedTyped ==
  ASSUME EntriesTyped, RoutingTyped, CloseAllConnectorConnection
  PROVE  EntriesTyped' /\ RoutingTyped'
<1>1. /\ entries' = [c \in DOMAIN entries |-> [entries[c] EXCEPT !.mgmt = None, !.tunnel = None]]
      /\ UNCHANGED <<routing, incarnation>>
  BY Zenon DEF CloseAllConnectorConnection
<1>2. \A c \in DOMAIN entries : [entries[c] EXCEPT !.mgmt = None, !.tunnel = None] \in Entry
  BY DEF EntriesTyped, Entry
<1>3. QED BY <1>1, <1>2 DEF EntriesTyped, RoutingTyped

LEMMA EntryOfTyped ==
  ASSUME EntriesTyped, NEW c
  PROVE  EntryOf(c) \in Entry
BY DEF EntriesTyped, EntryOf, NewEntry, Entry

LEMMA RegistryStep == IInv /\ [Next]_vars => EntriesTyped' /\ RoutingTyped'
<1> SUFFICES ASSUME IInv, [Next]_vars PROVE EntriesTyped' /\ RoutingTyped'
  OBVIOUS
<1>0. EntriesTyped /\ RoutingTyped /\ HandlersTyped
  BY DEF IInv
<1>1. CASE UNCHANGED registry
  BY <1>0, <1>1 DEF registry, EntriesTyped, RoutingTyped
<1>2. ASSUME NEW m \in Mgmt, AttachManagement(m) PROVE EntriesTyped' /\ RoutingTyped'
  <2> DEFINE c     == Owner[m]
             entry == [EntryOf(c) EXCEPT !.mgmt = m, !.apps = Apps[m], !.grpcCert = Serial[m]]
  <2>1. c \in Connectors /\ Apps[m] \in SUBSET Subdomains /\ Serial[m] \in Serials
    BY StreamsAssumption DEF Streams
  <2>2. entry \in Entry
    BY <1>0, <2>1, EntryOfTyped DEF Entry
  <2>3. /\ PutEntry(c, entry)
        /\ routing' = [s \in DOMAIN routing \cup Apps[m] |-> IF s \in Apps[m] THEN c ELSE routing[s]]
        /\ incarnation' = incarnation
    BY <1>2 DEF AttachManagement
  <2> HIDE DEF c, entry
  <2>4. EntriesTyped'
    BY <1>0, <2>1, <2>2, <2>3, PutEntryTyped
  <2>5. RoutingTyped'
    BY <1>0, <2>1, <2>3 DEF RoutingTyped
  <2>6. QED BY <2>4, <2>5
<1>3. ASSUME NEW t \in Tunnels, AttachTunnel(t) PROVE EntriesTyped' /\ RoutingTyped'
  <2> DEFINE c     == Owner[t]
             entry == [EntryOf(c) EXCEPT !.tunnel = t, !.quicCert = Serial[t]]
  <2>1. c \in Connectors /\ Serial[t] \in Serials
    BY StreamsAssumption DEF Streams
  <2>2. entry \in Entry
    BY <1>0, <2>1, EntryOfTyped DEF Entry
  <2>3. PutEntry(c, entry) /\ UNCHANGED <<routing, incarnation>>
    BY <1>3 DEF AttachTunnel
  <2> HIDE DEF c, entry
  <2>4. EntriesTyped'
    BY <1>0, <2>1, <2>2, <2>3, PutEntryTyped
  <2>5. QED BY <1>0, <2>3, <2>4 DEF RoutingTyped
<1>4. ASSUME NEW c \in Connectors, NEW plane \in Planes, NEW session, Detach(c, plane, session)
      PROVE  EntriesTyped' /\ RoutingTyped'
  BY <1>0, <1>4, DetachTyped
<1>5. ASSUME NEW m \in Mgmt, EndManagement(m) PROVE EntriesTyped' /\ RoutingTyped'
  <2>1. Owner[m] \in Connectors /\ "mgmt" \in Planes /\ Detach(Owner[m], "mgmt", m)
    BY <1>5, StreamsAssumption DEF EndManagement, Streams, Planes
  <2>2. QED BY <1>4, <2>1
<1>6. ASSUME NEW t \in Tunnels, EndTunnel(t) PROVE EntriesTyped' /\ RoutingTyped'
  <2>1. Owner[t] \in Connectors /\ "tunnel" \in Planes /\ Detach(Owner[t], "tunnel", t)
    BY <1>6, StreamsAssumption DEF EndTunnel, Streams, Planes
  <2>2. QED BY <1>4, <2>1
<1>7. ASSUME NEW h \in Handlers, DetachTunnel(h) \/ DetachManagement(h)
      PROVE  EntriesTyped' /\ RoutingTyped'
  <2>1. handler[h].connector \in Connectors
    BY <1>0, <1>7 DEF HandlersTyped, DetachTunnel, DetachManagement
  <2>2. \E plane \in Planes : Detach(handler[h].connector, plane, handler[h].arg)
    BY <1>7 DEF DetachTunnel, DetachManagement, Planes
  <2>3. QED BY <1>4, <2>1, <2>2
<1>8. CASE CloseAllConnectorConnection
  BY <1>0, <1>8, ClearedTyped
<1>9. CASE Restart
  <2>1. entries' = << >> /\ routing' = << >> /\ incarnation' = [c \in Connectors |-> 0]
    BY <1>9, Zenon DEF Restart
  <2>2. QED BY <2>1 DEF EntriesTyped, RoutingTyped
<1>10. ASSUME NEW m \in Mgmt, OpenManagement(m) \/ ReceiveHello(m) PROVE UNCHANGED registry
  BY <1>10 DEF OpenManagement, ReceiveHello
<1>11. ASSUME NEW t \in Tunnels, OpenTunnel(t) PROVE UNCHANGED registry
  BY <1>11 DEF OpenTunnel
<1>12. ASSUME NEW x \in Streams, Lose(x) PROVE UNCHANGED registry
  BY <1>12 DEF Lose
<1>13. ASSUME NEW h \in Handlers,
              LookUp(h) \/ SendToConnector(h) \/ CloseEvicted(h) \/ ReadTunnel(h) \/ ReadManagement(h)
       PROVE  UNCHANGED registry
  BY <1>13 DEF LookUp, SendToConnector, CloseEvicted, ReadTunnel, ReadManagement
<1>14. CASE ControlPlaneStep
  <2>1. UNCHANGED registry
    BY <1>14, Zenon DEF ControlPlaneStep, RevokeConnector, RotateConnector, RotateGatewayCert, StartSession
  <2>2. QED BY <1>1, <2>1
<1>15. CASE VerifyGatewayConnections \/ (\E c \in Connectors : CloseUnverified(c))
            \/ SetCrlEntries \/ SetAuthorizedConnectors
  <2>1. UNCHANGED registry
    BY <1>15, Zenon DEF VerifyGatewayConnections, CloseUnverified, SetCrlEntries, SetAuthorizedConnectors
  <2>2. QED BY <1>1, <2>1
<1>16. CASE UNCHANGED vars
  BY <1>1, <1>16 DEF vars
<1>17. ASSUME NEW m \in Mgmt, ManagementStep(m) PROVE EntriesTyped' /\ RoutingTyped'
  BY <1>1, <1>2, <1>5, <1>10, <1>17, Zenon DEF ManagementStep, ServeManagement
<1>18. ASSUME NEW t \in Tunnels, TunnelStep(t) PROVE EntriesTyped' /\ RoutingTyped'
  BY <1>1, <1>3, <1>6, <1>11, <1>18, Zenon DEF TunnelStep, ServeTunnel
<1>19. ASSUME NEW h \in Handlers, HandlerStep(h) PROVE EntriesTyped' /\ RoutingTyped'
  BY <1>1, <1>7, <1>13, <1>19, Zenon DEF HandlerStep
<1>20. QED
  BY <1>1, <1>8, <1>9, <1>12, <1>14, <1>15, <1>16, <1>17, <1>18, <1>19, Zenon DEF Next, ClientStep

LEMMA ListsStep == IInv /\ [Next]_vars => ListsTyped'
<1> SUFFICES ASSUME IInv, [Next]_vars PROVE ListsTyped'
  OBVIOUS
<1>0. ListsTyped /\ HandlersTyped
  BY DEF IInv
<1>1. ASSUME NEW out \in SUBSET Connectors
      PROVE  ActiveConnectors(out) \in Command /\ RevokedSerials(out) \in Command
  BY StreamsAssumption DEF ActiveConnectors, RevokedSerials, Command
<1>2. ASSUME NEW c \in Connectors PROVE Evict(c) \in Command
  BY DEF Evict, Command
<1>3. [kind |-> "closeAll"] \in Command
  BY DEF Command
<1>4. CASE UNCHANGED <<lists, revoked, commands>>
  BY <1>0, <1>4 DEF lists, ListsTyped
<1>5. ASSUME NEW c \in Connectors, RevokeConnector(c) PROVE ListsTyped'
  <2>1. /\ revoked' = revoked \cup {c}
        /\ commands' = commands \cup {Evict(c), RevokedSerials(revoked'), ActiveConnectors(revoked')}
        /\ UNCHANGED <<crl, authorized>>
    BY <1>5, Zenon DEF RevokeConnector, lists
  <2>2. revoked' \in SUBSET Connectors
    BY <1>0, <2>1 DEF ListsTyped
  <2>3. {Evict(c), RevokedSerials(revoked'), ActiveConnectors(revoked')} \subseteq Command
    BY <1>1, <1>2, <2>2
  <2>4. QED BY <1>0, <2>1, <2>2, <2>3 DEF ListsTyped
<1>6. ASSUME NEW c \in Connectors, RotateConnector(c) PROVE ListsTyped'
  <2>1. commands' = commands \cup {Evict(c)} /\ UNCHANGED <<crl, authorized, revoked>>
    BY <1>6, Zenon DEF RotateConnector, lists
  <2>2. QED BY <1>0, <1>2, <2>1 DEF ListsTyped
<1>7. CASE RotateGatewayCert
  <2>1. commands' = commands \cup {[kind |-> "closeAll"]} /\ UNCHANGED <<crl, authorized, revoked>>
    BY <1>7, Zenon DEF RotateGatewayCert, lists
  <2>2. QED BY <1>0, <1>3, <2>1 DEF ListsTyped
<1>8. CASE StartSession
  <2>1. /\ commands' = commands \cup {ActiveConnectors(revoked)}
        /\ UNCHANGED <<crl, authorized, revoked>>
    BY <1>8, Zenon DEF StartSession, lists, cpVars
  <2>2. QED BY <1>0, <1>1, <2>1 DEF ListsTyped
<1>9. CASE SetCrlEntries
  <2>1. PICK command \in commands :
          /\ command.kind = "crl"
          /\ crl' = command.serials
          /\ commands' = commands \ {command}
          /\ UNCHANGED <<authorized, revoked>>
    BY <1>9, Zenon DEF SetCrlEntries, cpVars
  <2>2. command.serials \in SUBSET Serials
    BY <1>0, <2>1 DEF ListsTyped, Command
  <2>3. QED BY <1>0, <2>1, <2>2 DEF ListsTyped
<1>10. CASE SetAuthorizedConnectors
  <2>1. PICK command \in commands :
          /\ command.kind = "authorized"
          /\ authorized' = command.connectors
          /\ commands' = commands \ {command}
          /\ UNCHANGED <<crl, revoked>>
    BY <1>10, Zenon DEF SetAuthorizedConnectors, cpVars
  <2>2. command.connectors \in SUBSET Connectors
    BY <1>0, <2>1 DEF ListsTyped, Command
  <2>3. QED BY <1>0, <2>1, <2>2 DEF ListsTyped
<1>11. CASE CloseAllConnectorConnection
  <2>1. commands' = commands \ {[kind |-> "closeAll"]} /\ UNCHANGED <<crl, authorized, revoked>>
    BY <1>11, Zenon DEF CloseAllConnectorConnection, lists, cpVars
  <2>2. QED BY <1>0, <2>1 DEF ListsTyped
<1>12. ASSUME NEW h \in Handlers, LookUp(h) PROVE ListsTyped'
  <2>1. PICK command \in commands :
          commands' = commands \ {command} /\ UNCHANGED <<crl, authorized, revoked>>
    BY <1>12, Zenon DEF LookUp, lists, cpVars
  <2>2. QED BY <1>0, <2>1 DEF ListsTyped
<1>13. CASE Restart
  <2> DEFINE busy == {g \in Handlers : handler[g].pc # "idle"}
  <2>1. PICK again \in SUBSET {Evict(handler[h].connector) : h \in busy} : commands' = commands \cup again
    BY <1>13, Zenon DEF Restart
  <2>2. \A h \in busy : Evict(handler[h].connector) \in Command
    BY <1>0, <1>2 DEF HandlersTyped
  <2>3. crl' = {} /\ authorized' = {} /\ revoked' = revoked
    BY <1>13, Zenon DEF Restart, cpVars
  <2> HIDE DEF busy
  <2>4. again \subseteq Command
    BY <2>1, <2>2
  <2>5. QED BY <1>0, <2>1, <2>3, <2>4 DEF ListsTyped
<1>14. ASSUME NEW m \in Mgmt, ManagementStep(m) PROVE UNCHANGED <<lists, revoked, commands>>
  BY <1>14, Zenon DEF ManagementStep, ServeManagement, OpenManagement, ReceiveHello, AttachManagement,
                      EndManagement, cpVars
<1>15. ASSUME NEW t \in Tunnels, TunnelStep(t) PROVE UNCHANGED <<lists, revoked, commands>>
  BY <1>15, Zenon DEF TunnelStep, ServeTunnel, OpenTunnel, AttachTunnel, EndTunnel, cpVars
<1>16. ASSUME NEW x \in Streams, Lose(x) PROVE UNCHANGED <<lists, revoked, commands>>
  BY <1>16, Zenon DEF Lose, cpVars
<1>17. ASSUME NEW h \in Handlers, HandlerStep(h), ~LookUp(h) PROVE UNCHANGED <<lists, revoked, commands>>
  BY <1>17, Zenon DEF HandlerStep, SendToConnector, CloseEvicted, ReadTunnel, DetachTunnel,
                      ReadManagement, DetachManagement, cpVars
<1>18. CASE VerifyGatewayConnections \/ (\E c \in Connectors : CloseUnverified(c))
  <2>1. UNCHANGED <<lists, revoked, commands>>
    BY <1>18, Zenon DEF VerifyGatewayConnections, CloseUnverified, cpVars
  <2>2. QED BY <1>4, <2>1
<1>19. CASE UNCHANGED vars
  BY <1>4, <1>19 DEF vars, cpVars
<1>20. CASE ClientStep
  BY <1>9, <1>10, <1>11, <1>18, <1>20, Zenon DEF ClientStep
<1>21. CASE ControlPlaneStep
  BY <1>5, <1>6, <1>7, <1>8, <1>21, Zenon DEF ControlPlaneStep
<1>22. ASSUME NEW h \in Handlers, HandlerStep(h) PROVE ListsTyped'
  BY <1>4, <1>12, <1>17, <1>22, Zenon
<1>23. QED
  BY <1>4, <1>13, <1>14, <1>15, <1>16, <1>19, <1>20, <1>21, <1>22, Zenon DEF Next

LEMMA HandlersStep == IInv /\ [Next]_vars => HandlersTyped'
<1> SUFFICES ASSUME IInv, [Next]_vars PROVE HandlersTyped'
  OBVIOUS
<1>0. HandlersTyped /\ EntriesTyped /\ RoutingTyped /\ ListsTyped
  BY DEF IInv
<1>1. CASE UNCHANGED handler
  BY <1>0, <1>1 DEF HandlersTyped
<1>2. ASSUME NEW h \in Handlers, NEW pc \in HandlerPcs, NEW arg \in Streams \cup {None},
             handler[h].pc # "idle", Advance(h, pc, arg)
      PROVE  HandlersTyped'
  BY <1>0, <1>2 DEF HandlersTyped, HandlerState, Advance
<1>3. ASSUME NEW h \in Handlers PROVE Pointed(h, "tunnel") \in Streams \cup {None}
                                      /\ Pointed(h, "mgmt") \in Streams \cup {None}
  <2>1. \A c : EntryOf(c) \in Entry
    BY <1>0, EntryOfTyped
  <2>2. QED BY <2>1 DEF Pointed, Registered, Entry, Streams
<1>4. ASSUME NEW h \in Handlers, LookUp(h) PROVE HandlersTyped'
  <2>1. PICK command \in commands :
          /\ command.kind = "evict"
          /\ \/ handler' = [handler EXCEPT ![h] =
                  [pc |-> "send", connector |-> command.connector,
                   object |-> incarnation[command.connector], arg |-> None]]
             \/ handler' = handler
    BY <1>4, Zenon DEF LookUp
  <2>2. command.connector \in Connectors
    BY <1>0, <2>1 DEF ListsTyped, Command
  <2>3. incarnation[command.connector] \in Nat
    BY <1>0, <2>2 DEF RoutingTyped
  <2>4. QED BY <1>0, <2>1, <2>2, <2>3 DEF HandlersTyped, HandlerState, HandlerPcs
<1>5. ASSUME NEW h \in Handlers, SendToConnector(h) \/ CloseEvicted(h) \/ DetachTunnel(h)
      PROVE  HandlersTyped'
  <2>1. handler[h].pc # "idle"
        /\ \E pc \in {"close", "readTunnel", "readManagement"} : Advance(h, pc, None)
    BY <1>5 DEF SendToConnector, CloseEvicted, DetachTunnel
  <2>2. QED BY <1>2, <2>1 DEF HandlerPcs
<1>6. ASSUME NEW h \in Handlers, ReadTunnel(h) \/ ReadManagement(h) PROVE HandlersTyped'
  <2>1. handler[h].pc # "idle"
        /\ \/ Advance(h, "detachTunnel", Pointed(h, "tunnel"))
           \/ Advance(h, "detachManagement", Pointed(h, "mgmt"))
    BY <1>6 DEF ReadTunnel, ReadManagement
  <2>2. QED BY <1>2, <1>3, <2>1 DEF HandlerPcs
<1>7. IdleHandler \in HandlerState /\ IdleHandler.pc = "idle"
  BY DEF IdleHandler, HandlerState, HandlerPcs
<1>8. ASSUME NEW h \in Handlers, DetachManagement(h) PROVE HandlersTyped'
  <2>1. handler' = [handler EXCEPT ![h] = IdleHandler]
    BY <1>8, Zenon DEF DetachManagement
  <2>2. QED BY <1>0, <1>7, <2>1 DEF HandlersTyped
<1>9. CASE Restart
  <2>1. handler' = [h \in Handlers |-> IdleHandler]
    BY <1>9, Zenon DEF Restart
  <2>2. QED BY <1>7, <2>1 DEF HandlersTyped
<1>10. ASSUME NEW m \in Mgmt, ManagementStep(m) PROVE UNCHANGED handler
  BY <1>10, Zenon DEF ManagementStep, ServeManagement, OpenManagement, ReceiveHello, AttachManagement,
                      EndManagement
<1>11. ASSUME NEW t \in Tunnels, TunnelStep(t) PROVE UNCHANGED handler
  BY <1>11, Zenon DEF TunnelStep, ServeTunnel, OpenTunnel, AttachTunnel, EndTunnel
<1>12. ASSUME NEW x \in Streams, Lose(x) PROVE UNCHANGED handler
  BY <1>12, Zenon DEF Lose
<1>13. CASE ClientStep
  <2>1. UNCHANGED handler
    <3>1. CASE CloseAllConnectorConnection
      BY <3>1, Zenon DEF CloseAllConnectorConnection
    <3>2. QED
      BY <1>13, <3>1, Zenon DEF ClientStep, VerifyGatewayConnections, CloseUnverified, SetCrlEntries,
                                SetAuthorizedConnectors
  <2>2. QED BY <1>1, <2>1
<1>14. CASE ControlPlaneStep
  <2>1. UNCHANGED handler
    BY <1>14, Zenon DEF ControlPlaneStep, RevokeConnector, RotateConnector, RotateGatewayCert, StartSession
  <2>2. QED BY <1>1, <2>1
<1>15. CASE UNCHANGED vars
  BY <1>1, <1>15 DEF vars
<1>16. ASSUME NEW h \in Handlers, HandlerStep(h) PROVE HandlersTyped'
  BY <1>4, <1>5, <1>6, <1>8, <1>16, Zenon DEF HandlerStep
<1>17. QED
  BY <1>1, <1>9, <1>10, <1>11, <1>12, <1>13, <1>14, <1>15, <1>16, Zenon DEF Next

LEMMA ClientVarsStep == IInv /\ [Next]_vars => ClientTyped'
<1> SUFFICES ASSUME IInv, [Next]_vars PROVE ClientTyped'
  OBVIOUS
<1>0. ClientTyped /\ EntriesTyped
  BY DEF IInv
<1>b. /\ MaxCommands \in Nat /\ MaxCloseAll \in Nat /\ MaxSessions \in Nat /\ MaxRestarts \in Nat
  BY BoundsAssumption
<1>1. CASE UNCHANGED <<verify, issued, rotations, restarts>>
  <2>1. verifyDue' \in BOOLEAN
    BY <1>0, <1>1, Zenon DEF ClientTyped, verify
  <2>2. UNCHANGED <<verifying, sessions, issued, rotations, restarts>>
    BY <1>1, Zenon DEF verify
  <2>3. QED BY <1>0, <2>1, <2>2 DEF ClientTyped
<1>2. CASE ControlPlaneStep
  <2>1. verifyDue' \in BOOLEAN
    BY <1>0, <1>2, Zenon DEF ClientTyped, ControlPlaneStep, RevokeConnector, RotateConnector,
                            RotateGatewayCert, StartSession, verify
  <2>2. /\ verifying' = verifying /\ restarts' = restarts
        /\ \/ issued' = issued
           \/ issued < MaxCommands /\ issued' = issued + 1
        /\ \/ rotations' = rotations
           \/ rotations < MaxCloseAll /\ rotations' = rotations + 1
        /\ \/ sessions' = sessions
           \/ sessions < MaxSessions /\ sessions' = sessions + 1
    BY <1>2, Zenon DEF ControlPlaneStep, RevokeConnector, RotateConnector, RotateGatewayCert,
                       StartSession, verify, cpVars
  <2>3. QED BY <1>0, <1>b, <2>1, <2>2 DEF ClientTyped
<1>3. CASE VerifyGatewayConnections
  <2>1. verifyDue' \in BOOLEAN
    BY <1>3, Zenon DEF VerifyGatewayConnections
  <2>2. /\ verifying' = {c \in DOMAIN entries : c \notin authorized \/ ConnectorRevoked(entries[c])}
        /\ UNCHANGED <<sessions, issued, rotations, restarts>>
    BY <1>3, Zenon DEF VerifyGatewayConnections, cpVars
  <2>3. verifying' \in SUBSET Connectors
    BY <1>0, <2>2 DEF EntriesTyped
  <2>4. QED BY <1>0, <2>1, <2>2, <2>3 DEF ClientTyped
<1>4. ASSUME NEW c \in Connectors, CloseUnverified(c) PROVE ClientTyped'
  <2>1. verifyDue' \in BOOLEAN
    BY <1>0, <1>4, Zenon DEF CloseUnverified, ClientTyped
  <2>2. verifying' = verifying \ {c} /\ UNCHANGED <<sessions, issued, rotations, restarts>>
    BY <1>4, Zenon DEF CloseUnverified, cpVars
  <2>3. QED BY <1>0, <2>1, <2>2 DEF ClientTyped
<1>5. CASE Restart
  <2>1. verifyDue' \in BOOLEAN
    BY <1>5, Zenon DEF Restart
  <2>2. /\ verifying' = {} /\ UNCHANGED <<sessions, issued, rotations>>
        /\ restarts' = IF restarts < MaxRestarts THEN restarts + 1 ELSE restarts
    BY <1>5, Zenon DEF Restart, cpVars
  <2>3. QED BY <1>0, <1>b, <2>1, <2>2 DEF ClientTyped
<1>6. ASSUME NEW m \in Mgmt, ManagementStep(m) PROVE UNCHANGED <<verify, issued, rotations, restarts>>
  BY <1>6, Zenon DEF ManagementStep, ServeManagement, OpenManagement, ReceiveHello, AttachManagement,
                     EndManagement, cpVars
<1>7. ASSUME NEW t \in Tunnels, TunnelStep(t) PROVE UNCHANGED <<verify, issued, rotations, restarts>>
  BY <1>7, Zenon DEF TunnelStep, ServeTunnel, OpenTunnel, AttachTunnel, EndTunnel, cpVars
<1>8. ASSUME NEW x \in Streams, Lose(x) PROVE UNCHANGED <<verify, issued, rotations, restarts>>
  BY <1>8, Zenon DEF Lose, cpVars
<1>9. ASSUME NEW h \in Handlers, HandlerStep(h) PROVE UNCHANGED <<verify, issued, rotations, restarts>>
  BY <1>9, Zenon DEF HandlerStep, LookUp, SendToConnector, CloseEvicted, ReadTunnel, DetachTunnel,
                     ReadManagement, DetachManagement, cpVars
<1>10. CASE SetCrlEntries \/ SetAuthorizedConnectors
  <2>1. UNCHANGED <<verify, issued, rotations, restarts>>
    BY <1>10, Zenon DEF SetCrlEntries, SetAuthorizedConnectors, cpVars
  <2>2. QED BY <1>1, <2>1
<1>11. CASE CloseAllConnectorConnection
  <2>1. UNCHANGED <<verify, issued, rotations, restarts>>
    BY <1>11, Zenon DEF CloseAllConnectorConnection, cpVars
  <2>2. QED BY <1>1, <2>1
<1>12. CASE UNCHANGED vars
  BY <1>1, <1>12 DEF vars, cpVars
<1>13. QED
  BY <1>1, <1>2, <1>3, <1>4, <1>5, <1>6, <1>7, <1>8, <1>9, <1>10, <1>11, <1>12, Zenon DEF Next, ClientStep
-----------------------------------------------------------------------------
(* SessionsServed.  What matters of a step is what it does to the entries,  *)
(* and that no stream leaves "running" while its session is registered.     *)

(* Entries lose sessions only: each one left was registered before.         *)
Fewer ==
  /\ DOMAIN entries' \subseteq DOMAIN entries
  /\ \A c \in DOMAIN entries' : \A plane \in Planes :
       entries'[c][plane] # None => entries'[c][plane] = entries[c][plane]

LEMMA DetachFewer ==
  ASSUME EntriesTyped, NEW c \in Connectors, NEW plane \in Planes, NEW session,
         Detach(c, plane, session)
  PROVE  Fewer /\ (session # None => \A d \in DOMAIN entries' : d = c => entries'[d][plane] # session)
<1>1. CASE UNCHANGED registry /\ (c \notin DOMAIN entries \/ Registered(c, plane) # session)
  BY <1>1 DEF registry, Fewer, Registered, EntryOf
<1>2. CASE c \in DOMAIN entries /\ RemoveIfFullyDetached(c, [entries[c] EXCEPT ![plane] = None])
  <2> DEFINE left == [entries[c] EXCEPT ![plane] = None]
  <2>1. \A p \in Planes : left[p] = IF p = plane THEN None ELSE entries[c][p]
    BY <1>2 DEF EntriesTyped, Entry, Planes
  <2>2. CASE PutEntry(c, left)
    <3> HIDE DEF left
    <3>1. QED BY <1>2, <2>1, <2>2 DEF PutEntry, Fewer
  <2>3. CASE entries' = Restrict(entries, DOMAIN entries \ {c})
    BY <2>3 DEF Restrict, Fewer
  <2>4. QED BY <1>2, <2>2, <2>3 DEF RemoveIfFullyDetached
<1>3. QED BY <1>1, <1>2 DEF Detach

LEMMA FewerServed ==
  ASSUME SessionsServed, Fewer,
         \A c \in DOMAIN entries' : \A plane \in Planes :
           entries'[c][plane] # None => phase'[entries'[c][plane]] = phase[entries'[c][plane]]
  PROVE  SessionsServed'
BY DEF SessionsServed, Fewer

(* Attaching a stream that starts to run keeps every other entry as it is.  *)
LEMMA AttachServed ==
  ASSUME SessionsServed, StreamsTyped, NEW x \in Streams, NEW entry,
         phase' = [phase EXCEPT ![x] = "running"],
         PutEntry(Owner[x], entry),
         entry[PlaneOf(x)] = x,
         \A plane \in Planes : plane # PlaneOf(x) => entry[plane] = EntryOf(Owner[x])[plane]
  PROVE  SessionsServed'
<1>1. ASSUME NEW c \in DOMAIN entries', NEW plane \in Planes, entries'[c][plane] # None
      PROVE  /\ phase'[entries'[c][plane]] = "running"
             /\ Owner[entries'[c][plane]] = c
             /\ PlaneOf(entries'[c][plane]) = plane
  <2>1. CASE c = Owner[x] /\ plane = PlaneOf(x)
    <3>1. entries'[c][plane] = x
      BY <2>1 DEF PutEntry
    <3>2. phase'[x] = "running"
      BY DEF StreamsTyped
    <3>3. QED BY <2>1, <3>1, <3>2
  <2>2. CASE ~(c = Owner[x] /\ plane = PlaneOf(x))
    <3>1. c \in DOMAIN entries /\ entries'[c][plane] = entries[c][plane]
      <4>1. CASE c = Owner[x]
        <5>1. entries'[c][plane] = EntryOf(c)[plane]
          BY <2>2, <4>1 DEF PutEntry
        <5>2. QED BY <1>1, <5>1 DEF EntryOf, NewEntry, Planes
      <4>2. CASE c # Owner[x]
        BY <4>2 DEF PutEntry
      <4>3. QED BY <4>1, <4>2
    <3>2. /\ phase[entries'[c][plane]] = "running"
          /\ Owner[entries'[c][plane]] = c
          /\ PlaneOf(entries'[c][plane]) = plane
      BY <1>1, <3>1 DEF SessionsServed
    <3>3. phase'[entries'[c][plane]] = "running"
      BY <3>2 DEF StreamsTyped
    <3>4. QED BY <3>2, <3>3
  <2>3. QED BY <2>1, <2>2
<1>2. QED BY <1>1 DEF SessionsServed

LEMMA SessionsStep == IInv /\ [Next]_vars => SessionsServed'
<1> SUFFICES ASSUME IInv, [Next]_vars PROVE SessionsServed'
  OBVIOUS
<1>0. SessionsServed /\ StreamsTyped /\ EntriesTyped /\ RoutingTyped /\ HandlersTyped
  BY DEF IInv
(* Steps that leave the entries alone and move only streams that do not run. *)
<1>1. ASSUME UNCHANGED entries,
             \A x \in Streams : phase[x] = "running" => phase'[x] = "running"
      PROVE  SessionsServed'
  <2>1. \A c \in DOMAIN entries : \A plane \in Planes :
          entries[c][plane] # None => entries[c][plane] \in Streams
    BY <1>0 DEF EntriesTyped, Entry, Streams, Planes
  <2>2. QED BY <1>0, <1>1, <2>1 DEF SessionsServed
(* A detach takes the session out; the stream that ends is not registered.   *)
<1>2. ASSUME NEW x \in Streams, phase' = [phase EXCEPT ![x] = "done"], Detach(Owner[x], PlaneOf(x), x)
      PROVE  SessionsServed'
  <2>1. Owner[x] \in Connectors /\ PlaneOf(x) \in Planes /\ x # None
    BY StreamsAssumption DEF PlaneOf, Planes
  <2>2. Fewer /\ \A d \in DOMAIN entries' : d = Owner[x] => entries'[d][PlaneOf(x)] # x
    BY <1>0, <1>2, <2>1, DetachFewer
  <2>3. ASSUME NEW c \in DOMAIN entries', NEW plane \in Planes, entries'[c][plane] # None
        PROVE  phase'[entries'[c][plane]] = phase[entries'[c][plane]]
    <3>1. c \in DOMAIN entries /\ entries'[c][plane] = entries[c][plane]
      BY <2>2, <2>3 DEF Fewer
    <3>2. Owner[entries'[c][plane]] = c /\ PlaneOf(entries'[c][plane]) = plane
      BY <1>0, <2>3, <3>1 DEF SessionsServed
    <3>3. entries'[c][plane] # x
      BY <2>2, <3>2
    <3>4. QED BY <1>0, <1>2, <3>3 DEF StreamsTyped
  <2>4. QED BY <1>0, <2>2, <2>3, FewerServed
<1>3. ASSUME NEW m \in Mgmt, AttachManagement(m) PROVE SessionsServed'
  <2> DEFINE entry == [EntryOf(Owner[m]) EXCEPT !.mgmt = m, !.apps = Apps[m], !.grpcCert = Serial[m]]
  <2>1. phase' = [phase EXCEPT ![m] = "running"] /\ PutEntry(Owner[m], entry)
    BY <1>3 DEF AttachManagement
  <2>2. m \in Streams /\ PlaneOf(m) = "mgmt"
    BY DEF Streams, PlaneOf
  <2>3. EntryOf(Owner[m]) \in Entry
    BY <1>0, EntryOfTyped
  <2>4. entry["mgmt"] = m /\ entry["tunnel"] = EntryOf(Owner[m])["tunnel"]
    BY <2>3 DEF Entry
  <2> HIDE DEF entry
  <2>5. \A plane \in Planes : plane # PlaneOf(m) => entry[plane] = EntryOf(Owner[m])[plane]
    BY <2>2, <2>4 DEF Planes
  <2>6. QED BY <1>0, <2>1, <2>2, <2>4, <2>5, AttachServed
<1>4. ASSUME NEW t \in Tunnels, AttachTunnel(t) PROVE SessionsServed'
  <2> DEFINE entry == [EntryOf(Owner[t]) EXCEPT !.tunnel = t, !.quicCert = Serial[t]]
  <2>1. phase' = [phase EXCEPT ![t] = "running"] /\ PutEntry(Owner[t], entry)
    BY <1>4 DEF AttachTunnel
  <2>2. t \in Streams /\ PlaneOf(t) = "tunnel"
    BY StreamsAssumption DEF Streams, PlaneOf
  <2>3. EntryOf(Owner[t]) \in Entry
    BY <1>0, EntryOfTyped
  <2>4. entry["tunnel"] = t /\ entry["mgmt"] = EntryOf(Owner[t])["mgmt"]
    BY <2>3 DEF Entry
  <2> HIDE DEF entry
  <2>5. \A plane \in Planes : plane # PlaneOf(t) => entry[plane] = EntryOf(Owner[t])[plane]
    BY <2>2, <2>4 DEF Planes
  <2>6. QED BY <1>0, <2>1, <2>2, <2>4, <2>5, AttachServed
<1>5. ASSUME NEW m \in Mgmt, EndManagement(m) PROVE SessionsServed'
  <2>1. m \in Streams /\ PlaneOf(m) = "mgmt"
    BY DEF Streams, PlaneOf
  <2>2. phase' = [phase EXCEPT ![m] = "done"] /\ Detach(Owner[m], "mgmt", m)
    BY <1>5 DEF EndManagement
  <2>3. QED BY <1>2, <2>1, <2>2
<1>6. ASSUME NEW t \in Tunnels, EndTunnel(t) PROVE SessionsServed'
  <2>1. t \in Streams /\ PlaneOf(t) = "tunnel"
    BY StreamsAssumption DEF Streams, PlaneOf
  <2>2. phase' = [phase EXCEPT ![t] = "done"] /\ Detach(Owner[t], "tunnel", t)
    BY <1>6 DEF EndTunnel
  <2>3. QED BY <1>2, <2>1, <2>2
<1>7. ASSUME NEW h \in Handlers, DetachTunnel(h) \/ DetachManagement(h) PROVE SessionsServed'
  <2>1. handler[h].connector \in Connectors /\ phase' = phase
    BY <1>0, <1>7 DEF HandlersTyped, DetachTunnel, DetachManagement
  <2>2. \E plane \in Planes : Detach(handler[h].connector, plane, handler[h].arg)
    BY <1>7 DEF DetachTunnel, DetachManagement, Planes
  <2>3. Fewer
    BY <1>0, <2>1, <2>2, DetachFewer
  <2>4. QED BY <1>0, <2>1, <2>3, FewerServed
<1>8. CASE CloseAllConnectorConnection
  <2>1. /\ entries' = [c \in DOMAIN entries |-> [entries[c] EXCEPT !.mgmt = None, !.tunnel = None]]
        /\ phase' = phase
    BY <1>8, Zenon DEF CloseAllConnectorConnection
  <2>2. \A c \in DOMAIN entries' : entries'[c]["mgmt"] = None /\ entries'[c]["tunnel"] = None
    BY <1>0, <2>1 DEF EntriesTyped, Entry
  <2>3. QED BY <2>2 DEF SessionsServed, Planes
<1>9. CASE Restart
  <2>1. entries' = << >>
    BY <1>9, Zenon DEF Restart
  <2>2. QED BY <2>1 DEF SessionsServed
<1>10. ASSUME NEW m \in Mgmt, OpenManagement(m) \/ ReceiveHello(m) PROVE SessionsServed'
  <2>1. UNCHANGED entries /\ phase[m] # "running" /\ \E p : phase' = [phase EXCEPT ![m] = p]
    <3>1. UNCHANGED entries /\ \E p : phase' = [phase EXCEPT ![m] = p]
      BY <1>10, Zenon DEF OpenManagement, ReceiveHello, registry
    <3>2. phase[m] # "running"
      BY <1>10 DEF OpenManagement, ReceiveHello
    <3>3. QED BY <3>1, <3>2
  <2>2. QED BY <1>0, <1>1, <2>1 DEF StreamsTyped
<1>11. ASSUME NEW t \in Tunnels, OpenTunnel(t) PROVE SessionsServed'
  <2>1. UNCHANGED entries /\ phase[t] # "running" /\ \E p : phase' = [phase EXCEPT ![t] = p]
    <3>1. UNCHANGED entries /\ \E p : phase' = [phase EXCEPT ![t] = p]
      BY <1>11, Zenon DEF OpenTunnel, registry
    <3>2. phase[t] # "running"
      BY <1>11 DEF OpenTunnel
    <3>3. QED BY <3>1, <3>2
  <2>2. QED BY <1>0, <1>1, <2>1 DEF StreamsTyped
<1>12. ASSUME UNCHANGED <<phase, entries>> PROVE SessionsServed'
  BY <1>1, <1>12
<1>13. ASSUME NEW x \in Streams, Lose(x) PROVE SessionsServed'
  BY <1>12, <1>13, Zenon DEF Lose, registry
<1>14. ASSUME NEW h \in Handlers,
              LookUp(h) \/ SendToConnector(h) \/ CloseEvicted(h) \/ ReadTunnel(h) \/ ReadManagement(h)
       PROVE  SessionsServed'
  BY <1>12, <1>14, Zenon DEF LookUp, SendToConnector, CloseEvicted, ReadTunnel, ReadManagement, registry
<1>15. CASE ControlPlaneStep
  BY <1>12, <1>15, Zenon DEF ControlPlaneStep, RevokeConnector, RotateConnector, RotateGatewayCert,
                             StartSession, registry
<1>16. CASE VerifyGatewayConnections \/ (\E c \in Connectors : CloseUnverified(c))
            \/ SetCrlEntries \/ SetAuthorizedConnectors
  BY <1>12, <1>16, Zenon DEF VerifyGatewayConnections, CloseUnverified, SetCrlEntries,
                             SetAuthorizedConnectors, registry
<1>17. CASE UNCHANGED vars
  BY <1>12, <1>17, Zenon DEF vars, registry
<1>18. ASSUME NEW h \in Handlers, HandlerStep(h) PROVE SessionsServed'
  BY <1>7, <1>14, <1>18, Zenon DEF HandlerStep
<1>19. ASSUME NEW m \in Mgmt, ManagementStep(m) PROVE SessionsServed'
  BY <1>3, <1>5, <1>10, <1>19, Zenon DEF ManagementStep, ServeManagement
<1>20. ASSUME NEW t \in Tunnels, TunnelStep(t) PROVE SessionsServed'
  BY <1>4, <1>6, <1>11, <1>20, Zenon DEF TunnelStep, ServeTunnel
<1>21. QED
  BY <1>8, <1>9, <1>13, <1>15, <1>16, <1>17, <1>18, <1>19, <1>20, Zenon DEF Next, ClientStep
-----------------------------------------------------------------------------
LEMMA InductiveInvariant == Spec => []IInv
<1>1. IInv /\ [Next]_vars => IInv'
  BY StreamsStep, RegistryStep, ListsStep, HandlersStep, ClientVarsStep, SessionsStep, Zenon DEF IInv
<1>2. QED BY InitInv, <1>1, PTL DEF Spec

(* The variables stay within their types: no step of any interleaving makes *)
(* the registry hold something that is not a session, an entry or a list.   *)
THEOREM RegistryTypeCorrect == Spec => []TypeOK
<1>1. IInv => TypeOK
  BY Zenon DEF IInv, TypeOK, StreamsTyped, EntriesTyped, RoutingTyped, ListsTyped, HandlersTyped, ClientTyped
<1>2. QED BY InductiveInvariant, <1>1, PTL

(* Whatever attaches, ends, is displaced, evicted, or closed in any order,   *)
(* an entry never holds the session of a handler that has returned.          *)
THEOREM SessionsServedHolds == Spec => []SessionsServed
<1>1. IInv => SessionsServed
  BY DEF IInv
<1>2. QED BY InductiveInvariant, <1>1, PTL
-----------------------------------------------------------------------------
(* OpenIsRegistered, while no eviction is handled.                          *)

(* A detach takes out no session but the one it names.                      *)
LEMMA DetachKeeps ==
  ASSUME EntriesTyped, NEW c \in Connectors, NEW plane \in Planes, NEW session,
         Detach(c, plane, session),
         NEW d \in DOMAIN entries, NEW p \in Planes, entries[d][p] # None, entries[d][p] # session
  PROVE  d \in DOMAIN entries' /\ entries'[d][p] = entries[d][p]
<1>1. CASE UNCHANGED registry
  BY <1>1 DEF registry
<1>2. CASE /\ c \in DOMAIN entries
           /\ entries[c][plane] = session
           /\ RemoveIfFullyDetached(c, [entries[c] EXCEPT ![plane] = None])
  <2> DEFINE left == [entries[c] EXCEPT ![plane] = None]
  <2>1. \A q \in Planes : left[q] = IF q = plane THEN None ELSE entries[c][q]
    BY <1>2 DEF EntriesTyped, Entry, Planes
  <2>2. left["mgmt"] = left.mgmt /\ left["tunnel"] = left.tunnel
    OBVIOUS
  <2>3. d = c => p # plane /\ left[p] = entries[c][p]
    BY <1>2, <2>1
  <2>4. CASE PutEntry(c, left)
    <3> HIDE DEF left
    <3>1. QED BY <2>3, <2>4 DEF PutEntry
  <2>5. CASE /\ ~(left.mgmt # None \/ left.tunnel # None)
             /\ entries' = Restrict(entries, DOMAIN entries \ {c})
    <3> HIDE DEF left
    <3>1. d # c
      BY <2>2, <2>3, <2>5 DEF Planes
    <3>2. QED BY <2>5, <3>1 DEF Restrict
  <2>6. QED BY <1>2, <2>4, <2>5 DEF RemoveIfFullyDetached
<1>3. QED BY <1>1, <1>2 DEF Detach, Registered, EntryOf

LEMMA IsRegisteredMeans ==
  ASSUME NEW x \in Streams, x # None
  PROVE  IsRegistered(x) <=> Owner[x] \in DOMAIN entries /\ entries[Owner[x]][PlaneOf(x)] = x
<1>1. PlaneOf(x) \in Planes
  BY DEF PlaneOf, Planes
<1>2. NewEntry[PlaneOf(x)] = None
  BY <1>1 DEF NewEntry, Planes
<1>3. QED BY <1>2 DEF IsRegistered, Registered, EntryOf

LEMMA IsRegisteredMeansNext ==
  ASSUME NEW x \in Streams, x # None
  PROVE  IsRegistered(x)' <=> Owner[x] \in DOMAIN entries' /\ entries'[Owner[x]][PlaneOf(x)] = x
<1>1. PlaneOf(x) \in Planes
  BY DEF PlaneOf, Planes
<1>2. NewEntry[PlaneOf(x)] = None
  BY <1>1 DEF NewEntry, Planes
<1>3. QED BY <1>2 DEF IsRegistered, Registered, EntryOf

(* The stream that attaches is registered, the one it displaces is closed.  *)
LEMMA AttachOpen ==
  ASSUME StreamsTyped, OpenIsRegistered, NEW x \in Streams, NEW entry,
         phase' = [phase EXCEPT ![x] = "running"],
         live' = live \ {Registered(Owner[x], PlaneOf(x))},
         PutEntry(Owner[x], entry),
         entry[PlaneOf(x)] = x,
         \A plane \in Planes : plane # PlaneOf(x) => entry[plane] = EntryOf(Owner[x])[plane]
  PROVE  OpenIsRegistered'
<1> SUFFICES ASSUME NEW y \in live', phase'[y] = "running" PROVE IsRegistered(y)'
  BY DEF OpenIsRegistered
<1>0. y \in live /\ y \in Streams /\ y # None /\ x # None
  BY StreamsAssumption DEF StreamsTyped
<1>1. CASE y = x
  <2>1. Owner[x] \in DOMAIN entries' /\ entries'[Owner[x]][PlaneOf(x)] = x
    BY DEF PutEntry
  <2>2. QED BY <1>0, <1>1, <2>1, IsRegisteredMeansNext
<1>2. CASE y # x
  <2>1. phase[y] = "running"
    BY <1>0, <1>2 DEF StreamsTyped
  <2>2. Registered(Owner[y], PlaneOf(y)) = y
    BY <1>0, <2>1 DEF OpenIsRegistered, IsRegistered
  <2>3. Owner[y] \in DOMAIN entries /\ entries[Owner[y]][PlaneOf(y)] = y
    BY <1>0, <2>1, IsRegisteredMeans DEF OpenIsRegistered
  <2>4. ~(Owner[y] = Owner[x] /\ PlaneOf(y) = PlaneOf(x))
    BY <2>2
  <2>5. PlaneOf(y) \in Planes
    BY DEF PlaneOf, Planes
  <2>6. Owner[y] \in DOMAIN entries' /\ entries'[Owner[y]][PlaneOf(y)] = y
    BY <2>3, <2>4, <2>5 DEF PutEntry, EntryOf
  <2>7. QED BY <1>0, <2>6, IsRegisteredMeansNext
<1>3. QED BY <1>1, <1>2

LEMMA OpenStep ==
  ASSUME Handlers = {}, IInv, OpenIsRegistered, [Next]_vars
  PROVE  OpenIsRegistered'
<1>0. SessionsServed /\ StreamsTyped /\ EntriesTyped
  BY DEF IInv
<1>1. ASSUME UNCHANGED entries,
             \A x \in live' : x \in Streams /\ (phase'[x] = "running" => x \in live /\ phase[x] = "running")
      PROVE  OpenIsRegistered'
  BY <1>1 DEF OpenIsRegistered, IsRegistered, Registered, EntryOf
<1>2. ASSUME NEW x \in Streams, x \notin live, phase' = [phase EXCEPT ![x] = "done"], live' = live,
             Detach(Owner[x], PlaneOf(x), x)
      PROVE  OpenIsRegistered'
  <2> SUFFICES ASSUME NEW y \in live, phase'[y] = "running" PROVE IsRegistered(y)'
    BY <1>2 DEF OpenIsRegistered
  <2>1. y \in Streams /\ y # None /\ y # x /\ phase[y] = "running"
    BY <1>0, <1>2, StreamsAssumption DEF StreamsTyped
  <2>2. Owner[y] \in DOMAIN entries /\ entries[Owner[y]][PlaneOf(y)] = y
    BY <2>1, IsRegisteredMeans DEF OpenIsRegistered
  <2>3. Owner[x] \in Connectors /\ PlaneOf(x) \in Planes /\ PlaneOf(y) \in Planes
    BY StreamsAssumption DEF PlaneOf, Planes
  <2>4. Owner[y] \in DOMAIN entries' /\ entries'[Owner[y]][PlaneOf(y)] = y
    BY <1>0, <1>2, <2>1, <2>2, <2>3, DetachKeeps
  <2>5. QED BY <2>1, <2>4, IsRegisteredMeansNext
<1>3. ASSUME NEW m \in Mgmt, AttachManagement(m) PROVE OpenIsRegistered'
  <2> DEFINE entry == [EntryOf(Owner[m]) EXCEPT !.mgmt = m, !.apps = Apps[m], !.grpcCert = Serial[m]]
  <2>1. /\ phase' = [phase EXCEPT ![m] = "running"] /\ PutEntry(Owner[m], entry)
        /\ live' = live \ {Registered(Owner[m], "mgmt")}
    BY <1>3 DEF AttachManagement
  <2>2. m \in Streams /\ PlaneOf(m) = "mgmt"
    BY DEF Streams, PlaneOf
  <2>3. EntryOf(Owner[m]) \in Entry
    BY <1>0, EntryOfTyped
  <2>4. entry["mgmt"] = m /\ entry["tunnel"] = EntryOf(Owner[m])["tunnel"]
    BY <2>3 DEF Entry
  <2> HIDE DEF entry
  <2>5. \A plane \in Planes : plane # PlaneOf(m) => entry[plane] = EntryOf(Owner[m])[plane]
    BY <2>2, <2>4 DEF Planes
  <2>6. QED BY <1>0, <2>1, <2>2, <2>4, <2>5, AttachOpen
<1>4. ASSUME NEW t \in Tunnels, AttachTunnel(t) PROVE OpenIsRegistered'
  <2> DEFINE entry == [EntryOf(Owner[t]) EXCEPT !.tunnel = t, !.quicCert = Serial[t]]
  <2>1. /\ phase' = [phase EXCEPT ![t] = "running"] /\ PutEntry(Owner[t], entry)
        /\ live' = live \ {Registered(Owner[t], "tunnel")}
    BY <1>4 DEF AttachTunnel
  <2>2. t \in Streams /\ PlaneOf(t) = "tunnel"
    BY StreamsAssumption DEF Streams, PlaneOf
  <2>3. EntryOf(Owner[t]) \in Entry
    BY <1>0, EntryOfTyped
  <2>4. entry["tunnel"] = t /\ entry["mgmt"] = EntryOf(Owner[t])["mgmt"]
    BY <2>3 DEF Entry
  <2> HIDE DEF entry
  <2>5. \A plane \in Planes : plane # PlaneOf(t) => entry[plane] = EntryOf(Owner[t])[plane]
    BY <2>2, <2>4 DEF Planes
  <2>6. QED BY <1>0, <2>1, <2>2, <2>4, <2>5, AttachOpen
<1>5. ASSUME NEW m \in Mgmt, EndManagement(m) PROVE OpenIsRegistered'
  <2>1. m \in Streams /\ PlaneOf(m) = "mgmt"
    BY DEF Streams, PlaneOf
  <2>2. m \notin live /\ phase' = [phase EXCEPT ![m] = "done"] /\ live' = live /\ Detach(Owner[m], "mgmt", m)
    BY <1>5 DEF EndManagement
  <2>3. QED BY <1>2, <2>1, <2>2
<1>6. ASSUME NEW t \in Tunnels, EndTunnel(t) PROVE OpenIsRegistered'
  <2>1. t \in Streams /\ PlaneOf(t) = "tunnel"
    BY StreamsAssumption DEF Streams, PlaneOf
  <2>2. t \notin live /\ phase' = [phase EXCEPT ![t] = "done"] /\ live' = live /\ Detach(Owner[t], "tunnel", t)
    BY <1>6 DEF EndTunnel
  <2>3. QED BY <1>2, <2>1, <2>2
<1>7. CASE CloseAllConnectorConnection
  <2>1. /\ live' = {x \in live : \A c \in DOMAIN entries : x \notin {entries[c].mgmt, entries[c].tunnel}}
        /\ phase' = phase
    BY <1>7, Zenon DEF CloseAllConnectorConnection
  <2>2. ASSUME NEW x \in live', phase'[x] = "running" PROVE FALSE
    <3>1. x \in live /\ x \in Streams /\ x # None /\ phase[x] = "running"
      BY <1>0, <2>1, <2>2, StreamsAssumption DEF StreamsTyped
    <3>2. Owner[x] \in DOMAIN entries /\ entries[Owner[x]][PlaneOf(x)] = x
      BY <3>1, IsRegisteredMeans DEF OpenIsRegistered
    <3>3. entries[Owner[x]].mgmt = x \/ entries[Owner[x]].tunnel = x
      BY <3>2 DEF PlaneOf
    <3>4. QED BY <2>1, <3>2, <3>3
  <2>3. QED BY <2>2 DEF OpenIsRegistered
<1>8. CASE Restart
  <2>1. live' = {}
    BY <1>8, Zenon DEF Restart
  <2>2. QED BY <2>1 DEF OpenIsRegistered
<1>9. ASSUME NEW m \in Mgmt, OpenManagement(m) \/ ReceiveHello(m) PROVE OpenIsRegistered'
  <2>1. /\ UNCHANGED entries
        /\ \E p \in {"hello", "authorized", "done"} : phase' = [phase EXCEPT ![m] = p]
    BY <1>9, Zenon DEF OpenManagement, ReceiveHello, registry
  <2>2. live' \in SUBSET (live \cup {m}) /\ m \in Streams
    BY <1>9 DEF OpenManagement, ReceiveHello, Streams
  <2>3. QED BY <1>0, <1>1, <2>1, <2>2 DEF StreamsTyped
<1>10. ASSUME NEW t \in Tunnels, OpenTunnel(t) PROVE OpenIsRegistered'
  <2>1. UNCHANGED entries /\ \E p \in {"checked", "done"} : phase' = [phase EXCEPT ![t] = p]
    BY <1>10, Zenon DEF OpenTunnel, registry
  <2>2. live' \in SUBSET (live \cup {t}) /\ t \in Streams
    BY <1>10 DEF OpenTunnel, Streams
  <2>3. QED BY <1>0, <1>1, <2>1, <2>2 DEF StreamsTyped
<1>11. ASSUME UNCHANGED <<phase, entries>>, live' \in SUBSET live PROVE OpenIsRegistered'
  BY <1>0, <1>1, <1>11 DEF StreamsTyped
<1>12. ASSUME NEW x \in Streams, Lose(x) PROVE OpenIsRegistered'
  BY <1>11, <1>12 DEF Lose, registry
<1>13. ASSUME UNCHANGED <<phase, live, registry>> PROVE OpenIsRegistered'
  BY <1>11, <1>13 DEF registry
<1>14. CASE ControlPlaneStep
  BY <1>13, <1>14, Zenon DEF ControlPlaneStep, RevokeConnector, RotateConnector, RotateGatewayCert, StartSession
<1>15. CASE VerifyGatewayConnections \/ SetCrlEntries \/ SetAuthorizedConnectors
  BY <1>13, <1>15, Zenon DEF VerifyGatewayConnections, SetCrlEntries, SetAuthorizedConnectors
<1>16. ASSUME NEW c \in Connectors, CloseUnverified(c) PROVE OpenIsRegistered'
  BY <1>11, <1>16 DEF CloseUnverified, ForceClose, registry
<1>17. CASE UNCHANGED vars
  BY <1>13, <1>17 DEF vars
<1>18. ASSUME NEW m \in Mgmt, ManagementStep(m) PROVE OpenIsRegistered'
  BY <1>3, <1>5, <1>9, <1>18, Zenon DEF ManagementStep, ServeManagement
<1>19. ASSUME NEW t \in Tunnels, TunnelStep(t) PROVE OpenIsRegistered'
  BY <1>4, <1>6, <1>10, <1>19, Zenon DEF TunnelStep, ServeTunnel
<1>20. ~ \E h \in Handlers : HandlerStep(h)
  OBVIOUS
<1>21. QED
  BY <1>7, <1>8, <1>12, <1>14, <1>15, <1>16, <1>17, <1>18, <1>19, <1>20, Zenon DEF Next, ClientStep

(* While no eviction command is handled, a connector has at most one open    *)
(* attached connection on each plane, and it is the one requests are sent to.*)
THEOREM OpenIsRegisteredHolds ==
  ASSUME Handlers = {}
  PROVE  Spec => []OpenIsRegistered
<1>1. Init => OpenIsRegistered
  BY DEF Init, OpenIsRegistered
<1>2. IInv /\ OpenIsRegistered /\ [Next]_vars => OpenIsRegistered'
  BY OpenStep
<1>3. QED BY InductiveInvariant, <1>1, <1>2, PTL DEF Spec
-----------------------------------------------------------------------------
(* RoutesExact, when no two connectors announce the same application.  A    *)
(* connector may announce another list on each stream, and an entry a tunnel *)
(* made has no applications yet; what the others list, one of the streams   *)
(* that attached has announced.                                             *)

DisjointApps == \A m, n \in Mgmt : Owner[m] # Owner[n] => Apps[m] \cap Apps[n] = {}

Announced ==
  \A c \in DOMAIN entries :
    \/ entries[c].apps = {}
    \/ \E n \in Mgmt : Owner[n] = c /\ Past(n) /\ entries[c].apps = Apps[n]

(* A stream that has attached, or was refused, never comes back.            *)
LEMMA PastStays ==
  ASSUME StreamsTyped, [Next]_vars, NEW m \in Mgmt, Past(m)
  PROVE  Past(m)'
<1>0. /\ phase \in [Streams -> Phases] /\ m \in Streams /\ m \notin Tunnels
      /\ phase[m] \in {"running", "done"}
  BY StreamsAssumption DEF StreamsTyped, Streams, Past
<1> SUFFICES phase'[m] \in {"running", "done"}
  BY DEF Past
<1>1. CASE UNCHANGED phase
  BY <1>0, <1>1
<1>2. ASSUME NEW n \in Mgmt, ManagementStep(n) PROVE phase'[m] \in {"running", "done"}
  BY <1>0, <1>2
     DEF ManagementStep, ServeManagement, OpenManagement, ReceiveHello, AttachManagement, EndManagement
<1>3. ASSUME NEW t \in Tunnels, TunnelStep(t) PROVE phase'[m] \in {"running", "done"}
  BY <1>0, <1>3 DEF TunnelStep, ServeTunnel, OpenTunnel, AttachTunnel, EndTunnel
<1>4. CASE Restart
  BY <1>0, <1>4 DEF Restart
<1>5. ASSUME NEW x \in Streams, Lose(x) PROVE UNCHANGED phase
  BY <1>5 DEF Lose
<1>6. ASSUME NEW h \in Handlers, HandlerStep(h) PROVE UNCHANGED phase
  BY <1>6, Zenon DEF HandlerStep, LookUp, SendToConnector, CloseEvicted, ReadTunnel, DetachTunnel,
       ReadManagement, DetachManagement
<1>7. ClientStep \/ ControlPlaneStep => UNCHANGED phase
  BY Zenon DEF ClientStep, VerifyGatewayConnections, CloseUnverified, SetCrlEntries, SetAuthorizedConnectors,
       CloseAllConnectorConnection, ControlPlaneStep, RevokeConnector, RotateConnector, RotateGatewayCert,
       StartSession
<1>8. UNCHANGED vars => UNCHANGED phase
  BY DEF vars
<1>9. QED BY <1>1, <1>2, <1>3, <1>4, <1>5, <1>6, <1>7, <1>8, Zenon DEF Next

LEMMA DroppedStays ==
  ASSUME \A m \in Mgmt : Past(m) => Past(m)', NEW s, NEW c, Dropped(s, c)
  PROVE  Dropped(s, c)'
BY DEF Dropped

LEMMA EntriesDisjoint ==
  ASSUME DisjointApps, Announced, NEW c \in DOMAIN entries, NEW d \in DOMAIN entries, c # d
  PROVE  entries[c].apps \cap entries[d].apps = {}
BY DEF DisjointApps, Announced

(* Steps that touch neither the routes nor what entries announce.           *)
LEMMA SameApps ==
  ASSUME RoutesExact, Announced, \A m \in Mgmt : Past(m) => Past(m)', routing' = routing,
         DOMAIN entries' = DOMAIN entries,
         \A c \in DOMAIN entries : entries'[c].apps = entries[c].apps
  PROVE  RoutesExact' /\ Announced'
<1>1. Announced'
  BY DEF Announced
<1>2. RoutesLead'
  BY DEF RoutesExact, RoutesLead
<1>3. RoutesMeant'
  BY DroppedStays DEF RoutesExact, RoutesMeant
<1>4. QED BY <1>1, <1>2, <1>3 DEF RoutesExact

LEMMA DetachRoutes ==
  ASSUME DisjointApps, EntriesTyped, RoutesExact, Announced, \A m \in Mgmt : Past(m) => Past(m)',
         NEW c \in Connectors, NEW plane \in Planes, NEW session, Detach(c, plane, session)
  PROVE  RoutesExact' /\ Announced'
<1>1. CASE UNCHANGED registry
  BY <1>1, SameApps DEF registry
<1>2. CASE c \in DOMAIN entries /\ RemoveIfFullyDetached(c, [entries[c] EXCEPT ![plane] = None])
  <2> DEFINE left == [entries[c] EXCEPT ![plane] = None]
  <2>1. left.apps = entries[c].apps
    BY <1>2 DEF EntriesTyped, Entry, Planes
  <2>2. CASE PutEntry(c, left) /\ routing' = routing
    <3> HIDE DEF left
    <3>1. DOMAIN entries' = DOMAIN entries /\ \A d \in DOMAIN entries : entries'[d].apps = entries[d].apps
      BY <1>2, <2>1, <2>2 DEF PutEntry
    <3>2. QED BY <2>2, <3>1, SameApps
  <2>3. CASE /\ entries' = Restrict(entries, DOMAIN entries \ {c})
             /\ routing' = Restrict(routing, DOMAIN routing \ left.apps)
    <3> HIDE DEF left
    <3>1. DOMAIN entries' = DOMAIN entries \ {c} /\ \A d \in DOMAIN entries' : entries'[d] = entries[d]
      BY <2>3 DEF Restrict
    <3>2. /\ DOMAIN routing' = DOMAIN routing \ entries[c].apps
          /\ \A s \in DOMAIN routing' : routing'[s] = routing[s]
      BY <2>1, <2>3 DEF Restrict
    <3>3. Announced'
      BY <3>1 DEF Announced
    <3>4. RoutesLead'
      <4> SUFFICES ASSUME NEW d \in DOMAIN entries', NEW s \in entries'[d].apps
                   PROVE  s \in DOMAIN routing' /\ routing'[s] = d
        BY DEF RoutesLead
      <4>1. d \in DOMAIN entries /\ d # c /\ s \in entries[d].apps
        BY <3>1
      <4>2. s \in DOMAIN routing /\ routing[s] = d
        BY <4>1 DEF RoutesExact, RoutesLead
      <4>3. s \notin entries[c].apps
        BY <1>2, <4>1, EntriesDisjoint
      <4>4. QED BY <3>2, <4>2, <4>3
    <3>5. RoutesMeant'
      BY <3>1, <3>2, DroppedStays DEF RoutesExact, RoutesMeant
    <3>6. QED BY <3>3, <3>4, <3>5 DEF RoutesExact
  <2>4. QED BY <1>2, <2>2, <2>3, Zenon DEF RemoveIfFullyDetached
<1>3. QED BY <1>1, <1>2 DEF Detach

(* A stream that attaches with another list than the one before leaves the  *)
(* routes of the difference: both streams are past, so they are dropped.    *)
LEMMA AttachRoutes ==
  ASSUME DisjointApps, IInv, RoutesExact, Announced, \A n \in Mgmt : Past(n) => Past(n)',
         NEW m \in Mgmt, AttachManagement(m)
  PROVE  RoutesExact' /\ Announced'
<1> DEFINE c     == Owner[m]
           entry == [EntryOf(c) EXCEPT !.mgmt = m, !.apps = Apps[m], !.grpcCert = Serial[m]]
<1>1. m \in Streams /\ c \in Connectors
  BY StreamsAssumption DEF Streams
<1>2. entry.apps = Apps[m]
  BY <1>1, EntryOfTyped DEF IInv, Entry
<1>3. /\ PutEntry(c, entry)
      /\ routing' = [s \in DOMAIN routing \cup Apps[m] |-> IF s \in Apps[m] THEN c ELSE routing[s]]
  BY DEF AttachManagement
<1>4. Past(m)'
  BY <1>1 DEF AttachManagement, Past, IInv, StreamsTyped
<1>5. \A d \in DOMAIN entries : d # c => entries[d].apps \cap Apps[m] = {}
  BY DEF Announced, DisjointApps
<1>6. \A s : s \in DOMAIN routing /\ s \notin Apps[m] /\ c \in DOMAIN entries /\ s \in entries[c].apps
               => Dropped(s, c)'
  <2> SUFFICES ASSUME NEW s, s \notin Apps[m], c \in DOMAIN entries, s \in entries[c].apps
               PROVE  Dropped(s, c)'
    OBVIOUS
  <2>1. PICK n \in Mgmt : Owner[n] = c /\ Past(n) /\ entries[c].apps = Apps[n]
    BY DEF Announced
  <2>2. Past(n)'
    BY <2>1
  <2>3. QED BY <1>4, <2>1, <2>2 DEF Dropped
<1> HIDE DEF entry
<1>7. /\ DOMAIN entries' = DOMAIN entries \cup {c}
      /\ entries'[c].apps = Apps[m]
      /\ \A d \in DOMAIN entries : d # c => entries'[d] = entries[d]
  BY <1>1, <1>2, <1>3 DEF PutEntry
<1>8. Announced'
  BY <1>4, <1>7 DEF Announced
<1>9. RoutesLead'
  BY <1>3, <1>5, <1>7 DEF RoutesExact, RoutesLead
<1>10. RoutesMeant'
  <2> SUFFICES ASSUME NEW s \in DOMAIN routing'
               PROVE  \/ routing'[s] \in DOMAIN entries' /\ s \in entries'[routing'[s]].apps
                      \/ Dropped(s, routing[s])'
    BY DEF RoutesMeant
  <2>1. CASE s \in Apps[m]
    BY <1>3, <1>7, <2>1
  <2>2. CASE s \notin Apps[m]
    <3>1. s \in DOMAIN routing /\ routing'[s] = routing[s]
      BY <1>3, <2>2
    <3>2. CASE Dropped(s, routing[s])
      BY <3>1, <3>2, DroppedStays DEF Dropped
    <3>3. CASE routing[s] \in DOMAIN entries /\ s \in entries[routing[s]].apps
      BY <1>6, <1>7, <2>2, <3>1, <3>3 DEF Dropped
    <3>4. QED BY <3>1, <3>2, <3>3 DEF RoutesExact, RoutesMeant
  <2>3. QED BY <2>1, <2>2
<1>11. QED BY <1>8, <1>9, <1>10 DEF RoutesExact

LEMMA RoutesStep ==
  ASSUME DisjointApps, IInv, RoutesExact, Announced, [Next]_vars
  PROVE  RoutesExact' /\ Announced'
<1>0. EntriesTyped /\ RoutingTyped /\ HandlersTyped /\ \A m \in Mgmt : Past(m) => Past(m)'
  BY PastStays DEF IInv
<1>1. CASE UNCHANGED registry
  BY <1>0, <1>1, SameApps DEF registry
<1>2. ASSUME NEW m \in Mgmt, AttachManagement(m) PROVE RoutesExact' /\ Announced'
  BY <1>0, <1>2, AttachRoutes
<1>3. ASSUME NEW t \in Tunnels, AttachTunnel(t) PROVE RoutesExact' /\ Announced'
  <2> DEFINE c     == Owner[t]
             entry == [EntryOf(c) EXCEPT !.tunnel = t, !.quicCert = Serial[t]]
  <2>1. entry.apps = EntryOf(c).apps
    BY <1>0, EntryOfTyped DEF Entry
  <2>2. PutEntry(c, entry) /\ routing' = routing
    BY <1>3 DEF AttachTunnel
  <2> HIDE DEF entry, c
  <2>3. /\ DOMAIN entries' = DOMAIN entries \cup {c}
        /\ entries'[c].apps = EntryOf(c).apps
        /\ \A d \in DOMAIN entries \ {c} : entries'[d] = entries[d]
    BY <2>1, <2>2 DEF PutEntry
  <2>4. CASE c \in DOMAIN entries
    BY <1>0, <2>2, <2>3, <2>4, SameApps DEF EntryOf
  <2>5. CASE c \notin DOMAIN entries
    <3>1. entries'[c].apps = {}
      BY <2>3, <2>5 DEF EntryOf, NewEntry
    <3>2. RoutesLead' /\ Announced'
      BY <1>0, <2>2, <2>3, <2>5, <3>1 DEF RoutesExact, RoutesLead, Announced
    <3>3. RoutesMeant'
      BY <1>0, <2>2, <2>3, <2>5, DroppedStays DEF RoutesExact, RoutesMeant
    <3>4. QED BY <3>2, <3>3 DEF RoutesExact
  <2>6. QED BY <2>4, <2>5
<1>4. ASSUME NEW c \in Connectors, NEW plane \in Planes, NEW session, Detach(c, plane, session)
      PROVE  RoutesExact' /\ Announced'
  BY <1>0, <1>4, DetachRoutes
<1>5. ASSUME NEW m \in Mgmt, EndManagement(m) PROVE RoutesExact' /\ Announced'
  <2>1. Owner[m] \in Connectors /\ "mgmt" \in Planes /\ Detach(Owner[m], "mgmt", m)
    BY <1>5, StreamsAssumption DEF EndManagement, Streams, Planes
  <2>2. QED BY <1>4, <2>1
<1>6. ASSUME NEW t \in Tunnels, EndTunnel(t) PROVE RoutesExact' /\ Announced'
  <2>1. Owner[t] \in Connectors /\ "tunnel" \in Planes /\ Detach(Owner[t], "tunnel", t)
    BY <1>6, StreamsAssumption DEF EndTunnel, Streams, Planes
  <2>2. QED BY <1>4, <2>1
<1>7. ASSUME NEW h \in Handlers, DetachTunnel(h) \/ DetachManagement(h)
      PROVE  RoutesExact' /\ Announced'
  <2>1. handler[h].connector \in Connectors
    BY <1>0, <1>7 DEF HandlersTyped, DetachTunnel, DetachManagement
  <2>2. \E plane \in Planes : Detach(handler[h].connector, plane, handler[h].arg)
    BY <1>7 DEF DetachTunnel, DetachManagement, Planes
  <2>3. QED BY <1>4, <2>1, <2>2
<1>8. CASE CloseAllConnectorConnection
  <2>1. /\ entries' = [c \in DOMAIN entries |-> [entries[c] EXCEPT !.mgmt = None, !.tunnel = None]]
        /\ routing' = routing
    BY <1>8, Zenon DEF CloseAllConnectorConnection
  <2>2. \A c \in DOMAIN entries : entries'[c].apps = entries[c].apps
    BY <1>0, <2>1 DEF EntriesTyped, Entry
  <2>3. QED BY <1>0, <2>1, <2>2, SameApps
<1>9. CASE Restart
  <2>1. entries' = << >> /\ routing' = << >>
    BY <1>9, Zenon DEF Restart
  <2>2. QED BY <2>1 DEF RoutesExact, RoutesLead, RoutesMeant, Announced
<1>10. ASSUME NEW m \in Mgmt, OpenManagement(m) \/ ReceiveHello(m) PROVE UNCHANGED registry
  BY <1>10 DEF OpenManagement, ReceiveHello
<1>11. ASSUME NEW t \in Tunnels, OpenTunnel(t) PROVE UNCHANGED registry
  BY <1>11 DEF OpenTunnel
<1>12. ASSUME NEW x \in Streams, Lose(x) PROVE UNCHANGED registry
  BY <1>12 DEF Lose
<1>13. ASSUME NEW h \in Handlers,
              LookUp(h) \/ SendToConnector(h) \/ CloseEvicted(h) \/ ReadTunnel(h) \/ ReadManagement(h)
       PROVE  UNCHANGED registry
  BY <1>13 DEF LookUp, SendToConnector, CloseEvicted, ReadTunnel, ReadManagement
<1>14. ControlPlaneStep => UNCHANGED registry
  BY Zenon DEF ControlPlaneStep, RevokeConnector, RotateConnector, RotateGatewayCert, StartSession
<1>15. VerifyGatewayConnections \/ (\E c \in Connectors : CloseUnverified(c))
         \/ SetCrlEntries \/ SetAuthorizedConnectors => UNCHANGED registry
  BY Zenon DEF VerifyGatewayConnections, CloseUnverified, SetCrlEntries, SetAuthorizedConnectors
<1>16. UNCHANGED vars => UNCHANGED registry
  BY DEF vars
<1>17. ASSUME NEW m \in Mgmt, ManagementStep(m) PROVE RoutesExact' /\ Announced'
  BY <1>1, <1>2, <1>5, <1>10, <1>17, Zenon DEF ManagementStep, ServeManagement
<1>18. ASSUME NEW t \in Tunnels, TunnelStep(t) PROVE RoutesExact' /\ Announced'
  BY <1>1, <1>3, <1>6, <1>11, <1>18, Zenon DEF TunnelStep, ServeTunnel
<1>19. ASSUME NEW h \in Handlers, HandlerStep(h) PROVE RoutesExact' /\ Announced'
  BY <1>1, <1>7, <1>13, <1>19, Zenon DEF HandlerStep
<1>20. QED
  BY <1>1, <1>8, <1>9, <1>12, <1>14, <1>15, <1>16, <1>17, <1>18, <1>19, Zenon DEF Next, ClientStep

(* A request for an announced subdomain always reaches the connector that   *)
(* announces it, and a route that leads anywhere else is one its connector   *)
(* announced on one stream and left out on another, after any interleaving   *)
(* of attachments, detachments, evictions and restarts, whatever lists the   *)
(* connectors announce from one stream to the next, as long as no two of     *)
(* them announce the same application.                                       *)
THEOREM RoutesExactHolds ==
  ASSUME DisjointApps
  PROVE  Spec => []RoutesExact
<1>1. Init => RoutesExact /\ Announced
  BY DEF Init, RoutesExact, RoutesLead, RoutesMeant, Announced
<1>2. IInv /\ RoutesExact /\ Announced /\ [Next]_vars => RoutesExact' /\ Announced'
  BY RoutesStep
<1>3. QED BY InductiveInvariant, <1>1, <1>2, PTL DEF Spec
-----------------------------------------------------------------------------
(* The refinement of ServingSessions, evictions and rotations included.     *)

Stages    == [x \in Streams |-> StageOf(x)]
InService == {x \in Streams : IsRegistered(x)}
SlotOf    == [x \in Streams |-> <<Owner[x], PlaneOf(x)>>]

LEMMA ServingFrame ==
  /\ UNCHANGED phase => UNCHANGED Stages
  /\ UNCHANGED entries => UNCHANGED InService
  /\ UNCHANGED handler => UNCHANGED Evicted
BY DEF Stages, StageOf, InService, IsRegistered, Registered, EntryOf, Evicted

LEMMA StreamsFacts ==
  /\ \A x \in Streams : x # None /\ Owner[x] \in Connectors /\ PlaneOf(x) \in Planes
  /\ Mgmt \subseteq Streams /\ Tunnels \subseteq Streams
  /\ \A m \in Mgmt : PlaneOf(m) = "mgmt"
  /\ \A t \in Tunnels : PlaneOf(t) = "tunnel"
BY StreamsAssumption DEF Streams, PlaneOf, Planes

LEMMA InServiceMeans ==
  /\ \A x \in Streams :
       x \in InService <=> Owner[x] \in DOMAIN entries /\ entries[Owner[x]][PlaneOf(x)] = x
  /\ \A x \in Streams :
       x \in InService' <=> Owner[x] \in DOMAIN entries' /\ entries'[Owner[x]][PlaneOf(x)] = x
<1>1. \A x \in Streams : x # None
  BY StreamsFacts
<1>2. InService = {x \in Streams : IsRegistered(x)} /\ InService' = {x \in Streams : IsRegistered(x)'}
  BY DEF InService
<1> HIDE DEF InService
<1> QED BY <1>1, <1>2, IsRegisteredMeans, IsRegisteredMeansNext

(* A connection gets into service: what it displaces is closed.             *)
LEMMA Enters ==
  ASSUME IInv, NEW x \in Streams,
         phase[x] \in {"authorized", "checked"},
         phase' = [phase EXCEPT ![x] = "running"],
         live' = live \ {Registered(Owner[x], PlaneOf(x))},
         \E entry :
           /\ PutEntry(Owner[x], entry)
           /\ entry[PlaneOf(x)] = x
           /\ \A plane \in Planes : plane # PlaneOf(x) => entry[plane] = EntryOf(Owner[x])[plane],
         UNCHANGED handler
  PROVE  Serving!Next
<1> PICK entry :
      /\ PutEntry(Owner[x], entry)
      /\ entry[PlaneOf(x)] = x
      /\ \A plane \in Planes : plane # PlaneOf(x) => entry[plane] = EntryOf(Owner[x])[plane]
  OBVIOUS
<1> DEFINE rivals == {y \in InService : SlotOf[y] = SlotOf[x]}
<1>1. live \in SUBSET Streams /\ phase \in [Streams -> Phases] /\ SessionsServed /\ EntriesTyped
  BY DEF IInv, StreamsTyped
<1>2. Stages[x] = "coming" /\ Stages' = [Stages EXCEPT ![x] = "past"]
  <2>1. StageOf(x) = "coming" /\ StageOf(x)' = "past"
    BY <1>1 DEF StageOf
  <2>2. \A y \in Streams : y # x => StageOf(y)' = StageOf(y)
    BY <1>1 DEF StageOf
  <2> HIDE DEF StageOf
  <2> QED BY <2>1, <2>2 DEF Stages
<1>3. \A y \in Streams : SlotOf[y] = SlotOf[x] <=> Owner[y] = Owner[x] /\ PlaneOf(y) = PlaneOf(x)
  BY DEF SlotOf
<1>4. \A y \in Streams : y \in rivals <=> y = Registered(Owner[x], PlaneOf(x))
  <2> SUFFICES ASSUME NEW y \in Streams
               PROVE  y \in rivals <=> y = Registered(Owner[x], PlaneOf(x))
    OBVIOUS
  <2>1. y \in rivals => y = Registered(Owner[x], PlaneOf(x))
    BY <1>3 DEF InService, IsRegistered
  <2>2. ASSUME y = Registered(Owner[x], PlaneOf(x))
        PROVE  y \in rivals
    <3>1. y # None /\ PlaneOf(x) \in Planes
      BY StreamsFacts
    <3>2. Owner[x] \in DOMAIN entries /\ entries[Owner[x]][PlaneOf(x)] = y
      BY <2>2, <3>1 DEF Registered, EntryOf, NewEntry, Planes
    <3>3. Owner[y] = Owner[x] /\ PlaneOf(y) = PlaneOf(x)
      BY <1>1, <3>1, <3>2 DEF SessionsServed
    <3> QED BY <1>3, <3>2, <3>3, InServiceMeans
  <2> QED BY <2>1, <2>2
<1>5. live' = live \ rivals
  BY <1>1, <1>4
<1>6. InService' = (InService \ rivals) \cup {x}
  <2>1. InService' \subseteq Streams /\ InService \subseteq Streams
    BY DEF InService
  <2>2. ASSUME NEW y \in Streams
        PROVE  y \in InService' <=> y = x \/ (y \in InService /\ y \notin rivals)
    <3>1. CASE Owner[y] = Owner[x] /\ PlaneOf(y) = PlaneOf(x)
      <4>1. y \in InService' <=> y = x
        BY <3>1, InServiceMeans DEF PutEntry
      <4>2. y \in InService => y \in rivals
        BY <1>3, <3>1
      <4> QED BY <4>1, <4>2
    <3>2. CASE Owner[y] = Owner[x] /\ PlaneOf(y) # PlaneOf(x)
      <4>1. PlaneOf(y) \in Planes /\ y # None
        BY StreamsFacts
      <4>2. entries'[Owner[y]][PlaneOf(y)] = EntryOf(Owner[y])[PlaneOf(y)] /\ Owner[y] \in DOMAIN entries'
        BY <3>2, <4>1 DEF PutEntry
      <4>3. y \in InService' <=> y \in InService
        BY <4>1, <4>2, InServiceMeans DEF InService, IsRegistered, Registered
      <4> QED BY <1>3, <3>2, <4>3
    <3>3. CASE Owner[y] # Owner[x]
      <4>1. y \in InService' <=> y \in InService
        BY <3>3, InServiceMeans DEF PutEntry
      <4> QED BY <1>3, <3>3, <4>1
    <3> QED BY <3>1, <3>2, <3>3
  <2> HIDE DEF rivals
  <2> QED BY <2>1, <2>2
<1>7. Serving!Rivals(x) = rivals
  BY DEF Serving!Rivals, InService, SlotOf
<1> HIDE DEF rivals
<1>8. Serving!Enter(x)
  BY <1>2, <1>5, <1>6, <1>7, ServingFrame, Zenon DEF Serving!Enter, Stages, InService
<1> QED BY <1>8, Zenon DEF Serving!Next

(* A detach takes out nothing but the session it names.                     *)
LEMMA DetachOut ==
  ASSUME IInv, NEW c \in Connectors, NEW plane \in Planes, NEW session, Detach(c, plane, session)
  PROVE  /\ InService' \in SUBSET InService
         /\ \A x \in InService \ InService' : x = session /\ Owner[x] = c
<1>1. EntriesTyped /\ InService \subseteq Streams /\ InService' \subseteq Streams
  BY DEF IInv, InService
<1>2. ASSUME NEW x \in Streams, x \in InService'
      PROVE  x \in InService
  <2>1. x # None /\ PlaneOf(x) \in Planes
    BY StreamsFacts
  <2>2. Fewer
    BY <1>1, DetachFewer
  <2> QED BY <1>2, <2>1, <2>2, InServiceMeans DEF Fewer
<1>3. ASSUME NEW x \in Streams, x \in InService, x \notin InService'
      PROVE  x = session /\ Owner[x] = c
  <2>1. x # None /\ PlaneOf(x) \in Planes
    BY StreamsFacts
  <2>2. Owner[x] \in DOMAIN entries /\ entries[Owner[x]][PlaneOf(x)] = x
    BY <1>3, InServiceMeans
  <2>3. x = session
    BY <1>1, <1>3, <2>1, <2>2, DetachKeeps, InServiceMeans
  <2>4. Owner[x] = c
    <3>1. CASE entries' = entries
      BY <1>3, <2>2, <3>1, InServiceMeans
    <3>2. CASE Owner[x] # c /\ RemoveIfFullyDetached(c, [entries[c] EXCEPT ![plane] = None])
      <4>1. Owner[x] \in DOMAIN entries' /\ entries'[Owner[x]] = entries[Owner[x]]
        BY <2>2, <3>2 DEF RemoveIfFullyDetached, PutEntry, Restrict
      <4> QED BY <1>3, <2>2, <4>1, InServiceMeans
    <3> QED BY <3>1, <3>2 DEF Detach, registry
  <2> QED BY <2>3, <2>4
<1> HIDE DEF InService
<1> QED BY <1>1, <1>2, <1>3

(* What leaves the registry without being closed or evicted leaves nothing. *)
LEMMA Departs ==
  ASSUME UNCHANGED <<Stages, live>>, InService' \in SUBSET InService, Evicted' \in SUBSET Evicted,
         \A x \in InService \ InService' : x \notin live \/ Owner[x] \in Evicted
  PROVE  Serving!Next
<1>1. \A x \in InService \ InService' : x \notin live \/ SlotOf[x][1] \in Evicted
  BY DEF SlotOf, InService
<1>2. Serving!Leave
  BY <1>1, Zenon DEF Serving!Leave, Stages, InService, SlotOf
<1> QED BY <1>2, Zenon DEF Serving!Next

LEMMA Closes ==
  ASSUME live' \in SUBSET live, UNCHANGED <<phase, entries, handler>>
  PROVE  Serving!Next
<1>1. Serving!Close
  BY ServingFrame, Zenon DEF Serving!Close, Stages, InService
<1> QED BY <1>1, Zenon DEF Serving!Next

(* A goroutine goes on with its eviction.                                   *)
LEMMA StillEvicted ==
  ASSUME IInv, NEW h \in Handlers, NEW pc \in HandlerPcs \ {"idle"}, handler[h].pc # "idle",
         \E arg : handler' = [handler EXCEPT ![h].pc = pc, ![h].arg = arg]
  PROVE  Evicted' = Evicted
<1>1. handler \in [Handlers -> HandlerState]
  BY DEF IInv, HandlersTyped
<1>2. /\ handler'[h].connector = handler[h].connector /\ handler'[h].pc = pc
      /\ \A g \in Handlers : g # h => handler'[g] = handler[g]
  BY <1>1 DEF HandlerState
<1>3. \A g \in Handlers : /\ handler'[g].pc # "idle" <=> handler[g].pc # "idle"
                          /\ handler'[g].connector = handler[g].connector
  BY <1>2
<1> QED BY <1>3 DEF Evicted

(* The steps of a connection. *)
LEMMA ConnectionStage ==
  ASSUME IInv, NEW x \in Streams, NEW p \in Phases, phase' = [phase EXCEPT ![x] = p]
  PROVE  /\ Stages[x] = StageOf(x)
         /\ StageOf(x)' = IF p = "idle" THEN "new"
                          ELSE IF p \in {"hello", "authorized", "checked"} THEN "coming" ELSE "past"
         /\ Stages' = [Stages EXCEPT ![x] = StageOf(x)']
<1>1. phase \in [Streams -> Phases]
  BY DEF IInv, StreamsTyped
<1>2. StageOf(x)' = IF p = "idle" THEN "new"
                    ELSE IF p \in {"hello", "authorized", "checked"} THEN "coming" ELSE "past"
  BY <1>1 DEF StageOf
<1>3. \A y \in Streams : y # x => StageOf(y)' = StageOf(y)
  BY <1>1 DEF StageOf
<1> HIDE DEF StageOf
<1> QED BY <1>2, <1>3 DEF Stages

LEMMA ConnectStep ==
  ASSUME IInv, NEW x \in Streams, OpenManagement(x) \/ OpenTunnel(x)
  PROVE  Serving!Next
<1>1. /\ phase[x] = "idle" /\ UNCHANGED <<entries, handler>>
      /\ \/ \E p \in {"hello", "checked"} : phase' = [phase EXCEPT ![x] = p] /\ live' = live \cup {x}
         \/ phase' = [phase EXCEPT ![x] = "done"] /\ live' = live
  BY Zenon DEF OpenManagement, OpenTunnel, registry
<1>2. Stages[x] = "new"
  BY <1>1 DEF Stages, StageOf
<1>3. \/ Stages' = [Stages EXCEPT ![x] = "coming"] /\ live' = live \cup {x}
      \/ Stages' = [Stages EXCEPT ![x] = "past"] /\ live' = live
  <2>1. CASE \E p \in {"hello", "checked"} : phase' = [phase EXCEPT ![x] = p] /\ live' = live \cup {x}
    BY <2>1, ConnectionStage DEF Phases
  <2>2. CASE phase' = [phase EXCEPT ![x] = "done"] /\ live' = live
    BY <2>2, ConnectionStage DEF Phases
  <2> QED BY <1>1, <2>1, <2>2
<1>4. Serving!Connect(x)
  BY <1>1, <1>2, <1>3, ServingFrame, Zenon DEF Serving!Connect, Stages, InService
<1> QED BY <1>4, Zenon DEF Serving!Next

LEMMA HelloStep ==
  ASSUME IInv, NEW m \in Mgmt, ReceiveHello(m)
  PROVE  Serving!Next
<1>1. /\ m \in Streams /\ phase[m] = "hello" /\ UNCHANGED <<entries, handler>>
      /\ \/ phase' = [phase EXCEPT ![m] = "authorized"] /\ live' = live
         \/ phase' = [phase EXCEPT ![m] = "done"] /\ live' = live \ {m}
  BY StreamsFacts, Zenon DEF ReceiveHello, registry
<1>2. Stages[m] = "coming"
  BY <1>1 DEF Stages, StageOf
<1>3. CASE phase' = [phase EXCEPT ![m] = "authorized"] /\ live' = live
  <2>1. Stages' = [Stages EXCEPT ![m] = "coming"]
    BY <1>1, <1>3, ConnectionStage DEF Phases
  <2>2. Stages' = Stages
    BY <1>2, <2>1 DEF Stages
  <2> QED BY <1>1, <1>3, <2>2, ServingFrame, Departs
<1>4. CASE phase' = [phase EXCEPT ![m] = "done"] /\ live' = live \ {m}
  <2>1. Stages' = [Stages EXCEPT ![m] = "past"]
    BY <1>1, <1>4, ConnectionStage DEF Phases
  <2>2. Serving!TurnAway(m)
    BY <1>1, <1>2, <1>4, <2>1, ServingFrame, Zenon DEF Serving!TurnAway, Stages, InService
  <2> QED BY <1>1, <2>2, Zenon DEF Serving!Next
<1> QED BY <1>1, <1>3, <1>4

LEMMA EnterStep ==
  ASSUME IInv, NEW x \in Streams, \/ x \in Mgmt /\ AttachManagement(x)
                                  \/ x \in Tunnels /\ AttachTunnel(x)
  PROVE  Serving!Next
<1>1. \A c \in Connectors : EntryOf(c) \in Entry
  BY EntryOfTyped DEF IInv
<1>2. Owner[x] \in Connectors
  BY StreamsFacts
<1>3. CASE x \in Mgmt /\ AttachManagement(x)
  <2> DEFINE entry == [EntryOf(Owner[x]) EXCEPT !.mgmt = x, !.apps = Apps[x], !.grpcCert = Serial[x]]
  <2>1. /\ phase[x] = "authorized" /\ phase' = [phase EXCEPT ![x] = "running"]
        /\ live' = live \ {Registered(Owner[x], "mgmt")} /\ PutEntry(Owner[x], entry)
        /\ UNCHANGED handler
    BY <1>3, Zenon DEF AttachManagement
  <2>2. entry["mgmt"] = x /\ entry["tunnel"] = EntryOf(Owner[x])["tunnel"]
    BY <1>1, <1>2 DEF Entry
  <2>3. PlaneOf(x) = "mgmt"
    BY <1>3, StreamsFacts
  <2> HIDE DEF entry
  <2>4. \A plane \in Planes : plane # PlaneOf(x) => entry[plane] = EntryOf(Owner[x])[plane]
    BY <2>2, <2>3 DEF Planes
  <2>5. /\ phase[x] \in {"authorized", "checked"}
        /\ live' = live \ {Registered(Owner[x], PlaneOf(x))}
    BY <2>1, <2>3
  <2>6. \E e :
          /\ PutEntry(Owner[x], e)
          /\ e[PlaneOf(x)] = x
          /\ \A plane \in Planes : plane # PlaneOf(x) => e[plane] = EntryOf(Owner[x])[plane]
    BY <2>1, <2>2, <2>3, <2>4, Zenon
  <2> QED BY <2>1, <2>5, <2>6, Enters
<1>4. CASE x \in Tunnels /\ AttachTunnel(x)
  <2> DEFINE entry == [EntryOf(Owner[x]) EXCEPT !.tunnel = x, !.quicCert = Serial[x]]
  <2>1. /\ phase[x] = "checked" /\ phase' = [phase EXCEPT ![x] = "running"]
        /\ live' = live \ {Registered(Owner[x], "tunnel")} /\ PutEntry(Owner[x], entry)
        /\ UNCHANGED handler
    BY <1>4, Zenon DEF AttachTunnel
  <2>2. entry["tunnel"] = x /\ entry["mgmt"] = EntryOf(Owner[x])["mgmt"]
    BY <1>1, <1>2 DEF Entry
  <2>3. PlaneOf(x) = "tunnel"
    BY <1>4, StreamsFacts
  <2> HIDE DEF entry
  <2>4. \A plane \in Planes : plane # PlaneOf(x) => entry[plane] = EntryOf(Owner[x])[plane]
    BY <2>2, <2>3 DEF Planes
  <2>5. /\ phase[x] \in {"authorized", "checked"}
        /\ live' = live \ {Registered(Owner[x], PlaneOf(x))}
    BY <2>1, <2>3
  <2>6. \E e :
          /\ PutEntry(Owner[x], e)
          /\ e[PlaneOf(x)] = x
          /\ \A plane \in Planes : plane # PlaneOf(x) => e[plane] = EntryOf(Owner[x])[plane]
    BY <2>1, <2>2, <2>3, <2>4, Zenon
  <2> QED BY <2>1, <2>5, <2>6, Enters
<1> QED BY <1>3, <1>4

LEMMA EndsStep ==
  ASSUME IInv, NEW x \in Streams, EndManagement(x) \/ EndTunnel(x)
  PROVE  Serving!Next
<1>1. /\ phase[x] = "running" /\ x \notin live /\ phase' = [phase EXCEPT ![x] = "done"]
      /\ \E plane \in {"mgmt", "tunnel"} : Detach(Owner[x], plane, x)
      /\ UNCHANGED <<live, handler>>
  BY Zenon DEF EndManagement, EndTunnel
<1>2. Stages' = Stages
  <2>1. Stages' = [Stages EXCEPT ![x] = "past"]
    BY <1>1, ConnectionStage DEF Phases
  <2>2. Stages[x] = "past"
    BY <1>1 DEF Stages, StageOf
  <2> QED BY <2>1, <2>2 DEF Stages
<1>3. /\ InService' \in SUBSET InService
      /\ \A y \in InService \ InService' : y = x
  BY <1>1, StreamsFacts, DetachOut DEF Planes
<1> QED BY <1>1, <1>2, <1>3, ServingFrame, Departs

(* The steps of an eviction. *)
LEMMA LookUpStep ==
  ASSUME IInv, NEW h \in Handlers, LookUp(h)
  PROVE  Serving!Next
<1>1. PICK command \in commands :
        /\ command.kind = "evict" /\ handler[h].pc = "idle"
        /\ IF Registered(command.connector, "mgmt") # None
             THEN handler' = [handler EXCEPT ![h] =
                    [pc |-> "send", connector |-> command.connector,
                     object |-> incarnation[command.connector], arg |-> None]]
             ELSE UNCHANGED handler
        /\ UNCHANGED <<phase, live, entries>>
  BY Zenon DEF LookUp, registry
<1>2. UNCHANGED <<Stages, live, InService>>
  BY <1>1, ServingFrame
<1> DEFINE c == command.connector
           x == Registered(c, "mgmt")
<1>3. CASE x # None
  <2>1. c \in DOMAIN entries /\ x = entries[c]["mgmt"] /\ x \in Mgmt
    BY <1>3 DEF Registered, EntryOf, NewEntry, IInv, EntriesTyped, Entry
  <2>2. x \in Streams /\ Owner[x] = c /\ PlaneOf(x) = "mgmt"
    BY <1>3, <2>1, StreamsFacts DEF IInv, SessionsServed, Planes
  <2>3. x \in InService /\ SlotOf[x][1] = c
    BY <2>1, <2>2, InServiceMeans DEF SlotOf
  <2>4. Evicted' = Evicted \cup {c}
    <3>1. /\ handler'[h].pc = "send" /\ handler'[h].connector = c
          /\ \A g \in Handlers : g # h => handler'[g] = handler[g]
      BY <1>1, <1>3 DEF IInv, HandlersTyped
    <3> HIDE DEF c
    <3> QED BY <1>1, <3>1 DEF Evicted
  <2> HIDE DEF c, x
  <2>5. Serving!Evict(c) /\ c \in {SlotOf[y][1] : y \in Streams}
    BY <1>2, <2>2, <2>3, <2>4, Zenon DEF Serving!Evict, Stages, InService, SlotOf
  <2> QED BY <2>5, Zenon DEF Serving!Next, SlotOf
<1>4. CASE x = None
  BY <1>1, <1>2, <1>4, ServingFrame, Departs
<1> QED BY <1>3, <1>4

LEMMA EvictionStep ==
  ASSUME IInv, NEW h \in Handlers,
         SendToConnector(h) \/ CloseEvicted(h) \/ ReadTunnel(h) \/ ReadManagement(h)
  PROVE  Serving!Next
<1>1. /\ handler[h].pc # "idle"
      /\ \E pc \in HandlerPcs \ {"idle"} : \E arg :
           handler' = [handler EXCEPT ![h].pc = pc, ![h].arg = arg]
      /\ live' \in SUBSET live /\ UNCHANGED <<phase, entries>>
  BY DEF SendToConnector, CloseEvicted, ReadTunnel, ReadManagement, Advance, ForceClose, registry,
     HandlerPcs
<1>2. Evicted' = Evicted
  BY <1>1, StillEvicted
<1>3. Serving!Close
  BY <1>1, <1>2, ServingFrame, Zenon DEF Serving!Close, Stages, InService
<1> QED BY <1>3, Zenon DEF Serving!Next

LEMMA DetachStep ==
  ASSUME IInv, NEW h \in Handlers, DetachTunnel(h) \/ DetachManagement(h)
  PROVE  Serving!Next
<1> DEFINE c == handler[h].connector
<1>1. /\ handler[h].pc # "idle" /\ UNCHANGED <<phase, live>>
      /\ \E plane \in {"mgmt", "tunnel"} : Detach(c, plane, handler[h].arg)
      /\ \/ handler' = [handler EXCEPT ![h].pc = "readManagement", ![h].arg = None]
         \/ handler' = [handler EXCEPT ![h] = IdleHandler]
  BY DEF DetachTunnel, DetachManagement, Advance
<1>2. c \in Connectors /\ c \in Evicted
  BY <1>1 DEF IInv, HandlersTyped, Evicted
<1>3. Evicted' \in SUBSET Evicted
  <2>1. CASE handler' = [handler EXCEPT ![h].pc = "readManagement", ![h].arg = None]
    <3>1. "readManagement" \in HandlerPcs \ {"idle"}
      BY DEF HandlerPcs
    <3>2. \E arg : handler' = [handler EXCEPT ![h].pc = "readManagement", ![h].arg = arg]
      BY <2>1, Zenon
    <3>3. Evicted' = Evicted
      BY <1>1, <3>1, <3>2, StillEvicted
    <3> QED BY <3>3
  <2>2. CASE handler' = [handler EXCEPT ![h] = IdleHandler]
    <3>1. /\ handler'[h].pc = "idle"
          /\ \A g \in Handlers : g # h => handler'[g] = handler[g]
      BY <2>2 DEF IInv, HandlersTyped, IdleHandler
    <3> QED BY <3>1 DEF Evicted
  <2> QED BY <1>1, <2>1, <2>2
<1> HIDE DEF c
<1>4. /\ InService' \in SUBSET InService
      /\ \A x \in InService \ InService' : Owner[x] = c
  BY <1>1, <1>2, DetachOut DEF Planes
<1> QED BY <1>1, <1>2, <1>3, <1>4, ServingFrame, Departs

(* The client of the control plane, and the process. *)
LEMMA CloseAllStep ==
  ASSUME IInv, CloseAllConnectorConnection
  PROVE  Serving!Next
<1>1. /\ live' = {x \in live : \A c \in DOMAIN entries : x \notin {entries[c].mgmt, entries[c].tunnel}}
      /\ entries' = [c \in DOMAIN entries |-> [entries[c] EXCEPT !.mgmt = None, !.tunnel = None]]
      /\ UNCHANGED <<phase, handler>>
  BY Zenon DEF CloseAllConnectorConnection
<1>2. live \in SUBSET Streams /\ SessionsServed /\ EntriesTyped
  BY DEF IInv, StreamsTyped
<1>3. InService' = {}
  <2>1. \A c \in DOMAIN entries' : \A plane \in Planes : entries'[c][plane] = None
    BY <1>1, <1>2, Zenon DEF EntriesTyped, Entry, Planes
  <2>2. \A x \in Streams : x \notin InService'
    BY <2>1, StreamsFacts, InServiceMeans
  <2> QED BY <2>2 DEF InService
<1>4. \A x \in live : x \in InService <=>
        \E c \in DOMAIN entries : x \in {entries[c].mgmt, entries[c].tunnel}
  <2> SUFFICES ASSUME NEW x \in live
               PROVE  x \in InService <=> \E c \in DOMAIN entries : x \in {entries[c].mgmt, entries[c].tunnel}
    OBVIOUS
  <2>1. x \in Streams /\ x # None /\ PlaneOf(x) \in Planes
    BY <1>2, StreamsFacts
  <2>2. ASSUME x \in InService
        PROVE  \E c \in DOMAIN entries : x \in {entries[c].mgmt, entries[c].tunnel}
    <3>1. Owner[x] \in DOMAIN entries /\ entries[Owner[x]][PlaneOf(x)] = x
      BY <2>1, <2>2, InServiceMeans
    <3> QED BY <2>1, <3>1 DEF Planes
  <2>3. ASSUME NEW c \in DOMAIN entries, x \in {entries[c].mgmt, entries[c].tunnel}
        PROVE  x \in InService
    <3>1. PICK plane \in Planes : x = entries[c][plane]
      BY <2>3 DEF Planes
    <3>2. Owner[x] = c /\ PlaneOf(x) = plane
      BY <1>2, <2>1, <3>1 DEF SessionsServed
    <3> QED BY <2>1, <3>1, <3>2, InServiceMeans
  <2> QED BY <2>2, <2>3
<1>5. live' = live \ InService
  BY <1>1, <1>4, Zenon
<1>6. Serving!CloseAll
  BY <1>1, <1>3, <1>5, ServingFrame, Zenon DEF Serving!CloseAll, Stages, InService
<1> QED BY <1>6, Zenon DEF Serving!Next

LEMMA RestartsStep ==
  ASSUME Restart
  PROVE  Serving!Next
<1>1. /\ phase' = [x \in Streams |-> IF phase[x] = "idle" THEN "idle" ELSE "done"]
      /\ live' = {} /\ entries' = << >> /\ handler' = [h \in Handlers |-> IdleHandler]
  BY Zenon DEF Restart
<1>2. Stages' = [x \in Streams |-> IF Stages[x] = "new" THEN "new" ELSE "past"]
  BY <1>1 DEF Stages, StageOf
<1>3. InService' = {}
  <2>1. \A x \in Streams : x \notin InService'
    BY <1>1, InServiceMeans
  <2> QED BY <2>1 DEF InService
<1>4. Evicted' = {}
  BY <1>1 DEF Evicted, IdleHandler
<1>5. Serving!Restart
  BY <1>1, <1>2, <1>3, <1>4, Zenon DEF Serving!Restart, Stages, InService
<1> QED BY <1>5, Zenon DEF Serving!Next

LEMMA ServingStep ==
  ASSUME IInv, [Next]_vars
  PROVE  Serving!Next
<1>1. ASSUME NEW m \in Mgmt, ManagementStep(m) PROVE Serving!Next
  BY <1>1, StreamsFacts, ConnectStep, HelloStep, EnterStep, EndsStep DEF ManagementStep, ServeManagement
<1>2. ASSUME NEW t \in Tunnels, TunnelStep(t) PROVE Serving!Next
  BY <1>2, StreamsFacts, ConnectStep, EnterStep, EndsStep DEF TunnelStep, ServeTunnel
<1>3. ASSUME NEW x \in Streams, Lose(x) PROVE Serving!Next
  <2>1. live' \in SUBSET live /\ UNCHANGED <<phase, entries, handler>>
    BY <1>3 DEF Lose, registry
  <2> QED BY <2>1, Closes
<1>4. ASSUME NEW h \in Handlers, HandlerStep(h) PROVE Serving!Next
  BY <1>4, LookUpStep, EvictionStep, DetachStep DEF HandlerStep
<1>5. ASSUME NEW c \in Connectors, CloseUnverified(c) PROVE Serving!Next
  <2>1. live' \in SUBSET live /\ UNCHANGED <<phase, entries, handler>>
    BY <1>5 DEF CloseUnverified, ForceClose, registry
  <2> QED BY <2>1, Closes
<1>6. CASE UNCHANGED <<phase, live, entries, handler>>
  BY <1>6, Closes
<1>7. ASSUME \/ VerifyGatewayConnections \/ SetCrlEntries \/ SetAuthorizedConnectors
             \/ ControlPlaneStep \/ UNCHANGED vars
      PROVE  UNCHANGED <<phase, live, entries, handler>>
  BY <1>7, Zenon DEF VerifyGatewayConnections, SetCrlEntries, SetAuthorizedConnectors, ControlPlaneStep,
     RevokeConnector, RotateConnector, RotateGatewayCert, StartSession, vars, registry
<1>8. ASSUME ClientStep PROVE Serving!Next
  BY <1>5, <1>6, <1>7, <1>8, CloseAllStep, Zenon DEF ClientStep
<1> QED BY <1>1, <1>2, <1>3, <1>4, <1>6, <1>7, <1>8, RestartsStep, Zenon DEF Next

LEMMA ServingInit == Init => Serving!Init
<1> SUFFICES ASSUME Init PROVE Serving!Init
  OBVIOUS
<1>1. /\ phase = [x \in Streams |-> "idle"] /\ live = {} /\ entries = << >>
      /\ handler = [h \in Handlers |-> IdleHandler]
  BY DEF Init
<1>2. Stages = [x \in Streams |-> "new"]
  BY <1>1 DEF Stages, StageOf
<1>3. InService = {}
  <2>1. \A x \in Streams : x \notin InService
    BY <1>1, InServiceMeans
  <2> QED BY <2>1 DEF InService
<1>4. Evicted = {}
  BY <1>1 DEF Evicted, IdleHandler
<1> QED BY <1>1, <1>2, <1>3, <1>4, Zenon DEF Serving!Init, Stages, InService

(* However connections come, displace each other, fail, are evicted, closed *)
(* together or cut by a restart, for every number of connectors, streams    *)
(* and eviction goroutines: a connection is in service once at most, and an *)
(* open one leaves only to its successor, to an eviction of its connector   *)
(* or with all the others.                                                  *)
THEOREM KeepsServingHolds == Spec => KeepsServing
<1>1. IInv /\ [Next]_vars => Serving!Next
  BY ServingStep
<1> QED BY <1>1, ServingInit, InductiveInvariant, PTL DEF Spec, KeepsServing, Serving!Spec
=============================================================================
