-------------------------- MODULE MC_GatewayEvents --------------------------
(***************************************************************************)
(* Small instances of GatewayEvents.  The command types stand for the ways *)
(* a command can behave: a snapshot, an action, an action acknowledged     *)
(* before its work is done, and one that then ends the process.            *)
(***************************************************************************)
EXTENDS GatewayEvents

AllCommands == {"CRL_SYNC", "ROTATE_GATEWAY_CERT", "REVOKE_GATEWAY"}
Snapshots   == {"CRL_SYNC"}
Early       == {"ROTATE_GATEWAY_CERT", "REVOKE_GATEWAY"}
Final       == {"REVOKE_GATEWAY"}
None        == {}

AllFaults    == {"break", "gatewayRestart", "cpRestart", "database"}
StreamFaults == {"break", "cpRestart"}
RestartFault == {"gatewayRestart"}

OneAction    == {"RELOAD_CONNECTOR"}

=============================================================================
