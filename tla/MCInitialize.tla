----------------------------- MODULE MCInitialize -----------------------------
(* Model-checking instance of Initialize: the EdgeTunnelServer instances  *)
(* of MCEdgeTunnelServer and three HA connections, so that two indices are *)
(* seeded, one registration interval apart.                                *)
EXTENDS Initialize, MCEdgeTunnelServer

MCHAConnections == 3
=============================================================================
