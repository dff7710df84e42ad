---------------------------- MODULE MCSupervisor ----------------------------
(* Model-checking instance of Supervisor: two connection indices, a      *)
(* static edge (so ErrNoAddressesLeft is retried in place by               *)
(* startFirstTunnel), two failures and one operator reconnect.             *)
EXTENDS Supervisor

MCHAConnections == 2
MCAvailableAddrs == 4
MCMaxFailures == 2
MCMaxReconnects == 1
=============================================================================
