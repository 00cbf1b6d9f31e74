-------------------------- MODULE MCNetworkManager --------------------------
(***************************************************************************)
(* A small instance of NetworkManager for TLC: a handle for the listener   *)
(* and one for a client, which comes back for a second client.             *)
(***************************************************************************)
EXTENDS NetworkManager

============================================================================
