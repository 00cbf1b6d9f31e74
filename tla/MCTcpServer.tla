---------------------------- MODULE MCTcpServer ----------------------------
(***************************************************************************)
(* A small instance of TcpServer for TLC: a handle each for the listener,  *)
(* a client and a socket of the game, and clients enough for a handle to   *)
(* come back.                                                              *)
(***************************************************************************)
EXTENDS TcpServer

============================================================================
