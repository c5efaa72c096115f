------------------------ MODULE MCSessionDispatcher ------------------------
(* A small instance of SessionDispatcher: its constants are given in the     *)
(* configuration.                                                            *)
EXTENDS SessionDispatcher
=============================================================================
