-------------------------- MODULE MCTunnelManager ---------------------------
(* TunnelManager instantiated for TLC.                                     *)
EXTENDS TunnelManager
=============================================================================
