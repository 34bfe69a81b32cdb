---------------------------- MODULE MCClientLock ----------------------------
(* ClientLock instantiated for TLC; its constants are model values.        *)
EXTENDS ClientLock
=============================================================================
