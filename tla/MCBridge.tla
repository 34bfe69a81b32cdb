------------------------------ MODULE MCBridge ------------------------------
(* Bridge instantiated for TLC; its constants are numbers.                 *)
EXTENDS Bridge
=============================================================================
