------------------------------ MODULE MCClient ------------------------------
(* Client instantiated for TLC; its constants need no model values.        *)
EXTENDS Client
=============================================================================
