---------------------------- MODULE MCPortTable ----------------------------
(* PortTable instantiated for TLC.                                         *)
EXTENDS PortTable, TLC

Symmetry       == Permutations(Clients) \union Permutations(Ports)
ClientSymmetry == Permutations(Clients)
=============================================================================
