--------------------------- MODULE MCPlayerSlots ---------------------------
(* PlayerSlots instantiated for TLC.                                       *)
EXTENDS PlayerSlots, TLC

Symmetry == Permutations(Conns) \union Permutations(Togglers) \union Permutations(Names)
=============================================================================
