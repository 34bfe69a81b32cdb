------------------------------- MODULE MCWire -------------------------------
(* Wire instantiated for TLC: bytes of 8 values, VarInts of up to 3 bytes, *)
(* names of 2 and UUIDs of 2 bytes.                                        *)
EXTENDS Wire

Filled(n) == [k \in 1..n |-> (3 * k + 1) % Base]

AnyTokens   == {Filled(n) : n \in {0, 1, 6, 59, 60, 61, 62, 63}}
AnyIPs      == {Filled(n) : n \in {0, 3}}
AnyMessages == {Filled(n) : n \in {0, 1, 53, 54, 56, 63}}
AnyAddrs    == {<<>>, <<1>>, <<0, 7, 4>>}
AnyNames    == {<<>>, <<2>>, <<5, 0>>, <<1, 1, 1>>}
AnyUUIDs    == {<<>>, <<7>>, <<7, 1>>}
AnyReasons  == {Filled(n) : n \in {0, 1, 3, 4, 13, 14, 15, 16, 40}}
=============================================================================
