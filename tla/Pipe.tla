-------------------------------- MODULE Pipe --------------------------------
(***************************************************************************)
(* What a bridge promises for one direction: the receiver gets what was    *)
(* written, from the first piece on, in order, nothing twice and nothing   *)
(* left out; it may get less when somebody closes.                         *)
(***************************************************************************)
EXTENDS Naturals, Sequences

VARIABLES
  written,   \* pieces written so far; the n-th one is called n
  got        \* the pieces received

vars == <<written, got>>

Init == written = 0 /\ got = <<>>

Write == written' = written + 1 /\ UNCHANGED got

Deliver ==
  /\ Len(got) < written
  /\ got' = Append(got, Len(got) + 1)
  /\ UNCHANGED written

Next == Write \/ Deliver

Spec == Init /\ [][Next]_vars
=============================================================================
