----------------------------- MODULE PortLease -----------------------------
(***************************************************************************)
(* What the port table promises to those who look a port up, without the   *)
(* two maps, the sentinel and the goroutines: a session binds a free port, *)
(* becomes visible once, is hidden, and only then gives the port back.     *)
(***************************************************************************)
CONSTANTS Ports, Sessions, None

VARIABLES
  holder,     \* the session whose listener is bound to each port, or None
  visible,    \* the session a lookup of each port finds, or None
  published   \* the sessions that became visible at some time

vars == <<holder, visible, published>>

Init ==
  /\ holder    = [p \in Ports |-> None]
  /\ visible   = [p \in Ports |-> None]
  /\ published = {}

Open(p, s) ==
  /\ holder[p] = None
  /\ s \notin published
  /\ \A q \in Ports : holder[q] # s
  /\ holder' = [holder EXCEPT ![p] = s]
  /\ UNCHANGED <<visible, published>>

Publish(p) ==
  /\ holder[p] \in Sessions \ published
  /\ visible[p] = None
  /\ visible' = [visible EXCEPT ![p] = holder[p]]
  /\ published' = published \union {holder[p]}
  /\ UNCHANGED holder

Hide(p) ==
  /\ visible[p] # None
  /\ visible' = [visible EXCEPT ![p] = None]
  /\ UNCHANGED <<holder, published>>

Close(p) ==
  /\ holder[p] \in published
  /\ visible[p] = None
  /\ holder' = [holder EXCEPT ![p] = None]
  /\ UNCHANGED <<visible, published>>

Next == \E p \in Ports :
  \/ \E s \in Sessions : Open(p, s)
  \/ Publish(p) \/ Hide(p) \/ Close(p)

Spec == Init /\ [][Next]_vars

TypeOK ==
  /\ holder    \in [Ports -> Sessions \union {None}]
  /\ visible   \in [Ports -> Sessions \union {None}]
  /\ published \in SUBSET Sessions

(* Whoever finds a session under a port finds the one whose listener is    *)
(* bound to it, and no session is found under two ports.                   *)
VisibleHolds ==
  /\ \A p \in Ports : visible[p] # None => visible[p] = holder[p]
  /\ \A p, q \in Ports : visible[p] = visible[q] /\ visible[p] # None => p = q
=============================================================================
