-------------------------- MODULE PortLeaseProofs --------------------------
(* What a module that relies on PortLease may conclude from it.            *)
EXTENDS PortLease, TLAPS

(* No session holds two ports, and a port is visible only while held.      *)
LeaseInv ==
  /\ TypeOK
  /\ \A p \in Ports : visible[p] # None => visible[p] = holder[p] /\ visible[p] \in published
  /\ \A p, q \in Ports : holder[p] = holder[q] /\ holder[p] # None => p = q

LEMMA LeaseInvInductive ==
  ASSUME None \notin Sessions
  PROVE  /\ Init => LeaseInv
         /\ LeaseInv /\ [Next]_vars => LeaseInv'
<1>1. Init => LeaseInv
  BY DEF Init, LeaseInv, TypeOK
<1>2. ASSUME LeaseInv, [Next]_vars PROVE LeaseInv'
  <2> USE <1>2 DEF LeaseInv, TypeOK
  <2>1. ASSUME NEW p \in Ports, NEW s \in Sessions, Open(p, s) PROVE LeaseInv'
    BY <2>1 DEF Open
  <2>2. ASSUME NEW p \in Ports, Publish(p) PROVE LeaseInv'
    BY <2>2 DEF Publish
  <2>3. ASSUME NEW p \in Ports, Hide(p) PROVE LeaseInv'
    BY <2>3 DEF Hide
  <2>4. ASSUME NEW p \in Ports, Close(p) PROVE LeaseInv'
    BY <2>4 DEF Close
  <2>5. CASE UNCHANGED vars
    BY <2>5 DEF vars
  <2> QED
    BY <2>1, <2>2, <2>3, <2>4, <2>5 DEF Next
<1> QED
  BY <1>1, <1>2

(* In PortLease a session that is found under a port is the one whose      *)
(* listener is bound to it, and it is found under no other port.           *)
THEOREM LeaseVisibleHolds ==
  ASSUME None \notin Sessions
  PROVE  Spec => []VisibleHolds
<1>1. LeaseInv => VisibleHolds
  BY DEF LeaseInv, VisibleHolds
<1> QED
  BY <1>1, LeaseInvInductive, PTL DEF Spec
=============================================================================
