-------------------------- MODULE PortTableProofs --------------------------
(***************************************************************************)
(* Theorems about the port table, for every number of clients, dashboard   *)
(* requests and ports, and any set of expiring clients.                    *)
(***************************************************************************)
EXTENDS PortTable, TLAPS

-----------------------------------------------------------------------------
(* Type correctness                                                        *)

(* c is inside AllocatePort and has not built its Session object yet.      *)
PreBuild(c) ==
  \/ pc[c] \in {"load", "checkExisting", "probe", "listen", "rollback"}
  \/ pc[c] \in RemoveLabels /\ ret[c] = "probe"

CallNumbered ==
  \A c \in Clients :
    PreBuild(c) \/ pc[c] \in {"storePort", "storeClient", "startTicker"} => calls[c] # 0

PortInHand ==
  \A c \in Clients : pc[c] \in {"listen", "rollback", "storePort"} => port[c] \in Ports

TypeInv == TypeOK /\ CallNumbered /\ PortInHand

LEMMA TypeInit == Init => TypeInv
BY CallBound, DistinctNames
   DEF Init, TypeInv, TypeOK, CallNumbered, PortInHand, PreBuild, Labels, AllocLabels,
       RemoveLabels, CloseLabels, Objects, Goroutines

LEMMA NewSessionType ==
  ASSUME TypeInv, NEW c \in Clients,
         PreBuild(c) \/ pc[c] \in {"storePort", "storeClient", "startTicker"}
  PROVE  NewSession(c) \in Sessions
BY CallBound DEF TypeInv, TypeOK, CallNumbered, NewSession, Sessions

LEMMA TypeStep == TypeInv /\ [Next]_vars => TypeInv'
<1> USE DistinctNames, CallBound
<1> SUFFICES ASSUME TypeInv, [Next]_vars PROVE TypeInv'
    OBVIOUS
<1> USE DEF TypeInv, TypeOK, CallNumbered, PortInHand, PreBuild, Labels, AllocLabels,
            RemoveLabels, CloseLabels, Objects, Goroutines, Goto, tableVars, sessionVars,
            worldVars, callVars
<1>1. ASSUME NEW c \in Clients, AllocatePort(c) PROVE TypeInv'
  BY <1>1 DEF AllocatePort
<1>2. ASSUME NEW c \in Clients, LoadExisting(c) PROVE TypeInv'
  BY <1>2 DEF LoadExisting
<1>3. ASSUME NEW c \in Clients, CheckExisting(c) PROVE TypeInv'
  BY <1>3 DEF CheckExisting
<1>4. ASSUME NEW c \in Clients, ReservePort(c) PROVE TypeInv'
  BY <1>4 DEF ReservePort
<1>5. ASSUME NEW c \in Clients, NoAvailablePorts(c) PROVE TypeInv'
  BY <1>5 DEF NoAvailablePorts
<1>6. ASSUME NEW c \in Clients, Listen(c) PROVE TypeInv'
  BY <1>6, NewSessionType DEF Listen
<1>7. ASSUME NEW c \in Clients, RollbackPort(c) PROVE TypeInv'
  BY <1>7 DEF RollbackPort, DeleteKey
<1>8. ASSUME NEW c \in Clients, StorePort(c) PROVE TypeInv'
  BY <1>8, NewSessionType DEF StorePort
<1>9. ASSUME NEW c \in Clients, StoreClient(c) PROVE TypeInv'
  BY <1>9, NewSessionType DEF StoreClient
<1>10. ASSUME NEW c \in Clients, StartRateTicker(c) PROVE TypeInv'
  BY <1>10, NewSessionType DEF StartRateTicker
<1>11. ASSUME NEW c \in Clients, LookupOwn(c) PROVE TypeInv'
  BY <1>11 DEF LookupOwn, GetSession
<1>12. ASSUME NEW c \in Clients, SetDataSession(c) PROVE TypeInv'
  BY <1>12 DEF SetDataSession
<1>13. ASSUME NEW c \in Clients, CleanupSession(c) PROVE TypeInv'
  BY <1>13 DEF CleanupSession, GetSession
<1>14. ASSUME NEW d \in Closers, HandleCloseSession(d) PROVE TypeInv'
  BY <1>14 DEF HandleCloseSession, GetSession
<1>15. ASSUME NEW r \in Reclaimers, ReclaimStale(r) PROVE TypeInv'
  BY <1>15 DEF ReclaimStale, StaleObjects
<1>16. ASSUME NEW g \in Goroutines, DeletePort(g) PROVE TypeInv'
  BY <1>16 DEF DeletePort, DeleteKey
<1>17. ASSUME NEW g \in Goroutines, DeleteClient(g) PROVE TypeInv'
  BY <1>17 DEF DeleteClient, DeleteKey
<1>18. ASSUME NEW g \in Goroutines, CloseCAS(g) PROVE TypeInv'
  <2>1. CASE ~closed[obj[g]]
    <3>1. /\ pc[g] = "closeCAS" /\ obj[g] \in Objects
          /\ pc' = [pc EXCEPT ![g] = "closeTicker"]
          /\ closed' = [closed EXCEPT ![obj[g]] = TRUE]
          /\ UNCHANGED <<tableVars, assignedPort, tickerDone, dataSession, worldVars,
                         callVars, obj, ret>>
      BY <1>18, <2>1 DEF CloseCAS
    <3>2. TypeOK'
      BY <3>1
    <3>3. CallNumbered'
      BY <3>1
    <3>4. PortInHand'
      BY <3>1
    <3> QED
      BY <3>2, <3>3, <3>4
  <2>2. CASE closed[obj[g]]
    <3>1. /\ pc[g] = "closeCAS"
          /\ pc' = [pc EXCEPT ![g] = ret[g]]
          /\ obj' = [obj EXCEPT ![g] = None]
          /\ ret[g] \in {"probe", "done", "idle"}
          /\ UNCHANGED <<tableVars, sessionVars, worldVars, callVars, ret>>
      BY <1>18, <2>2 DEF CloseCAS, Return
    <3>2. TypeOK'
      BY <3>1
    <3>3. pc'[g] \in {"probe", "done", "idle"} /\ \A h \in Goroutines : h # g => pc'[h] = pc[h]
      BY <3>1
    <3>4. CallNumbered'
      BY <1>18, <3>1, <3>3
    <3>5. PortInHand'
      BY <3>1, <3>3
    <3> QED
      BY <3>2, <3>4, <3>5
  <2> QED
    BY <2>1, <2>2
<1>19. ASSUME NEW g \in Goroutines, CloseTicker(g) PROVE TypeInv'
  BY <1>19 DEF CloseTicker
<1>20. ASSUME NEW g \in Goroutines, CloseListener(g) PROVE TypeInv'
  BY <1>20 DEF CloseListener
<1>21. ASSUME NEW g \in Goroutines, CloseData(g) PROVE TypeInv'
  BY <1>21 DEF CloseData, Return
<1>22. CASE UNCHANGED vars
  BY <1>22 DEF vars
<1> QED
  BY <1>1, <1>2, <1>3, <1>4, <1>5, <1>6, <1>7, <1>8, <1>9, <1>10, <1>11, <1>12, <1>13,
     <1>14, <1>15, <1>16, <1>17, <1>18, <1>19, <1>20, <1>21, <1>22
     DEF Next, AllocStep, RemoveStep

(* The state stays within its types.                                       *)
THEOREM TypeCorrect == Spec => []TypeOK
<1>1. Spec => []TypeInv
  BY TypeInit, TypeStep, PTL DEF Spec
<1>2. TypeInv => TypeOK
  BY DEF TypeInv
<1> QED
  BY <1>1, <1>2, PTL

-----------------------------------------------------------------------------
(* The inductive invariant behind TableLive and PortLease                  *)

(* The object a call will build does not exist yet.                        *)
Fresh ==
  \A c \in Clients, k \in 1..MaxCalls :
    k > calls[c] \/ (k = calls[c] /\ PreBuild(c)) => ~Built(<<c, k>>)

(* An entry of the table is a published, open session bound to that port.  *)
EntryLive ==
  \A p \in Ports : portToSession[p] \in Sessions =>
    /\ Published(portToSession[p])
    /\ assignedPort[portToSession[p]] = p
    /\ ~closed[portToSession[p]]
    /\ listening[p] = portToSession[p]

(* So is a session about to be entered, except that nobody has seen it.    *)
StoringLive ==
  \A c \in Clients : pc[c] = "storePort" =>
    /\ assignedPort[NewSession(c)] = port[c]
    /\ ~closed[NewSession(c)]
    /\ listening[port[c]] = NewSession(c)

StoredBuilt ==
  \A c \in Clients : pc[c] \in {"storeClient", "startTicker"} => Built(NewSession(c))

(* Between AllocatePort's return and the end of the connection the client  *)
(* has a port.                                                             *)
PortHeld ==
  \A c \in Clients :
    pc[c] \in {"storeClient", "startTicker", "lookupOwn", "setDataSession", "serving"} =>
      port[c] \in Ports

(* Sessions in the hands of a goroutine or in the client map were in the   *)
(* table once.                                                             *)
KnownPublished ==
  /\ \A g \in Goroutines : obj[g] \in Sessions => Published(obj[g])
  /\ \A c \in Clients : clientToSession[c] # None => Published(clientToSession[c])

(* A session leaves the table before its Close and never returns to it.    *)
RemovedHidden ==
  /\ \A g \in Goroutines : pc[g] \in RemoveLabels \ {"deletePort"} =>
       \A p \in Ports : portToSession[p] \in Sessions => portToSession[p] # obj[g]
  /\ \A s \in Sessions : closed[s] =>
       /\ Published(s)
       /\ \A p \in Ports : portToSession[p] # s

ListenerOwned ==
  \A p \in Ports : listening[p] # None => assignedPort[listening[p]] = p

TableInv == EntryLive /\ StoringLive /\ StoredBuilt /\ PortHeld /\ KnownPublished
            /\ RemovedHidden /\ ListenerOwned /\ Fresh

IInv == TypeInv /\ TableInv

LEMMA TableInit == Init => TableInv
BY CallBound, DistinctNames
   DEF Init, TableInv, EntryLive, StoringLive, StoredBuilt, PortHeld, KnownPublished, RemovedHidden,
       ListenerOwned, Fresh, Objects, RemoveLabels, CloseLabels, Goroutines, Built, Sessions

(* Only StorePort publishes a session, and nothing undoes it.              *)
LEMMA PublishedSame ==
  ASSUME TypeInv, TypeInv', Fresh, [Next]_vars, NEW s \in Sessions,
         \A c \in Clients : ~StorePort(c)
  PROVE  Published(s)' <=> Published(s)
<1> USE DEF TypeInv, TypeOK, Published, Storing, Built, ClientOf, NewSession, Sessions,
            Goto, sessionVars, callVars, Goroutines, RemoveLabels, CloseLabels
<1>1. ASSUME NEW c \in Clients, Listen(c) PROVE Published(s)' <=> Published(s)
  BY <1>1 DEF Listen, Fresh, PreBuild
<1>2. ASSUME NEW c \in Clients, AllocatePort(c) PROVE Published(s)' <=> Published(s)
  BY <1>2 DEF AllocatePort
<1>3. ASSUME NEW c \in Clients, LoadExisting(c) PROVE Published(s)' <=> Published(s)
  BY <1>3 DEF LoadExisting
<1>4. ASSUME NEW c \in Clients, CheckExisting(c) PROVE Published(s)' <=> Published(s)
  BY <1>4 DEF CheckExisting
<1>5. ASSUME NEW c \in Clients, ReservePort(c) PROVE Published(s)' <=> Published(s)
  BY <1>5 DEF ReservePort
<1>6. ASSUME NEW c \in Clients, NoAvailablePorts(c) PROVE Published(s)' <=> Published(s)
  BY <1>6 DEF NoAvailablePorts
<1>7. ASSUME NEW c \in Clients, RollbackPort(c) PROVE Published(s)' <=> Published(s)
  BY <1>7 DEF RollbackPort
<1>9. ASSUME NEW c \in Clients, StoreClient(c) PROVE Published(s)' <=> Published(s)
  BY <1>9 DEF StoreClient
<1>10. ASSUME NEW c \in Clients, StartRateTicker(c) PROVE Published(s)' <=> Published(s)
  BY <1>10 DEF StartRateTicker
<1>11. ASSUME NEW c \in Clients, LookupOwn(c) PROVE Published(s)' <=> Published(s)
  BY <1>11 DEF LookupOwn
<1>12. ASSUME NEW c \in Clients, SetDataSession(c) PROVE Published(s)' <=> Published(s)
  BY <1>12 DEF SetDataSession
<1>13. ASSUME NEW c \in Clients, CleanupSession(c) PROVE Published(s)' <=> Published(s)
  BY <1>13 DEF CleanupSession
<1>14. ASSUME NEW d \in Closers, HandleCloseSession(d) PROVE Published(s)' <=> Published(s)
  BY <1>14 DEF HandleCloseSession
<1>15. ASSUME NEW r \in Reclaimers, ReclaimStale(r) PROVE Published(s)' <=> Published(s)
  BY <1>15 DEF ReclaimStale
<1>16. ASSUME NEW g \in Goroutines, DeletePort(g) PROVE Published(s)' <=> Published(s)
  BY <1>16 DEF DeletePort
<1>17. ASSUME NEW g \in Goroutines, DeleteClient(g) PROVE Published(s)' <=> Published(s)
  BY <1>17 DEF DeleteClient
<1>18. ASSUME NEW g \in Goroutines, CloseCAS(g) PROVE Published(s)' <=> Published(s)
  BY <1>18 DEF CloseCAS, Return
<1>19. ASSUME NEW g \in Goroutines, CloseTicker(g) PROVE Published(s)' <=> Published(s)
  BY <1>19 DEF CloseTicker
<1>20. ASSUME NEW g \in Goroutines, CloseListener(g) PROVE Published(s)' <=> Published(s)
  BY <1>20 DEF CloseListener
<1>21. ASSUME NEW g \in Goroutines, CloseData(g) PROVE Published(s)' <=> Published(s)
  BY <1>21 DEF CloseData, Return
<1>22. CASE UNCHANGED vars
  BY <1>22 DEF vars
<1> QED
  BY <1>1, <1>2, <1>3, <1>4, <1>5, <1>6, <1>7, <1>9, <1>10, <1>11, <1>12, <1>13, <1>14, <1>15, <1>16, <1>17, <1>18, <1>19, <1>20, <1>21, <1>22
     DEF Next, AllocStep, RemoveStep

LEMMA PublishedByStore ==
  ASSUME TypeInv, StoringLive, NEW c \in Clients, StorePort(c), NEW s \in Sessions
  PROVE  Published(s)' <=> Published(s) \/ s = NewSession(c)
<1>1. /\ NewSession(c) \in Sessions
      /\ assignedPort[NewSession(c)] # None
  BY NewSessionType, DistinctNames DEF StorePort, StoringLive, TypeInv, PortInHand
<1>2. assignedPort' = assignedPort /\ calls' = calls /\ pc' = [pc EXCEPT ![c] = "storeClient"]
  BY DEF StorePort, Goto, sessionVars, callVars
<1>3. pc[c] = "storePort"
  BY DEF StorePort
<1> QED
  BY <1>1, <1>2, <1>3 DEF Published, Storing, Built, ClientOf, NewSession, Sessions, TypeInv,
     TypeOK, Goroutines

LEMMA PublishedStays ==
  ASSUME TypeInv, TypeInv', Fresh, StoringLive, [Next]_vars, NEW s \in Sessions, Published(s)
  PROVE  Published(s)'
BY PublishedSame, PublishedByStore

LEMMA TableStep == TypeInv /\ TypeInv' /\ TableInv /\ [Next]_vars => TableInv'
<1> USE DistinctNames, CallBound
<1> SUFFICES ASSUME TypeInv, TypeInv', TableInv, [Next]_vars PROVE TableInv'
    OBVIOUS
<1> USE DEF TypeInv, TypeOK, CallNumbered, PortInHand, PreBuild, Labels, AllocLabels,
            RemoveLabels, CloseLabels, Objects, Goroutines, Goto, tableVars, sessionVars,
            worldVars, callVars, TableInv
<1>p. \A s \in Sessions : Published(s) => Published(s)'
  BY PublishedStays
<1>1. ASSUME NEW c \in Clients, AllocatePort(c) PROVE TableInv'
  <2>1. KnownPublished'
    BY <1>1, <1>p DEF AllocatePort, KnownPublished
  <2>2. EntryLive'
    BY <1>1, <1>p DEF AllocatePort, EntryLive
  <2>3. StoringLive'
    BY <1>1 DEF AllocatePort, StoringLive, NewSession
  <2>4. StoredBuilt' /\ PortHeld'
    BY <1>1 DEF AllocatePort, StoredBuilt, PortHeld, Built, NewSession
  <2>5. RemovedHidden'
    BY <1>1, <1>p DEF AllocatePort, RemovedHidden
  <2>6. ListenerOwned'
    BY <1>1 DEF AllocatePort, ListenerOwned
  <2>7. Fresh'
    BY <1>1 DEF AllocatePort, Fresh, Built
  <2> QED
    BY <2>1, <2>2, <2>3, <2>4, <2>5, <2>6, <2>7
<1>2. ASSUME NEW c \in Clients, LoadExisting(c) PROVE TableInv'
  <2>1. KnownPublished'
    BY <1>2, <1>p DEF LoadExisting, KnownPublished
  <2>2. EntryLive'
    BY <1>2, <1>p DEF LoadExisting, EntryLive
  <2>3. StoringLive'
    BY <1>2 DEF LoadExisting, StoringLive, NewSession
  <2>4. StoredBuilt' /\ PortHeld'
    BY <1>2 DEF LoadExisting, StoredBuilt, PortHeld, Built, NewSession
  <2>5. RemovedHidden'
    BY <1>2, <1>p DEF LoadExisting, RemovedHidden
  <2>6. ListenerOwned'
    BY <1>2 DEF LoadExisting, ListenerOwned
  <2>7. Fresh'
    BY <1>2 DEF LoadExisting, Fresh, Built
  <2> QED
    BY <2>1, <2>2, <2>3, <2>4, <2>5, <2>6, <2>7
<1>3. ASSUME NEW c \in Clients, CheckExisting(c) PROVE TableInv'
  <2>1. KnownPublished'
    BY <1>3, <1>p DEF CheckExisting, KnownPublished
  <2>2. EntryLive'
    BY <1>3, <1>p DEF CheckExisting, EntryLive
  <2>3. StoringLive'
    BY <1>3 DEF CheckExisting, StoringLive, NewSession
  <2>4. StoredBuilt' /\ PortHeld'
    BY <1>3
       DEF CheckExisting, StoredBuilt, PortHeld, Built, NewSession, KnownPublished,
           Published
  <2>5. RemovedHidden'
    BY <1>3, <1>p DEF CheckExisting, RemovedHidden
  <2>6. ListenerOwned'
    BY <1>3 DEF CheckExisting, ListenerOwned
  <2>7. Fresh'
    BY <1>3 DEF CheckExisting, Fresh, Built
  <2> QED
    BY <2>1, <2>2, <2>3, <2>4, <2>5, <2>6, <2>7
<1>4. ASSUME NEW c \in Clients, ReservePort(c) PROVE TableInv'
  <2>1. KnownPublished'
    BY <1>4, <1>p DEF ReservePort, KnownPublished
  <2>2. EntryLive'
    BY <1>4, <1>p DEF ReservePort, EntryLive
  <2>3. StoringLive'
    BY <1>4 DEF ReservePort, StoringLive, NewSession
  <2>4. StoredBuilt' /\ PortHeld'
    BY <1>4 DEF ReservePort, StoredBuilt, PortHeld, Built, NewSession
  <2>5. RemovedHidden'
    BY <1>4, <1>p DEF ReservePort, RemovedHidden
  <2>6. ListenerOwned'
    BY <1>4 DEF ReservePort, ListenerOwned
  <2>7. Fresh'
    BY <1>4 DEF ReservePort, Fresh, Built
  <2> QED
    BY <2>1, <2>2, <2>3, <2>4, <2>5, <2>6, <2>7
<1>5. ASSUME NEW c \in Clients, NoAvailablePorts(c) PROVE TableInv'
  <2>1. KnownPublished'
    BY <1>5, <1>p DEF NoAvailablePorts, KnownPublished
  <2>2. EntryLive'
    BY <1>5, <1>p DEF NoAvailablePorts, EntryLive
  <2>3. StoringLive'
    BY <1>5 DEF NoAvailablePorts, StoringLive, NewSession
  <2>4. StoredBuilt' /\ PortHeld'
    BY <1>5 DEF NoAvailablePorts, StoredBuilt, PortHeld, Built, NewSession
  <2>5. RemovedHidden'
    BY <1>5, <1>p DEF NoAvailablePorts, RemovedHidden
  <2>6. ListenerOwned'
    BY <1>5 DEF NoAvailablePorts, ListenerOwned
  <2>7. Fresh'
    BY <1>5 DEF NoAvailablePorts, Fresh, Built
  <2> QED
    BY <2>1, <2>2, <2>3, <2>4, <2>5, <2>6, <2>7
<1>6. ASSUME NEW c \in Clients, Listen(c) PROVE TableInv'
  <2>1. /\ NewSession(c) \in Sessions
       /\ NewSession(c)' = NewSession(c)
       /\ assignedPort[NewSession(c)] = None
       /\ ~Published(NewSession(c))
    BY <1>6, NewSessionType DEF Listen, NewSession, Fresh, Built, Published
  <2>2. KnownPublished'
    BY <1>6, <1>p DEF Listen, KnownPublished
  <2>3. EntryLive'
    BY <1>6, <1>p, <2>1 DEF Listen, EntryLive
  <2>4. StoringLive'
    <3> SUFFICES ASSUME NEW e \in Clients, pc'[e] = "storePort"
                 PROVE  /\ assignedPort'[NewSession(e)] = port[e]
                        /\ ~closed[NewSession(e)]
                        /\ listening'[port[e]] = NewSession(e)
      BY <1>6 DEF StoringLive, Listen, NewSession
    <3>1. CASE e = c
      BY <1>6, <2>1, <3>1 DEF Listen, RemovedHidden
    <3>2. CASE e # c
      <4>1. pc[e] = "storePort" /\ NewSession(e) # NewSession(c)
        BY <1>6, <3>2 DEF Listen, NewSession
      <4>2. listening[port[e]] # None
        BY <4>1, NewSessionType DEF StoringLive
      <4> QED
        BY <1>6, <4>1, <4>2, NewSessionType DEF Listen, StoringLive
    <3> QED
      BY <3>1, <3>2
  <2>5. StoredBuilt' /\ PortHeld'
    BY <1>6 DEF Listen, StoredBuilt, PortHeld, Built, NewSession, Published, Sessions
  <2>6. RemovedHidden'
    BY <1>6, <1>p DEF Listen, RemovedHidden
  <2>7. ListenerOwned'
    BY <1>6, <2>1 DEF Listen, ListenerOwned
  <2>8. Fresh'
    BY <1>6 DEF Listen, Fresh, Built, NewSession, Sessions
  <2> QED
    BY <2>1, <2>2, <2>3, <2>4, <2>5, <2>6, <2>7, <2>8
<1>7. ASSUME NEW c \in Clients, RollbackPort(c) PROVE TableInv'
  <2>1. KnownPublished'
    BY <1>7, <1>p DEF RollbackPort, KnownPublished
  <2>2. EntryLive'
    BY <1>7, <1>p DEF RollbackPort, DeleteKey, EntryLive
  <2>3. StoringLive'
    BY <1>7 DEF RollbackPort, StoringLive, NewSession
  <2>4. StoredBuilt' /\ PortHeld'
    BY <1>7 DEF RollbackPort, StoredBuilt, PortHeld, Built, NewSession
  <2>5. RemovedHidden'
    BY <1>7, <1>p DEF RollbackPort, DeleteKey, RemovedHidden
  <2>6. ListenerOwned'
    BY <1>7 DEF RollbackPort, ListenerOwned
  <2>7. Fresh'
    BY <1>7 DEF RollbackPort, Fresh, Built
  <2> QED
    BY <2>1, <2>2, <2>3, <2>4, <2>5, <2>6, <2>7
<1>8. ASSUME NEW c \in Clients, StorePort(c) PROVE TableInv'
  <2>1. ~Published(NewSession(c)) /\ Published(NewSession(c))'
    BY <1>8 DEF StorePort, StoringLive, Published, Storing, Built, ClientOf, NewSession
  <2>2. KnownPublished'
    BY <1>8, <1>p DEF StorePort, KnownPublished
  <2>3. EntryLive'
    BY <1>8, <1>p, <2>1 DEF StorePort, EntryLive, StoringLive, NewSession
  <2>4. StoringLive'
    BY <1>8 DEF StorePort, StoringLive, NewSession
  <2>5. StoredBuilt' /\ PortHeld'
    BY <1>8 DEF StorePort, StoredBuilt, StoringLive, PortHeld, Built, NewSession
  <2>6. RemovedHidden'
    BY <1>8, <1>p, <2>1 DEF StorePort, RemovedHidden, KnownPublished
  <2>7. ListenerOwned'
    BY <1>8 DEF StorePort, ListenerOwned
  <2>8. Fresh'
    BY <1>8 DEF StorePort, Fresh, Built
  <2> QED
    BY <2>1, <2>2, <2>3, <2>4, <2>5, <2>6, <2>7, <2>8
<1>9. ASSUME NEW c \in Clients, StoreClient(c) PROVE TableInv'
  <2>1. Published(NewSession(c))
    BY <1>9 DEF StoreClient, StoredBuilt, Published, Storing, NewSession
  <2>2. KnownPublished'
    BY <1>9, <1>p, <2>1 DEF StoreClient, KnownPublished
  <2>3. EntryLive'
    BY <1>9, <1>p DEF StoreClient, EntryLive
  <2>4. StoringLive'
    BY <1>9 DEF StoreClient, StoringLive, NewSession
  <2>5. StoredBuilt' /\ PortHeld'
    BY <1>9 DEF StoreClient, StoredBuilt, PortHeld, Built, NewSession
  <2>6. RemovedHidden'
    BY <1>9, <1>p DEF StoreClient, RemovedHidden
  <2>7. ListenerOwned'
    BY <1>9 DEF StoreClient, ListenerOwned
  <2>8. Fresh'
    BY <1>9 DEF StoreClient, Fresh, Built
  <2> QED
    BY <2>1, <2>2, <2>3, <2>4, <2>5, <2>6, <2>7, <2>8
<1>10. ASSUME NEW c \in Clients, StartRateTicker(c) PROVE TableInv'
  <2>1. KnownPublished'
    BY <1>10, <1>p DEF StartRateTicker, KnownPublished
  <2>2. EntryLive'
    BY <1>10, <1>p DEF StartRateTicker, EntryLive
  <2>3. StoringLive'
    BY <1>10 DEF StartRateTicker, StoringLive, NewSession
  <2>4. StoredBuilt' /\ PortHeld'
    BY <1>10 DEF StartRateTicker, StoredBuilt, PortHeld, Built, NewSession
  <2>5. RemovedHidden'
    BY <1>10, <1>p DEF StartRateTicker, RemovedHidden
  <2>6. ListenerOwned'
    BY <1>10 DEF StartRateTicker, ListenerOwned
  <2>7. Fresh'
    BY <1>10 DEF StartRateTicker, Fresh, Built
  <2> QED
    BY <2>1, <2>2, <2>3, <2>4, <2>5, <2>6, <2>7
<1>11. ASSUME NEW c \in Clients, LookupOwn(c) PROVE TableInv'
  <2>1. KnownPublished'
    BY <1>11, <1>p DEF LookupOwn, GetSession, KnownPublished, EntryLive, PortHeld
  <2>2. EntryLive'
    BY <1>11, <1>p DEF LookupOwn, EntryLive
  <2>3. StoringLive'
    BY <1>11 DEF LookupOwn, StoringLive, NewSession
  <2>4. StoredBuilt' /\ PortHeld'
    BY <1>11 DEF LookupOwn, StoredBuilt, PortHeld, Built, NewSession
  <2>5. RemovedHidden'
    BY <1>11, <1>p DEF LookupOwn, RemovedHidden
  <2>6. ListenerOwned'
    BY <1>11 DEF LookupOwn, ListenerOwned
  <2>7. Fresh'
    BY <1>11 DEF LookupOwn, Fresh, Built
  <2> QED
    BY <2>1, <2>2, <2>3, <2>4, <2>5, <2>6, <2>7
<1>12. ASSUME NEW c \in Clients, SetDataSession(c) PROVE TableInv'
  <2>1. KnownPublished'
    BY <1>12, <1>p DEF SetDataSession, KnownPublished
  <2>2. EntryLive'
    BY <1>12, <1>p DEF SetDataSession, EntryLive
  <2>3. StoringLive'
    BY <1>12 DEF SetDataSession, StoringLive, NewSession
  <2>4. StoredBuilt' /\ PortHeld'
    BY <1>12 DEF SetDataSession, StoredBuilt, PortHeld, Built, NewSession
  <2>5. RemovedHidden'
    BY <1>12, <1>p DEF SetDataSession, RemovedHidden
  <2>6. ListenerOwned'
    BY <1>12 DEF SetDataSession, ListenerOwned
  <2>7. Fresh'
    BY <1>12 DEF SetDataSession, Fresh, Built
  <2> QED
    BY <2>1, <2>2, <2>3, <2>4, <2>5, <2>6, <2>7
<1>13. ASSUME NEW c \in Clients, CleanupSession(c) PROVE TableInv'
  <2>1. KnownPublished'
    BY <1>13, <1>p DEF CleanupSession, GetSession, KnownPublished, EntryLive, PortHeld
  <2>2. EntryLive'
    BY <1>13, <1>p DEF CleanupSession, EntryLive
  <2>3. StoringLive'
    BY <1>13 DEF CleanupSession, StoringLive, NewSession
  <2>4. StoredBuilt' /\ PortHeld'
    BY <1>13 DEF CleanupSession, StoredBuilt, PortHeld, Built, NewSession
  <2>5. RemovedHidden'
    BY <1>13, <1>p DEF CleanupSession, RemovedHidden
  <2>6. ListenerOwned'
    BY <1>13 DEF CleanupSession, ListenerOwned
  <2>7. Fresh'
    BY <1>13 DEF CleanupSession, Fresh, Built
  <2> QED
    BY <2>1, <2>2, <2>3, <2>4, <2>5, <2>6, <2>7
<1>14. ASSUME NEW d \in Closers, HandleCloseSession(d) PROVE TableInv'
  <2>1. KnownPublished'
    BY <1>14, <1>p DEF HandleCloseSession, GetSession, KnownPublished, EntryLive
  <2>2. EntryLive'
    BY <1>14, <1>p DEF HandleCloseSession, EntryLive
  <2>3. StoringLive'
    BY <1>14 DEF HandleCloseSession, StoringLive, NewSession
  <2>4. StoredBuilt' /\ PortHeld'
    BY <1>14 DEF HandleCloseSession, StoredBuilt, PortHeld, Built, NewSession
  <2>5. RemovedHidden'
    BY <1>14, <1>p DEF HandleCloseSession, RemovedHidden
  <2>6. ListenerOwned'
    BY <1>14 DEF HandleCloseSession, ListenerOwned
  <2>7. Fresh'
    BY <1>14 DEF HandleCloseSession, Fresh, Built
  <2> QED
    BY <2>1, <2>2, <2>3, <2>4, <2>5, <2>6, <2>7
<1>15. ASSUME NEW r \in Reclaimers, ReclaimStale(r) PROVE TableInv'
  <2>1. KnownPublished'
    BY <1>15, <1>p DEF ReclaimStale, KnownPublished, EntryLive
  <2>2. EntryLive'
    BY <1>15, <1>p DEF ReclaimStale, EntryLive
  <2>3. StoringLive'
    BY <1>15 DEF ReclaimStale, StoringLive, NewSession
  <2>4. StoredBuilt' /\ PortHeld'
    BY <1>15 DEF ReclaimStale, StoredBuilt, PortHeld, Built, NewSession
  <2>5. RemovedHidden'
    BY <1>15, <1>p DEF ReclaimStale, RemovedHidden
  <2>6. ListenerOwned'
    BY <1>15 DEF ReclaimStale, ListenerOwned
  <2>7. Fresh'
    BY <1>15 DEF ReclaimStale, Fresh, Built
  <2> QED
    BY <2>1, <2>2, <2>3, <2>4, <2>5, <2>6, <2>7
<1>16. ASSUME NEW g \in Goroutines, DeletePort(g) PROVE TableInv'
  <2>1. KnownPublished'
    BY <1>16, <1>p DEF DeletePort, KnownPublished
  <2>2. EntryLive'
    BY <1>16, <1>p DEF DeletePort, DeleteKey, EntryLive
  <2>3. StoringLive'
    BY <1>16 DEF DeletePort, StoringLive, NewSession
  <2>4. StoredBuilt' /\ PortHeld'
    BY <1>16 DEF DeletePort, StoredBuilt, PortHeld, Built, NewSession
  <2>5. RemovedHidden'
    BY <1>16, <1>p DEF DeletePort, DeleteKey, PortOf, RemovedHidden, EntryLive
  <2>6. ListenerOwned'
    BY <1>16 DEF DeletePort, ListenerOwned
  <2>7. Fresh'
    BY <1>16 DEF DeletePort, Fresh, Built
  <2> QED
    BY <2>1, <2>2, <2>3, <2>4, <2>5, <2>6, <2>7
<1>17. ASSUME NEW g \in Goroutines, DeleteClient(g) PROVE TableInv'
  <2>1. KnownPublished'
    BY <1>17, <1>p DEF DeleteClient, DeleteKey, KnownPublished
  <2>2. EntryLive'
    BY <1>17, <1>p DEF DeleteClient, EntryLive
  <2>3. StoringLive'
    BY <1>17 DEF DeleteClient, StoringLive, NewSession
  <2>4. StoredBuilt' /\ PortHeld'
    BY <1>17 DEF DeleteClient, StoredBuilt, PortHeld, Built, NewSession
  <2>5. RemovedHidden'
    BY <1>17, <1>p DEF DeleteClient, RemovedHidden
  <2>6. ListenerOwned'
    BY <1>17 DEF DeleteClient, ListenerOwned
  <2>7. Fresh'
    BY <1>17 DEF DeleteClient, Fresh, Built
  <2> QED
    BY <2>1, <2>2, <2>3, <2>4, <2>5, <2>6, <2>7
<1>18. ASSUME NEW g \in Goroutines, CloseCAS(g) PROVE TableInv'
  <2>1. obj[g] \in Sessions => Published(obj[g])
    BY DEF KnownPublished
  <2>2. KnownPublished'
    BY <1>18, <1>p DEF CloseCAS, Return, KnownPublished
  <2>3. EntryLive'
    BY <1>18, <1>p DEF CloseCAS, EntryLive, RemovedHidden
  <2>4. StoringLive'
    BY <1>18, <2>1
       DEF CloseCAS, Return, StoringLive, NewSession, Sessions, Published, Storing, ClientOf
  <2>5. StoredBuilt' /\ PortHeld'
    BY <1>18 DEF CloseCAS, Return, StoredBuilt, PortHeld, Built, NewSession
  <2>6. RemovedHidden'
    BY <1>18, <1>p, <2>1 DEF CloseCAS, Return, RemovedHidden
  <2>7. ListenerOwned'
    BY <1>18 DEF CloseCAS, ListenerOwned
  <2>8. Fresh'
    BY <1>18 DEF CloseCAS, Return, Fresh, Built
  <2> QED
    BY <2>1, <2>2, <2>3, <2>4, <2>5, <2>6, <2>7, <2>8
<1>19. ASSUME NEW g \in Goroutines, CloseTicker(g) PROVE TableInv'
  <2>1. KnownPublished'
    BY <1>19, <1>p DEF CloseTicker, KnownPublished
  <2>2. EntryLive'
    BY <1>19, <1>p DEF CloseTicker, EntryLive
  <2>3. StoringLive'
    BY <1>19 DEF CloseTicker, StoringLive, NewSession
  <2>4. StoredBuilt' /\ PortHeld'
    BY <1>19 DEF CloseTicker, StoredBuilt, PortHeld, Built, NewSession
  <2>5. RemovedHidden'
    BY <1>19, <1>p DEF CloseTicker, RemovedHidden
  <2>6. ListenerOwned'
    BY <1>19 DEF CloseTicker, ListenerOwned
  <2>7. Fresh'
    BY <1>19 DEF CloseTicker, Fresh, Built
  <2> QED
    BY <2>1, <2>2, <2>3, <2>4, <2>5, <2>6, <2>7
<1>20. ASSUME NEW g \in Goroutines, CloseListener(g) PROVE TableInv'
  <2>1. obj[g] \in Sessions => Published(obj[g]) /\ \A p \in Ports : portToSession[p] # obj[g]
    BY <1>20 DEF CloseListener, KnownPublished, RemovedHidden
  <2>2. KnownPublished'
    BY <1>20, <1>p DEF CloseListener, KnownPublished
  <2>3. EntryLive'
    BY <1>20, <1>p, <2>1 DEF CloseListener, EntryLive
  <2>4. StoringLive'
    BY <1>20, <2>1 DEF CloseListener, StoringLive, NewSession, Published, Storing, ClientOf
  <2>5. StoredBuilt' /\ PortHeld'
    BY <1>20 DEF CloseListener, StoredBuilt, PortHeld, Built, NewSession
  <2>6. RemovedHidden'
    BY <1>20, <1>p DEF CloseListener, RemovedHidden
  <2>7. ListenerOwned'
    BY <1>20 DEF CloseListener, ListenerOwned
  <2>8. Fresh'
    BY <1>20 DEF CloseListener, Fresh, Built
  <2> QED
    BY <2>1, <2>2, <2>3, <2>4, <2>5, <2>6, <2>7, <2>8
<1>21. ASSUME NEW g \in Goroutines, CloseData(g) PROVE TableInv'
  <2>1. KnownPublished'
    BY <1>21, <1>p DEF CloseData, Return, KnownPublished
  <2>2. EntryLive'
    BY <1>21, <1>p DEF CloseData, EntryLive
  <2>3. StoringLive'
    BY <1>21 DEF CloseData, Return, StoringLive, NewSession
  <2>4. StoredBuilt' /\ PortHeld'
    BY <1>21 DEF CloseData, Return, StoredBuilt, PortHeld, Built, NewSession
  <2>5. RemovedHidden'
    BY <1>21, <1>p DEF CloseData, Return, RemovedHidden
  <2>6. ListenerOwned'
    BY <1>21 DEF CloseData, ListenerOwned
  <2>7. Fresh'
    BY <1>21 DEF CloseData, Return, Fresh, Built
  <2> QED
    BY <2>1, <2>2, <2>3, <2>4, <2>5, <2>6, <2>7
<1>22. CASE UNCHANGED vars
  BY <1>22
     DEF vars, Published, Storing, Built, NewSession, EntryLive, StoringLive, StoredBuilt,
         PortHeld, KnownPublished, RemovedHidden, ListenerOwned, Fresh
<1> QED
  BY <1>1, <1>2, <1>3, <1>4, <1>5, <1>6, <1>7, <1>8, <1>9, <1>10, <1>11, <1>12, <1>13, <1>14, <1>15, <1>16, <1>17, <1>18, <1>19, <1>20, <1>21, <1>22
     DEF Next, AllocStep, RemoveStep

(* A session found in the table is open and its listener is bound to that  *)
(* port, whatever the allocators and the concurrent removers are doing.    *)
THEOREM TableAlwaysLive == Spec => []TableLive
<1>1. Spec => []IInv
  BY TypeInit, TypeStep, TableInit, TableStep, PTL DEF Spec, IInv
<1>2. IInv => TableLive
  BY DEF IInv, TableInv, EntryLive, TableLive
<1> QED
  BY <1>1, <1>2, PTL

(* HandleClientConnection gives each connection a ClientID of its own and  *)
(* calls AllocatePort once for it: whoever removes sessions meanwhile, at  *)
(* most one port of the table leads to a client.                           *)
THEOREM OneEntryOnFirstCall == ASSUME MaxCalls = 1 PROVE Spec => []OneEntryPerClient
<1>1. TableLive => OneEntryPerClient
  <2> SUFFICES ASSUME TableLive, NEW p \in Ports, NEW q \in Ports,
                      portToSession[p] \in Sessions, portToSession[q] \in Sessions,
                      ClientOf(portToSession[p]) = ClientOf(portToSession[q])
               PROVE  p = q
      BY DEF OneEntryPerClient
  <2>1. 1..MaxCalls = {1}
    OBVIOUS
  <2>2. portToSession[p] = portToSession[q]
    BY <2>1 DEF Sessions, ClientOf
  <2> QED
    BY <2>2 DEF TableLive
<1> QED
  BY <1>1, TableAlwaysLive, PTL

-----------------------------------------------------------------------------
(* At most one entry per client, over repeated calls                       *)

(* Calls for one client and one other remover, the cast of the run         *)
(* table_calls.  AllocatePort must start to look for a port only when the  *)
(* table holds nothing of the client, although the client map is emptied   *)
(* one step after the port map, and when nobody is about to delete a       *)
(* session of it, because that delete would hit what the call enters.      *)

(* At most one client, and at most one goroutine besides it.               *)
Alone == /\ \A c, d \in Clients : c = d
         /\ \A g, h \in Closers \union Reclaimers : g = h

(* c is past the end of its connection, or ends it.                        *)
Gone(c) == pc[c] = "done" \/ (pc[c] \in RemoveLabels /\ ret[c] = "done")

(* The sessions of c the table may hold, and a remover may have in hand    *)
(* before its deletes.                                                     *)
Current(c) ==
  IF pc[c] = "storeClient" THEN {NewSession(c)}
  ELSE IF pc[c] \in {"probe", "listen", "rollback", "storePort"}
          \/ (pc[c] \in RemoveLabels /\ ret[c] = "probe") THEN {}
  ELSE {clientToSession[c]}

Deleting(g) == pc[g] \in {"deletePort", "deleteClient"} /\ obj[g] \in Sessions

EntriesCurrent ==
  \A c \in Clients, p \in Ports : portToSession[p] \in Sessions => portToSession[p] \in Current(c)

HandsCurrent ==
  \A c \in Clients, g \in Closers \union Reclaimers : Deleting(g) =>
    /\ obj[g] \in Current(c) \/ (Gone(c) /\ clientToSession[c] = None)
    /\ ~closed[obj[g]] \/ Gone(c)

(* The client map still leads to the session c looks at, or to nothing.    *)
OwnHand ==
  \A c \in Clients :
    /\ pc[c] \in {"checkExisting", "deletePort", "deleteClient"} =>
         clientToSession[c] \in {obj[c], None}
    /\ pc[c] \in RemoveLabels => ret[c] = "done" \/ (ret[c] = "probe" /\ closed[obj[c]])

OneInv == EntriesCurrent /\ HandsCurrent /\ OwnHand

LEMMA OneInit == Init => OneInv
BY DistinctNames
   DEF Init, OneInv, EntriesCurrent, HandsCurrent, OwnHand, Deleting, Current, RemoveLabels,
       CloseLabels, Objects, Goroutines

LEMMA OneStep == ASSUME Alone, IInv, IInv', OneInv, [Next]_vars PROVE OneInv'
<1> USE DistinctNames
<1>a. \A g, h \in Closers \union Reclaimers : g = h
  BY DEF Alone
<1>b. \A c, d \in Clients : c = d
  BY DEF Alone
<1>c. \A c \in Clients : c \notin Closers \union Reclaimers
  OBVIOUS
<1>d. \A p \in Ports : portToSession[p] \in Sessions => ~closed[portToSession[p]]
  BY DEF IInv, TableInv, EntryLive
<1>e. \A g \in Goroutines : pc[g] \in RemoveLabels \ {"deletePort"} =>
        \A p \in Ports : portToSession[p] \in Sessions => portToSession[p] # obj[g]
  BY DEF IInv, TableInv, RemovedHidden
<1>f. portTaken \notin Sessions /\ None \notin Sessions
  BY DEF Objects
<1>g. \A c \in Clients : pc[c] = "serving" => port[c] \in Ports
  BY DEF IInv, TableInv, PortHeld
<1>h. TypeOK /\ TypeOK'
  BY DEF IInv, TypeInv
<1> USE DEF OneInv, Gone, Current, Goroutines, RemoveLabels, CloseLabels, Goto,
            tableVars, sessionVars, worldVars, callVars
<1>1. ASSUME NEW c \in Clients, AllocatePort(c) PROVE OneInv'
  <2>1. EntriesCurrent'
    BY <1>1, <1>b, <1>f, <1>h
       DEF AllocatePort, TypeOK, EntriesCurrent, HandsCurrent, OwnHand, NewSession
  <2>2. HandsCurrent'
    <3> SUFFICES ASSUME NEW b \in Clients, NEW h \in Closers \union Reclaimers, Deleting(h)'
                 PROVE  (/\ obj[h] \in Current(b) \/ (Gone(b) /\ clientToSession[b] = None)
                         /\ ~closed[obj[h]] \/ Gone(b))'
      BY DEF HandsCurrent
    <3>1. b = c /\ Deleting(h) /\ obj'[h] = obj[h] /\ obj[h] \in Sessions
      BY <1>1, <1>b, <1>c, <1>h DEF AllocatePort, TypeOK, Deleting
    <3>2. /\ obj[h] \in Current(c) \/ (Gone(c) /\ clientToSession[c] = None)
          /\ ~closed[obj[h]] \/ Gone(c)
      BY <3>1 DEF HandsCurrent
    <3> QED
      BY <1>1, <1>f, <1>h, <3>1, <3>2 DEF AllocatePort, TypeOK, OwnHand, NewSession
  <2>3. OwnHand'
    BY <1>1, <1>b, <1>f, <1>h
       DEF AllocatePort, TypeOK, EntriesCurrent, HandsCurrent, OwnHand, NewSession
  <2> QED
    BY <2>1, <2>2, <2>3
<1>2. ASSUME NEW c \in Clients, LoadExisting(c) PROVE OneInv'
  <2>1. EntriesCurrent'
    BY <1>2, <1>b, <1>f, <1>h
       DEF LoadExisting, TypeOK, EntriesCurrent, HandsCurrent, OwnHand, NewSession
  <2>2. HandsCurrent'
    <3> SUFFICES ASSUME NEW b \in Clients, NEW h \in Closers \union Reclaimers, Deleting(h)'
                 PROVE  (/\ obj[h] \in Current(b) \/ (Gone(b) /\ clientToSession[b] = None)
                         /\ ~closed[obj[h]] \/ Gone(b))'
      BY DEF HandsCurrent
    <3>1. b = c /\ Deleting(h) /\ obj'[h] = obj[h] /\ obj[h] \in Sessions
      BY <1>2, <1>b, <1>c, <1>h DEF LoadExisting, TypeOK, Deleting
    <3>2. /\ obj[h] \in Current(c) \/ (Gone(c) /\ clientToSession[c] = None)
          /\ ~closed[obj[h]] \/ Gone(c)
      BY <3>1 DEF HandsCurrent
    <3> QED
      BY <1>2, <1>f, <1>h, <3>1, <3>2 DEF LoadExisting, TypeOK, OwnHand, NewSession
  <2>3. OwnHand'
    BY <1>2, <1>b, <1>f, <1>h
       DEF LoadExisting, TypeOK, EntriesCurrent, HandsCurrent, OwnHand, NewSession
  <2> QED
    BY <2>1, <2>2, <2>3
<1>3. ASSUME NEW c \in Clients, CheckExisting(c) PROVE OneInv'
  <2>1. EntriesCurrent'
    BY <1>3, <1>b, <1>d, <1>f, <1>h
       DEF CheckExisting, TypeOK, EntriesCurrent, HandsCurrent, OwnHand, NewSession
  <2>2. HandsCurrent'
    <3> SUFFICES ASSUME NEW b \in Clients, NEW h \in Closers \union Reclaimers, Deleting(h)'
                 PROVE  (/\ obj[h] \in Current(b) \/ (Gone(b) /\ clientToSession[b] = None)
                         /\ ~closed[obj[h]] \/ Gone(b))'
      BY DEF HandsCurrent
    <3>1. b = c /\ Deleting(h) /\ obj'[h] = obj[h] /\ obj[h] \in Sessions
      BY <1>3, <1>b, <1>c, <1>h DEF CheckExisting, TypeOK, Deleting
    <3>2. /\ obj[h] \in Current(c) \/ (Gone(c) /\ clientToSession[c] = None)
          /\ ~closed[obj[h]] \/ Gone(c)
      BY <3>1 DEF HandsCurrent
    <3> QED
      BY <1>3, <1>f, <1>h, <3>1, <3>2 DEF CheckExisting, TypeOK, OwnHand, NewSession
  <2>3. OwnHand'
    BY <1>3, <1>b, <1>f, <1>h
       DEF CheckExisting, TypeOK, EntriesCurrent, HandsCurrent, OwnHand, NewSession
  <2> QED
    BY <2>1, <2>2, <2>3
<1>4. ASSUME NEW c \in Clients, ReservePort(c) PROVE OneInv'
  <2>1. EntriesCurrent'
    BY <1>4, <1>b, <1>f, <1>h
       DEF ReservePort, TypeOK, EntriesCurrent, HandsCurrent, OwnHand, NewSession
  <2>2. HandsCurrent'
    <3> SUFFICES ASSUME NEW b \in Clients, NEW h \in Closers \union Reclaimers, Deleting(h)'
                 PROVE  (/\ obj[h] \in Current(b) \/ (Gone(b) /\ clientToSession[b] = None)
                         /\ ~closed[obj[h]] \/ Gone(b))'
      BY DEF HandsCurrent
    <3>1. b = c /\ Deleting(h) /\ obj'[h] = obj[h] /\ obj[h] \in Sessions
      BY <1>4, <1>b, <1>c, <1>h DEF ReservePort, TypeOK, Deleting
    <3>2. /\ obj[h] \in Current(c) \/ (Gone(c) /\ clientToSession[c] = None)
          /\ ~closed[obj[h]] \/ Gone(c)
      BY <3>1 DEF HandsCurrent
    <3> QED
      BY <1>4, <1>f, <1>h, <3>1, <3>2 DEF ReservePort, TypeOK, OwnHand, NewSession
  <2>3. OwnHand'
    BY <1>4, <1>b, <1>f, <1>h
       DEF ReservePort, TypeOK, EntriesCurrent, HandsCurrent, OwnHand, NewSession
  <2> QED
    BY <2>1, <2>2, <2>3
<1>5. ASSUME NEW c \in Clients, NoAvailablePorts(c) PROVE OneInv'
  <2>1. EntriesCurrent'
    BY <1>5, <1>b, <1>f, <1>h
       DEF NoAvailablePorts, TypeOK, EntriesCurrent, HandsCurrent, OwnHand, NewSession
  <2>2. HandsCurrent'
    <3> SUFFICES ASSUME NEW b \in Clients, NEW h \in Closers \union Reclaimers, Deleting(h)'
                 PROVE  (/\ obj[h] \in Current(b) \/ (Gone(b) /\ clientToSession[b] = None)
                         /\ ~closed[obj[h]] \/ Gone(b))'
      BY DEF HandsCurrent
    <3>1. b = c /\ Deleting(h) /\ obj'[h] = obj[h] /\ obj[h] \in Sessions
      BY <1>5, <1>b, <1>c, <1>h DEF NoAvailablePorts, TypeOK, Deleting
    <3>2. /\ obj[h] \in Current(c) \/ (Gone(c) /\ clientToSession[c] = None)
          /\ ~closed[obj[h]] \/ Gone(c)
      BY <3>1 DEF HandsCurrent
    <3> QED
      BY <1>5, <1>f, <1>h, <3>1, <3>2 DEF NoAvailablePorts, TypeOK, OwnHand, NewSession
  <2>3. OwnHand'
    BY <1>5, <1>b, <1>f, <1>h
       DEF NoAvailablePorts, TypeOK, EntriesCurrent, HandsCurrent, OwnHand, NewSession
  <2> QED
    BY <2>1, <2>2, <2>3
<1>6. ASSUME NEW c \in Clients, Listen(c) PROVE OneInv'
  <2>1. EntriesCurrent'
    BY <1>6, <1>b, <1>f, <1>h
       DEF Listen, TypeOK, EntriesCurrent, HandsCurrent, OwnHand, NewSession
  <2>2. HandsCurrent'
    <3> SUFFICES ASSUME NEW b \in Clients, NEW h \in Closers \union Reclaimers, Deleting(h)'
                 PROVE  (/\ obj[h] \in Current(b) \/ (Gone(b) /\ clientToSession[b] = None)
                         /\ ~closed[obj[h]] \/ Gone(b))'
      BY DEF HandsCurrent
    <3>1. b = c /\ Deleting(h) /\ obj'[h] = obj[h] /\ obj[h] \in Sessions
      BY <1>6, <1>b, <1>c, <1>h DEF Listen, TypeOK, Deleting
    <3>2. /\ obj[h] \in Current(c) \/ (Gone(c) /\ clientToSession[c] = None)
          /\ ~closed[obj[h]] \/ Gone(c)
      BY <3>1 DEF HandsCurrent
    <3> QED
      BY <1>6, <1>f, <1>h, <3>1, <3>2 DEF Listen, TypeOK, OwnHand, NewSession
  <2>3. OwnHand'
    BY <1>6, <1>b, <1>f, <1>h
       DEF Listen, TypeOK, EntriesCurrent, HandsCurrent, OwnHand, NewSession
  <2> QED
    BY <2>1, <2>2, <2>3
<1>7. ASSUME NEW c \in Clients, RollbackPort(c) PROVE OneInv'
  <2>1. EntriesCurrent'
    BY <1>7, <1>b, <1>f, <1>h
       DEF RollbackPort, DeleteKey, TypeOK, EntriesCurrent, HandsCurrent, OwnHand, NewSession
  <2>2. HandsCurrent'
    <3> SUFFICES ASSUME NEW b \in Clients, NEW h \in Closers \union Reclaimers, Deleting(h)'
                 PROVE  (/\ obj[h] \in Current(b) \/ (Gone(b) /\ clientToSession[b] = None)
                         /\ ~closed[obj[h]] \/ Gone(b))'
      BY DEF HandsCurrent
    <3>1. b = c /\ Deleting(h) /\ obj'[h] = obj[h] /\ obj[h] \in Sessions
      BY <1>7, <1>b, <1>c, <1>h DEF RollbackPort, DeleteKey, TypeOK, Deleting
    <3>2. /\ obj[h] \in Current(c) \/ (Gone(c) /\ clientToSession[c] = None)
          /\ ~closed[obj[h]] \/ Gone(c)
      BY <3>1 DEF HandsCurrent
    <3> QED
      BY <1>7, <1>f, <1>h, <3>1, <3>2 DEF RollbackPort, DeleteKey, TypeOK, OwnHand, NewSession
  <2>3. OwnHand'
    BY <1>7, <1>b, <1>f, <1>h
       DEF RollbackPort, DeleteKey, TypeOK, EntriesCurrent, HandsCurrent, OwnHand, NewSession
  <2> QED
    BY <2>1, <2>2, <2>3
<1>8. ASSUME NEW c \in Clients, StorePort(c) PROVE OneInv'
  <2>1. EntriesCurrent'
    BY <1>8, <1>b, <1>f, <1>h
       DEF StorePort, TypeOK, EntriesCurrent, HandsCurrent, OwnHand, NewSession
  <2>2. HandsCurrent'
    <3> SUFFICES ASSUME NEW b \in Clients, NEW h \in Closers \union Reclaimers, Deleting(h)'
                 PROVE  (/\ obj[h] \in Current(b) \/ (Gone(b) /\ clientToSession[b] = None)
                         /\ ~closed[obj[h]] \/ Gone(b))'
      BY DEF HandsCurrent
    <3>1. b = c /\ Deleting(h) /\ obj'[h] = obj[h] /\ obj[h] \in Sessions
      BY <1>8, <1>b, <1>c, <1>h DEF StorePort, TypeOK, Deleting
    <3>2. /\ obj[h] \in Current(c) \/ (Gone(c) /\ clientToSession[c] = None)
          /\ ~closed[obj[h]] \/ Gone(c)
      BY <3>1 DEF HandsCurrent
    <3> QED
      BY <1>8, <1>f, <1>h, <3>1, <3>2 DEF StorePort, TypeOK, OwnHand, NewSession
  <2>3. OwnHand'
    BY <1>8, <1>b, <1>f, <1>h
       DEF StorePort, TypeOK, EntriesCurrent, HandsCurrent, OwnHand, NewSession
  <2> QED
    BY <2>1, <2>2, <2>3
<1>9. ASSUME NEW c \in Clients, StoreClient(c) PROVE OneInv'
  <2>1. EntriesCurrent'
    BY <1>9, <1>b, <1>f, <1>h
       DEF StoreClient, TypeOK, EntriesCurrent, HandsCurrent, OwnHand, NewSession
  <2>2. HandsCurrent'
    <3> SUFFICES ASSUME NEW b \in Clients, NEW h \in Closers \union Reclaimers, Deleting(h)'
                 PROVE  (/\ obj[h] \in Current(b) \/ (Gone(b) /\ clientToSession[b] = None)
                         /\ ~closed[obj[h]] \/ Gone(b))'
      BY DEF HandsCurrent
    <3>1. b = c /\ Deleting(h) /\ obj'[h] = obj[h] /\ obj[h] \in Sessions
      BY <1>9, <1>b, <1>c, <1>h DEF StoreClient, TypeOK, Deleting
    <3>2. /\ obj[h] \in Current(c) \/ (Gone(c) /\ clientToSession[c] = None)
          /\ ~closed[obj[h]] \/ Gone(c)
      BY <3>1 DEF HandsCurrent
    <3> QED
      BY <1>9, <1>f, <1>h, <3>1, <3>2 DEF StoreClient, TypeOK, OwnHand, NewSession
  <2>3. OwnHand'
    BY <1>9, <1>b, <1>f, <1>h
       DEF StoreClient, TypeOK, EntriesCurrent, HandsCurrent, OwnHand, NewSession
  <2> QED
    BY <2>1, <2>2, <2>3
<1>10. ASSUME NEW c \in Clients, StartRateTicker(c) PROVE OneInv'
  <2>1. EntriesCurrent'
    BY <1>10, <1>b, <1>f, <1>h
       DEF StartRateTicker, TypeOK, EntriesCurrent, HandsCurrent, OwnHand, NewSession
  <2>2. HandsCurrent'
    <3> SUFFICES ASSUME NEW b \in Clients, NEW h \in Closers \union Reclaimers, Deleting(h)'
                 PROVE  (/\ obj[h] \in Current(b) \/ (Gone(b) /\ clientToSession[b] = None)
                         /\ ~closed[obj[h]] \/ Gone(b))'
      BY DEF HandsCurrent
    <3>1. b = c /\ Deleting(h) /\ obj'[h] = obj[h] /\ obj[h] \in Sessions
      BY <1>10, <1>b, <1>c, <1>h DEF StartRateTicker, TypeOK, Deleting
    <3>2. /\ obj[h] \in Current(c) \/ (Gone(c) /\ clientToSession[c] = None)
          /\ ~closed[obj[h]] \/ Gone(c)
      BY <3>1 DEF HandsCurrent
    <3> QED
      BY <1>10, <1>f, <1>h, <3>1, <3>2 DEF StartRateTicker, TypeOK, OwnHand, NewSession
  <2>3. OwnHand'
    BY <1>10, <1>b, <1>f, <1>h
       DEF StartRateTicker, TypeOK, EntriesCurrent, HandsCurrent, OwnHand, NewSession
  <2> QED
    BY <2>1, <2>2, <2>3
<1>11. ASSUME NEW c \in Clients, LookupOwn(c) PROVE OneInv'
  <2>1. EntriesCurrent'
    BY <1>11, <1>b, <1>f, <1>h
       DEF LookupOwn, GetSession, TypeOK, EntriesCurrent, HandsCurrent, OwnHand, NewSession
  <2>2. HandsCurrent'
    <3> SUFFICES ASSUME NEW b \in Clients, NEW h \in Closers \union Reclaimers, Deleting(h)'
                 PROVE  (/\ obj[h] \in Current(b) \/ (Gone(b) /\ clientToSession[b] = None)
                         /\ ~closed[obj[h]] \/ Gone(b))'
      BY DEF HandsCurrent
    <3>1. b = c /\ Deleting(h) /\ obj'[h] = obj[h] /\ obj[h] \in Sessions
      BY <1>11, <1>b, <1>c, <1>h DEF LookupOwn, GetSession, TypeOK, Deleting
    <3>2. /\ obj[h] \in Current(c) \/ (Gone(c) /\ clientToSession[c] = None)
          /\ ~closed[obj[h]] \/ Gone(c)
      BY <3>1 DEF HandsCurrent
    <3> QED
      BY <1>11, <1>f, <1>h, <3>1, <3>2 DEF LookupOwn, GetSession, TypeOK, OwnHand, NewSession
  <2>3. OwnHand'
    BY <1>11, <1>b, <1>f, <1>h
       DEF LookupOwn, GetSession, TypeOK, EntriesCurrent, HandsCurrent, OwnHand, NewSession
  <2> QED
    BY <2>1, <2>2, <2>3
<1>12. ASSUME NEW c \in Clients, SetDataSession(c) PROVE OneInv'
  <2>1. EntriesCurrent'
    BY <1>12, <1>b, <1>f, <1>h
       DEF SetDataSession, TypeOK, EntriesCurrent, HandsCurrent, OwnHand, NewSession
  <2>2. HandsCurrent'
    <3> SUFFICES ASSUME NEW b \in Clients, NEW h \in Closers \union Reclaimers, Deleting(h)'
                 PROVE  (/\ obj[h] \in Current(b) \/ (Gone(b) /\ clientToSession[b] = None)
                         /\ ~closed[obj[h]] \/ Gone(b))'
      BY DEF HandsCurrent
    <3>1. b = c /\ Deleting(h) /\ obj'[h] = obj[h] /\ obj[h] \in Sessions
      BY <1>12, <1>b, <1>c, <1>h DEF SetDataSession, TypeOK, Deleting
    <3>2. /\ obj[h] \in Current(c) \/ (Gone(c) /\ clientToSession[c] = None)
          /\ ~closed[obj[h]] \/ Gone(c)
      BY <3>1 DEF HandsCurrent
    <3> QED
      BY <1>12, <1>f, <1>h, <3>1, <3>2 DEF SetDataSession, TypeOK, OwnHand, NewSession
  <2>3. OwnHand'
    BY <1>12, <1>b, <1>f, <1>h
       DEF SetDataSession, TypeOK, EntriesCurrent, HandsCurrent, OwnHand, NewSession
  <2> QED
    BY <2>1, <2>2, <2>3
<1>13. ASSUME NEW c \in Clients, CleanupSession(c) PROVE OneInv'
  <2>1. EntriesCurrent'
    BY <1>13, <1>b, <1>f, <1>h
       DEF CleanupSession, GetSession, TypeOK, EntriesCurrent, HandsCurrent, OwnHand, NewSession
  <2>2. HandsCurrent'
    <3> SUFFICES ASSUME NEW b \in Clients, NEW h \in Closers \union Reclaimers, Deleting(h)'
                 PROVE  (/\ obj[h] \in Current(b) \/ (Gone(b) /\ clientToSession[b] = None)
                         /\ ~closed[obj[h]] \/ Gone(b))'
      BY DEF HandsCurrent
    <3>1. b = c /\ Deleting(h) /\ obj'[h] = obj[h] /\ obj[h] \in Sessions
      BY <1>13, <1>b, <1>c, <1>h DEF CleanupSession, GetSession, TypeOK, Deleting
    <3>2. /\ obj[h] \in Current(c) \/ (Gone(c) /\ clientToSession[c] = None)
          /\ ~closed[obj[h]] \/ Gone(c)
      BY <3>1 DEF HandsCurrent
    <3> QED
      BY <1>13, <1>f, <1>h, <3>1, <3>2 DEF CleanupSession, GetSession, TypeOK, OwnHand, NewSession
  <2>3. OwnHand'
    BY <1>13, <1>b, <1>f, <1>g, <1>h
       DEF CleanupSession, GetSession, TypeOK, EntriesCurrent, HandsCurrent, OwnHand, NewSession
  <2> QED
    BY <2>1, <2>2, <2>3
<1>14. ASSUME NEW d \in Closers, HandleCloseSession(d) PROVE OneInv'
  <2>1. EntriesCurrent'
    BY <1>14, <1>b, <1>f, <1>h
       DEF HandleCloseSession, GetSession, TypeOK, EntriesCurrent, HandsCurrent, OwnHand, NewSession
  <2>2. HandsCurrent'
    <3> SUFFICES ASSUME NEW b \in Clients, NEW h \in Closers \union Reclaimers, Deleting(h)'
                 PROVE  (/\ obj[h] \in Current(b) \/ (Gone(b) /\ clientToSession[b] = None)
                         /\ ~closed[obj[h]] \/ Gone(b))'
      BY DEF HandsCurrent
    <3>1. h = d /\ pc'[b] = pc[b]
      BY <1>14, <1>a, <1>c, <1>h DEF HandleCloseSession, GetSession, TypeOK
    <3>2. \E p \in Ports : obj'[d] = portToSession[p] /\ portToSession[p] \in Sessions
      BY <1>14, <1>f, <1>h, <3>1 DEF HandleCloseSession, GetSession, TypeOK, Deleting
    <3> QED
      BY <1>14, <1>d, <1>h, <3>1, <3>2 DEF HandleCloseSession, GetSession, TypeOK, EntriesCurrent, NewSession
  <2>3. OwnHand'
    BY <1>14, <1>b, <1>f, <1>h
       DEF HandleCloseSession, GetSession, TypeOK, EntriesCurrent, HandsCurrent, OwnHand, NewSession
  <2> QED
    BY <2>1, <2>2, <2>3
<1>15. ASSUME NEW r \in Reclaimers, ReclaimStale(r) PROVE OneInv'
  <2>1. EntriesCurrent'
    BY <1>15, <1>b, <1>f, <1>h
       DEF ReclaimStale, StaleObjects, TypeOK, EntriesCurrent, HandsCurrent, OwnHand, NewSession
  <2>2. HandsCurrent'
    <3> SUFFICES ASSUME NEW b \in Clients, NEW h \in Closers \union Reclaimers, Deleting(h)'
                 PROVE  (/\ obj[h] \in Current(b) \/ (Gone(b) /\ clientToSession[b] = None)
                         /\ ~closed[obj[h]] \/ Gone(b))'
      BY DEF HandsCurrent
    <3>1. h = r /\ pc'[b] = pc[b]
      BY <1>15, <1>a, <1>c, <1>h DEF ReclaimStale, StaleObjects, TypeOK
    <3>2. \E p \in Ports : obj'[r] = portToSession[p] /\ portToSession[p] \in Sessions
      BY <1>15, <1>f, <1>h, <3>1 DEF ReclaimStale, StaleObjects, TypeOK, Deleting
    <3> QED
      BY <1>15, <1>d, <1>h, <3>1, <3>2 DEF ReclaimStale, StaleObjects, TypeOK, EntriesCurrent, NewSession
  <2>3. OwnHand'
    BY <1>15, <1>b, <1>f, <1>h
       DEF ReclaimStale, StaleObjects, TypeOK, EntriesCurrent, HandsCurrent, OwnHand, NewSession
  <2> QED
    BY <2>1, <2>2, <2>3
<1>16. ASSUME NEW g \in Goroutines, DeletePort(g) PROVE OneInv'
  <2>1. EntriesCurrent'
    BY <1>16, <1>b, <1>f, <1>h
       DEF DeletePort, DeleteKey, TypeOK, EntriesCurrent, HandsCurrent, OwnHand, NewSession
  <2>2. HandsCurrent'
    <3> SUFFICES ASSUME NEW b \in Clients, NEW h \in Closers \union Reclaimers, Deleting(h)'
                 PROVE  (/\ obj[h] \in Current(b) \/ (Gone(b) /\ clientToSession[b] = None)
                         /\ ~closed[obj[h]] \/ Gone(b))'
      BY DEF HandsCurrent
    <3>1. CASE g = b
      <4>1. Deleting(h) /\ obj'[h] = obj[h] /\ obj[h] \in Sessions
        BY <1>16, <1>c, <1>h, <3>1 DEF DeletePort, DeleteKey, TypeOK, Deleting
      <4>2. /\ obj[h] \in Current(b) \/ (Gone(b) /\ clientToSession[b] = None)
            /\ ~closed[obj[h]] \/ Gone(b)
        BY <4>1 DEF HandsCurrent
      <4> QED
        BY <1>16, <1>f, <1>h, <3>1, <4>1, <4>2 DEF DeletePort, DeleteKey, TypeOK, OwnHand, NewSession
    <3>2. CASE g # b
      <4>1. g = h /\ pc'[b] = pc[b]
        BY <1>16, <1>a, <1>b, <1>h, <3>2 DEF DeletePort, DeleteKey, TypeOK
      <4>2. pc[h] = "deletePort" /\ Deleting(h) /\ obj'[h] = obj[h]
        BY <1>16, <1>h, <4>1 DEF DeletePort, DeleteKey, TypeOK, Deleting
      <4>3. /\ obj[h] \in Current(b) \/ (Gone(b) /\ clientToSession[b] = None)
            /\ ~closed[obj[h]] \/ Gone(b)
        BY <4>2 DEF HandsCurrent
      <4> QED
        BY <1>16, <1>h, <4>1, <4>2, <4>3 DEF DeletePort, DeleteKey, TypeOK, NewSession
    <3> QED
      BY <3>1, <3>2
  <2>3. OwnHand'
    BY <1>16, <1>b, <1>f, <1>h
       DEF DeletePort, DeleteKey, TypeOK, EntriesCurrent, HandsCurrent, OwnHand, NewSession
  <2> QED
    BY <2>1, <2>2, <2>3
<1>17. ASSUME NEW g \in Goroutines, DeleteClient(g) PROVE OneInv'
  <2>1. EntriesCurrent'
    <3> SUFFICES ASSUME NEW b \in Clients, NEW p \in Ports, portToSession'[p] \in Sessions
                 PROVE  portToSession[p] \in Current(b)'
      BY <1>17 DEF DeleteClient, EntriesCurrent
    <3>1. /\ portToSession[p] \in Sessions /\ portToSession[p] \in Current(b)
          /\ portToSession[p] # obj[g]
      BY <1>17, <1>e DEF DeleteClient, EntriesCurrent
    <3>2. CASE g = b
      BY <1>17, <1>f, <3>1, <3>2 DEF DeleteClient, OwnHand
    <3>3. CASE g # b
      <4>1. g \in Closers \union Reclaimers /\ pc'[b] = pc[b]
        BY <1>17, <1>b, <1>h, <3>3 DEF DeleteClient, TypeOK
      <4>2. ~Deleting(g)
        BY <1>f, <3>1, <4>1 DEF HandsCurrent
      <4>3. obj[g] = portTaken
        BY <1>17, <1>h, <4>2 DEF DeleteClient, TypeOK, Deleting, Objects
      <4>4. clientToSession'[b] = clientToSession[b]
        BY <1>17, <1>h, <4>3 DEF DeleteClient, DeleteKey, ClientIDOf, TypeOK
      <4> QED
        BY <1>17, <3>1, <4>1, <4>4 DEF DeleteClient, NewSession
    <3> QED
      BY <3>2, <3>3
  <2>2. HandsCurrent'
    <3> SUFFICES ASSUME NEW b \in Clients, NEW h \in Closers \union Reclaimers, Deleting(h)'
                 PROVE  (/\ obj[h] \in Current(b) \/ (Gone(b) /\ clientToSession[b] = None)
                         /\ ~closed[obj[h]] \/ Gone(b))'
      BY DEF HandsCurrent
    <3>1. CASE g = b
      <4>1. Deleting(h) /\ obj'[h] = obj[h] /\ obj[h] \in Sessions
        BY <1>17, <1>c, <1>h, <3>1 DEF DeleteClient, DeleteKey, TypeOK, Deleting
      <4>2. /\ obj[h] \in Current(b) \/ (Gone(b) /\ clientToSession[b] = None)
            /\ ~closed[obj[h]] \/ Gone(b)
        BY <4>1 DEF HandsCurrent
      <4> QED
        BY <1>17, <1>f, <1>h, <3>1, <4>1, <4>2 DEF DeleteClient, DeleteKey, TypeOK, OwnHand, NewSession
    <3>2. CASE g # b
      <4>1. g = h /\ pc'[b] = pc[b]
        BY <1>17, <1>a, <1>b, <1>h, <3>2 DEF DeleteClient, DeleteKey, TypeOK
      <4>2. pc[h] = "deletePort" /\ Deleting(h) /\ obj'[h] = obj[h]
        BY <1>17, <1>h, <4>1 DEF DeleteClient, DeleteKey, TypeOK, Deleting
      <4>3. /\ obj[h] \in Current(b) \/ (Gone(b) /\ clientToSession[b] = None)
            /\ ~closed[obj[h]] \/ Gone(b)
        BY <4>2 DEF HandsCurrent
      <4> QED
        BY <1>17, <1>h, <4>1, <4>2, <4>3 DEF DeleteClient, DeleteKey, TypeOK, NewSession
    <3> QED
      BY <3>1, <3>2
  <2>3. OwnHand'
    BY <1>17, <1>b, <1>f, <1>h
       DEF DeleteClient, DeleteKey, TypeOK, EntriesCurrent, HandsCurrent, OwnHand, NewSession
  <2> QED
    BY <2>1, <2>2, <2>3
<1>18. ASSUME NEW g \in Goroutines, CloseCAS(g) PROVE OneInv'
  <2>1. EntriesCurrent'
    BY <1>18, <1>b, <1>f, <1>h
       DEF CloseCAS, Return, TypeOK, EntriesCurrent, HandsCurrent, OwnHand, NewSession
  <2>2. HandsCurrent'
    <3> SUFFICES ASSUME NEW b \in Clients, NEW h \in Closers \union Reclaimers, Deleting(h)'
                 PROVE  (/\ obj[h] \in Current(b) \/ (Gone(b) /\ clientToSession[b] = None)
                         /\ ~closed[obj[h]] \/ Gone(b))'
      BY DEF HandsCurrent
    <3>1. CASE g = b
      <4>1. Deleting(h) /\ obj'[h] = obj[h] /\ obj[h] \in Sessions
        BY <1>18, <1>c, <1>h, <3>1 DEF CloseCAS, Return, TypeOK, Deleting
      <4>2. /\ obj[h] \in Current(b) \/ (Gone(b) /\ clientToSession[b] = None)
            /\ ~closed[obj[h]] \/ Gone(b)
        BY <4>1 DEF HandsCurrent
      <4> QED
        BY <1>18, <1>f, <1>h, <3>1, <4>1, <4>2 DEF CloseCAS, Return, TypeOK, OwnHand, NewSession
    <3>2. CASE g # b
      <4>1. g = h /\ pc'[b] = pc[b]
        BY <1>18, <1>a, <1>b, <1>h, <3>2 DEF CloseCAS, Return, TypeOK
      <4>2. pc[h] = "deletePort" /\ Deleting(h) /\ obj'[h] = obj[h]
        BY <1>18, <1>h, <4>1 DEF CloseCAS, Return, TypeOK, Deleting
      <4>3. /\ obj[h] \in Current(b) \/ (Gone(b) /\ clientToSession[b] = None)
            /\ ~closed[obj[h]] \/ Gone(b)
        BY <4>2 DEF HandsCurrent
      <4> QED
        BY <1>18, <1>h, <4>1, <4>2, <4>3 DEF CloseCAS, Return, TypeOK, NewSession
    <3> QED
      BY <3>1, <3>2
  <2>3. OwnHand'
    BY <1>18, <1>b, <1>f, <1>h
       DEF CloseCAS, Return, TypeOK, EntriesCurrent, HandsCurrent, OwnHand, NewSession
  <2> QED
    BY <2>1, <2>2, <2>3
<1>19. ASSUME NEW g \in Goroutines, CloseTicker(g) PROVE OneInv'
  <2>1. EntriesCurrent'
    BY <1>19, <1>b, <1>f, <1>h
       DEF CloseTicker, TypeOK, EntriesCurrent, HandsCurrent, OwnHand, NewSession
  <2>2. HandsCurrent'
    <3> SUFFICES ASSUME NEW b \in Clients, NEW h \in Closers \union Reclaimers, Deleting(h)'
                 PROVE  (/\ obj[h] \in Current(b) \/ (Gone(b) /\ clientToSession[b] = None)
                         /\ ~closed[obj[h]] \/ Gone(b))'
      BY DEF HandsCurrent
    <3>1. CASE g = b
      <4>1. Deleting(h) /\ obj'[h] = obj[h] /\ obj[h] \in Sessions
        BY <1>19, <1>c, <1>h, <3>1 DEF CloseTicker, TypeOK, Deleting
      <4>2. /\ obj[h] \in Current(b) \/ (Gone(b) /\ clientToSession[b] = None)
            /\ ~closed[obj[h]] \/ Gone(b)
        BY <4>1 DEF HandsCurrent
      <4> QED
        BY <1>19, <1>f, <1>h, <3>1, <4>1, <4>2 DEF CloseTicker, TypeOK, OwnHand, NewSession
    <3>2. CASE g # b
      <4>1. g = h /\ pc'[b] = pc[b]
        BY <1>19, <1>a, <1>b, <1>h, <3>2 DEF CloseTicker, TypeOK
      <4>2. pc[h] = "deletePort" /\ Deleting(h) /\ obj'[h] = obj[h]
        BY <1>19, <1>h, <4>1 DEF CloseTicker, TypeOK, Deleting
      <4>3. /\ obj[h] \in Current(b) \/ (Gone(b) /\ clientToSession[b] = None)
            /\ ~closed[obj[h]] \/ Gone(b)
        BY <4>2 DEF HandsCurrent
      <4> QED
        BY <1>19, <1>h, <4>1, <4>2, <4>3 DEF CloseTicker, TypeOK, NewSession
    <3> QED
      BY <3>1, <3>2
  <2>3. OwnHand'
    BY <1>19, <1>b, <1>f, <1>h
       DEF CloseTicker, TypeOK, EntriesCurrent, HandsCurrent, OwnHand, NewSession
  <2> QED
    BY <2>1, <2>2, <2>3
<1>20. ASSUME NEW g \in Goroutines, CloseListener(g) PROVE OneInv'
  <2>1. EntriesCurrent'
    BY <1>20, <1>b, <1>f, <1>h
       DEF CloseListener, TypeOK, EntriesCurrent, HandsCurrent, OwnHand, NewSession
  <2>2. HandsCurrent'
    <3> SUFFICES ASSUME NEW b \in Clients, NEW h \in Closers \union Reclaimers, Deleting(h)'
                 PROVE  (/\ obj[h] \in Current(b) \/ (Gone(b) /\ clientToSession[b] = None)
                         /\ ~closed[obj[h]] \/ Gone(b))'
      BY DEF HandsCurrent
    <3>1. CASE g = b
      <4>1. Deleting(h) /\ obj'[h] = obj[h] /\ obj[h] \in Sessions
        BY <1>20, <1>c, <1>h, <3>1 DEF CloseListener, TypeOK, Deleting
      <4>2. /\ obj[h] \in Current(b) \/ (Gone(b) /\ clientToSession[b] = None)
            /\ ~closed[obj[h]] \/ Gone(b)
        BY <4>1 DEF HandsCurrent
      <4> QED
        BY <1>20, <1>f, <1>h, <3>1, <4>1, <4>2 DEF CloseListener, TypeOK, OwnHand, NewSession
    <3>2. CASE g # b
      <4>1. g = h /\ pc'[b] = pc[b]
        BY <1>20, <1>a, <1>b, <1>h, <3>2 DEF CloseListener, TypeOK
      <4>2. pc[h] = "deletePort" /\ Deleting(h) /\ obj'[h] = obj[h]
        BY <1>20, <1>h, <4>1 DEF CloseListener, TypeOK, Deleting
      <4>3. /\ obj[h] \in Current(b) \/ (Gone(b) /\ clientToSession[b] = None)
            /\ ~closed[obj[h]] \/ Gone(b)
        BY <4>2 DEF HandsCurrent
      <4> QED
        BY <1>20, <1>h, <4>1, <4>2, <4>3 DEF CloseListener, TypeOK, NewSession
    <3> QED
      BY <3>1, <3>2
  <2>3. OwnHand'
    BY <1>20, <1>b, <1>f, <1>h
       DEF CloseListener, TypeOK, EntriesCurrent, HandsCurrent, OwnHand, NewSession
  <2> QED
    BY <2>1, <2>2, <2>3
<1>21. ASSUME NEW g \in Goroutines, CloseData(g) PROVE OneInv'
  <2>1. EntriesCurrent'
    BY <1>21, <1>b, <1>f, <1>h
       DEF CloseData, Return, TypeOK, EntriesCurrent, HandsCurrent, OwnHand, NewSession
  <2>2. HandsCurrent'
    <3> SUFFICES ASSUME NEW b \in Clients, NEW h \in Closers \union Reclaimers, Deleting(h)'
                 PROVE  (/\ obj[h] \in Current(b) \/ (Gone(b) /\ clientToSession[b] = None)
                         /\ ~closed[obj[h]] \/ Gone(b))'
      BY DEF HandsCurrent
    <3>1. CASE g = b
      <4>1. Deleting(h) /\ obj'[h] = obj[h] /\ obj[h] \in Sessions
        BY <1>21, <1>c, <1>h, <3>1 DEF CloseData, Return, TypeOK, Deleting
      <4>2. /\ obj[h] \in Current(b) \/ (Gone(b) /\ clientToSession[b] = None)
            /\ ~closed[obj[h]] \/ Gone(b)
        BY <4>1 DEF HandsCurrent
      <4> QED
        BY <1>21, <1>f, <1>h, <3>1, <4>1, <4>2 DEF CloseData, Return, TypeOK, OwnHand, NewSession
    <3>2. CASE g # b
      <4>1. g = h /\ pc'[b] = pc[b]
        BY <1>21, <1>a, <1>b, <1>h, <3>2 DEF CloseData, Return, TypeOK
      <4>2. pc[h] = "deletePort" /\ Deleting(h) /\ obj'[h] = obj[h]
        BY <1>21, <1>h, <4>1 DEF CloseData, Return, TypeOK, Deleting
      <4>3. /\ obj[h] \in Current(b) \/ (Gone(b) /\ clientToSession[b] = None)
            /\ ~closed[obj[h]] \/ Gone(b)
        BY <4>2 DEF HandsCurrent
      <4> QED
        BY <1>21, <1>h, <4>1, <4>2, <4>3 DEF CloseData, Return, TypeOK, NewSession
    <3> QED
      BY <3>1, <3>2
  <2>3. OwnHand'
    BY <1>21, <1>b, <1>f, <1>h
       DEF CloseData, Return, TypeOK, EntriesCurrent, HandsCurrent, OwnHand, NewSession
  <2> QED
    BY <2>1, <2>2, <2>3
<1>22. CASE UNCHANGED vars
  BY <1>22 DEF vars, EntriesCurrent, HandsCurrent, OwnHand, NewSession, Deleting
<1> QED
  BY <1>1, <1>2, <1>3, <1>4, <1>5, <1>6, <1>7, <1>8, <1>9, <1>10, <1>11, <1>12, <1>13,
     <1>14, <1>15, <1>16, <1>17, <1>18, <1>19, <1>20, <1>21, <1>22
     DEF Next, AllocStep, RemoveStep

(* However often AllocatePort is called for a client, and whatever one     *)
(* reclaimer or one dashboard request removes meanwhile, at most one port  *)
(* of the table leads to the client.                                       *)
THEOREM OneEntryOneRemover == ASSUME Alone PROVE Spec => []OneEntryPerClient
<1>1. Spec => [](IInv /\ OneInv)
  BY TypeInit, TypeStep, TableInit, TableStep, OneInit, OneStep, PTL DEF Spec, IInv
<1>2. IInv /\ OneInv => OneEntryPerClient
  <2> SUFFICES ASSUME IInv, OneInv, NEW p \in Ports, NEW q \in Ports,
                      portToSession[p] \in Sessions, portToSession[q] \in Sessions
               PROVE  p = q
      BY DEF OneEntryPerClient
  <2>1. PICK c \in Clients : TRUE
    BY DEF Sessions
  <2>2. portToSession[p] \in Current(c) /\ portToSession[q] \in Current(c)
    BY DEF OneInv, EntriesCurrent
  <2>3. portToSession[p] = portToSession[q]
    BY <2>2 DEF Current
  <2> QED
    BY <2>3 DEF IInv, TableInv, EntryLive
<1> QED
  BY <1>1, <1>2, PTL

-----------------------------------------------------------------------------
(* Session.Close runs once                                                  *)

(* Whoever is inside Close has won the CompareAndSwap.                     *)
CloseInv ==
  /\ \A g \in Goroutines : pc[g] \in CloseLabels => closed[obj[g]]
  /\ \A o \in Objects : tickerDone[o] = "closed" => closed[o]
  /\ CloseOnce

LEMMA CloseInit == Init => CloseInv
BY DEF Init, CloseInv, CloseOnce, CloseLabels

LEMMA CloseStep == TypeInv /\ CloseInv /\ [Next]_vars => CloseInv'
<1> SUFFICES ASSUME TypeInv, CloseInv, [Next]_vars PROVE CloseInv'
    OBVIOUS
<1> DEFINE Quiet == /\ UNCHANGED <<closed, tickerDone>>
                    /\ \A g \in Goroutines : pc'[g] \in CloseLabels =>
                         pc'[g] = pc[g] /\ obj'[g] = obj[g]
<1>0. ASSUME Quiet PROVE CloseInv'
  <2>1. "closeTicker" \in CloseLabels
    BY DEF CloseLabels
  <2>2. /\ \A g \in Goroutines : pc'[g] \in CloseLabels => closed'[obj'[g]]
        /\ \A o \in Objects : tickerDone'[o] = "closed" => closed'[o]
    BY <1>0 DEF CloseInv
  <2>3. CloseOnce'
    BY <1>0, <2>1 DEF CloseInv, CloseOnce
  <2> QED
    BY <2>2, <2>3 DEF CloseInv
<1>q. ASSUME NEW h \in Goroutines, NEW label, label \notin CloseLabels, Goto(h, label),
             \A g \in Goroutines : g # h => obj'[g] = obj[g],
             UNCHANGED <<closed, tickerDone>>
      PROVE  CloseInv'
  <2>1. \A g \in Goroutines : pc'[g] = IF g = h THEN label ELSE pc[g]
    BY <1>q DEF Goto, TypeInv, TypeOK
  <2> QED
    BY <1>0, <1>q, <2>1
<1>1. ASSUME NEW c \in Clients, AllocatePort(c) PROVE CloseInv'
  BY <1>1, <1>q DEF AllocatePort, Goroutines, CloseLabels, sessionVars
<1>2. ASSUME NEW c \in Clients, LoadExisting(c) PROVE CloseInv'
  BY <1>2, <1>q DEF LoadExisting, Goroutines, CloseLabels, TypeInv, TypeOK, sessionVars
<1>3. ASSUME NEW c \in Clients, CheckExisting(c) PROVE CloseInv'
  BY <1>3, <1>q DEF CheckExisting, Goroutines, CloseLabels, TypeInv, TypeOK, sessionVars
<1>4. ASSUME NEW c \in Clients, ReservePort(c) PROVE CloseInv'
  <2>1. CASE UNCHANGED pc
    BY <1>4, <2>1, <1>0 DEF ReservePort, sessionVars
  <2>2. CASE Goto(c, "listen")
    BY <1>4, <2>2, <1>q DEF ReservePort, Goroutines, CloseLabels, sessionVars
  <2> QED
    BY <1>4, <2>1, <2>2 DEF ReservePort
<1>5. ASSUME NEW c \in Clients, NoAvailablePorts(c) PROVE CloseInv'
  BY <1>5, <1>q DEF NoAvailablePorts, Goroutines, CloseLabels, sessionVars
<1>6. ASSUME NEW c \in Clients, Listen(c) PROVE CloseInv'
  BY <1>6, <1>q DEF Listen, Goroutines, CloseLabels
<1>7. ASSUME NEW c \in Clients, RollbackPort(c) PROVE CloseInv'
  BY <1>7, <1>q DEF RollbackPort, Goroutines, CloseLabels, sessionVars
<1>8. ASSUME NEW c \in Clients, StorePort(c) PROVE CloseInv'
  BY <1>8, <1>q DEF StorePort, Goroutines, CloseLabels, sessionVars
<1>9. ASSUME NEW c \in Clients, StoreClient(c) PROVE CloseInv'
  BY <1>9, <1>q DEF StoreClient, Goroutines, CloseLabels, sessionVars
<1>10. ASSUME NEW c \in Clients, StartRateTicker(c) PROVE CloseInv'
  BY <1>10 DEF StartRateTicker, CloseInv, CloseOnce, CloseLabels, Goto
<1>11. ASSUME NEW c \in Clients, LookupOwn(c) PROVE CloseInv'
  BY <1>11, <1>q DEF LookupOwn, Goroutines, CloseLabels, TypeInv, TypeOK, sessionVars
<1>12. ASSUME NEW c \in Clients, SetDataSession(c) PROVE CloseInv'
  BY <1>12, <1>q DEF SetDataSession, Goroutines, CloseLabels
<1>13. ASSUME NEW c \in Clients, CleanupSession(c) PROVE CloseInv'
  BY <1>13, <1>q DEF CleanupSession, Goroutines, CloseLabels, TypeInv, TypeOK, sessionVars
<1>14. ASSUME NEW d \in Closers, HandleCloseSession(d) PROVE CloseInv'
  BY <1>14, <1>q DEF HandleCloseSession, Goroutines, CloseLabels, sessionVars
<1>15. ASSUME NEW r \in Reclaimers, ReclaimStale(r) PROVE CloseInv'
  BY <1>15, <1>q DEF ReclaimStale, Goroutines, CloseLabels, sessionVars
<1>16. ASSUME NEW g \in Goroutines, DeletePort(g) PROVE CloseInv'
  BY <1>16, <1>q DEF DeletePort, CloseLabels, sessionVars
<1>17. ASSUME NEW g \in Goroutines, DeleteClient(g) PROVE CloseInv'
  BY <1>17, <1>q DEF DeleteClient, CloseLabels, sessionVars
<1>18. ASSUME NEW g \in Goroutines, CloseCAS(g) PROVE CloseInv'
  <2>1. CASE ~closed[obj[g]]
    BY <1>18, <2>1 DEF CloseCAS, TypeInv, TypeOK, CloseInv, CloseOnce, RemoveLabels, Goto
  <2>2. CASE closed[obj[g]]
    BY <1>18, <2>2, <1>q DEF CloseCAS, Return, CloseLabels, TypeInv, TypeOK
  <2> QED
    BY <2>1, <2>2
<1>19. ASSUME NEW g \in Goroutines, CloseTicker(g) PROVE CloseInv'
  BY <1>19 DEF CloseTicker, TypeInv, TypeOK, CloseInv, CloseOnce, CloseLabels, Goto
<1>20. ASSUME NEW g \in Goroutines, CloseListener(g) PROVE CloseInv'
  BY <1>20 DEF CloseListener, CloseInv, CloseOnce, CloseLabels, Goto, sessionVars
<1>21. ASSUME NEW g \in Goroutines, CloseData(g) PROVE CloseInv'
  BY <1>21
     DEF CloseData, Return, TypeInv, TypeOK, CloseInv, CloseOnce, CloseLabels, Goto,
         sessionVars
<1>22. CASE UNCHANGED vars
  BY <1>0, <1>22 DEF vars, sessionVars
<1> QED
  BY <1>1, <1>2, <1>3, <1>4, <1>5, <1>6, <1>7, <1>8, <1>9, <1>10, <1>11, <1>12, <1>13, <1>14, <1>15, <1>16, <1>17, <1>18, <1>19, <1>20, <1>21, <1>22
     DEF Next, AllocStep, RemoveStep

(* The body of Session.Close runs once per session, however many           *)
(* goroutines remove it: tickerDone is never closed twice.                 *)
THEOREM CloseRunsOnce == Spec => []CloseOnce
<1>1. Spec => [](TypeInv /\ CloseInv)
  BY TypeInit, TypeStep, CloseInit, CloseStep, PTL DEF Spec
<1>2. CloseInv => CloseOnce
  BY DEF CloseInv
<1> QED
  BY <1>1, <1>2, PTL

-----------------------------------------------------------------------------
(* The table implements PortLease                                          *)

LEMMA LeaseInit == Init => Lease!Init
BY DEF Init, Lease!Init, GetSession, Published, Built

LEMMA LeaseStep == IInv /\ IInv' /\ [Next]_vars => [Lease!Next]_Lease!vars
<1> USE DistinctNames
<1> SUFFICES ASSUME IInv, IInv', [Next]_vars PROVE [Lease!Next]_Lease!vars
    OBVIOUS
<1> USE DEF IInv, TypeInv, TypeOK, TableInv, Objects, Goto, tableVars, sessionVars, worldVars,
            callVars
<1>s. ASSUME \A c \in Clients : ~StorePort(c), listening' = listening,
             \A p \in Ports : GetSession(p)' = GetSession(p)
      PROVE  UNCHANGED Lease!vars
  <2>1. \A s \in Sessions : Published(s)' <=> Published(s)
    BY <1>s, PublishedSame
  <2> QED
    BY <1>s, <2>1 DEF Lease!vars
<1>1. ASSUME NEW c \in Clients, StorePort(c) PROVE Lease!Next
  <2>1. port[c] \in Ports /\ listening[port[c]] = NewSession(c) /\ NewSession(c) \in Sessions
    BY <1>1, NewSessionType DEF StorePort, StoringLive
  <2>2. ~Published(NewSession(c))
    BY <1>1 DEF StorePort, Published, Storing, ClientOf, NewSession
  <2>3. GetSession(port[c]) = None
    BY <2>1, <2>2 DEF GetSession, EntryLive
  <2>4. \A s \in Sessions : Published(s)' <=> Published(s) \/ s = NewSession(c)
    BY <1>1, PublishedByStore
  <2>5. [p \in Ports |-> GetSession(p)'] =
          [[p \in Ports |-> GetSession(p)] EXCEPT ![port[c]] = NewSession(c)]
    BY <1>1, <2>1 DEF StorePort, GetSession
  <2>6. Lease!Publish(port[c])
    BY <1>1, <2>1, <2>2, <2>3, <2>4, <2>5 DEF StorePort, Lease!Publish
  <2> QED
    BY <2>1, <2>6 DEF Lease!Next
<1>2. ASSUME NEW c \in Clients, Listen(c), listening' # listening PROVE Lease!Next
  <2>1. /\ port[c] \in Ports /\ NewSession(c) \in Sessions
        /\ ~Published(NewSession(c))
        /\ assignedPort[NewSession(c)] = None
    BY <1>2 DEF Listen, Fresh, PreBuild, NewSession, Sessions, Built, Published
  <2>2. \A s \in Sessions : Published(s)' <=> Published(s)
    BY <1>2, PublishedSame DEF StorePort
  <2>3. /\ listening[port[c]] = None
        /\ listening' = [listening EXCEPT ![port[c]] = NewSession(c)]
        /\ portToSession' = portToSession
    BY <1>2 DEF Listen
  <2>4. \A p \in Ports : listening[p] # NewSession(c)
    BY <2>1 DEF ListenerOwned
  <2>5. Lease!Open(port[c], NewSession(c))
    BY <2>1, <2>2, <2>3, <2>4 DEF Lease!Open, GetSession
  <2> QED
    BY <2>1, <2>5 DEF Lease!Next
<1>3. ASSUME NEW g \in Goroutines, DeletePort(g) PROVE [Lease!Next]_Lease!vars
  <2>0. \A s \in Sessions : Published(s)' <=> Published(s)
    BY <1>3, PublishedSame DEF DeletePort, StorePort
  <2>1. CASE PortOf(obj[g]) \in Ports /\ GetSession(PortOf(obj[g])) # None
    <3>1. [p \in Ports |-> GetSession(p)'] =
            [[p \in Ports |-> GetSession(p)] EXCEPT ![PortOf(obj[g])] = None]
      BY <1>3 DEF DeletePort, DeleteKey, GetSession
    <3>2. Lease!Hide(PortOf(obj[g]))
      BY <1>3, <2>0, <2>1, <3>1 DEF DeletePort, Lease!Hide
    <3> QED
      BY <2>1, <3>2 DEF Lease!Next
  <2>2. CASE ~(PortOf(obj[g]) \in Ports /\ GetSession(PortOf(obj[g])) # None)
    BY <1>3, <1>s, <2>2 DEF DeletePort, StorePort, DeleteKey, GetSession
  <2> QED
    BY <2>1, <2>2
<1>4. ASSUME NEW g \in Goroutines, CloseListener(g), listening' # listening PROVE Lease!Next
  <2>0. \A s \in Sessions : Published(s)' <=> Published(s)
    BY <1>4, PublishedSame DEF StorePort
  <2>1. PICK q \in Ports : listening[q] = obj[g] /\ obj[g] # None
    BY <1>4 DEF CloseListener
  <2>2. obj[g] \in Sessions /\ Published(obj[g]) /\ assignedPort[obj[g]] = q
    BY <2>1 DEF KnownPublished, ListenerOwned
  <2>3. \A p \in Ports : p # q => listening[p] # obj[g]
    BY <2>2 DEF ListenerOwned
  <2>4. listening' = [listening EXCEPT ![q] = None]
    BY <1>4, <2>1, <2>3 DEF CloseListener
  <2>5. GetSession(q) = None
    BY <1>4, <2>1 DEF CloseListener, GetSession, EntryLive
  <2>6. Lease!Close(q)
    BY <1>4, <2>0, <2>1, <2>2, <2>4, <2>5 DEF CloseListener, GetSession, Lease!Close
  <2> QED
    BY <2>6 DEF Lease!Next
<1>5. ASSUME NEW c \in Clients, ReservePort(c) PROVE UNCHANGED Lease!vars
  <2>1. \A p \in Ports : GetSession(p)' = GetSession(p)
    BY <1>5 DEF ReservePort, GetSession
  <2> QED
    BY <1>5, <1>s, <2>1 DEF ReservePort, StorePort
<1>6. ASSUME NEW c \in Clients, RollbackPort(c) PROVE [Lease!Next]_Lease!vars
  <2>0. \A s \in Sessions : Published(s)' <=> Published(s)
    BY <1>6, PublishedSame DEF RollbackPort, StorePort
  <2>1. CASE GetSession(port[c]) # None
    <3>1. port[c] \in Ports
      BY <1>6 DEF RollbackPort, PortInHand
    <3>2. [p \in Ports |-> GetSession(p)'] =
            [[p \in Ports |-> GetSession(p)] EXCEPT ![port[c]] = None]
      BY <1>6 DEF RollbackPort, DeleteKey, GetSession
    <3>3. Lease!Hide(port[c])
      BY <1>6, <2>0, <2>1, <3>1, <3>2 DEF RollbackPort, Lease!Hide
    <3> QED
      BY <3>1, <3>3 DEF Lease!Next
  <2>2. CASE GetSession(port[c]) = None
    BY <1>6, <1>s, <2>2 DEF RollbackPort, StorePort, DeleteKey, GetSession
  <2> QED
    BY <2>1, <2>2
<1>7. ASSUME UNCHANGED <<portToSession, listening>> PROVE UNCHANGED Lease!vars
  <2>1. \A c \in Clients : ~StorePort(c)
    <3> SUFFICES ASSUME NEW c \in Clients, StorePort(c) PROVE FALSE
      OBVIOUS
    <3>1. port[c] \in Ports /\ NewSession(c) \in Sessions
      BY NewSessionType DEF StorePort
    <3>2. portToSession[port[c]] = NewSession(c)
      BY <1>7 DEF StorePort
    <3>3. Published(NewSession(c))
      BY <3>1, <3>2 DEF EntryLive
    <3> QED
      BY <3>3 DEF StorePort, Published, Storing, ClientOf, NewSession
  <2> QED
    BY <1>7, <1>s, <2>1 DEF GetSession
<1> QED
  BY <1>1, <1>2, <1>3, <1>4, <1>5, <1>6, <1>7
     DEF Next, AllocStep, RemoveStep, vars, AllocatePort, LoadExisting, CheckExisting, NoAvailablePorts, StoreClient, StartRateTicker, LookupOwn, SetDataSession, CleanupSession, HandleCloseSession, ReclaimStale, DeleteClient, CloseCAS, CloseTicker, CloseData, Listen, CloseListener

(* The table implements PortLease: a session is found in the table only    *)
(* while its listener is bound to that port, is entered at most once, and  *)
(* gives the port back only after it was removed.                          *)
THEOREM ImplementsLease == Spec => LeaseSpec
<1>1. Spec => []IInv
  BY TypeInit, TypeStep, TableInit, TableStep, PTL DEF Spec, IInv
<1> QED
  BY <1>1, LeaseInit, LeaseStep, PTL DEF Spec, LeaseSpec, Lease!Spec
=============================================================================
