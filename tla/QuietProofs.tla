---------------------------- MODULE QuietProofs -----------------------------
(***************************************************************************)
(* What the port table, and the tunnel manager on top of it, guarantee     *)
(* while nobody but the connections themselves removes sessions: no close  *)
(* request from the dashboard, and no client whose heartbeats stop.  The   *)
(* reclaim goroutine still runs, and takes every sentinel it meets for a   *)
(* stale session.  The run port_lost shows what happens without this       *)
(* condition.                                                              *)
(***************************************************************************)
EXTENDS TunnelManager, PortTableProofs

Quiet == Closers = {} /\ Expirable = {}

-----------------------------------------------------------------------------
(* The table: the inductive invariant                                      *)

(* A client builds one session, in its first call of AllocatePort; every   *)
(* later call finds it open and returns its port.                          *)
First(c) == <<c, 1>>
Again(c) == pc[c] = "load" /\ calls[c] > 1

Reserving(c)  == pc[c] \in {"listen", "rollback", "storePort"}
Registered(c) == Again(c) \/ pc[c] \in {"storeClient", "startTicker", "lookupOwn",
                   "setDataSession", "serving", "checkExisting", "deletePort"}
Known(c)      == Again(c) \/ pc[c] \in {"startTicker", "lookupOwn", "setDataSession",
                   "serving", "checkExisting", "deletePort", "deleteClient"}
PortBound(c)      == Registered(c) \/ pc[c] \in {"storePort", "deleteClient", "closeCAS",
                   "closeTicker", "closeListener"}
Attached(c)   == Again(c) \/ pc[c] \in {"serving", "checkExisting"} \union RemoveLabels

(* Each sentinel is the reservation of one client.                         *)
Sentinels ==
  /\ \A c \in Clients : Reserving(c) => portToSession[port[c]] = portTaken
  /\ \A c, d \in Clients : Reserving(c) /\ Reserving(d) /\ port[c] = port[d] => c = d
  /\ \A p \in Ports : portToSession[p] = portTaken =>
       \E c \in Clients : Reserving(c) /\ port[c] = p

(* The two maps and the bound listeners follow the progress of the client. *)
Entries ==
  /\ \A c \in Clients : Registered(c) => portToSession[port[c]] = First(c)
  /\ \A p \in Ports, s \in Sessions : portToSession[p] = s =>
       /\ s = First(ClientOf(s))
       /\ Registered(ClientOf(s)) /\ port[ClientOf(s)] = p

ClientMap ==
  \A c \in Clients : clientToSession[c] = IF Known(c) THEN First(c) ELSE None

Listeners ==
  /\ \A c \in Clients : PortBound(c) =>
       /\ port[c] \in Ports
       /\ listening[port[c]] = First(c)
       /\ assignedPort[First(c)] = port[c]
  /\ \A p \in Ports, s \in Sessions : listening[p] = s =>
       /\ s = First(ClientOf(s))
       /\ PortBound(ClientOf(s)) /\ port[ClientOf(s)] = p

(* Only a client has its session in hand, and only to look at it or to end *)
(* it; the reclaimer never has anything but the sentinel.                  *)
Hands ==
  /\ \A c \in Clients :
       /\ pc[c] \in RemoveLabels \union {"checkExisting", "setDataSession"} => obj[c] = First(c)
       /\ pc[c] \in RemoveLabels => ret[c] = "done"
  /\ \A r \in Reclaimers :
       /\ obj[r] \in {portTaken, None}
       /\ ret[r] = "idle"
       /\ pc[r] \in {"idle"} \union RemoveLabels

Ended ==
  \A s \in Sessions :
    /\ closed[s] => pc[ClientOf(s)] \in CloseLabels \union {"done"}
    /\ tickerDone[s] = "open" =>
         s = First(ClientOf(s)) /\ pc[ClientOf(s)] \notin {"closeListener", "closeData", "done"}

Yamux ==
  \A c \in Clients :
    /\ Attached(c) => dataSession[First(c)] = c
    /\ pc[c] \in {"failed", "done"} => c \notin yamuxOpen

Calls ==
  \A c \in Clients :
    /\ pc[c] = "start" => calls[c] = 0
    /\ calls[c] = 0 => pc[c] \in {"start", "failed"}
    /\ Reserving(c) \/ pc[c] \in {"probe", "storeClient", "startTicker"} => calls[c] = 1

QuietInv == Sentinels /\ Entries /\ ClientMap /\ Listeners /\ Hands /\ Ended /\ Yamux /\ Calls

LEMMA QuietInit == Init => QuietInv
BY CallBound, DistinctNames
   DEF Init, QuietInv, Sentinels, Entries, ClientMap, Listeners, Hands, Ended, Yamux, Calls,
       Again, Reserving, Registered, Known, PortBound, Attached, Objects, RemoveLabels,
       CloseLabels, Goroutines, Sessions

LEMMA FirstSession ==
  /\ \A c \in Clients : First(c) \in Sessions /\ ClientOf(First(c)) = c
  /\ \A s \in Sessions : ClientOf(s) \in Clients
BY CallBound DEF First, Sessions, ClientOf

LEMMA QuietStep == Quiet /\ TypeInv /\ TypeInv' /\ QuietInv /\ [Next]_vars => QuietInv'
<1> USE DistinctNames, FirstSession
<1> SUFFICES ASSUME Quiet, TypeInv, TypeInv', QuietInv, [Next]_vars PROVE QuietInv'
    OBVIOUS
<1> USE DEF Quiet, TypeInv, TypeOK, CallNumbered, PortInHand, PreBuild, Labels, AllocLabels,
            RemoveLabels, CloseLabels, Objects, Goroutines, Goto, tableVars, sessionVars,
            worldVars, callVars, QuietInv, Again, Reserving, Registered, Known, PortBound, Attached
<1>a. \A n \in Nat \ {0} : n = 1 \/ n > 1
  OBVIOUS
<1>n. ASSUME NEW c \in Clients, calls[c] = 1 PROVE NewSession(c) = First(c)
  BY <1>n DEF NewSession, First
<1>1. ASSUME NEW c \in Clients, AllocatePort(c) PROVE QuietInv'
  <2>a. \/ pc[c] = "start" /\ calls'[c] = 1
        \/ pc[c] = "serving" /\ calls'[c] > 1
    BY <1>1 DEF AllocatePort, Calls
  <2>b. \A d \in Clients : /\ Registered(d)' <=> Registered(d)
                           /\ Known(d)' <=> Known(d)
                           /\ PortBound(d)' <=> PortBound(d)
                           /\ Attached(d)' <=> Attached(d)
    BY <1>1, <2>a DEF AllocatePort
  <2>1. Sentinels'
    BY <1>1 DEF AllocatePort, Sentinels
  <2>2. Entries'
    <3> HIDE DEF Registered, Known, PortBound
    <3> QED
      BY <1>1, <2>b DEF AllocatePort, Entries
  <2>3. ClientMap'
    <3> HIDE DEF Registered, Known, PortBound
    <3> QED
      BY <1>1, <2>b DEF AllocatePort, ClientMap
  <2>4. Listeners'
    <3> HIDE DEF Registered, Known, PortBound
    <3> QED
      BY <1>1, <2>b DEF AllocatePort, Listeners
  <2>5. Hands'
    BY <1>1 DEF AllocatePort, Hands
  <2>6. Ended'
    BY <1>1 DEF AllocatePort, Ended
  <2>7. Yamux'
    <3> HIDE DEF Attached
    <3> QED
      BY <1>1, <2>b DEF AllocatePort, Yamux
  <2>8. Calls'
    BY <1>1 DEF AllocatePort, Calls
  <2> QED
    BY <2>1, <2>2, <2>3, <2>4, <2>5, <2>6, <2>7, <2>8
<1>2. ASSUME NEW c \in Clients, LoadExisting(c) PROVE QuietInv'
  <2>a. \/ calls[c] = 1 /\ ~Known(c) /\ pc' = [pc EXCEPT ![c] = "probe"] /\ obj' = obj
        \/ /\ Again(c)
           /\ pc' = [pc EXCEPT ![c] = "checkExisting"]
           /\ obj' = [obj EXCEPT ![c] = First(c)]
    <3>1. First(c) # None /\ (calls[c] = 1 \/ Again(c)) /\ (Known(c) <=> Again(c))
      <4>1. pc[c] = "load" /\ calls[c] \in Nat \ {0}
        BY <1>2, CallBound DEF LoadExisting
      <4>2. calls[c] = 1 \/ calls[c] > 1
        BY <4>1, <1>a
      <4> QED
        BY <4>1, <4>2
    <3>2. CASE clientToSession[c] = None
      BY <1>2, <3>1, <3>2 DEF LoadExisting, ClientMap
    <3>3. CASE clientToSession[c] # None
      BY <1>2, <3>1, <3>3 DEF LoadExisting, ClientMap
    <3> QED
      BY <3>2, <3>3
  <2>b. UNCHANGED <<tableVars, sessionVars, worldVars, callVars, ret>> /\ pc[c] = "load"
    BY <1>2 DEF LoadExisting
  <2>1. Sentinels'
    BY <2>a, <2>b DEF Sentinels
  <2>2. Entries'
    BY <2>a, <2>b DEF Entries
  <2>3. ClientMap'
    BY <2>a, <2>b DEF ClientMap
  <2>4. Listeners'
    BY <2>a, <2>b DEF Listeners
  <2>5. Hands'
    BY <2>a, <2>b DEF Hands
  <2>6. Ended'
    BY <2>a, <2>b DEF Ended
  <2>7. Yamux'
    BY <2>a, <2>b DEF Yamux
  <2>8. Calls'
    BY <2>a, <2>b DEF Calls
  <2> QED
    BY <2>1, <2>2, <2>3, <2>4, <2>5, <2>6, <2>7, <2>8
<1>3. ASSUME NEW c \in Clients, CheckExisting(c) PROVE QuietInv'
  <2>a. pc[c] = "checkExisting" /\ Registered(c) /\ Known(c) /\ PortBound(c) /\ Attached(c)
    BY <1>3 DEF CheckExisting
  <2>b. obj[c] = First(c) /\ ~closed[First(c)] /\ assignedPort[First(c)] = port[c]
    BY <2>a DEF Hands, Ended, Listeners
  <2>c. /\ pc' = [pc EXCEPT ![c] = "lookupOwn"]
        /\ obj' = [obj EXCEPT ![c] = None]
        /\ port' = port
        /\ UNCHANGED <<tableVars, sessionVars, worldVars, tried, calls, ret>>
    BY <1>3, <2>b DEF CheckExisting
  <2>1. Sentinels'
    BY <2>a, <2>c DEF Sentinels
  <2>2. Entries'
    BY <2>a, <2>c DEF Entries
  <2>3. ClientMap'
    BY <2>a, <2>c DEF ClientMap
  <2>4. Listeners'
    BY <2>a, <2>c DEF Listeners
  <2>5. Hands'
    BY <2>a, <2>c DEF Hands
  <2>6. Ended'
    BY <2>a, <2>c DEF Ended
  <2>7. Yamux'
    BY <2>a, <2>c DEF Yamux
  <2>8. Calls'
    BY <2>a, <2>c DEF Calls
  <2> QED
    BY <2>1, <2>2, <2>3, <2>4, <2>5, <2>6, <2>7, <2>8
<1>4. ASSUME NEW c \in Clients, ReservePort(c) PROVE QuietInv'
  <2>1. Sentinels'
    BY <1>4 DEF ReservePort, Sentinels
  <2>2. Entries'
    <3>1. CASE portToSession' = portToSession /\ pc' = pc /\ port' = port
      BY <1>4, <3>1 DEF ReservePort, Entries
    <3>2. ASSUME NEW p \in Ports, portToSession[p] = None,
                 portToSession' = [portToSession EXCEPT ![p] = portTaken],
                 port' = [port EXCEPT ![c] = p], pc' = [pc EXCEPT ![c] = "listen"]
          PROVE  Entries'
      <4>1. pc[c] = "probe" /\ ~Registered(c) /\ ~Registered(c)' /\ calls' = calls
        BY <1>4, <3>2 DEF ReservePort
      <4>2. \A d \in Clients : /\ Registered(d)' <=> Registered(d)
                               /\ Registered(d) => port'[d] = port[d] /\ port[d] # p
        BY <3>2, <4>1 DEF Entries
      <4> HIDE DEF Registered
      <4> QED
        BY <3>2, <4>2 DEF Entries
    <3> QED
      BY <1>4, <3>1, <3>2 DEF ReservePort
  <2>3. ClientMap'
    BY <1>4 DEF ReservePort, ClientMap
  <2>4. Listeners'
    BY <1>4 DEF ReservePort, Listeners
  <2>5. Hands'
    BY <1>4 DEF ReservePort, Hands
  <2>6. Ended'
    BY <1>4 DEF ReservePort, Ended
  <2>7. Yamux'
    BY <1>4 DEF ReservePort, Yamux
  <2>8. Calls'
    BY <1>4 DEF ReservePort, Calls
  <2> QED
    BY <2>1, <2>2, <2>3, <2>4, <2>5, <2>6, <2>7, <2>8
<1>5. ASSUME NEW c \in Clients, NoAvailablePorts(c) PROVE QuietInv'
  <2>1. Sentinels'
    BY <1>5 DEF NoAvailablePorts, Sentinels
  <2>2. Entries'
    BY <1>5 DEF NoAvailablePorts, Entries
  <2>3. ClientMap'
    BY <1>5 DEF NoAvailablePorts, ClientMap
  <2>4. Listeners'
    BY <1>5 DEF NoAvailablePorts, Listeners
  <2>5. Hands'
    BY <1>5 DEF NoAvailablePorts, Hands
  <2>6. Ended'
    BY <1>5 DEF NoAvailablePorts, Ended
  <2>7. Yamux'
    BY <1>5 DEF NoAvailablePorts, Yamux
  <2>8. Calls'
    BY <1>5 DEF NoAvailablePorts, Calls
  <2> QED
    BY <2>1, <2>2, <2>3, <2>4, <2>5, <2>6, <2>7, <2>8
<1>6. ASSUME NEW c \in Clients, Listen(c) PROVE QuietInv'
  <2>1. Sentinels'
    BY <1>6, <1>n DEF Listen, Sentinels
  <2>2. Entries'
    BY <1>6, <1>n DEF Listen, Entries
  <2>3. ClientMap'
    BY <1>6, <1>n DEF Listen, ClientMap
  <2>4. Listeners'
    BY <1>6, <1>n DEF Listen, Listeners, Calls
  <2>5. Hands'
    BY <1>6, <1>n DEF Listen, Hands
  <2>6. Ended'
    BY <1>6, <1>n DEF Listen, Ended
  <2>7. Yamux'
    BY <1>6, <1>n DEF Listen, Yamux
  <2>8. Calls'
    BY <1>6, <1>n DEF Listen, Calls
  <2> QED
    BY <2>1, <2>2, <2>3, <2>4, <2>5, <2>6, <2>7, <2>8
<1>7. ASSUME NEW c \in Clients, RollbackPort(c) PROVE QuietInv'
  <2>1. Sentinels'
    BY <1>7 DEF RollbackPort, DeleteKey, Sentinels
  <2>2. Entries'
    <3>1. /\ pc[c] = "rollback" /\ pc' = [pc EXCEPT ![c] = "probe"]
          /\ portToSession' = [x \in Ports |-> IF x = port[c] THEN None ELSE portToSession[x]]
          /\ calls' = calls /\ port' = port
      BY <1>7 DEF RollbackPort, DeleteKey
    <3>2. \A d \in Clients : /\ Registered(d)' <=> Registered(d)
                             /\ Registered(d) => port[d] # port[c] /\ port[d] \in Ports
      BY <3>1 DEF Sentinels, Entries, Listeners
    <3> HIDE DEF Registered
    <3> QED
      BY <3>1, <3>2 DEF Entries
  <2>3. ClientMap'
    BY <1>7 DEF RollbackPort, DeleteKey, ClientMap
  <2>4. Listeners'
    BY <1>7 DEF RollbackPort, DeleteKey, Listeners
  <2>5. Hands'
    BY <1>7 DEF RollbackPort, DeleteKey, Hands
  <2>6. Ended'
    BY <1>7 DEF RollbackPort, DeleteKey, Ended
  <2>7. Yamux'
    BY <1>7 DEF RollbackPort, DeleteKey, Yamux
  <2>8. Calls'
    BY <1>7 DEF RollbackPort, DeleteKey, Calls
  <2> QED
    BY <2>1, <2>2, <2>3, <2>4, <2>5, <2>6, <2>7, <2>8
<1>8. ASSUME NEW c \in Clients, StorePort(c) PROVE QuietInv'
  <2>1. Sentinels'
    BY <1>8, <1>n DEF StorePort, Sentinels, Calls
  <2>2. Entries'
    BY <1>8, <1>n DEF StorePort, Entries, Sentinels, Calls
  <2>3. ClientMap'
    BY <1>8, <1>n DEF StorePort, ClientMap
  <2>4. Listeners'
    BY <1>8, <1>n DEF StorePort, Listeners
  <2>5. Hands'
    BY <1>8, <1>n DEF StorePort, Hands
  <2>6. Ended'
    BY <1>8, <1>n DEF StorePort, Ended
  <2>7. Yamux'
    BY <1>8, <1>n DEF StorePort, Yamux
  <2>8. Calls'
    BY <1>8, <1>n DEF StorePort, Calls
  <2> QED
    BY <2>1, <2>2, <2>3, <2>4, <2>5, <2>6, <2>7, <2>8
<1>9. ASSUME NEW c \in Clients, StoreClient(c) PROVE QuietInv'
  <2>1. Sentinels'
    BY <1>9, <1>n DEF StoreClient, Sentinels
  <2>2. Entries'
    BY <1>9, <1>n DEF StoreClient, Entries
  <2>3. ClientMap'
    BY <1>9, <1>n DEF StoreClient, ClientMap, Calls
  <2>4. Listeners'
    BY <1>9, <1>n DEF StoreClient, Listeners
  <2>5. Hands'
    BY <1>9, <1>n DEF StoreClient, Hands
  <2>6. Ended'
    BY <1>9, <1>n DEF StoreClient, Ended
  <2>7. Yamux'
    BY <1>9, <1>n DEF StoreClient, Yamux
  <2>8. Calls'
    BY <1>9, <1>n DEF StoreClient, Calls
  <2> QED
    BY <2>1, <2>2, <2>3, <2>4, <2>5, <2>6, <2>7, <2>8
<1>10. ASSUME NEW c \in Clients, StartRateTicker(c) PROVE QuietInv'
  <2>1. Sentinels'
    BY <1>10, <1>n DEF StartRateTicker, Sentinels
  <2>2. Entries'
    BY <1>10, <1>n DEF StartRateTicker, Entries
  <2>3. ClientMap'
    BY <1>10, <1>n DEF StartRateTicker, ClientMap
  <2>4. Listeners'
    BY <1>10, <1>n DEF StartRateTicker, Listeners
  <2>5. Hands'
    BY <1>10, <1>n DEF StartRateTicker, Hands
  <2>6. Ended'
    BY <1>10, <1>n DEF StartRateTicker, Ended, Calls
  <2>7. Yamux'
    BY <1>10, <1>n DEF StartRateTicker, Yamux
  <2>8. Calls'
    BY <1>10, <1>n DEF StartRateTicker, Calls
  <2> QED
    BY <2>1, <2>2, <2>3, <2>4, <2>5, <2>6, <2>7, <2>8
<1>11. ASSUME NEW c \in Clients, LookupOwn(c) PROVE QuietInv'
  <2>1. Sentinels'
    BY <1>11 DEF LookupOwn, GetSession, Sentinels
  <2>2. Entries'
    BY <1>11 DEF LookupOwn, GetSession, Entries
  <2>3. ClientMap'
    BY <1>11 DEF LookupOwn, GetSession, ClientMap
  <2>4. Listeners'
    BY <1>11 DEF LookupOwn, GetSession, Listeners
  <2>5. Hands'
    BY <1>11 DEF LookupOwn, GetSession, Hands, Entries, Listeners
  <2>6. Ended'
    BY <1>11 DEF LookupOwn, GetSession, Ended
  <2>7. Yamux'
    BY <1>11 DEF LookupOwn, GetSession, Yamux, Entries, Listeners
  <2>8. Calls'
    BY <1>11 DEF LookupOwn, GetSession, Calls
  <2> QED
    BY <2>1, <2>2, <2>3, <2>4, <2>5, <2>6, <2>7, <2>8
<1>12. ASSUME NEW c \in Clients, SetDataSession(c) PROVE QuietInv'
  <2>1. Sentinels'
    BY <1>12 DEF SetDataSession, Sentinels
  <2>2. Entries'
    BY <1>12 DEF SetDataSession, Entries
  <2>3. ClientMap'
    BY <1>12 DEF SetDataSession, ClientMap
  <2>4. Listeners'
    BY <1>12 DEF SetDataSession, Listeners
  <2>5. Hands'
    BY <1>12 DEF SetDataSession, Hands
  <2>6. Ended'
    BY <1>12 DEF SetDataSession, Ended
  <2>7. Yamux'
    BY <1>12 DEF SetDataSession, Yamux, Hands
  <2>8. Calls'
    BY <1>12 DEF SetDataSession, Calls
  <2> QED
    BY <2>1, <2>2, <2>3, <2>4, <2>5, <2>6, <2>7, <2>8
<1>13. ASSUME NEW c \in Clients, CleanupSession(c) PROVE QuietInv'
  <2>1. Sentinels'
    BY <1>13 DEF CleanupSession, GetSession, Sentinels
  <2>2. Entries'
    BY <1>13 DEF CleanupSession, GetSession, Entries
  <2>3. ClientMap'
    BY <1>13 DEF CleanupSession, GetSession, ClientMap, Entries, Listeners
  <2>4. Listeners'
    BY <1>13 DEF CleanupSession, GetSession, Listeners, Entries
  <2>5. Hands'
    BY <1>13 DEF CleanupSession, GetSession, Hands, Entries, Listeners
  <2>6. Ended'
    BY <1>13 DEF CleanupSession, GetSession, Ended, Entries, Listeners
  <2>7. Yamux'
    BY <1>13 DEF CleanupSession, GetSession, Yamux, Entries, Listeners
  <2>8. Calls'
    BY <1>13 DEF CleanupSession, GetSession, Calls
  <2> QED
    BY <2>1, <2>2, <2>3, <2>4, <2>5, <2>6, <2>7, <2>8
<1>14. ASSUME NEW d \in Closers PROVE FALSE
  BY <1>14
<1>15. ASSUME NEW r \in Reclaimers, ReclaimStale(r) PROVE QuietInv'
  <2>1. Sentinels'
    BY <1>15 DEF ReclaimStale, StaleObjects, Sentinels
  <2>2. Entries'
    BY <1>15 DEF ReclaimStale, StaleObjects, Entries
  <2>3. ClientMap'
    BY <1>15 DEF ReclaimStale, StaleObjects, ClientMap
  <2>4. Listeners'
    BY <1>15 DEF ReclaimStale, StaleObjects, Listeners
  <2>5. Hands'
    BY <1>15 DEF ReclaimStale, StaleObjects, Hands
  <2>6. Ended'
    BY <1>15 DEF ReclaimStale, StaleObjects, Ended
  <2>7. Yamux'
    BY <1>15 DEF ReclaimStale, StaleObjects, Yamux
  <2>8. Calls'
    BY <1>15 DEF ReclaimStale, StaleObjects, Calls
  <2> QED
    BY <2>1, <2>2, <2>3, <2>4, <2>5, <2>6, <2>7, <2>8
<1>16. ASSUME NEW g \in Goroutines, DeletePort(g) PROVE QuietInv'
  <2>a. /\ pc[g] = "deletePort" /\ pc' = [pc EXCEPT ![g] = "deleteClient"]
        /\ \/ g \in Reclaimers /\ portToSession' = portToSession
           \/ /\ g \in Clients /\ port[g] \in Ports
              /\ portToSession[port[g]] = First(g)
              /\ portToSession' = [p \in Ports |-> IF p = port[g] THEN None ELSE portToSession[p]]
        /\ UNCHANGED <<clientToSession, sessionVars, worldVars, callVars, obj, ret>>
    BY <1>16 DEF DeletePort, DeleteKey, PortOf, Hands, Listeners, Entries
  <2>1. Sentinels'
    BY <2>a DEF Sentinels
  <2>2. Entries'
    <3>1. \A d \in Clients : /\ d # g => (Registered(d)' <=> Registered(d))
                             /\ d = g => ~Registered(d)'
      BY <2>a
    <3>2. CASE g \in Reclaimers
      <4> HIDE DEF Registered
      <4> QED
        BY <2>a, <3>1, <3>2 DEF Entries
    <3>3. CASE g \in Clients
      <4>1. \A d \in Clients : d # g /\ Registered(d) => port[d] # port[g] /\ port[d] \in Ports
        BY <2>a, <3>3 DEF Entries, Listeners
      <4> HIDE DEF Registered
      <4> QED
        BY <2>a, <3>1, <3>3, <4>1 DEF Entries
    <3> QED
      BY <3>2, <3>3
  <2>3. ClientMap'
    BY <2>a DEF ClientMap
  <2>4. Listeners'
    BY <2>a DEF Listeners
  <2>5. Hands'
    BY <2>a DEF Hands
  <2>6. Ended'
    BY <2>a DEF Ended
  <2>7. Yamux'
    BY <2>a DEF Yamux
  <2>8. Calls'
    BY <2>a DEF Calls
  <2> QED
    BY <2>1, <2>2, <2>3, <2>4, <2>5, <2>6, <2>7, <2>8
<1>17. ASSUME NEW g \in Goroutines, DeleteClient(g) PROVE QuietInv'
  <2>1. Sentinels'
    BY <1>17 DEF DeleteClient, DeleteKey, ClientIDOf, Sentinels
  <2>2. Entries'
    BY <1>17 DEF DeleteClient, DeleteKey, ClientIDOf, Entries
  <2>3. ClientMap'
    BY <1>17 DEF DeleteClient, DeleteKey, ClientIDOf, ClientMap, Hands
  <2>4. Listeners'
    BY <1>17 DEF DeleteClient, DeleteKey, ClientIDOf, Listeners
  <2>5. Hands'
    BY <1>17 DEF DeleteClient, DeleteKey, ClientIDOf, Hands
  <2>6. Ended'
    BY <1>17 DEF DeleteClient, DeleteKey, ClientIDOf, Ended
  <2>7. Yamux'
    BY <1>17 DEF DeleteClient, DeleteKey, ClientIDOf, Yamux
  <2>8. Calls'
    BY <1>17 DEF DeleteClient, DeleteKey, ClientIDOf, Calls
  <2> QED
    BY <2>1, <2>2, <2>3, <2>4, <2>5, <2>6, <2>7, <2>8
<1>18. ASSUME NEW g \in Goroutines, CloseCAS(g) PROVE QuietInv'
  <2>1. Sentinels'
    BY <1>18 DEF CloseCAS, Return, Sentinels
  <2>2. Entries'
    BY <1>18 DEF CloseCAS, Return, Entries
  <2>3. ClientMap'
    BY <1>18 DEF CloseCAS, Return, ClientMap
  <2>4. Listeners'
    BY <1>18 DEF CloseCAS, Return, Listeners, Hands, Ended
  <2>5. Hands'
    BY <1>18 DEF CloseCAS, Return, Hands
  <2>6. Ended'
    BY <1>18 DEF CloseCAS, Return, Ended, Hands
  <2>7. Yamux'
    BY <1>18 DEF CloseCAS, Return, Yamux, Hands, Ended
  <2>8. Calls'
    BY <1>18 DEF CloseCAS, Return, Calls, Hands
  <2> QED
    BY <2>1, <2>2, <2>3, <2>4, <2>5, <2>6, <2>7, <2>8
<1>19. ASSUME NEW g \in Goroutines, CloseTicker(g) PROVE QuietInv'
  <2>1. Sentinels'
    BY <1>19 DEF CloseTicker, Sentinels
  <2>2. Entries'
    BY <1>19 DEF CloseTicker, Entries
  <2>3. ClientMap'
    BY <1>19 DEF CloseTicker, ClientMap
  <2>4. Listeners'
    BY <1>19 DEF CloseTicker, Listeners
  <2>5. Hands'
    BY <1>19 DEF CloseTicker, Hands
  <2>6. Ended'
    BY <1>19 DEF CloseTicker, Ended, Hands
  <2>7. Yamux'
    BY <1>19 DEF CloseTicker, Yamux
  <2>8. Calls'
    BY <1>19 DEF CloseTicker, Calls
  <2> QED
    BY <2>1, <2>2, <2>3, <2>4, <2>5, <2>6, <2>7, <2>8
<1>20. ASSUME NEW g \in Goroutines, CloseListener(g) PROVE QuietInv'
  <2>1. Sentinels'
    BY <1>20 DEF CloseListener, Sentinels
  <2>2. Entries'
    BY <1>20 DEF CloseListener, Entries
  <2>3. ClientMap'
    BY <1>20 DEF CloseListener, ClientMap
  <2>4. Listeners'
    BY <1>20 DEF CloseListener, Listeners, Hands
  <2>5. Hands'
    BY <1>20 DEF CloseListener, Hands
  <2>6. Ended'
    BY <1>20 DEF CloseListener, Ended
  <2>7. Yamux'
    BY <1>20 DEF CloseListener, Yamux
  <2>8. Calls'
    BY <1>20 DEF CloseListener, Calls
  <2> QED
    BY <2>1, <2>2, <2>3, <2>4, <2>5, <2>6, <2>7, <2>8
<1>21. ASSUME NEW g \in Goroutines, CloseData(g) PROVE QuietInv'
  <2>1. Sentinels'
    BY <1>21 DEF CloseData, Return, Sentinels
  <2>2. Entries'
    BY <1>21 DEF CloseData, Return, Entries
  <2>3. ClientMap'
    BY <1>21 DEF CloseData, Return, ClientMap
  <2>4. Listeners'
    BY <1>21 DEF CloseData, Return, Listeners
  <2>5. Hands'
    BY <1>21 DEF CloseData, Return, Hands
  <2>6. Ended'
    BY <1>21 DEF CloseData, Return, Ended, Hands
  <2>7. Yamux'
    BY <1>21 DEF CloseData, Return, Yamux, Hands
  <2>8. Calls'
    BY <1>21 DEF CloseData, Return, Calls, Hands
  <2> QED
    BY <2>1, <2>2, <2>3, <2>4, <2>5, <2>6, <2>7, <2>8
<1>22. CASE UNCHANGED vars
  BY <1>22 DEF vars, Sentinels, Entries, ClientMap, Listeners, Hands, Ended, Yamux, Calls
<1> QED
  BY <1>1, <1>2, <1>3, <1>4, <1>5, <1>6, <1>7, <1>8, <1>9, <1>10, <1>11, <1>12, <1>13, <1>14, <1>15, <1>16, <1>17, <1>18, <1>19, <1>20, <1>21, <1>22 DEF Next, AllocStep, RemoveStep

LEMMA QuietAlways == ASSUME Quiet PROVE Spec => [](TypeInv /\ QuietInv)
<1>1. Init => TypeInv /\ QuietInv
  BY TypeInit, QuietInit
<1>2. TypeInv /\ QuietInv /\ [Next]_vars => (TypeInv /\ QuietInv)'
  BY TypeStep, QuietStep
<1> QED
  BY <1>1, <1>2, PTL DEF Spec

-----------------------------------------------------------------------------
(* The table: the properties                                               *)

(* While nobody else removes sessions, the sentinel of an allocator stays  *)
(* until the allocator replaces or removes it: the reclaimer, which takes  *)
(* it for a stale session, does not free the port under it.                *)
THEOREM ReservationsHold == ASSUME Quiet PROVE Spec => []ReservationHeld
<1>1. QuietInv => ReservationHeld
  BY DEF QuietInv, Sentinels, Reserving, ReservationHeld
<1> QED
  BY <1>1, QuietAlways, PTL

(* The port a client was given maps to a session of that client until the  *)
(* client cleans up.                                                       *)
THEOREM PortsAreOwn == ASSUME Quiet PROVE Spec => []HeldPortIsOwn
<1>1. QuietInv => HeldPortIsOwn
  BY DistinctNames, FirstSession
     DEF QuietInv, Entries, Registered, HeldPortIsOwn, ClientIDOf, Objects
<1> QED
  BY <1>1, QuietAlways, PTL

(* cleanupSession, which is given a port number, removes the session of    *)
(* its own connection.                                                     *)
THEOREM OwnSessionRemoved == ASSUME Quiet PROVE Spec => []RemovesOwnSession
<1>1. QuietInv => RemovesOwnSession
  BY DistinctNames, FirstSession DEF QuietInv, Hands, RemovesOwnSession, ClientIDOf
<1> QED
  BY <1>1, QuietAlways, PTL

(* A client has at most one entry, however often it calls AllocatePort.    *)
THEOREM OneEntry == ASSUME Quiet PROVE Spec => []OneEntryPerClient
<1>1. QuietInv => OneEntryPerClient
  BY DEF QuietInv, Entries, OneEntryPerClient
<1> QED
  BY <1>1, QuietAlways, PTL

LEMMA NothingLeft == TypeInv /\ QuietInv => NothingLeaks
<1>1. ASSUME TypeInv, QuietInv, AtRest PROVE PortsAccounted
  <2>1. \A c \in Clients : ~Reserving(c) /\ (PortBound(c) <=> Registered(c))
    BY <1>1 DEF AtRest, Goroutines, Reserving, PortBound, Again, Registered
  <2>2. ASSUME NEW p \in Ports PROVE portToSession[p] = listening[p]
    <3>1. portToSession[p] \in Sessions \union {None} /\ listening[p] \in Sessions \union {None}
      BY <1>1, <2>1 DEF TypeInv, TypeOK, Objects, QuietInv, Sentinels
    <3>2. \A s \in Sessions : portToSession[p] = s <=> listening[p] = s
      BY <1>1, <2>1, FirstSession DEF QuietInv, Entries, Listeners
    <3> QED
      BY <3>1, <3>2
  <2> QED
    BY <2>2 DEF PortsAccounted
<1>2. ASSUME TypeInv, QuietInv, AtRest PROVE MapsAgree
  <2>1. \A c \in Clients : Known(c) => Registered(c) /\ PortBound(c)
    BY <1>2 DEF AtRest, Goroutines, Known, PortBound, Again, Registered
  <2> QED
    BY <1>2, <2>1, FirstSession DEF MapsAgree, QuietInv, ClientMap, Entries, Listeners
<1>3. ASSUME QuietInv, AtRest PROVE TickersStopped
  BY <1>3, FirstSession DEF TickersStopped, QuietInv, Ended, AtRest, Goroutines, CloseLabels
<1>4. ASSUME QuietInv PROVE YamuxReleased
  BY <1>4 DEF YamuxReleased, QuietInv, Yamux
<1> QED
  BY <1>1, <1>2, <1>3, <1>4 DEF NothingLeaks

(* Once no goroutine is inside a table operation, every bound listener is  *)
(* in the table and nothing of an ended connection is left.                *)
THEOREM NothingIsLeaked == ASSUME Quiet PROVE Spec => []NothingLeaks
BY NothingLeft, QuietAlways, PTL

-----------------------------------------------------------------------------
(* The tunnel manager: the inductive invariant.  Its steps are steps of    *)
(* the port table, or leave the table alone, except for a handshake that   *)
(* fails and a client that disconnects, which close a yamux session.       *)

TunnelTyped ==
  /\ acceptor   \in [Clients -> {"none", "lookup", "accept", "ended"}]
  /\ acceptSess \in [Clients -> Sessions \union {None}]
  /\ ext \in [Players -> {"away", "backlog", "accepted", "open", "bridged", "panicked", "ended"}]
  /\ dialled \in [Players -> Sessions \union {None}]
  /\ via     \in [Players -> Clients \union {None}]
  /\ sess    \in [Players -> Sessions \union {None}]

(* The acceptor of a client runs once the client has its session, which is *)
(* closed before the connection of the client ends.                        *)
Admitted(c) == Registered(c) \/ pc[c] \in RemoveLabels \union {"done"}

ClosedAtTheEnd ==
  \A c \in Clients : pc[c] \in CloseLabels \union {"done"} => closed[First(c)]

Acceptors ==
  \A c \in Clients :
    /\ acceptor[c] # "none" => Admitted(c)
    /\ acceptor[c] = "accept" => acceptSess[c] = First(c) \/ closed[First(c)]

Accepted ==
  \A e \in Players :
    /\ ext[e] \in {"away", "backlog"} => via[e] = None /\ sess[e] = None
    /\ via[e] # None => acceptor[via[e]] # "none"

TunnelInv ==
  /\ TypeInv /\ QuietInv
  /\ TunnelTyped /\ ClosedAtTheEnd /\ Acceptors /\ Accepted /\ RoutedWhileOpen

LEMMA RoutesInit == TunnelInit => TunnelInv
<1> SUFFICES ASSUME TunnelInit PROVE TunnelInv
    OBVIOUS
<1>1. TypeInv /\ QuietInv
  BY TypeInit, QuietInit DEF TunnelInit
<1>2. TunnelTyped /\ ClosedAtTheEnd /\ Acceptors /\ Accepted /\ RoutedWhileOpen
  BY DEF TunnelInit, Init, TunnelTyped, ClosedAtTheEnd, Acceptors, Accepted, RoutedWhileOpen,
         CloseLabels, Goroutines
<1> QED
  BY <1>1, <1>2 DEF TunnelInv

-----------------------------------------------------------------------------
(* The table under the tunnel manager                                      *)

(* A step that is none of the port table only closes yamux sessions, and   *)
(* may give up a connection that has no port yet.                          *)
LEMMA YamuxStep ==
  ASSUME TypeInv, QuietInv, NEW c \in Clients, HandshakeFails(c) \/ Disconnect(c)
  PROVE  TypeInv' /\ QuietInv'
<1> USE DistinctNames, FirstSession
<1> USE DEF TypeInv, TypeOK, CallNumbered, PortInHand, PreBuild, Labels, AllocLabels,
            RemoveLabels, CloseLabels, Objects, Goroutines, Goto, tableVars, sessionVars,
            callVars, QuietInv, Again, Reserving, Registered, Known, PortBound, Attached
<1>1. \/ pc' = pc
      \/ pc[c] = "start" /\ pc' = [pc EXCEPT ![c] = "failed"]
  BY DEF HandshakeFails, Disconnect
<1>2. /\ yamuxOpen' = yamuxOpen \ {c}
      /\ UNCHANGED <<tableVars, sessionVars, listening, callVars, obj, ret>>
  BY DEF HandshakeFails, Disconnect
<1>3. TypeInv'
  BY <1>1, <1>2
<1>4. Sentinels'
  BY <1>1, <1>2 DEF Sentinels
<1>5. Entries'
  BY <1>1, <1>2 DEF Entries
<1>6. ClientMap'
  BY <1>1, <1>2 DEF ClientMap
<1>7. Listeners'
  BY <1>1, <1>2 DEF Listeners
<1>8. Hands'
  BY <1>1, <1>2 DEF Hands
<1>9. Ended'
  BY <1>1, <1>2 DEF Ended
<1>10. Yamux'
  BY <1>1, <1>2 DEF Yamux
<1>11. Calls'
  BY <1>1, <1>2 DEF Calls
<1> QED
  BY <1>3, <1>4, <1>5, <1>6, <1>7, <1>8, <1>9, <1>10, <1>11

(* Nothing takes an admitted connection back, or opens a closed session.   *)
Onward ==
  /\ \A c \in Clients : Admitted(c) => Admitted(c)'
  /\ \A s \in Sessions : closed[s] => closed'[s]
  /\ ClosedAtTheEnd'

LEMMA TableOnward ==
  ASSUME Quiet, TypeInv, TypeInv', QuietInv, ClosedAtTheEnd, [Next]_vars
  PROVE  Onward
<1> USE DistinctNames, FirstSession
<1> USE DEF Quiet, TypeInv, TypeOK, CallNumbered, Labels, AllocLabels, RemoveLabels, CloseLabels,
            Objects, Goroutines, Goto, tableVars, sessionVars, worldVars, callVars,
            Again, Registered, Admitted, ClosedAtTheEnd, Onward
<1>1. ASSUME NEW c \in Clients, AllocatePort(c) PROVE Onward
  <2>1. \/ pc[c] = "start"
        \/ pc[c] = "serving" /\ calls'[c] > 1
    BY <1>1 DEF AllocatePort, QuietInv, Calls
  <2>2. pc' = [pc EXCEPT ![c] = "load"] /\ closed' = closed
    BY <1>1 DEF AllocatePort
  <2>3. \A d \in Clients : Registered(d) => Registered(d)'
    BY <1>1, <2>1, <2>2 DEF AllocatePort
  <2>4. \A d \in Clients : Admitted(d) => Admitted(d)'
    <3> HIDE DEF Registered
    <3> QED
      BY <2>1, <2>2, <2>3
  <2> QED
    BY <2>2, <2>4
<1>2. ASSUME NEW c \in Clients, LoadExisting(c) PROVE Onward
  BY <1>2 DEF LoadExisting, QuietInv, ClientMap, Known
<1>3. ASSUME NEW c \in Clients, CheckExisting(c) PROVE Onward
  BY <1>3 DEF CheckExisting, QuietInv
<1>4. ASSUME NEW c \in Clients, ReservePort(c) PROVE Onward
  BY <1>4 DEF ReservePort, QuietInv
<1>5. ASSUME NEW c \in Clients, NoAvailablePorts(c) PROVE Onward
  BY <1>5 DEF NoAvailablePorts, QuietInv
<1>6. ASSUME NEW c \in Clients, Listen(c) PROVE Onward
  BY <1>6 DEF Listen, QuietInv
<1>7. ASSUME NEW c \in Clients, RollbackPort(c) PROVE Onward
  BY <1>7 DEF RollbackPort, QuietInv
<1>8. ASSUME NEW c \in Clients, StorePort(c) PROVE Onward
  BY <1>8 DEF StorePort, QuietInv
<1>9. ASSUME NEW c \in Clients, StoreClient(c) PROVE Onward
  BY <1>9 DEF StoreClient, QuietInv
<1>10. ASSUME NEW c \in Clients, StartRateTicker(c) PROVE Onward
  BY <1>10 DEF StartRateTicker, QuietInv
<1>11. ASSUME NEW c \in Clients, LookupOwn(c) PROVE Onward
  BY <1>11 DEF LookupOwn, QuietInv, GetSession, Entries, Listeners, PortBound
<1>12. ASSUME NEW c \in Clients, SetDataSession(c) PROVE Onward
  BY <1>12 DEF SetDataSession, QuietInv
<1>13. ASSUME NEW c \in Clients, CleanupSession(c) PROVE Onward
  BY <1>13 DEF CleanupSession, QuietInv, GetSession, Entries, Listeners, PortBound
<1>14. ASSUME NEW d \in Closers PROVE FALSE
  BY <1>14
<1>15. ASSUME NEW r \in Reclaimers, ReclaimStale(r) PROVE Onward
  BY <1>15 DEF ReclaimStale, QuietInv
<1>16. ASSUME NEW g \in Goroutines, DeletePort(g) PROVE Onward
  BY <1>16 DEF DeletePort, QuietInv
<1>17. ASSUME NEW g \in Goroutines, DeleteClient(g) PROVE Onward
  BY <1>17 DEF DeleteClient, QuietInv
<1>18. ASSUME NEW g \in Goroutines, CloseCAS(g) PROVE Onward
  BY <1>18 DEF CloseCAS, QuietInv, Return, Hands
<1>19. ASSUME NEW g \in Goroutines, CloseTicker(g) PROVE Onward
  BY <1>19 DEF CloseTicker, QuietInv
<1>20. ASSUME NEW g \in Goroutines, CloseListener(g) PROVE Onward
  BY <1>20 DEF CloseListener, QuietInv
<1>21. ASSUME NEW g \in Goroutines, CloseData(g) PROVE Onward
  BY <1>21 DEF CloseData, QuietInv, Return, Hands
<1>22. CASE UNCHANGED vars
  BY <1>22 DEF vars
<1> QED
  BY <1>1, <1>2, <1>3, <1>4, <1>5, <1>6, <1>7, <1>8, <1>9, <1>10, <1>11, <1>12, <1>13, <1>14, <1>15, <1>16, <1>17, <1>18, <1>19, <1>20, <1>21, <1>22
     DEF Next, AllocStep, RemoveStep

(* What the number of a port leads to, for an admitted connection whose    *)
(* session is open.                                                        *)
LEMMA LookedUp ==
  ASSUME TypeInv, QuietInv, ClosedAtTheEnd, NEW c \in Clients, Admitted(c), ~closed[First(c)]
  PROVE  GetSession(port[c]) \in {First(c), None}
<1> USE FirstSession
<1>1. CASE Registered(c)
  BY <1>1 DEF QuietInv, Entries, GetSession
<1>2. CASE pc[c] \in {"deletePort", "deleteClient", "closeCAS"}
  <2>1. port[c] \in Ports /\ listening[port[c]] = First(c)
    BY <1>2 DEF QuietInv, Listeners, PortBound, Registered
  <2>2. ASSUME portToSession[port[c]] \in Sessions
        PROVE  portToSession[port[c]] = First(c)
    <3> DEFINE s == portToSession[port[c]]
    <3>1. /\ s = First(ClientOf(s)) /\ Registered(ClientOf(s)) /\ port[ClientOf(s)] = port[c]
          /\ ClientOf(s) \in Clients
      BY <2>1, <2>2 DEF QuietInv, Entries
    <3>2. listening[port[c]] = First(ClientOf(s))
      BY <3>1 DEF QuietInv, Listeners, PortBound
    <3> QED
      BY <2>1, <3>1, <3>2
  <2> QED
    BY <2>2 DEF GetSession
<1> QED
  BY <1>1, <1>2 DEF Admitted, ClosedAtTheEnd, RemoveLabels, CloseLabels

-----------------------------------------------------------------------------
(* The steps of the tunnel manager                                         *)

(* A step of the table alone leaves acceptors and players where they were. *)
LEMMA TableKeepsRoutes ==
  ASSUME TunnelInv, TypeInv', QuietInv', Onward, UNCHANGED tunnelVars
  PROVE  TunnelInv'
<1>1. TunnelTyped'
  BY DEF TunnelInv, TunnelTyped, tunnelVars, acceptVars, playerVars
<1>2. ClosedAtTheEnd'
  BY DEF Onward
<1>3. Acceptors'
  BY FirstSession DEF Onward, TunnelInv, Acceptors, tunnelVars, acceptVars, playerVars
<1>4. Accepted'
  BY DEF TunnelInv, Accepted, tunnelVars, acceptVars, playerVars
<1>5. RoutedWhileOpen'
  BY FirstSession, DistinctNames
     DEF Onward, TunnelInv, TunnelTyped, RoutedWhileOpen, Own, First, tunnelVars, acceptVars,
         playerVars
<1> QED
  BY <1>1, <1>2, <1>3, <1>4, <1>5 DEF TunnelInv

(* The acceptors and the players leave the table as it is.                 *)
LEMMA RoutesKeepTable ==
  ASSUME TunnelInv, UNCHANGED vars
  PROVE  TypeInv' /\ QuietInv' /\ ClosedAtTheEnd' /\ \A c \in Clients : Admitted(c) <=> Admitted(c)'
<1> USE DEF vars, tableVars, sessionVars, worldVars, callVars, TunnelInv
<1>1. TypeInv'
  BY DEF TypeInv, TypeOK, CallNumbered, PortInHand, PreBuild
<1>2. QuietInv'
  BY DEF QuietInv, Sentinels, Entries, ClientMap, Listeners, Hands, Ended, Yamux, Calls,
         Again, Reserving, Registered, Known, PortBound, Attached
<1>3. ClosedAtTheEnd' /\ \A c \in Clients : Admitted(c) <=> Admitted(c)'
  BY DEF ClosedAtTheEnd, Admitted, Registered, Again
<1> QED
  BY <1>1, <1>2, <1>3

LEMMA RoutesStep == Quiet /\ TunnelInv /\ [TunnelNext]_allVars => TunnelInv'
<1> SUFFICES ASSUME Quiet, TunnelInv, [TunnelNext]_allVars PROVE TunnelInv'
    OBVIOUS
<1>a. ASSUME [Next]_vars, UNCHANGED tunnelVars PROVE TunnelInv'
  BY <1>a, TypeStep, QuietStep, TableOnward, TableKeepsRoutes DEF TunnelInv
<1>b. ASSUME NEW c \in Clients, HandshakeFails(c) \/ Disconnect(c) PROVE TunnelInv'
  <2>1. TypeInv' /\ QuietInv'
    BY <1>b, YamuxStep DEF TunnelInv
  <2>2. /\ UNCHANGED <<tunnelVars, calls, closed>>
        /\ pc' = pc \/ (pc[c] = "start" /\ pc' = [pc EXCEPT ![c] = "failed"])
    BY <1>b DEF HandshakeFails, Disconnect, Goto, sessionVars, callVars
  <2>3. Onward
    BY <2>2 DEF Onward, Admitted, Registered, Again, ClosedAtTheEnd, TunnelInv, TypeInv, TypeOK,
                Goroutines, RemoveLabels, CloseLabels
  <2> QED
    BY <2>1, <2>2, <2>3, TableKeepsRoutes
<1>c. ASSUME UNCHANGED vars, TunnelTyped', Acceptors', Accepted', RoutedWhileOpen' PROVE TunnelInv'
  BY <1>c, RoutesKeepTable DEF TunnelInv
<1>d. UNCHANGED vars => closed' = closed /\ \A c \in Clients : Admitted(c) <=> Admitted(c)'
  BY RoutesKeepTable DEF vars, sessionVars
<1> USE DEF TunnelInv, TunnelTyped, Acceptors, Accepted, RoutedWhileOpen, Own, First,
            acceptVars, playerVars
<1> USE DistinctNames, FirstSession DEF Goroutines
<1>1. ASSUME NEW c \in Clients, StartGoroutines(c) PROVE TunnelInv'
  <2>1. Admitted(c)
    BY <1>1 DEF StartGoroutines, Admitted, Registered
  <2> QED
    BY <1>1, <1>c, <1>d, <2>1 DEF StartGoroutines
<1>2. ASSUME NEW c \in Clients, AcceptorLookup(c) PROVE TunnelInv'
  <2>1. GetSession(port[c]) \in Sessions \union {None}
    BY DEF GetSession
  <2>2. closed[First(c)] \/ GetSession(port[c]) \in {First(c), None}
    BY <1>2, LookedUp DEF AcceptorLookup
  <2> QED
    BY <1>2, <1>c, <1>d, <2>1, <2>2 DEF AcceptorLookup
<1>3. ASSUME NEW c \in Clients, AcceptPlayer(c) PROVE TunnelInv'
  BY <1>3, <1>c, <1>d DEF AcceptPlayer
<1>4. ASSUME NEW c \in Clients, AcceptorReturn(c) PROVE TunnelInv'
  BY <1>4, <1>c, <1>d DEF AcceptorReturn
<1>e. ASSUME NEW e \in Players, PlayerEnds(e), UNCHANGED <<vars, acceptVars>> PROVE TunnelInv'
  BY <1>e, <1>c, <1>d DEF PlayerEnds
<1>5. ASSUME NEW e \in Players, Dial(e) PROVE TunnelInv'
  <2>1. listening \in [Ports -> Sessions \union {None}]
    BY DEF TypeInv, TypeOK
  <2> QED
    BY <1>5, <1>c, <1>d, <2>1 DEF Dial
<1>6. ASSUME NEW e \in Players, LookupAndAdmit(e) PROVE TunnelInv'
  <2>1. GetSession(port[via[e]]) \in Sessions \union {None}
    BY DEF GetSession
  <2>2. via[e] # None =>
          closed[First(via[e])] \/ GetSession(port[via[e]]) \in {First(via[e]), None}
    BY LookedUp, <1>6
  <2> QED
    BY <1>6, <1>c, <1>d, <1>e, <2>1, <2>2 DEF LookupAndAdmit
<1>7. ASSUME NEW e \in Players, OpenBridge(e) PROVE TunnelInv'
  BY <1>7, <1>c, <1>d, <1>e DEF OpenBridge, PlayerGoto
<1>8. ASSUME NEW e \in Players, DialReset(e) \/ HangUp(e) PROVE TunnelInv'
  BY <1>8, <1>e DEF DialReset, HangUp
<1>9. ASSUME NEW c \in Clients, HandshakeRead(c) \/ Allocation(c) \/ Cleanup(c) PROVE TunnelInv'
  BY <1>9, <1>a DEF HandshakeRead, Allocation, Cleanup, Next
<1>10. ASSUME NEW g \in Goroutines, Removal(g) PROVE TunnelInv'
  BY <1>10, <1>a DEF Removal, Next
<1>11. CASE UNCHANGED allVars
  BY <1>11, <1>a DEF allVars, tunnelVars
<1> QED
  BY <1>b, <1>1, <1>2, <1>3, <1>4, <1>5, <1>6, <1>7, <1>8, <1>9, <1>10, <1>11
     DEF TunnelNext, AcceptorStep, HandlerStep

LEMMA RoutesAlways == ASSUME Quiet PROVE TunnelSpec => []TunnelInv
<1>1. TunnelInv /\ [TunnelNext]_allVars => TunnelInv'
  BY RoutesStep
<1> QED
  BY <1>1, RoutesInit, PTL DEF TunnelSpec

-----------------------------------------------------------------------------
(* The tunnel manager: the properties                                      *)

(* Acceptor and handler find the session by the number of its port.  As    *)
(* long as the session is open, they find it or nothing: no player is      *)
(* counted on, or takes a slot of, the session of another client.          *)
THEOREM PlayersAreRouted == ASSUME Quiet PROVE TunnelSpec => []RoutedWhileOpen
<1>1. TunnelInv => RoutedWhileOpen
  BY DEF TunnelInv
<1> QED
  BY <1>1, RoutesAlways, PTL

(* Failed handshakes and clients that disconnect at any moment, which the  *)
(* table alone knows nothing of, leave no listener, entry, ticker or yamux *)
(* session behind either.                                                  *)
THEOREM TunnelLeaksNothing == ASSUME Quiet PROVE TunnelSpec => []NothingLeaks
<1>1. TunnelInv => NothingLeaks
  BY NothingLeft DEF TunnelInv
<1> QED
  BY <1>1, RoutesAlways, PTL
=============================================================================
