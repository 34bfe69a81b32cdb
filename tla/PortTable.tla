----------------------------- MODULE PortTable -----------------------------
(***************************************************************************)
(* The concurrent port table of the central server: AllocatePort,          *)
(* removeSession, Session.Close and their callers, one action per          *)
(* operation on shared state.  The state is described in PortTableState.   *)
(***************************************************************************)
EXTENDS PortTableState

-----------------------------------------------------------------------------
(* Wrong variants of operations, each put in the place of the operation it *)
(* is a variant of to see that the properties tell them apart.             *)

(* AllocatePort does not look for a session the client already has.        *)
LoadNothing(c) ==
  /\ pc[c] = "load"
  /\ Goto(c, "probe")
  /\ UNCHANGED <<tableVars, sessionVars, worldVars, callVars, obj, ret>>

(* Store of the sentinel instead of LoadOrStore.                           *)
ReserveByStore(c) ==
  /\ pc[c] = "probe"
  /\ \E p \in Ports \ tried[c] :
       /\ tried' = [tried EXCEPT ![c] = @ \union {p}]
       /\ portToSession' = [portToSession EXCEPT ![p] = portTaken]
       /\ port' = [port EXCEPT ![c] = p]
       /\ Goto(c, "listen")
  /\ UNCHANGED <<clientToSession, sessionVars, worldVars, calls, obj, ret>>

(* A port that could not be bound is not remembered as tried.              *)
RollbackAndForget(c) ==
  /\ pc[c] = "rollback"
  /\ portToSession' = DeleteKey(portToSession, port[c])
  /\ tried' = [tried EXCEPT ![c] = @ \ {port[c]}]
  /\ Goto(c, "probe")
  /\ UNCHANGED <<clientToSession, sessionVars, worldVars, port, calls, obj, ret>>

(* No rollback of the sentinel when the bind fails.                        *)
NoRollback(c) ==
  /\ pc[c] = "rollback"
  /\ Goto(c, "probe")
  /\ UNCHANGED <<tableVars, sessionVars, worldVars, callVars, obj, ret>>

(* The `ok` of GetSession is not looked at.                                *)
LookupUnchecked(c) ==
  /\ pc[c] = "lookupOwn"
  /\ obj' = [obj EXCEPT ![c] = GetSession(port[c])]
  /\ Goto(c, "setDataSession")
  /\ UNCHANGED <<tableVars, sessionVars, worldVars, callVars, ret>>

(* cleanupSession runs a second time for a connection that has ended.      *)
CleanupTwice(c) ==
  /\ pc[c] \in {"serving", "done"}
  /\ GetSession(port[c]) # None
  /\ obj' = [obj EXCEPT ![c] = GetSession(port[c])]
  /\ ret' = [ret EXCEPT ![c] = "done"]
  /\ Goto(c, "deletePort")
  /\ UNCHANGED <<tableVars, sessionVars, worldVars, callVars>>

(* The dashboard closes the session and leaves it in the table.            *)
CloseOnly(d) ==
  /\ pc[d] = "idle"
  /\ \E p \in Ports :
       /\ GetSession(p) # None
       /\ obj' = [obj EXCEPT ![d] = GetSession(p)]
  /\ Goto(d, "closeCAS")
  /\ UNCHANGED <<tableVars, sessionVars, worldVars, callVars, ret>>

(* The reclaimer does the same.                                            *)
ReclaimOnly(r) ==
  /\ pc[r] = "idle"
  /\ \E p \in Ports :
       /\ portToSession[p] \in Sessions
       /\ ClientOf(portToSession[p]) \in Expirable
       /\ obj' = [obj EXCEPT ![r] = portToSession[p]]
  /\ Goto(r, "closeCAS")
  /\ UNCHANGED <<tableVars, sessionVars, worldVars, callVars, ret>>

(* Close sets Closed without looking at its old value.                     *)
CloseStore(g) ==
  /\ pc[g] = "closeCAS"
  /\ closed' = [closed EXCEPT ![obj[g]] = TRUE]
  /\ Goto(g, "closeTicker")
  /\ UNCHANGED <<tableVars, assignedPort, tickerDone, dataSession, worldVars,
                 callVars, obj, ret>>

(* Close returns early when the rate ticker was never started.             *)
CloseTickerOrReturn(g) ==
  /\ pc[g] = "closeTicker"
  /\ \/ /\ tickerDone[obj[g]] = "nil"
        /\ Return(g)
        /\ UNCHANGED tickerDone
     \/ /\ tickerDone[obj[g]] # "nil"
        /\ tickerDone' = [tickerDone EXCEPT ![obj[g]] = "closed"]
        /\ Goto(g, "closeListener")
        /\ UNCHANGED obj
  /\ UNCHANGED <<tableVars, assignedPort, closed, dataSession, worldVars,
                 callVars, ret>>

(* removeSession closes the listener itself, before Close sets Closed.     *)
ListenerBeforeClosed(g) ==
  /\ pc[g] = "deleteClient"
  /\ clientToSession' = DeleteKey(clientToSession, ClientIDOf(obj[g]))
  /\ listening' = [p \in Ports |-> IF listening[p] = obj[g] THEN None ELSE listening[p]]
  /\ Goto(g, "closeCAS")
  /\ UNCHANGED <<portToSession, sessionVars, yamuxOpen, callVars, obj, ret>>

-----------------------------------------------------------------------------
(* AllocatePort                                                            *)

AllocatePort(c) ==
  /\ pc[c] \in {"start", "serving"}
  /\ calls[c] < MaxCalls
  /\ calls' = [calls EXCEPT ![c] = @ + 1]
  /\ tried' = [tried EXCEPT ![c] = {}]
  /\ Goto(c, "load")
  /\ UNCHANGED <<tableVars, sessionVars, worldVars, port, obj, ret>>

LoadExisting(c) ==
  /\ pc[c] = "load"
  /\ \/ /\ clientToSession[c] = None
        /\ Goto(c, "probe")
        /\ UNCHANGED obj
     \/ /\ clientToSession[c] # None
        /\ obj' = [obj EXCEPT ![c] = clientToSession[c]]
        /\ Goto(c, "checkExisting")
  /\ UNCHANGED <<tableVars, sessionVars, worldVars, callVars, ret>>

(* An open session is returned as it is; a closed one is removed first.    *)
CheckExisting(c) ==
  /\ pc[c] = "checkExisting"
  /\ \/ /\ ~closed[obj[c]]
        /\ port' = [port EXCEPT ![c] = assignedPort[obj[c]]]
        /\ obj' = [obj EXCEPT ![c] = None]
        /\ Goto(c, "lookupOwn")
        /\ UNCHANGED ret
     \/ /\ closed[obj[c]]
        /\ ret' = [ret EXCEPT ![c] = "probe"]
        /\ Goto(c, "deletePort")
        /\ UNCHANGED <<port, obj>>
  /\ UNCHANGED <<tableVars, sessionVars, worldVars, tried, calls>>

(* One turn of the loop over rand.Perm: LoadOrStore of the sentinel.       *)
ReservePort(c) ==
  /\ pc[c] = "probe"
  /\ \E p \in Ports \ tried[c] :
       /\ tried' = [tried EXCEPT ![c] = @ \union {p}]
       /\ \/ /\ portToSession[p] = None
             /\ portToSession' = [portToSession EXCEPT ![p] = portTaken]
             /\ port' = [port EXCEPT ![c] = p]
             /\ Goto(c, "listen")
          \/ /\ portToSession[p] # None
             /\ UNCHANGED <<portToSession, port, pc>>
  /\ UNCHANGED <<clientToSession, sessionVars, worldVars, calls, obj, ret>>

(* Every port was tried: the error reaches the client and the caller       *)
(* closes the yamux session.                                               *)
NoAvailablePorts(c) ==
  /\ pc[c] = "probe"
  /\ tried[c] = Ports
  /\ yamuxOpen' = yamuxOpen \ {c}
  /\ Goto(c, "failed")
  /\ UNCHANGED <<tableVars, sessionVars, listening, callVars, obj, ret>>

(* net.Listen, then the new Session object around the listener.            *)
Listen(c) ==
  /\ pc[c] = "listen"
  /\ LET p == port[c]
         s == NewSession(c)
     IN \/ /\ listening[p] = None /\ p \notin ForeignPorts
           /\ listening' = [listening EXCEPT ![p] = s]
           /\ assignedPort' = [assignedPort EXCEPT ![s] = p]
           /\ Goto(c, "storePort")
        \/ /\ ~(listening[p] = None /\ p \notin ForeignPorts)
           /\ Goto(c, "rollback")
           /\ UNCHANGED <<listening, assignedPort>>
  /\ UNCHANGED <<tableVars, closed, tickerDone, dataSession, yamuxOpen,
                 callVars, obj, ret>>

RollbackPort(c) ==
  /\ pc[c] = "rollback"
  /\ portToSession' = DeleteKey(portToSession, port[c])
  /\ Goto(c, "probe")
  /\ UNCHANGED <<clientToSession, sessionVars, worldVars, callVars, obj, ret>>

StorePort(c) ==
  /\ pc[c] = "storePort"
  /\ portToSession' = [portToSession EXCEPT ![port[c]] = NewSession(c)]
  /\ Goto(c, "storeClient")
  /\ UNCHANGED <<clientToSession, sessionVars, worldVars, callVars, obj, ret>>

StoreClient(c) ==
  /\ pc[c] = "storeClient"
  /\ clientToSession' = [clientToSession EXCEPT ![c] = NewSession(c)]
  /\ Goto(c, "startTicker")
  /\ UNCHANGED <<portToSession, sessionVars, worldVars, callVars, obj, ret>>

(* StartRateTicker makes the channel; AllocatePort then returns the port.  *)
StartRateTicker(c) ==
  /\ pc[c] = "startTicker"
  /\ tickerDone' = [tickerDone EXCEPT ![NewSession(c)] = "open"]
  /\ tried' = [tried EXCEPT ![c] = {}]
  /\ Goto(c, "lookupOwn")
  /\ UNCHANGED <<tableVars, assignedPort, closed, dataSession, worldVars,
                 port, calls, obj, ret>>

-----------------------------------------------------------------------------
(* The caller of AllocatePort: HandleClientConnection and handleHeartbeat  *)

(* `if sess, ok := GetSession(port); ok` ...                               *)
LookupOwn(c) ==
  /\ pc[c] = "lookupOwn"
  /\ LET s == GetSession(port[c])
     IN \/ /\ s # None
           /\ obj' = [obj EXCEPT ![c] = s]
           /\ Goto(c, "setDataSession")
        \/ /\ s = None
           /\ Goto(c, "serving")
           /\ UNCHANGED obj
  /\ UNCHANGED <<tableVars, sessionVars, worldVars, callVars, ret>>

(* ... `{ sess.DataSession = session }`                                    *)
SetDataSession(c) ==
  /\ pc[c] = "setDataSession"
  /\ dataSession' = [dataSession EXCEPT ![obj[c]] = c]
  /\ obj' = [obj EXCEPT ![c] = None]
  /\ Goto(c, "serving")
  /\ UNCHANGED <<tableVars, assignedPort, closed, tickerDone, worldVars,
                 callVars, ret>>

(* The control stream ended, timed out or asked to close: the session is   *)
(* looked up again, by the number of its port.                             *)
CleanupSession(c) ==
  /\ pc[c] = "serving"
  /\ LET s == GetSession(port[c])
     IN \/ /\ s # None
           /\ obj' = [obj EXCEPT ![c] = s]
           /\ ret' = [ret EXCEPT ![c] = "done"]
           /\ Goto(c, "deletePort")
        \/ /\ s = None
           /\ Goto(c, "done")
           /\ UNCHANGED <<obj, ret>>
  /\ UNCHANGED <<tableVars, sessionVars, worldVars, callVars>>

-----------------------------------------------------------------------------
(* The other callers of removeSession                                      *)

HandleCloseSession(d) ==
  /\ pc[d] = "idle"
  /\ \E p \in Ports :
       /\ GetSession(p) # None
       /\ obj' = [obj EXCEPT ![d] = GetSession(p)]
  /\ Goto(d, "deletePort")
  /\ UNCHANGED <<tableVars, sessionVars, worldVars, callVars, ret>>

StaleObjects == {portTaken} \union {s \in Sessions : ClientOf(s) \in Expirable}

(* One key of the Range of ReclaimStaleSessions.  The value is not         *)
(* compared with the sentinel, whose LastHeartbeat of 0 is always stale.   *)
ReclaimStale(r) ==
  /\ pc[r] = "idle"
  /\ \E p \in Ports :
       /\ portToSession[p] \in StaleObjects
       /\ obj' = [obj EXCEPT ![r] = portToSession[p]]
  /\ Goto(r, "deletePort")
  /\ UNCHANGED <<tableVars, sessionVars, worldVars, callVars, ret>>

-----------------------------------------------------------------------------
(* removeSession(obj[g]) and Session.Close                                 *)

DeletePort(g) ==
  /\ pc[g] = "deletePort"
  /\ portToSession' = DeleteKey(portToSession, PortOf(obj[g]))
  /\ Goto(g, "deleteClient")
  /\ UNCHANGED <<clientToSession, sessionVars, worldVars, callVars, obj, ret>>

DeleteClient(g) ==
  /\ pc[g] = "deleteClient"
  /\ clientToSession' = DeleteKey(clientToSession, ClientIDOf(obj[g]))
  /\ Goto(g, "closeCAS")
  /\ UNCHANGED <<portToSession, sessionVars, worldVars, callVars, obj, ret>>

(* Closed.CompareAndSwap(false, true): only the winner runs the rest.      *)
CloseCAS(g) ==
  /\ pc[g] = "closeCAS"
  /\ \/ /\ ~closed[obj[g]]
        /\ closed' = [closed EXCEPT ![obj[g]] = TRUE]
        /\ Goto(g, "closeTicker")
        /\ UNCHANGED obj
     \/ /\ closed[obj[g]]
        /\ Return(g)
        /\ UNCHANGED closed
  /\ UNCHANGED <<tableVars, assignedPort, tickerDone, dataSession, worldVars,
                 callVars, ret>>

CloseTicker(g) ==
  /\ pc[g] = "closeTicker"
  /\ tickerDone' = [tickerDone EXCEPT ![obj[g]] = IF @ = "nil" THEN "nil" ELSE "closed"]
  /\ Goto(g, "closeListener")
  /\ UNCHANGED <<tableVars, assignedPort, closed, dataSession, worldVars,
                 callVars, obj, ret>>

(* A listener releases the port it is bound to, and no other.              *)
CloseListener(g) ==
  /\ pc[g] = "closeListener"
  /\ listening' = [p \in Ports |-> IF listening[p] = obj[g] THEN None ELSE listening[p]]
  /\ Goto(g, "closeData")
  /\ UNCHANGED <<tableVars, sessionVars, yamuxOpen, callVars, obj, ret>>

CloseData(g) ==
  /\ pc[g] = "closeData"
  /\ yamuxOpen' = yamuxOpen \ {dataSession[obj[g]]}
  /\ Return(g)
  /\ UNCHANGED <<tableVars, sessionVars, listening, callVars, ret>>

-----------------------------------------------------------------------------

Init ==
  /\ portToSession   = [p \in Ports |-> None]
  /\ clientToSession = [c \in Clients |-> None]
  /\ assignedPort    = [s \in Sessions |-> None]
  /\ closed          = [o \in Objects |-> FALSE]
  /\ tickerDone      = [o \in Objects |-> "nil"]
  /\ dataSession     = [o \in Objects |-> None]
  /\ listening       = [p \in Ports |-> None]
  /\ yamuxOpen       = Clients
  /\ pc    = [g \in Goroutines |-> IF g \in Clients THEN "start" ELSE "idle"]
  /\ obj   = [g \in Goroutines |-> None]
  /\ ret   = [g \in Goroutines |-> "idle"]
  /\ port  = [c \in Clients |-> None]
  /\ tried = [c \in Clients |-> {}]
  /\ calls = [c \in Clients |-> 0]

AllocStep(c) ==
  \/ LoadExisting(c) \/ CheckExisting(c) \/ ReservePort(c) \/ NoAvailablePorts(c)
  \/ Listen(c) \/ RollbackPort(c) \/ StorePort(c) \/ StoreClient(c)
  \/ StartRateTicker(c) \/ LookupOwn(c) \/ SetDataSession(c)

RemoveStep(g) ==
  \/ DeletePort(g) \/ DeleteClient(g) \/ CloseCAS(g)
  \/ CloseTicker(g) \/ CloseListener(g) \/ CloseData(g)

Next ==
  \/ \E c \in Clients : AllocatePort(c) \/ AllocStep(c) \/ CleanupSession(c)
  \/ \E d \in Closers : HandleCloseSession(d)
  \/ \E r \in Reclaimers : ReclaimStale(r)
  \/ \E g \in Goroutines : RemoveStep(g)

Spec == Init /\ [][Next]_vars

(* A goroutine that is inside a function runs on; whether a connection     *)
(* ends, a dashboard request comes or the ticker fires is up to the world. *)
Fairness ==
  /\ \A c \in Clients : WF_vars(AllocStep(c))
  /\ \A g \in Goroutines : WF_vars(RemoveStep(g))

FairSpec == Spec /\ Fairness

-----------------------------------------------------------------------------

TypeOK ==
  /\ portToSession   \in [Ports -> Objects \union {None}]
  /\ clientToSession \in [Clients -> Sessions \union {None}]
  /\ assignedPort    \in [Sessions -> Ports \union {None}]
  /\ closed          \in [Objects -> BOOLEAN]
  /\ tickerDone      \in [Objects -> {"nil", "open", "closed"}]
  /\ dataSession     \in [Objects -> Clients \union {None}]
  /\ listening       \in [Ports -> Sessions \union {None}]
  /\ yamuxOpen       \in SUBSET Clients
  /\ pc    \in [Goroutines -> Labels]
  /\ obj   \in [Goroutines -> Objects \union {None}]
  /\ \A g \in Goroutines :
       /\ obj[g] = portTaken => g \in Reclaimers /\ pc[g] \in RemoveLabels
       /\ pc[g] \in RemoveLabels \union {"checkExisting", "setDataSession"} => obj[g] # None
  /\ ret   \in [Goroutines -> {"probe", "done", "idle"}]
  /\ port  \in [Clients -> Ports \union {None}]
  /\ tried \in [Clients -> SUBSET Ports]
  /\ calls \in [Clients -> 0..MaxCalls]

(* What the callers of GetSession rely on: a session found in the table is *)
(* open and its listener is the one bound to that port, whatever the       *)
(* allocators and the concurrent removers are doing.                       *)
TableLive ==
  \A p \in Ports : portToSession[p] \in Sessions =>
    LET s == portToSession[p]
    IN  assignedPort[s] = p /\ ~closed[s] /\ listening[p] = s

(* The body of Session.Close runs once per session, however many           *)
(* goroutines remove it: it closes tickerDone, and closing a channel twice *)
(* would bring the server down.                                            *)
CloseOnce ==
  \A g, h \in Goroutines :
    /\ pc[g] \in CloseLabels /\ pc[h] \in CloseLabels /\ obj[g] = obj[h] => g = h
    /\ pc[g] = "closeTicker" => tickerDone[obj[g]] # "closed"

(* The sentinel registered by ReservePort keeps the port for its allocator *)
(* until the session takes its place or the bind failed.                   *)
ReservationHeld ==
  \A c \in Clients : pc[c] \in {"listen", "rollback", "storePort"} =>
    portToSession[port[c]] = portTaken

(* From the registration of its session until it cleans up, the port that  *)
(* AllocatePort gave a client maps to a session of that client.            *)
HeldPortIsOwn ==
  \A c \in Clients :
    pc[c] \in {"storeClient", "startTicker", "lookupOwn", "setDataSession", "serving"} =>
      ClientIDOf(portToSession[port[c]]) = c

(* cleanupSession removes the session of the connection that ended, never  *)
(* that of another client.                                                 *)
RemovesOwnSession ==
  \A c \in Clients : pc[c] \in RemoveLabels => ClientIDOf(obj[c]) = c

(* When no goroutine is inside a table operation, nothing is left behind:  *)
(* each bound listener is reachable through the table, the two maps hold   *)
(* the same sessions, a closed session has no running ticker, and a client *)
(* that is gone has no open yamux session.                                 *)
AtRest == \A g \in Goroutines : pc[g] \in {"start", "serving", "failed", "done", "idle"}

PortsAccounted  == \A p \in Ports : portToSession[p] = listening[p]
MapsAgree       == \A c \in Clients : clientToSession[c] # None =>
                     portToSession[assignedPort[clientToSession[c]]] = clientToSession[c]
TickersStopped  == \A s \in Sessions : closed[s] => tickerDone[s] # "open"
YamuxReleased   == \A c \in Clients : pc[c] \in {"failed", "done"} => c \notin yamuxOpen
NothingLeaks    == AtRest => PortsAccounted /\ MapsAgree /\ TickersStopped /\ YamuxReleased

(* Once every client connection is over, every external port is free       *)
(* again.                                                                  *)
PortsReclaimed ==
  AtRest /\ (\A c \in Clients : pc[c] \in {"failed", "done"}) =>
    \A p \in Ports : listening[p] = None

(* AllocatePort looks the client up first: however often it is called for  *)
(* a client, at most one port of the table leads to that client.           *)
OneEntryPerClient ==
  \A p, q \in Ports :
    /\ portToSession[p] \in Sessions /\ portToSession[q] \in Sessions
    /\ ClientOf(portToSession[p]) = ClientOf(portToSession[q])
    => p = q

(* AllocatePort returns, with a port or with an error.                     *)
AllocationReturns ==
  \A c \in Clients : pc[c] = "load" ~> pc[c] \in {"serving", "failed"}

(* A session whose Close was entered gives its port back.                  *)
ClosedFreesPort ==
  \A s \in Sessions : closed[s] ~> (\A p \in Ports : listening[p] # s)

-----------------------------------------------------------------------------
(* What the table promises to those who look up a port: see PortLease.     *)

Built(s)     == assignedPort[s] # None
Storing(s)   == pc[ClientOf(s)] = "storePort" /\ s = NewSession(ClientOf(s))
Published(s) == Built(s) /\ ~Storing(s)

Lease == INSTANCE PortLease WITH
  holder    <- listening,
  visible   <- [p \in Ports |-> GetSession(p)],
  published <- {s \in Sessions : Published(s)}

(* The table implements PortLease.                                         *)
LeaseSpec == Lease!Spec
=============================================================================
