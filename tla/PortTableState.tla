-------------------------- MODULE PortTableState ---------------------------
(***************************************************************************)
(* The state of the concurrent port table of the central server            *)
(* (server/port_table.go) and of the goroutines that use it.               *)
(*                                                                         *)
(* Every operation on a sync.Map, an atomic field, a plain field shared    *)
(* between goroutines, or a socket is one step; goroutines interleave      *)
(* between any two of them.  The goroutines are                            *)
(*   - one per client connection: AllocatePort, the recording of its       *)
(*     yamux session, and at the end cleanupSession, which it calls with   *)
(*     a port NUMBER;                                                      *)
(*   - Closers: dashboard handlers, handleCloseSession;                    *)
(*   - Reclaimers: the 30 s ticker, ReclaimStaleSessions.                  *)
(* All of them end up in removeSession, possibly for the same session.     *)
(*                                                                         *)
(* A Session object is named after the AllocatePort call that builds it:   *)
(* <<client, number of the call>>.  portTaken is the sentinel Session, a   *)
(* zero value: no port, no client, a heartbeat of time zero.               *)
(***************************************************************************)
EXTENDS Naturals, FiniteSets

CONSTANTS
  Clients,       \* client connections; a ClientID is unique to a connection
  Closers,       \* dashboard request handlers
  Reclaimers,    \* the heartbeat reclaim goroutine (one, or none)
  Ports,         \* the external port range
  ForeignPorts,  \* ports of the range that another program listens on
  Expirable,     \* clients whose heartbeats may stop for HeartbeatTimeout
  MaxCalls,      \* bound: AllocatePort calls per ClientID
  portTaken,     \* the sentinel Session
  None           \* nil, and an absent map entry

Goroutines == Clients \union Closers \union Reclaimers
Sessions   == Clients \X (1..MaxCalls)
Objects    == Sessions \union {portTaken}

ASSUME DistinctNames ==
  /\ None \notin Goroutines \union Ports \union Objects
  /\ portTaken \notin Sessions
  /\ Clients \intersect Closers = {}
  /\ Clients \intersect Reclaimers = {}
  /\ Closers \intersect Reclaimers = {}
ASSUME CallBound == MaxCalls \in Nat \ {0}

VARIABLES
  portToSession,    \* sync.Map: port -> Session or portTaken
  clientToSession,  \* sync.Map: ClientID -> Session
  assignedPort,     \* Session.AssignedPort; None until the object is built
  closed,           \* Session.Closed
  tickerDone,       \* Session.tickerDone: "nil", "open" or "closed"
  dataSession,      \* Session.DataSession: the client whose yamux it is
  listening,        \* operating system: the listener bound to each port
  yamuxOpen,        \* clients whose yamux session is open on the server
  pc, obj, ret,     \* per goroutine: next step, Session in hand, return label
  port, tried,      \* per client: port in hand, ports tried by this call
  calls             \* per client: AllocatePort calls made so far

tableVars   == <<portToSession, clientToSession>>
sessionVars == <<assignedPort, closed, tickerDone, dataSession>>
worldVars   == <<listening, yamuxOpen>>
callVars    == <<port, tried, calls>>
vars == <<tableVars, sessionVars, worldVars, callVars, pc, obj, ret>>

AllocLabels  == {"load", "checkExisting", "probe", "listen", "rollback",
                 "storePort", "storeClient", "startTicker"}
CloseLabels  == {"closeTicker", "closeListener", "closeData"}
RemoveLabels == {"deletePort", "deleteClient", "closeCAS"} \union CloseLabels
Labels == AllocLabels \union RemoveLabels \union
          {"start", "lookupOwn", "setDataSession", "serving", "failed", "done", "idle"}

ClientOf(s) == s[1]
NewSession(c) == <<c, calls[c]>>

(* removeSession reads AssignedPort and ClientID of whatever object it is  *)
(* given; of the sentinel both are zero values, keys no map holds.         *)
PortOf(o)     == IF o = portTaken THEN None ELSE assignedPort[o]
ClientIDOf(o) == IF o = portTaken THEN None ELSE ClientOf(o)

(* sync.Map.Delete: a key that is absent is left absent.                   *)
DeleteKey(m, k) == [x \in DOMAIN m |-> IF x = k THEN None ELSE m[x]]

(* GetSession hides the sentinel.                                          *)
GetSession(p) == IF portToSession[p] \in Sessions THEN portToSession[p] ELSE None

Goto(g, label) == pc' = [pc EXCEPT ![g] = label]

(* removeSession returns: its local variable goes out of scope.            *)
Return(g) == Goto(g, ret[g]) /\ obj' = [obj EXCEPT ![g] = None]
=============================================================================
