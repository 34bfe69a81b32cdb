--------------------------- MODULE TunnelManager ----------------------------
(***************************************************************************)
(* The tunnel manager of the central server (server/tunnel_manager.go) on  *)
(* top of the port table: the control connection of a client, the          *)
(* goroutine that accepts players at the external port, and the handler of *)
(* each player up to the bridge, whose copying is in Bridge.               *)
(*                                                                         *)
(* The port is passed around as a number: HandleClientConnection, the      *)
(* acceptor and each handler look the session up in the table again.       *)
(*                                                                         *)
(* A session is removed by its own connection only: what the dashboard and *)
(* the reclaimer do to the table is in PortTable.                          *)
(***************************************************************************)
EXTENDS PortTable

CONSTANT Players  \* external connections, one each

VARIABLES
  acceptor,    \* goroutine acceptExternalConnections of a client: next step
  acceptSess,  \* its local sess
  ext,         \* player: next step of the player and of the handler
  dialled,     \* player: the session whose listener the dialled port had
  via,         \* player: the client whose acceptor took the connection
  sess         \* player: local sess of the handler

acceptVars == <<acceptor, acceptSess>>
playerVars == <<ext, dialled, via, sess>>
tunnelVars == <<acceptVars, playerVars>>
allVars    == <<vars, tunnelVars>>

-----------------------------------------------------------------------------

(* A handler without a session panics, which ends the program.             *)
Up == \A e \in Players : ext[e] # "panicked"

Bound(s) == listening[assignedPort[s]] = s

Own(c) == <<c, 1>>

PlayerGoto(e, label) == ext' = [ext EXCEPT ![e] = label] /\ UNCHANGED <<dialled, via, sess>>

(* The connection is closed and the handler's variables are gone.          *)
PlayerEnds(e) ==
  /\ ext'     = [ext EXCEPT ![e] = "ended"]
  /\ dialled' = [dialled EXCEPT ![e] = None]
  /\ via'     = [via EXCEPT ![e] = None]
  /\ sess'    = [sess EXCEPT ![e] = None]

-----------------------------------------------------------------------------
(* Wrong variants of steps, each put in the place of the step it is a      *)
(* variant of to see that the properties tell them apart.                  *)

(* The control stream is read without a deadline: only MsgClose ends it.   *)
CleanupOnRequest(c) == Up /\ c \in yamuxOpen /\ CleanupSession(c) /\ UNCHANGED tunnelVars

(* The acceptor does not loop.                                             *)
AcceptOnce(c) ==
  /\ Up
  /\ acceptor[c] = "accept"
  /\ \E e \in Players :
       /\ ext[e] = "backlog" /\ dialled[e] = acceptSess[c] /\ Bound(dialled[e])
       /\ ext' = [ext EXCEPT ![e] = "accepted"]
       /\ via' = [via EXCEPT ![e] = c]
  /\ acceptor' = [acceptor EXCEPT ![c] = "ended"]
  /\ acceptSess' = [acceptSess EXCEPT ![c] = None]
  /\ UNCHANGED <<vars, dialled, sess>>

-----------------------------------------------------------------------------
(* The control connection                                                  *)

(* From the first byte, which must be yamux's version, to a handshake that *)
(* can be read: none of it touches anything shared.  Whatever is wrong     *)
(* with it ends the connection.                                            *)
HandshakeFails(c) ==
  /\ Up
  /\ pc[c] = "start"
  /\ yamuxOpen' = yamuxOpen \ {c}
  /\ Goto(c, "failed")
  /\ UNCHANGED <<tableVars, sessionVars, listening, callVars, obj, ret, tunnelVars>>

HandshakeRead(c) == Up /\ AllocatePort(c) /\ UNCHANGED tunnelVars

(* The client goes away, or the connection breaks.  Nobody looks at the    *)
(* connection before the port is allocated, so it may as well be then.     *)
Disconnect(c) ==
  /\ Up
  /\ pc[c] \in {"serving", "done"} /\ c \in yamuxOpen
  /\ yamuxOpen' = yamuxOpen \ {c}
  /\ UNCHANGED <<tableVars, sessionVars, listening, callVars, pc, obj, ret, tunnelVars>>

Allocation(c) == Up /\ AllocStep(c) /\ UNCHANGED tunnelVars

(* handleHeartbeat, or the answer that could not be sent.                  *)
Cleanup(c) == Up /\ CleanupSession(c) /\ UNCHANGED tunnelVars

Removal(g) == Up /\ RemoveStep(g) /\ UNCHANGED tunnelVars

(* The answer is sent and handleHeartbeat and the acceptor are started.    *)
StartGoroutines(c) ==
  /\ Up
  /\ pc[c] = "serving" /\ acceptor[c] = "none" /\ c \in yamuxOpen
  /\ acceptor' = [acceptor EXCEPT ![c] = "lookup"]
  /\ UNCHANGED <<vars, acceptSess, playerVars>>

-----------------------------------------------------------------------------
(* acceptExternalConnections                                               *)

AcceptorLookup(c) ==
  /\ Up
  /\ acceptor[c] = "lookup"
  /\ LET s == GetSession(port[c])
     IN  /\ acceptSess' = [acceptSess EXCEPT ![c] = s]
         /\ acceptor' = [acceptor EXCEPT ![c] = IF s = None THEN "ended" ELSE "accept"]
  /\ UNCHANGED <<vars, playerVars>>

AcceptPlayer(c) ==
  /\ Up
  /\ acceptor[c] = "accept"
  /\ \E e \in Players :
       /\ ext[e] = "backlog" /\ dialled[e] = acceptSess[c] /\ Bound(dialled[e])
       /\ ext' = [ext EXCEPT ![e] = "accepted"]
       /\ via' = [via EXCEPT ![e] = c]
  /\ UNCHANGED <<vars, acceptVars, dialled, sess>>

(* Accept fails on a closed listener.  As long as Closed is not set the    *)
(* loop tries again, which changes nothing.                                *)
AcceptorReturn(c) ==
  /\ Up
  /\ acceptor[c] = "accept"
  /\ ~Bound(acceptSess[c]) /\ closed[acceptSess[c]]
  /\ acceptor' = [acceptor EXCEPT ![c] = "ended"]
  /\ acceptSess' = [acceptSess EXCEPT ![c] = None]
  /\ UNCHANGED <<vars, playerVars>>

-----------------------------------------------------------------------------
(* A player                                                                *)

(* The operating system completes the connection as soon as the port is    *)
(* bound, and resets it if the listener closes before it was accepted.     *)
Dial(e) ==
  /\ Up
  /\ ext[e] = "away"
  /\ \E p \in Ports :
       /\ listening[p] # None
       /\ dialled' = [dialled EXCEPT ![e] = listening[p]]
  /\ ext' = [ext EXCEPT ![e] = "backlog"]
  /\ UNCHANGED <<vars, acceptVars, via, sess>>

DialReset(e) ==
  /\ Up
  /\ ext[e] = "backlog" /\ ~Bound(dialled[e])
  /\ PlayerEnds(e)
  /\ UNCHANGED <<vars, acceptVars>>

(* handleExternalConnection: ReadInitialPackets, which may fail, then      *)
(* GetSession, and for a login to a session that was found the admission   *)
(* (PlayerSlots), which may refuse.                                        *)
LookupAndAdmit(e) ==
  /\ Up
  /\ ext[e] = "accepted"
  /\ \/ /\ sess' = [sess EXCEPT ![e] = GetSession(port[via[e]])]
        /\ ext' = [ext EXCEPT ![e] = "open"]
        /\ UNCHANGED <<dialled, via>>
     \/ PlayerEnds(e)
  /\ UNCHANGED <<vars, acceptVars>>

(* OpenStream, the initial data, and the copiers, which take the address   *)
(* of a counter of sess.                                                   *)
OpenBridge(e) ==
  /\ Up
  /\ ext[e] = "open"
  /\ \/ via[e] \in yamuxOpen /\ sess[e] # None /\ PlayerGoto(e, "bridged")
     \/ via[e] \in yamuxOpen /\ sess[e] = None /\ PlayerGoto(e, "panicked")
     \/ via[e] \notin yamuxOpen /\ PlayerEnds(e)
  /\ UNCHANGED <<vars, acceptVars>>

(* The player or the game hangs up.                                        *)
HangUp(e) ==
  /\ Up
  /\ ext[e] = "bridged"
  /\ PlayerEnds(e)
  /\ UNCHANGED <<vars, acceptVars>>

(* The yamux session is closed and takes the stream with it.               *)
BridgeCut(e) == via[e] \notin yamuxOpen /\ HangUp(e)

-----------------------------------------------------------------------------

TunnelInit ==
  /\ Init
  /\ acceptor   = [c \in Clients |-> "none"]
  /\ acceptSess = [c \in Clients |-> None]
  /\ ext        = [e \in Players |-> "away"]
  /\ dialled    = [e \in Players |-> None]
  /\ via        = [e \in Players |-> None]
  /\ sess       = [e \in Players |-> None]

AcceptorStep(c) == AcceptorLookup(c) \/ AcceptPlayer(c) \/ AcceptorReturn(c)

HandlerStep(e) == LookupAndAdmit(e) \/ OpenBridge(e)

TunnelNext ==
  \/ \E c \in Clients :
       \/ HandshakeFails(c) \/ HandshakeRead(c) \/ Disconnect(c) \/ Allocation(c)
       \/ Cleanup(c) \/ StartGoroutines(c) \/ AcceptorStep(c)
  \/ \E g \in Goroutines : Removal(g)
  \/ \E e \in Players : Dial(e) \/ DialReset(e) \/ HandlerStep(e) \/ HangUp(e)

TunnelSpec == TunnelInit /\ [][TunnelNext]_allVars

(* Goroutines run on.  A control connection that is gone is noticed, at    *)
(* the latest by the read timeout.  That somebody dials, disconnects,      *)
(* or hangs up is up to them.                                              *)
TunnelFairness ==
  /\ \A c \in Clients :
       /\ WF_allVars(Allocation(c))
       /\ WF_allVars(StartGoroutines(c))
       /\ WF_allVars(AcceptorStep(c))
       /\ WF_allVars(c \notin yamuxOpen /\ Cleanup(c))
  /\ \A g \in Goroutines : WF_allVars(Removal(g))
  /\ \A e \in Players :
       WF_allVars(HandlerStep(e)) /\ WF_allVars(DialReset(e)) /\ WF_allVars(BridgeCut(e))

TunnelFairSpec == TunnelSpec /\ TunnelFairness

-----------------------------------------------------------------------------

(* As long as the session of a client is not closed, whoever its acceptor  *)
(* took dialled the port of that session, and takes a slot and counts      *)
(* traffic there: the lookups by port number by acceptor and handler lead  *)
(* nowhere else.                                                           *)
RoutedWhileOpen ==
  \A e \in Players : via[e] # None /\ ~closed[Own(via[e])] =>
    dialled[e] = Own(via[e]) /\ sess[e] \in {Own(via[e]), None}

(* A player whose connection the operating system completed is accepted or *)
(* reset; no bound port is left without an acceptor.                       *)
DialAnswered ==
  \A e \in Players : ext[e] = "backlog" ~> ext[e] # "backlog" \/ ~Up

(* When a client is gone, its port is free again, and its acceptor and the *)
(* players on that port are gone with it, those not yet accepted included. *)
GoneClientForgotten ==
  \A c \in Clients :
    pc[c] = "serving" /\ c \notin yamuxOpen ~>
      \/ /\ \A p \in Ports : listening[p] # Own(c)
         /\ \A d \in Clients : acceptSess[d] # Own(c)
         /\ \A e \in Players : dialled[e] # Own(c)
      \/ ~Up

(* "Session lookup (shared by player tracking and traffic counters)": the  *)
(* handler has a session when its copiers count on it.                     *)
SessionKnown ==
  \A e \in Players : ext[e] \in {"bridged", "panicked"} => sess[e] # None
=============================================================================
