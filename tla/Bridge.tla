------------------------------- MODULE Bridge -------------------------------
(***************************************************************************)
(* The path of one external connection: the player, the server's           *)
(* handleExternalConnection, a yamux stream, the client's                  *)
(* handleDataStream, and the game server at the host                       *)
(* (server/tunnel_manager.go, client/client.go, client/dashboard.go).      *)
(*                                                                         *)
(*   player -- serverConn ~~ serverStream -- clientStream ~~ clientConn -- game *)
(*                                                                         *)
(* Data goes in pieces; the n-th piece of a direction is n, and the first  *)
(* piece from the player is the initial data, the two packets that         *)
(* ReadInitialPackets reads.  inbox[e] is on its way to end e.  The        *)
(* session is found in the port table at the lookup.                       *)
(***************************************************************************)
EXTENDS Naturals, Sequences

CONSTANTS
  MaxUp,    \* bound: pieces the player writes
  MaxDown,  \* bound: pieces the game writes
  Window    \* pieces that fit between two ends

ASSUME BoundsAreNat == MaxUp \in Nat /\ MaxDown \in Nat /\ Window \in Nat \ {0}

Ends    == {"player", "serverConn", "serverStream", "clientStream", "clientConn", "game"}
Streams == {"serverStream", "clientStream"}
Peer == [player |-> "serverConn", serverConn |-> "player",
         serverStream |-> "clientStream", clientStream |-> "serverStream",
         clientConn |-> "game", game |-> "clientConn"]

(* The io.Copy goroutines, with the ends they read from and write to.      *)
Copiers == {"serverUp", "serverDown", "clientUp", "clientDown"}
From == [serverUp |-> "serverConn", serverDown |-> "serverStream",
         clientUp |-> "clientStream", clientDown |-> "clientConn"]
To   == [serverUp |-> "serverStream", serverDown |-> "serverConn",
         clientUp |-> "clientConn", clientDown |-> "clientStream"]

VARIABLES
  login,     \* whether the player logs in (else asks for the status)
  inbox,     \* per end: pieces on their way to it
  shut,      \* ends that are closed
  linkUp,    \* whether the yamux session is up
  server, client,        \* next step of the two handlers
  copier,    \* per copier: next step
  buffer,    \* per copier: what its bufio.Reader holds
  hand,      \* per copier: the piece read and not yet written; 0 for none
  count,     \* per copier: pieces its handler has added to the byte counter
  held,      \* whether the server holds a player slot and a roster entry
  listed,    \* whether the client's dashboard lists the player
  sentUp, gotUp, sentDown, gotDown

handlerVars == <<server, client, held, listed>>
copyVars    == <<copier, buffer, hand, count>>
userVars    == <<sentUp, gotUp, sentDown, gotDown>>
vars == <<login, inbox, shut, linkUp, handlerVars, copyVars, userVars>>

-----------------------------------------------------------------------------
(* Connections.  A TCP connection that is closed with unread data resets   *)
(* its peer, which may then lose what it has not read yet.  A yamux stream *)
(* is closed in one direction.                                             *)

StreamDown(e) == e \in Streams /\ ~linkUp

CanRead(e) == e \notin shut /\ inbox[e] # <<>>

ReadFails(e) ==
  \/ e \in shut \/ StreamDown(e)
  \/ /\ Peer[e] \in shut
     /\ inbox[e] = <<>> \/ (e \notin Streams /\ inbox[Peer[e]] # <<>>)

CanWrite(e) == e \notin shut /\ ~StreamDown(e) /\ Len(inbox[Peer[e]]) < Window

WriteFails(e) == e \in shut \/ StreamDown(e) \/ (e \notin Streams /\ Peer[e] \in shut)

Read(e)     == inbox' = [inbox EXCEPT ![e] = Tail(@)]
Write(e, d) == inbox' = [inbox EXCEPT ![Peer[e]] = Append(@, d)]
Close(e)    == shut' = shut \union {e}

Counted(k) == count' = [count EXCEPT ![k] = @ + 1]

(* ReadInitialPackets on a bufio.Reader: the first piece, and as much as   *)
(* has arrived goes into the reader's buffer.                              *)
Peek(e, k) ==
  \E n \in 1..Len(inbox[e]) :
    /\ CanRead(e)
    /\ hand' = [hand EXCEPT ![k] = Head(inbox[e])]
    /\ buffer' = [buffer EXCEPT ![k] = SubSeq(inbox[e], 2, n)]
    /\ inbox' = [inbox EXCEPT ![e] = SubSeq(@, n + 1, Len(@))]

(* Wrong variant: only what the copiers write is counted.                  *)
WriteInitialUncounted(k) ==
  /\ CanWrite(To[k])
  /\ Write(To[k], hand[k])
  /\ hand' = [hand EXCEPT ![k] = 0]
  /\ UNCHANGED count

(* The handler writes the initial data before its copiers start.           *)
WriteInitial(k) ==
  /\ CanWrite(To[k])
  /\ Write(To[k], hand[k])
  /\ hand' = [hand EXCEPT ![k] = 0]
  /\ Counted(k)

Start(ks) == copier' = [k \in Copiers |-> IF k \in ks THEN "read" ELSE copier[k]]
Ended(ks) == \E k \in ks : copier[k] = "ended"

ServerCopiers == {"serverUp", "serverDown"}
ClientCopiers == {"clientUp", "clientDown"}

-----------------------------------------------------------------------------
(* Wrong variants of steps, each put in the place of the step it is a      *)
(* variant of to see that the properties tell them apart.                  *)

(* The copier reads the connection and not the bufio.Reader around it.     *)
CopyReadUnbuffered(k) ==
  /\ copier[k] = "read"
  /\ CanRead(From[k])
  /\ Read(From[k])
  /\ hand' = [hand EXCEPT ![k] = Head(inbox[From[k]])]
  /\ copier' = [copier EXCEPT ![k] = "write"]
  /\ UNCHANGED <<login, shut, linkUp, handlerVars, buffer, count, userVars>>

(* The server only inspects the initial data.                              *)
ServerKeepInitial ==
  /\ server = "writeInitial"
  /\ server' = "bridge"
  /\ hand' = [hand EXCEPT !["serverUp"] = 0]
  /\ Start(ServerCopiers)
  /\ UNCHANGED <<login, inbox, shut, linkUp, client, held, listed, buffer, count, userVars>>

(* The handler waits for both of its copiers.                              *)
ClientDoneBoth ==
  /\ client = "bridge"
  /\ \A k \in ClientCopiers : copier[k] = "ended"
  /\ client' = "closeStream"
  /\ UNCHANGED <<login, inbox, shut, linkUp, server, held, listed, copyVars, userVars>>

(* The handler ends when the game closes, whatever is still to be copied.  *)
ClientDoneEarly ==
  /\ client = "bridge"
  /\ Ended(ClientCopiers) \/ "game" \in shut
  /\ client' = "closeStream"
  /\ UNCHANGED <<login, inbox, shut, linkUp, server, held, listed, copyVars, userVars>>

-----------------------------------------------------------------------------
(* handleExternalConnection                                                *)

ServerPeek ==
  /\ server = "peek"
  /\ \/ /\ Peek("serverConn", "serverUp")
        /\ server' = "admit"
     \/ /\ server' = "closeConn"          \* not Minecraft, closed, or too slow
        /\ UNCHANGED <<inbox, buffer, hand>>
  /\ UNCHANGED <<login, shut, linkUp, client, held, listed, copier, count, userVars>>

(* A login takes a slot or is refused.                                     *)
ServerAdmit ==
  /\ server = "admit"
  /\ \/ server' = "openStream" /\ held' = login
     \/ login /\ server' = "closeConn" /\ UNCHANGED held
  /\ UNCHANGED <<login, inbox, shut, linkUp, client, listed, copyVars, userVars>>

ServerOpenStream ==
  /\ server = "openStream"
  /\ \/ linkUp /\ server' = "writeInitial" /\ client' = "accept"
     \/ ~linkUp /\ server' = "release" /\ UNCHANGED client
  /\ UNCHANGED <<login, inbox, shut, linkUp, held, listed, copyVars, userVars>>

ServerWriteInitial ==
  /\ server = "writeInitial"
  /\ \/ WriteInitial("serverUp") /\ server' = "bridge" /\ Start(ServerCopiers)
     \/ /\ WriteFails("serverStream")
        /\ server' = "closeStream"
        /\ UNCHANGED <<inbox, hand, count, copier>>
  /\ UNCHANGED <<login, shut, linkUp, client, held, listed, buffer, userVars>>

(* <-done, then the deferred calls, last one first.                        *)
ServerDone ==
  /\ server = "bridge"
  /\ Ended(ServerCopiers)
  /\ server' = "closeStream"
  /\ UNCHANGED <<login, inbox, shut, linkUp, client, held, listed, copyVars, userVars>>

ServerCloseStream ==
  /\ server = "closeStream"
  /\ Close("serverStream")
  /\ server' = "release"
  /\ UNCHANGED <<login, inbox, linkUp, client, held, listed, copyVars, userVars>>

(* RemovePlayer and DecrementPlayer                                        *)
ServerRelease ==
  /\ server = "release"
  /\ held' = FALSE
  /\ server' = "closeConn"
  /\ UNCHANGED <<login, inbox, shut, linkUp, client, listed, copyVars, userVars>>

ServerCloseConn ==
  /\ server = "closeConn"
  /\ Close("serverConn")
  /\ server' = "ended"
  /\ UNCHANGED <<login, inbox, linkUp, client, held, listed, copyVars, userVars>>

-----------------------------------------------------------------------------
(* acceptDataStreams and handleDataStream                                  *)

ClientAccept ==
  /\ client = "accept"
  /\ linkUp
  /\ client' = "dial"
  /\ UNCHANGED <<login, inbox, shut, linkUp, server, held, listed, copyVars, userVars>>

ClientDial ==
  /\ client = "dial"
  /\ \/ client' = "peek" /\ UNCHANGED shut
     \/ client' = "ended" /\ Close("clientStream")
  /\ UNCHANGED <<login, inbox, linkUp, server, held, listed, copyVars, userVars>>

ClientPeek ==
  /\ client = "peek"
  /\ \/ /\ Peek("clientStream", "clientUp")
        /\ client' = "addPlayer"
     \/ /\ client' = "closeStream"        \* closed, or too slow
        /\ UNCHANGED <<inbox, buffer, hand>>
  /\ UNCHANGED <<login, shut, linkUp, server, held, listed, copier, count, userVars>>

(* Also a status request is listed, as "unknown".                          *)
ClientAddPlayer ==
  /\ client = "addPlayer"
  /\ listed' = TRUE
  /\ client' = "writeInitial"
  /\ UNCHANGED <<login, inbox, shut, linkUp, server, held, copyVars, userVars>>

ClientWriteInitial ==
  /\ client = "writeInitial"
  /\ \/ WriteInitial("clientUp") /\ client' = "bridge" /\ Start(ClientCopiers)
     \/ /\ WriteFails("clientConn")
        /\ client' = "closeStream"
        /\ UNCHANGED <<inbox, hand, count, copier>>
  /\ UNCHANGED <<login, shut, linkUp, server, held, listed, buffer, userVars>>

ClientDone ==
  /\ client = "bridge"
  /\ Ended(ClientCopiers)
  /\ client' = "closeStream"
  /\ UNCHANGED <<login, inbox, shut, linkUp, server, held, listed, copyVars, userVars>>

ClientCloseStream ==
  /\ client = "closeStream"
  /\ Close("clientStream")
  /\ client' = "closeConn"
  /\ UNCHANGED <<login, inbox, linkUp, server, held, listed, copyVars, userVars>>

ClientCloseConn ==
  /\ client = "closeConn"
  /\ Close("clientConn")
  /\ client' = "removePlayer"
  /\ UNCHANGED <<login, inbox, linkUp, server, held, listed, copyVars, userVars>>

(* Deferred once AddPlayer was called.                                     *)
ClientRemovePlayer ==
  /\ client = "removePlayer"
  /\ listed' = FALSE
  /\ client' = "ended"
  /\ UNCHANGED <<login, inbox, shut, linkUp, server, held, copyVars, userVars>>

-----------------------------------------------------------------------------
(* io.Copy into a countWriter or a countingWriter                          *)

CopyRead(k) ==
  /\ copier[k] = "read"
  /\ \/ /\ buffer[k] # <<>>
        /\ hand' = [hand EXCEPT ![k] = Head(buffer[k])]
        /\ buffer' = [buffer EXCEPT ![k] = Tail(@)]
        /\ UNCHANGED inbox
     \/ /\ buffer[k] = <<>> /\ CanRead(From[k])
        /\ hand' = [hand EXCEPT ![k] = Head(inbox[From[k]])]
        /\ Read(From[k])
        /\ UNCHANGED buffer
  /\ copier' = [copier EXCEPT ![k] = "write"]
  /\ UNCHANGED <<login, shut, linkUp, handlerVars, count, userVars>>

CopyWrite(k) ==
  /\ copier[k] = "write"
  /\ CanWrite(To[k])
  /\ Write(To[k], hand[k])
  /\ hand' = [hand EXCEPT ![k] = 0]
  /\ Counted(k)
  /\ copier' = [copier EXCEPT ![k] = "read"]
  /\ UNCHANGED <<login, shut, linkUp, handlerVars, buffer, userVars>>

CopyEnd(k) ==
  /\ \/ copier[k] = "read" /\ buffer[k] = <<>> /\ ReadFails(From[k])
     \/ copier[k] = "write" /\ WriteFails(To[k])
  /\ copier' = [copier EXCEPT ![k] = "ended"]
  /\ UNCHANGED <<login, inbox, shut, linkUp, handlerVars, buffer, hand, count, userVars>>

-----------------------------------------------------------------------------
(* The player, the game server and the network                             *)

PlayerWrite ==
  /\ sentUp < MaxUp /\ CanWrite("player")
  /\ Write("player", sentUp + 1)
  /\ sentUp' = sentUp + 1
  /\ UNCHANGED <<login, shut, linkUp, handlerVars, copyVars, gotUp, sentDown, gotDown>>

PlayerRead ==
  /\ CanRead("player")
  /\ Read("player")
  /\ gotDown' = Append(gotDown, Head(inbox["player"]))
  /\ UNCHANGED <<login, shut, linkUp, handlerVars, copyVars, sentUp, gotUp, sentDown>>

PlayerLeave ==
  /\ "player" \notin shut /\ Close("player")
  /\ UNCHANGED <<login, inbox, linkUp, handlerVars, copyVars, userVars>>

Dialled == client \notin {"none", "accept", "dial"}

GameWrite ==
  /\ Dialled /\ sentDown < MaxDown /\ CanWrite("game")
  /\ Write("game", sentDown + 1)
  /\ sentDown' = sentDown + 1
  /\ UNCHANGED <<login, shut, linkUp, handlerVars, copyVars, sentUp, gotUp, gotDown>>

GameRead ==
  /\ CanRead("game")
  /\ Read("game")
  /\ gotUp' = Append(gotUp, Head(inbox["game"]))
  /\ UNCHANGED <<login, shut, linkUp, handlerVars, copyVars, sentUp, sentDown, gotDown>>

GameClose ==
  /\ Dialled /\ "game" \notin shut /\ Close("game")
  /\ UNCHANGED <<login, inbox, linkUp, handlerVars, copyVars, userVars>>

LoseLink ==
  /\ linkUp /\ linkUp' = FALSE
  /\ UNCHANGED <<login, inbox, shut, handlerVars, copyVars, userVars>>

-----------------------------------------------------------------------------

Init ==
  /\ login \in BOOLEAN
  /\ inbox = [e \in Ends |-> <<>>]
  /\ shut = {} /\ linkUp = TRUE
  /\ server = "peek" /\ client = "none"
  /\ copier = [k \in Copiers |-> "none"]
  /\ buffer = [k \in Copiers |-> <<>>]
  /\ hand = [k \in Copiers |-> 0]
  /\ count = [k \in Copiers |-> 0]
  /\ held = FALSE /\ listed = FALSE
  /\ sentUp = 0 /\ gotUp = <<>> /\ sentDown = 0 /\ gotDown = <<>>

ServerStep ==
  \/ ServerPeek \/ ServerAdmit \/ ServerOpenStream \/ ServerWriteInitial
  \/ ServerDone \/ ServerCloseStream \/ ServerRelease \/ ServerCloseConn

ClientStep ==
  \/ ClientAccept \/ ClientDial \/ ClientPeek \/ ClientAddPlayer \/ ClientWriteInitial
  \/ ClientDone \/ ClientCloseStream \/ ClientCloseConn \/ ClientRemovePlayer

CopyStep(k) == CopyRead(k) \/ CopyWrite(k) \/ CopyEnd(k)

Next ==
  \/ ServerStep \/ ClientStep
  \/ \E k \in Copiers : CopyStep(k)
  \/ PlayerWrite \/ PlayerRead \/ PlayerLeave
  \/ GameWrite \/ GameRead \/ GameClose
  \/ LoseLink

Spec == Init /\ [][Next]_vars

(* Goroutines run on, and the player and the game read what has arrived as *)
(* long as they are there.  What they write, that they leave, and that the *)
(* link is lost is up to them.                                             *)
Fairness ==
  /\ WF_vars(ServerStep) /\ WF_vars(ClientStep)
  /\ \A k \in Copiers : WF_vars(CopyStep(k))
  /\ WF_vars(PlayerRead) /\ WF_vars(GameRead)

FairSpec == Spec /\ Fairness

-----------------------------------------------------------------------------

(* Through both handlers, two buffered readers, four copiers and any       *)
(* number of closings, each side receives a prefix of what the other one   *)
(* wrote, the initial packets first.                                       *)
Up   == INSTANCE Pipe WITH written <- sentUp, got <- gotUp
Down == INSTANCE Pipe WITH written <- sentDown, got <- gotDown

BytesInOrder == Up!Spec /\ Down!Spec

(* When nothing is on its way, server and client have counted the same     *)
(* traffic, and it is what the players and the game exchanged.             *)
Idle ==
  /\ shut = {} /\ linkUp
  /\ \A e \in Ends : inbox[e] = <<>>
  /\ \A k \in Copiers : buffer[k] = <<>> /\ hand[k] = 0

TrafficAgrees ==
  Idle => /\ {count["serverUp"], count["clientUp"], Len(gotUp)} = {sentUp}
          /\ {count["serverDown"], count["clientDown"], Len(gotDown)} = {sentDown}

(* As long as nobody closes, whatever the player writes reaches the game,  *)
(* also what its bufio.Reader had read beyond the initial packets.         *)
Open == shut = {} /\ linkUp

UpArrives == \A n \in 1..MaxUp : sentUp = n ~> Len(gotUp) >= n \/ ~Open

(* Whoever closes first, player, game, link or one of the handlers: both   *)
(* handlers and their copiers end, the slot is free and the player is off  *)
(* the dashboards.                                                         *)
TornDown ==
  ~Open ~> /\ server = "ended" /\ client \in {"none", "accept", "ended"}
           /\ \A k \in Copiers : copier[k] \in {"none", "ended"}
           /\ ~held /\ ~listed

(* When the game closes a connection on which the player is silent, the    *)
(* player still gets all the game wrote, the reason for the kick included. *)
FarewellArrives ==
  "game" \in shut /\ Len(gotUp) = sentUp ~>
    Len(gotDown) = sentDown \/ Len(gotUp) # sentUp \/ "player" \in shut \/ ~linkUp
=============================================================================
