-------------------------------- MODULE Wire --------------------------------
(***************************************************************************)
(* The bytes of one connection as they reach its reader, for each kind of  *)
(* connection on which the program parses what it reads:                   *)
(*   "toServer", "toClient"  the two directions of a control stream;       *)
(*   "player"   a player and later the data stream to the client, with     *)
(*              packets of the game;                                       *)
(*   "raw"      an external connection that sends any bytes;               *)
(*   "refusal"  the answer to a player whose server is full.               *)
(* A reader is a function of the bytes that have arrived: TCP and yamux    *)
(* may cut them anywhere, and io.ReadFull and bufio wait for the rest.     *)
(***************************************************************************)
EXTENDS Protocol, MCPacket

CONSTANTS
  Tokens, IPs, Messages,         \* contents of control messages
  Addrs, Names, UUIDs, Reasons,  \* contents of packets
  Numbers,                       \* 16-bit values
  Versions,                      \* protocol versions
  RawBytes,                      \* bytes that arrive one by one
  MaxFrames, MaxRaw, MaxMore     \* bounds: frames, raw bytes, bytes after two packets

ASSUME SameByte == Base = 2 * Group

(* The contents of control messages are bytes and 16-bit numbers, and the  *)
(* token, the address and the message are short enough for a frame, whose  *)
(* length has 32 bits.                                                     *)
ASSUME ContentsAreBytes ==
  /\ MsgClose \in Byte
  /\ Tokens \union IPs \union Messages \subseteq Seq(Byte)
  /\ Numbers \subseteq 0..(Word - 1)
ASSUME MessagesFitFrames ==
  /\ MaxFrame < Word * Word
  /\ \A t \in Tokens : Len(t) + 4 <= MaxFrame
  /\ \A ip \in IPs, m \in Messages : Len(ip) + Len(m) + 7 <= MaxFrame

VARIABLES kind, sent, wire

vars == <<kind, sent, wire>>

(* The packets a player's game sends.                                      *)
HandshakePacket(h) ==
  MarshalPacket(0, WriteVarInt(h.version) \o WriteString(h.addr) \o PutUint16(h.port)
                     \o WriteVarInt(h.nextState))
SecondPacket(m) ==
  MarshalPacket(m.id, IF m.status THEN <<>> ELSE WriteString(m.name) \o m.uuid)

Handshakes ==
  [version : Versions, addr : Addrs, port : Numbers, nextState : {1, 2, 3}]
Seconds ==
  [id : {0, 1}, status : {FALSE}, name : Names, uuid : UUIDs]
    \union {[id |-> 0, status |-> TRUE]}

(* The contents of packets are bytes; a VarInt has room for any version    *)
(* and for the length of any packet, every packet that is sent is short    *)
(* enough to be read, and that of a login to be peeked at.                 *)
ASSUME PacketsAreBytes ==
  /\ RawBytes \subseteq Byte
  /\ Addrs \union Names \union UUIDs \union Reasons \subseteq Seq(Byte)
  /\ Versions \subseteq Nat
  /\ \A u \in UUIDs : Len(u) <= UUIDLen
ASSUME VarIntsFit ==
  \A v \in Versions \union 0..MaxPacket \union {1, 2, 3} : Len(WriteVarInt(v)) <= MaxGroups
ASSUME PacketsFit ==
  /\ \A h \in Handshakes : Len(HandshakePacket(h)) <= MaxPacket
  /\ \A m \in Seconds : /\ Len(SecondPacket(m)) <= MaxPacket
                        /\ m.id = 0 /\ ~m.status /\ Len(m.name) <= MaxName =>
                             Len(SecondPacket(m)) <= MaxPeek
  /\ \A r \in Reasons : Len(BuildDisconnectLoginPacket(r)) <= MaxPacket

Payload(m) ==
  CASE m.type = MsgHandshake  -> MarshalHandshake(m.body)
    [] m.type = MsgPortAssign -> MarshalAssignment(m.body)
    [] OTHER -> <<>>

Bare(type) == [type |-> type, body |-> <<>>]

-----------------------------------------------------------------------------

Init ==
  /\ kind \in {"toServer", "toClient", "player", "raw", "refusal"}
  /\ sent = <<>>
  /\ wire = <<>>

Send(m, bytes) ==
  /\ sent' = Append(sent, m)
  /\ wire' = wire \o bytes
  /\ UNCHANGED kind

SendFrame(m) == Send(m, WriteFrame(m.type, Payload(m)))

(* connectAndServe sends the handshake, runHeartbeat the rest.             *)
ClientFrame ==
  /\ kind = "toServer" /\ Len(sent) < MaxFrames
  /\ \/ /\ sent = <<>>
        /\ \E h \in [token : Tokens, port : Numbers] :
             SendFrame([type |-> MsgHandshake, body |-> h])
     \/ /\ sent # <<>> /\ sent[Len(sent)].type # MsgClose
        /\ \E t \in {MsgHeartbeat, MsgClose} : SendFrame(Bare(t))

(* HandleClientConnection answers with the port or an error, and           *)
(* handleHeartbeat with pongs.                                             *)
ServerFrame ==
  /\ kind = "toClient" /\ Len(sent) < MaxFrames
  /\ \/ /\ sent = <<>>
        /\ \E a \in [port : Numbers, success : BOOLEAN, ip : IPs, message : Messages] :
             SendFrame([type |-> MsgPortAssign, body |-> a])
     \/ /\ sent # <<>> /\ sent[1].body.success
        /\ SendFrame(Bare(MsgHeartbeatACK))

PlayerPacket ==
  /\ kind = "player"
  /\ \/ /\ sent = <<>>
        /\ \E h \in Handshakes : Send(h, HandshakePacket(h))
     \/ /\ Len(sent) = 1
        /\ \E m \in Seconds : Send(m, SecondPacket(m))

(* More bytes of the game, of which the readers here know nothing.         *)
MoreBytes ==
  /\ \/ kind = "raw" /\ Len(wire) < MaxRaw
     \/ /\ kind = "player" /\ Len(sent) = 2
        /\ Len(wire) < Len(HandshakePacket(sent[1]) \o SecondPacket(sent[2])) + MaxMore
  /\ \E b \in RawBytes : wire' = Append(wire, b)
  /\ UNCHANGED <<kind, sent>>

Refuse ==
  /\ kind = "refusal" /\ sent = <<>>
  /\ \E r \in Reasons : Send(r, BuildDisconnectLoginPacket(r))

Next == ClientFrame \/ ServerFrame \/ PlayerPacket \/ MoreBytes \/ Refuse

Spec == Init /\ [][Next]_vars

-----------------------------------------------------------------------------

(* Wherever the stream is cut, ReadFrame yields the frames that were       *)
(* written, in order, and never a part of one.                             *)
FramesArrive ==
  kind \in {"toServer", "toClient"} =>
    LET written == [k \in 1..Len(sent) |-> [type |-> sent[k].type, payload |-> Payload(sent[k])]]
    IN  /\ Frames(wire) = written
        /\ \A n \in 0..Len(wire) :
             LET got == Frames(SubSeq(wire, 1, n))
             IN  Len(got) <= Len(written) /\ got = SubSeq(written, 1, Len(got))

(* What one side marshals the other unmarshals, up to the longest token    *)
(* and message whose length sums fit in 16 bits.  Of a token or message    *)
(* beyond that whose length still fits, nothing else is ever taken for the *)
(* content: the reader does not return.                                    *)
PayloadsCarried ==
  sent # <<>> =>
    /\ kind = "toServer" =>
         LET h == sent[1].body
             d == UnmarshalHandshake(Frames(wire)[1].payload)
         IN  /\ HandshakeFits(h) => d.ok
             /\ Len(h.token) < Word /\ d.ok => [token |-> d.token, port |-> d.port] = h
    /\ kind = "toClient" =>
         LET a == sent[1].body
             d == UnmarshalAssignment(Frames(wire)[1].payload)
         IN  /\ AssignmentFits(a) => d.ok
             /\ Len(a.ip) + 7 < Word /\ Len(a.message) < Word /\ d.ok =>
                  [port |-> d.port, success |-> d.success, ip |-> d.ip,
                   message |-> d.message] = a

(* Of a game's two packets the reader returns every byte and, when the     *)
(* player logs in, the player; bytes behind them stay with the connection. *)
LoginOf(h, m) ==
  IF h.nextState = 1 THEN NoLogin
  ELSE [name |-> m.name, uuid |-> IF Len(m.uuid) < UUIDLen THEN <<>> ELSE m.uuid,
        version |-> h.version, isLogin |-> TRUE]

Acceptable(h, m) ==
  h.nextState = 1 \/ (m.id = 0 /\ ~m.status /\ Len(m.name) <= MaxName)

ReadsWhatWasSent ==
  kind = "player" /\ Len(sent) = 2 =>
    LET r == ReadInitialPackets(wire)
    IN  IF Acceptable(sent[1], sent[2])
        THEN r = [ok |-> TRUE, raw |-> HandshakePacket(sent[1]) \o SecondPacket(sent[2]),
                  login |-> LoginOf(sent[1], sent[2])]
        ELSE ~r.ok

(* The client reads from the data stream what the server wrote to it, the  *)
(* raw packets: it finds the same player, and forwards the same bytes.     *)
HostSeesSame ==
  LET r == ReadInitialPackets(wire)
  IN  kind \in {"player", "raw"} /\ r.ok => ReadInitialPackets(r.raw) = r

(* For a game that sends its UUID, the parsers of peeked data find what    *)
(* the reader of the connection finds.                                     *)
ParsersAgree ==
  kind = "player" /\ Len(sent) = 2 =>
    LET r == ReadInitialPackets(wire)
        p == PeekMCHandshake(wire)
        l == ParseLoginFromPeekData(wire)
    IN  r.ok /\ p.ok /\ r.login.isLogin /\ r.login.uuid # <<>> =>
          /\ l.ok
          /\ l.name = r.login.name /\ l.uuid = r.login.uuid
          /\ p.version = r.login.version /\ l.version = r.login.version
          /\ p.addr = sent[1].addr /\ p.port = sent[1].port

(* A refused player's game can read the reason.                            *)
RefusalReadable ==
  kind = "refusal" /\ sent # <<>> =>
    LET p == ReadFullPacket(wire, 1)
    IN  p.ok /\ p.id = 0 /\ p.next = Len(wire) + 1
          /\ ReadString(p.payload, 1, Len(wire)) =
               [ok |-> TRUE, val |-> sent[1], next |-> Len(p.payload) + 1]
=============================================================================
