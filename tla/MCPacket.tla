------------------------------ MODULE MCPacket ------------------------------
(***************************************************************************)
(* Reading and writing of Minecraft packets (shared/mc_packet.go).  An     *)
(* operator that reads takes a byte sequence and the position to read at,  *)
(* and returns what it found with the position after it.                   *)
(***************************************************************************)
EXTENDS Naturals, Sequences, FiniteSetsExt

CONSTANTS
  Group,      \* values of the seven data bits of a VarInt byte (128)
  MaxGroups,  \* bytes of the longest VarInt (5)
  MaxPacket,  \* longest packet of a connection (2 MB)
  MaxPeek,    \* longest packet in peeked data (1024)
  MaxAddr,    \* longest server address (255)
  MaxName,    \* longest player name (16)
  UUIDLen     \* bytes of a UUID (16)

ASSUME GroupIsNat == Group \in Nat \ {0, 1}
ASSUME LimitsAreNat ==
  {MaxGroups, MaxPacket, MaxPeek, MaxAddr, MaxName, UUIDLen} \subseteq Nat \ {0}

NoPacket == [ok |-> FALSE]
NoLogin  == [name |-> <<>>, uuid |-> <<>>, version |-> 0, isLogin |-> FALSE]

(* The number whose groups of bits are d, the lowest first.                *)
GroupsValue(d) ==
  LET from[k \in 1..(Len(d) + 1)] == IF k > Len(d) THEN 0 ELSE d[k] + Group * from[k + 1]
  IN  from[1]

(* The readers stop at the first byte without the high bit, or fail after  *)
(* MaxGroups bytes or at the end of the data; callers that ignore the      *)
(* error go on with 0 from where the reader stopped.                       *)
LastByte(s, i, n) == i + n - 1 <= Len(s) /\ s[i + n - 1] < Group

VarIntOf(s, i, n) ==
  [ok |-> TRUE, next |-> i + n, val |-> GroupsValue([k \in 1..n |-> s[i + k - 1] % Group])]

ReadVarInt(s, i) ==
  IF \E n \in 1..MaxGroups : LastByte(s, i, n)
  THEN VarIntOf(s, i, Min({n \in 1..MaxGroups : LastByte(s, i, n)}))
  ELSE [ok |-> FALSE, val |-> 0, next |-> Max({i, Min({i + MaxGroups, Len(s) + 1})})]

(* The string behind its length n.                                         *)
StringAfter(s, n, max) ==
  IF n.ok /\ n.val <= max /\ n.next + n.val - 1 <= Len(s)
  THEN [ok |-> TRUE, val |-> SubSeq(s, n.next, n.next + n.val - 1), next |-> n.next + n.val]
  ELSE NoPacket

ReadString(s, i, max) == StringAfter(s, ReadVarInt(s, i), max)

ReadUShort(s, i) ==
  IF i + 1 <= Len(s)
  THEN [ok |-> TRUE, val |-> s[i] * 2 * Group + s[i + 1], next |-> i + 2]
  ELSE NoPacket

-----------------------------------------------------------------------------
(* Wrong variants of operators, each put in the place of the operator it   *)
(* is a variant of to see that the properties tell them apart.             *)

(* The bytes of the length are not part of the raw packet.                 *)
ReadWithoutLength(s, i) ==
  LET n == ReadVarInt(s, i)
      body == SubSeq(s, n.next, n.next + n.val - 1)
      id == ReadVarInt(body, 1)
  IN  IF n.ok /\ n.val \in 1..MaxPacket /\ n.next + n.val - 1 <= Len(s) /\ id.ok
      THEN [ok |-> TRUE, id |-> id.val, payload |-> SubSeq(body, id.next, Len(body)),
            raw |-> body, next |-> n.next + n.val]
      ELSE NoPacket

(* The payload is whatever the buffer holds after the packet ID.           *)
ReadPastPacket(s, i) ==
  LET n == ReadVarInt(s, i)
      id == ReadVarInt(s, n.next)
  IN  IF n.ok /\ n.val \in 1..MaxPacket /\ n.next + n.val - 1 <= Len(s) /\ id.ok
      THEN [ok |-> TRUE, id |-> id.val, payload |-> SubSeq(s, id.next, Len(s)),
            raw |-> SubSeq(s, i, n.next + n.val - 1), next |-> n.next + n.val]
      ELSE NoPacket

(* No mark for a following byte.                                           *)
WriteUnmarked(v) ==
  LET n == Min({k \in 1..MaxGroups : v < Group^k})
  IN  [k \in 1..n |-> (v \div Group^(k - 1)) % Group]

(* The position is not reset before the handshake packet is skipped.       *)
SkipFromVersion(s) ==
  LET n    == ReadVarInt(s, 1)
      body == ReadVarInt(s, ReadVarInt(s, n.next).next).next
      len  == ReadVarInt(s, body + n.val)
      id   == ReadVarInt(s, len.next)
      name == ReadString(s, id.next, MaxName)
  IN  IF Len(s) >= 7 /\ n.ok /\ len.ok /\ id.ok /\ id.val = 0 /\ name.ok
      THEN [ok |-> TRUE, name |-> name.val, version |-> 0, uuid |-> <<>>]
      ELSE NoPacket

-----------------------------------------------------------------------------
(* Writing.  The numbers are lengths and packet IDs, none of them negative. *)

VarInt[v \in Nat] ==
  IF v < Group THEN <<v>> ELSE <<(v % Group) + Group>> \o VarInt[v \div Group]

WriteVarInt(v) == VarInt[v]

WriteString(str) == WriteVarInt(Len(str)) \o str

MarshalPacket(id, payload) ==
  LET body == WriteVarInt(id) \o payload IN WriteVarInt(Len(body)) \o body

BuildDisconnectLoginPacket(reason) == MarshalPacket(0, WriteString(reason))

-----------------------------------------------------------------------------
(* Reading from a connection                                               *)

(* The packet that begins at position i, behind its length n.              *)
PacketAfter(s, i, n) ==
  LET body == SubSeq(s, n.next, n.next + n.val - 1)
      id == ReadVarInt(body, 1)
  IN  IF n.ok /\ n.val \in 1..MaxPacket /\ n.next + n.val - 1 <= Len(s) /\ id.ok
      THEN [ok |-> TRUE, id |-> id.val, payload |-> SubSeq(body, id.next, Len(body)),
            raw |-> SubSeq(s, i, n.next - 1) \o body, next |-> n.next + n.val]
      ELSE NoPacket

ReadFullPacket(s, i) == PacketAfter(s, i, ReadVarInt(s, i))

(* Protocol version and next state of a handshake packet, errors ignored.  *)
HandshakeFields(p) ==
  LET version == ReadVarInt(p, ReadVarInt(p, ReadVarInt(p, 1).next).next)
      addrLen == ReadVarInt(p, version.next)
  IN  [version |-> version.val, nextState |-> ReadVarInt(p, addrLen.next + addrLen.val + 2).val]

UUIDAt(s, i) == IF i + UUIDLen - 1 <= Len(s) THEN SubSeq(s, i, i + UUIDLen - 1) ELSE <<>>

ReadInitialPackets(s) ==
  LET first  == ReadFullPacket(s, 1)
      second == ReadFullPacket(s, first.next)
      fields == HandshakeFields(first.raw)
      name   == ReadString(second.payload, 1, MaxName)
      raw    == first.raw \o second.raw
  IN  IF ~(first.ok /\ first.id = 0 /\ second.ok) THEN NoPacket
      ELSE IF fields.nextState = 1 THEN [ok |-> TRUE, raw |-> raw, login |-> NoLogin]
      ELSE IF second.id # 0 \/ ~name.ok THEN NoPacket
      ELSE [ok |-> TRUE, raw |-> raw,
            login |-> [name |-> name.val, uuid |-> UUIDAt(second.payload, name.next),
                       version |-> fields.version, isLogin |-> TRUE]]

-----------------------------------------------------------------------------
(* The same on peeked data                                                 *)

PeekMCHandshake(s) ==
  LET n       == ReadVarInt(s, 1)
      id      == ReadVarInt(s, n.next)
      version == ReadVarInt(s, id.next)
      addr    == ReadString(s, version.next, MaxAddr)
      port    == ReadUShort(s, addr.next)
      state   == ReadVarInt(s, port.next)
  IN  IF /\ Len(s) >= 7
         /\ n.ok /\ n.val \in 1..MaxPeek
         /\ id.ok /\ id.val = 0
         /\ version.ok /\ version.val >= 4
         /\ addr.ok /\ port.ok
         /\ state.ok /\ state.val \in {1, 2}
      THEN [ok |-> TRUE, version |-> version.val, addr |-> addr.val, port |-> port.val,
            nextState |-> state.val]
      ELSE NoPacket

(* The UUID is looked for in all of the data, not in the packet only.      *)
ParseLoginFromPeekData(s) ==
  LET n       == ReadVarInt(s, 1)
      version == ReadVarInt(s, ReadVarInt(s, n.next).next)
      start   == n.next + n.val
      len     == ReadVarInt(s, start)
      id      == ReadVarInt(s, len.next)
      name    == ReadString(s, id.next, MaxName)
  IN  IF /\ Len(s) >= 7
         /\ n.ok /\ n.val \in 1..MaxPeek
         /\ start <= Len(s)
         /\ len.ok /\ len.val \in 1..MaxPeek
         /\ id.ok /\ id.val = 0
         /\ name.ok
      THEN [ok |-> TRUE, name |-> name.val, version |-> version.val,
            uuid |-> UUIDAt(s, name.next)]
      ELSE NoPacket
=============================================================================
