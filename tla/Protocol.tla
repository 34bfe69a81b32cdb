------------------------------ MODULE Protocol ------------------------------
(***************************************************************************)
(* The frames of the control stream and their payloads                     *)
(* (shared/protocol.go), over bytes of any base.  Positions in a byte      *)
(* sequence count from 1.                                                  *)
(***************************************************************************)
EXTENDS Naturals, Sequences

CONSTANTS
  Base,       \* values of a byte (256)
  MaxFrame    \* longest payload ReadFrame accepts (1 MB)

ASSUME BaseIsNat == Base \in Nat \ {0, 1}
ASSUME MaxFrameIsNat == MaxFrame \in Nat

Byte == 0..(Base - 1)
Word == Base * Base           \* values of a uint16
Uint16(n) == n % Word

MsgHandshake    == 1
MsgPortAssign   == 2
MsgHeartbeat    == 3
MsgHeartbeatACK == 4
MsgClose        == 5

(* An error is returned; a slice bound is out of range, and the process    *)
(* ends, since nothing recovers on these paths.                            *)
Failed   == [ok |-> FALSE, panics |-> FALSE]
Panicked == [ok |-> FALSE, panics |-> TRUE]

(* binary.BigEndian: the higher bytes of v are cut off.                    *)
PutUint16(v) == <<(v \div Base) % Base, v % Base>>
PutUint32(v) == PutUint16(v \div Word) \o PutUint16(v)
GetUint16(s, i) == s[i] * Base + s[i + 1]
GetUint32(s, i) == GetUint16(s, i) * Word + GetUint16(s, i + 2)

-----------------------------------------------------------------------------
(* Wrong variants of operators, each put in the place of the operator it   *)
(* is a variant of to see that the properties tell them apart.             *)

(* Whatever has arrived of the payload is taken for the frame.             *)
ReadPartialFrame(s, i) ==
  IF i + 4 > Len(s) THEN Failed
  ELSE LET n == GetUint32(s, i + 1)
           last == IF i + 4 + n <= Len(s) THEN i + 4 + n ELSE Len(s)
       IN  [ok |-> TRUE, type |-> s[i], payload |-> SubSeq(s, i + 5, last), next |-> last + 1]

(* Slices are clipped to what there is, instead of being out of range.     *)
UnmarshalClipped(d) ==
  LET end == Uint16(2 + GetUint16(d, 1))
  IN  IF Len(d) < 4 \/ Len(d) < Uint16(end + 2) THEN Failed
      ELSE [ok |-> TRUE, token |-> SubSeq(d, 3, end), port |-> GetUint16(d, end + 1)]

-----------------------------------------------------------------------------

WriteFrame(type, payload) == <<type>> \o PutUint32(Len(payload)) \o payload

(* The frame that begins at position i; it fails on any shortage.          *)
ReadFrame(s, i) ==
  IF i + 4 > Len(s) THEN Failed
  ELSE LET n == GetUint32(s, i + 1)
       IN  IF n > MaxFrame \/ i + 4 + n > Len(s) THEN Failed
           ELSE [ok |-> TRUE, type |-> s[i], payload |-> SubSeq(s, i + 5, i + 4 + n),
                 next |-> i + 5 + n]

(* All frames of a byte stream.                                            *)
Frames(s) ==
  LET from[i \in 1..(Len(s) + 1)] ==
        LET f == ReadFrame(s, i)
        IN  IF f.ok THEN <<[type |-> f.type, payload |-> f.payload]>> \o from[f.next] ELSE <<>>
  IN  from[1]

-----------------------------------------------------------------------------
(* Payloads.  The sums in the length checks and in the slice bounds are 16 *)
(* bits wide in the code.  A payload whose positions stay below that is    *)
(* said to fit.  Where a sum wraps around, the check passes on a small     *)
(* number, and the slice behind it is out of range or out of order.        *)

MarshalHandshake(h) == PutUint16(Len(h.token)) \o h.token \o PutUint16(h.port)
HandshakeFits(h) == 2 + Len(h.token) < Word

(* data[2:end], and two bytes at data[end:].                               *)
UnmarshalHandshake(d) ==
  LET end == Uint16(2 + GetUint16(d, 1))
  IN  IF Len(d) < 4 \/ Len(d) < Uint16(end + 2) THEN Failed
      ELSE IF end < 2 \/ Len(d) < end + 2 THEN Panicked
      ELSE [ok |-> TRUE, token |-> SubSeq(d, 3, end), port |-> GetUint16(d, end + 1)]

MarshalAssignment(a) ==
  PutUint16(a.port) \o <<IF a.success THEN 1 ELSE 0>>
    \o PutUint16(Len(a.ip)) \o a.ip \o PutUint16(Len(a.message)) \o a.message
AssignmentFits(a) == 5 + Len(a.ip) + 2 + Len(a.message) < Word

(* data[5:end], two bytes at data[end:], and data[start:last].             *)
UnmarshalAssignment(d) ==
  LET end   == Uint16(5 + GetUint16(d, 4))
      start == Uint16(end + 2)
      last  == Uint16(start + GetUint16(d, end + 1))
  IN  IF Len(d) < 5 \/ Len(d) < start THEN Failed
      ELSE IF end < 5 \/ Len(d) < end + 2 THEN Panicked
      ELSE IF Len(d) < last THEN Failed
      ELSE IF last < start THEN Panicked
      ELSE [ok |-> TRUE, port |-> GetUint16(d, 1), success |-> d[3] = 1,
            ip |-> SubSeq(d, 6, end), message |-> SubSeq(d, start + 1, last)]
=============================================================================
