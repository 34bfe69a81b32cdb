----------------------------- MODULE WireProofs -----------------------------
(***************************************************************************)
(* That what one side of a connection writes, the other side reads, for    *)
(* all contents, lengths and limits.                                       *)
(*                                                                         *)
(* The readers and writers are recursive functions.  What they return is   *)
(* proved by induction over sets of numbers, which rests on the fact that  *)
(* each of them that is not empty has a least member.                      *)
(***************************************************************************)
EXTENDS Wire, WellFoundedInduction, SequenceTheorems, TLAPS

-----------------------------------------------------------------------------
(* Induction, and functions defined by recursion                           *)

LEMMA Least ==
  ASSUME NEW T, T \subseteq Nat, T # {}
  PROVE  \E x \in T : \A y \in T : x <= y
<1> DEFINE R == {ss \in Nat \X Nat : ss[1] < ss[2]}
<1>1. IsWellFoundedOn(R, Nat)
  BY NatLessThanWellFounded DEF OpToRel
<1>2. \A x, y \in Nat : <<y, x>> \notin R => x <= y
  OBVIOUS
<1> HIDE DEF R
<1>3. PICK x \in T : \A y \in T : ~(<<y, x>> \in R)
  BY <1>1, WFMin
<1> QED
  BY <1>2, <1>3

LEMMA Induction ==
  ASSUME NEW T, 0 \in T, \A n \in Nat : n \in T => n + 1 \in T
  PROVE  Nat \subseteq T
<1> SUFFICES ASSUME Nat \ T # {} PROVE FALSE
    OBVIOUS
<1>1. PICK x \in Nat \ T : \A y \in Nat \ T : x <= y
  BY Least
<1>2. x # 0 /\ x - 1 \in Nat /\ x - 1 \in T
  BY <1>1
<1> QED
  BY <1>1, <1>2

LEMMA StrongInduction ==
  ASSUME NEW T, \A n \in Nat : (\A m \in Nat : m < n => m \in T) => n \in T
  PROVE  Nat \subseteq T
<1> SUFFICES ASSUME Nat \ T # {} PROVE FALSE
    OBVIOUS
<1>1. PICK x \in Nat \ T : \A y \in Nat \ T : x <= y
  BY Least
<1> QED
  BY <1>1

Grounded(S, V, size, H) ==
  /\ [S -> V] # {} /\ size \in [S -> Nat] /\ H \in [[S -> V] -> [S -> V]]
  /\ \A g, h \in [S -> V], x \in S :
       (\A y \in S : size[y] < size[x] => g[y] = h[y]) => H[g][x] = H[h][x]

(* A recursive definition on S has a solution when the value at x depends  *)
(* only on values at smaller members of S.  H maps an approximation to the *)
(* next one.                                                               *)
LEMMA Recursion ==
  ASSUME NEW S, NEW V, NEW size, NEW H, Grounded(S, V, size, H)
  PROVE  \E f \in [S -> V] : f = H[f]
<1> USE DEF Grounded
<1>0. PICK f0 \in [S -> V] : TRUE
  OBVIOUS
<1> DEFINE Good(f, m) == \A x \in S : size[x] < m => f[x] = H[f][x]
<1>1. \A m \in Nat : \E f \in [S -> V] : Good(f, m)
  <2> DEFINE T == {m \in Nat : \E f \in [S -> V] : Good(f, m)}
  <2>1. 0 \in T
    OBVIOUS
  <2>2. ASSUME NEW m \in Nat, m \in T PROVE m + 1 \in T
    <3>1. PICK f \in [S -> V] : Good(f, m)
      BY <2>2
    <3>2. H[f] \in [S -> V] /\ H[H[f]] \in [S -> V]
      BY <3>1
    <3>3. ASSUME NEW x \in S, size[x] < m + 1 PROVE H[f][x] = H[H[f]][x]
      <4>1. \A y \in S : size[y] < size[x] => f[y] = H[f][y]
        BY <3>1, <3>3
      <4> QED
        BY <3>2, <4>1
    <3> QED
      BY <3>2, <3>3
  <2> HIDE DEF T
  <2>3. Nat \subseteq T
    BY <2>1, <2>2, Induction
  <2> QED
    BY <2>3 DEF T
<1>2. ASSUME NEW m \in Nat, NEW f \in [S -> V], NEW g \in [S -> V], Good(f, m), Good(g, m)
      PROVE  \A x \in S : size[x] < m => f[x] = g[x]
  <2> DEFINE T == {n \in Nat : \A x \in S : size[x] = n /\ n < m => f[x] = g[x]}
  <2>1. ASSUME NEW n \in Nat, \A k \in Nat : k < n => k \in T PROVE n \in T
    <3> SUFFICES ASSUME NEW x \in S, size[x] = n, n < m PROVE f[x] = g[x]
        OBVIOUS
    <3>1. \A y \in S : size[y] < size[x] => f[y] = g[y]
      BY <2>1
    <3> QED
      BY <1>2, <3>1
  <2> HIDE DEF T
  <2>2. Nat \subseteq T
    BY <2>1, StrongInduction
  <2> QED
    BY <2>2 DEF T
<1> DEFINE best(x) == CHOOSE f \in [S -> V] : Good(f, size[x] + 1)
<1>3. \A x \in S : best(x) \in [S -> V] /\ Good(best(x), size[x] + 1)
  <2> TAKE x \in S
  <2>1. \E f \in [S -> V] : Good(f, size[x] + 1)
    BY <1>1
  <2> HIDE DEF Good
  <2> QED
    BY <2>1
<1> HIDE DEF best
<1> DEFINE F == [x \in S |-> best(x)[x]]
<1>4. F \in [S -> V]
  BY <1>3
<1>5. ASSUME NEW x \in S PROVE F[x] = H[F][x]
  <2>1. ASSUME NEW y \in S, size[y] < size[x] PROVE F[y] = best(x)[y]
    <3>1. Good(best(x), size[y] + 1) /\ Good(best(y), size[y] + 1)
      BY <1>3, <2>1
    <3> HIDE DEF Good
    <3> QED
      BY <1>2, <1>3, <3>1
  <2>2. best(x) \in [S -> V] /\ best(x)[x] = H[best(x)][x]
    BY <1>3
  <2> HIDE DEF F, Good
  <2>3. H[F][x] = H[best(x)][x]
    BY <1>4, <2>1, <2>2
  <2> QED
    BY <2>2, <2>3 DEF F
<1> HIDE DEF F
<1>6. H[F] \in [S -> V]
  BY <1>4
<1>7. F = H[F]
  BY <1>4, <1>5, <1>6
<1> QED
  BY <1>4, <1>7

-----------------------------------------------------------------------------
(* Numbers of two and four bytes                                           *)

LEMMA BaseFacts == Base \in Nat /\ Base > 1 /\ Word \in Nat /\ Word > 1 /\ Word = Base * Base
BY BaseIsNat DEF Word

LEMMA Products ==
  ASSUME NEW b \in Nat, NEW x \in Nat, NEW y \in Nat, x < y
  PROVE  x * b + b <= y * b /\ x * b \in Nat
<1>1. PICK d \in Nat : y = x + 1 + d
  <2>1. y - x - 1 \in Nat /\ y = x + 1 + (y - x - 1)
    OBVIOUS
  <2> QED
    BY <2>1
<1>2. d * b \in Nat /\ x * b \in Nat
  OBVIOUS
<1>3. y * b = x * b + b + d * b
  BY <1>1
<1> QED
  BY <1>2, <1>3

LEMMA Quotients ==
  ASSUME NEW b \in Nat, b > 1, NEW v \in Nat
  PROVE  /\ v \div b \in Nat /\ v % b \in 0..(b - 1)
         /\ v = (v \div b) * b + (v % b)
         /\ v < b => v % b = v
         /\ v >= b => v \div b < v /\ v \div b # 0
OBVIOUS

LEMMA Division ==
  ASSUME NEW b \in Nat, b > 1, NEW q \in Nat, NEW r \in 0..(b - 1), NEW v \in Nat, v = q * b + r
  PROVE  v \div b = q /\ v % b = r
<1> DEFINE p == v \div b
<1>1. p \in Nat /\ v % b \in 0..(b - 1) /\ v = p * b + (v % b)
  BY Quotients
<1> HIDE DEF p
<1>2. p * b \in Nat /\ q * b \in Nat
  BY <1>1
<1>3. ~(p < q)
  <2> SUFFICES ASSUME p < q PROVE FALSE
      OBVIOUS
  <2>1. p * b + b <= q * b
    BY <1>1, Products
  <2> QED
    BY <1>1, <1>2, <2>1
<1>4. ~(q < p)
  <2> SUFFICES ASSUME q < p PROVE FALSE
      OBVIOUS
  <2>1. q * b + b <= p * b
    BY <1>1, Products
  <2> QED
    BY <1>1, <1>2, <2>1
<1>5. p = q
  BY <1>1, <1>3, <1>4
<1>6. v % b = r
  BY <1>1, <1>2, <1>5
<1> QED
  BY <1>5, <1>6 DEF p

LEMMA Put16 ==
  ASSUME NEW v \in Nat
  PROVE  /\ PutUint16(v) \in Seq(Byte) /\ Len(PutUint16(v)) = 2
         /\ GetUint16(PutUint16(v), 1) = v % Word
<1> DEFINE q == v \div Base
           lo == v % Base
           hi == q % Base
           top == q \div Base
<1>1. q \in Nat /\ lo \in 0..(Base - 1) /\ v = q * Base + lo
  BY BaseFacts, Quotients
<1>2. hi \in 0..(Base - 1) /\ top \in Nat /\ q = top * Base + hi
  BY BaseFacts, Quotients, <1>1
<1> HIDE DEF q, lo, hi, top
<1>3. hi * Base + lo \in 0..(Word - 1)
  <2>1. hi * Base + Base <= Base * Base /\ hi * Base \in Nat
    BY <1>2, BaseFacts, Products
  <2> QED
    BY <2>1, <1>1, BaseFacts
<1>4. v = top * Word + (hi * Base + lo)
  BY <1>1, <1>2, BaseFacts
<1>5. v % Word = hi * Base + lo
  <2> DEFINE r == hi * Base + lo
  <2>1. r \in 0..(Word - 1) /\ v = top * Word + r
    BY <1>3, <1>4
  <2> HIDE DEF r
  <2>2. top \in Nat /\ Word \in Nat /\ Word > 1
    BY <1>2, BaseFacts
  <2>3. v % Word = r
    BY <2>1, <2>2, Division
  <2> QED
    BY <2>3 DEF r
<1>6. PutUint16(v) = <<hi, lo>>
  BY DEF PutUint16, hi, lo, q
<1>7. GetUint16(<<hi, lo>>, 1) = hi * Base + lo
  BY DEF GetUint16
<1>8. <<hi, lo>> \in Seq(Byte) /\ Len(<<hi, lo>>) = 2
  BY <1>1, <1>2 DEF Byte
<1> QED
  BY <1>5, <1>6, <1>7, <1>8

LEMMA Joined ==
  ASSUME NEW s \in Seq(Byte), NEW t \in Seq(Byte)
  PROVE  /\ s \o t \in Seq(Byte) /\ Len(s \o t) = Len(s) + Len(t)
         /\ \A i \in 1..Len(s) : (s \o t)[i] = s[i]
         /\ \A i \in 1..Len(t) : (s \o t)[Len(s) + i] = t[i]
OBVIOUS

LEMMA Put32 ==
  ASSUME NEW v \in Nat
  PROVE  /\ PutUint32(v) \in Seq(Byte) /\ Len(PutUint32(v)) = 4
         /\ v < Word * Word => GetUint32(PutUint32(v), 1) = v
<1> DEFINE hi == v \div Word
           lo == v % Word
           a == PutUint16(hi)
           c == PutUint16(v)
<1>1. hi \in Nat /\ lo \in 0..(Word - 1) /\ v = hi * Word + lo
  BY BaseFacts, Quotients
<1>2. v < Word * Word => hi < Word
  <2> SUFFICES ASSUME v < Word * Word, hi >= Word PROVE FALSE
      BY <1>1, BaseFacts
  <2>1. Word * Word <= hi * Word
    <3>1. CASE hi = Word
      BY <3>1, BaseFacts
    <3>2. CASE Word < hi
      BY <3>2, <1>1, BaseFacts, Products
    <3> QED
      BY <3>1, <3>2, <1>1, BaseFacts
  <2>2. hi * Word \in Nat /\ Word * Word \in Nat
    BY <1>1, BaseFacts
  <2> HIDE DEF hi, lo
  <2> QED
    BY <1>1, <2>1, <2>2
<1>3. /\ a \in Seq(Byte) /\ Len(a) = 2 /\ GetUint16(a, 1) = hi % Word
      /\ c \in Seq(Byte) /\ Len(c) = 2 /\ GetUint16(c, 1) = lo
  BY <1>1, Put16
<1>4. PutUint32(v) = a \o c
  BY DEF PutUint32
<1> HIDE DEF a, c
<1>5. /\ (a \o c)[1] = a[1] /\ (a \o c)[2] = a[2] /\ (a \o c)[3] = c[1] /\ (a \o c)[4] = c[2]
      /\ Len(a \o c) = 4 /\ a \o c \in Seq(Byte)
  <2>1. a \in Seq(Byte) /\ c \in Seq(Byte) /\ Len(a) = 2 /\ Len(c) = 2
    BY <1>3
  <2>2. /\ \A i \in 1..2 : (a \o c)[i] = a[i]
        /\ \A i \in 1..2 : (a \o c)[2 + i] = c[i]
        /\ Len(a \o c) = 4 /\ a \o c \in Seq(Byte)
    <3>1. /\ \A i \in 1..Len(a) : (a \o c)[i] = a[i]
          /\ \A i \in 1..Len(c) : (a \o c)[Len(a) + i] = c[i]
          /\ Len(a \o c) = Len(a) + Len(c) /\ a \o c \in Seq(Byte)
      BY <2>1, Joined
    <3> QED
      BY <2>1, <3>1
  <2> QED
    BY <2>2
<1>6. GetUint32(PutUint32(v), 1) = GetUint16(a, 1) * Word + GetUint16(c, 1)
  BY <1>4, <1>5 DEF GetUint32, GetUint16
<1>7. v < Word * Word => hi % Word = hi
  BY <1>1, <1>2, BaseFacts, Quotients
<1> HIDE DEF hi, lo
<1> QED
  BY <1>1, <1>3, <1>4, <1>5, <1>6, <1>7

-----------------------------------------------------------------------------
(* Reading the frames of a control stream                                  *)

Frame == [type : Byte, payload : {p \in Seq(Byte) : Len(p) <= MaxFrame}]

(* The bytes of frame f are in w at position i.                            *)
FrameAt(w, i, f) ==
  /\ i + 4 + Len(f.payload) <= Len(w)
  /\ w[i] = f.type
  /\ \A k \in 1..4 : w[i + k] = PutUint32(Len(f.payload))[k]
  /\ \A k \in 1..Len(f.payload) : w[i + 4 + k] = f.payload[k]

LEMMA ReadFrameType ==
  ASSUME NEW s \in Seq(Byte), NEW i \in 1..(Len(s) + 1), ReadFrame(s, i).ok
  PROVE  LET f == ReadFrame(s, i)
         IN  /\ [type |-> f.type, payload |-> f.payload] \in Frame
             /\ f.next \in (i + 5)..(Len(s) + 1)
<1> DEFINE n == GetUint32(s, i + 1)
<1>1. i + 4 <= Len(s)
  BY DEF ReadFrame, Failed
<1>2. n \in Nat
  <2>1. s[i + 1] \in Nat /\ s[i + 2] \in Nat /\ s[i + 3] \in Nat /\ s[i + 4] \in Nat
    <3>1. s[i + 1] \in Byte /\ s[i + 2] \in Byte /\ s[i + 3] \in Byte /\ s[i + 4] \in Byte
      BY <1>1
    <3>2. Byte \subseteq Nat
      BY BaseFacts DEF Byte
    <3> QED
      BY <3>1, <3>2
  <2>2. \A x, y \in Nat : x * Base + y \in Nat /\ x * Word + y \in Nat
    BY BaseFacts
  <2>3. i + 1 + 1 = i + 2 /\ i + 1 + 2 = i + 3 /\ i + 3 + 1 = i + 4
    OBVIOUS
  <2>4. GetUint16(s, i + 1) \in Nat /\ GetUint16(s, i + 3) \in Nat
    BY <2>1, <2>2, <2>3 DEF GetUint16
  <2> QED
    BY <2>2, <2>3, <2>4 DEF GetUint32
<1>3. n <= MaxFrame /\ i + 4 + n <= Len(s)
  BY <1>1, <1>2, MaxFrameIsNat DEF ReadFrame, Failed
<1>4. ReadFrame(s, i) = [ok |-> TRUE, type |-> s[i], payload |-> SubSeq(s, i + 5, i + 4 + n),
                         next |-> i + 5 + n]
  BY <1>1, <1>2, <1>3, MaxFrameIsNat DEF ReadFrame
<1> HIDE DEF n
<1>5. SubSeq(s, i + 5, i + 4 + n) \in Seq(Byte) /\ Len(SubSeq(s, i + 5, i + 4 + n)) = n
  BY <1>2, <1>3
<1>6. s[i] \in Byte
  BY <1>1
<1> QED
  BY <1>2, <1>3, <1>4, <1>5, <1>6 DEF Frame

LEMMA ReadFrameAt ==
  ASSUME NEW w \in Seq(Byte), NEW f \in Frame, NEW i \in Nat \ {0}, FrameAt(w, i, f),
         NEW n \in Nat, n <= Len(w)
  PROVE  ReadFrame(SubSeq(w, 1, n), i) =
           IF i + 4 + Len(f.payload) <= n
           THEN [ok |-> TRUE, type |-> f.type, payload |-> f.payload,
                 next |-> i + 5 + Len(f.payload)]
           ELSE Failed
<1> DEFINE s == SubSeq(w, 1, n)
           len == Len(f.payload)
<1>1. s \in Seq(Byte) /\ Len(s) = n /\ \A k \in 1..n : s[k] = w[k]
  OBVIOUS
<1>2. f.type \in Byte /\ f.payload \in Seq(Byte) /\ len \in Nat /\ len <= MaxFrame
  BY DEF Frame
<1>3. /\ i + 4 + len <= Len(w) /\ w[i] = f.type
      /\ \A k \in 1..4 : w[i + k] = PutUint32(len)[k]
      /\ \A k \in 1..len : w[i + 4 + k] = f.payload[k]
  BY DEF FrameAt
<1>4. Len(f.payload) = len
  OBVIOUS
<1> HIDE DEF s, len
<1> DEFINE Goal == ReadFrame(s, i) =
                     IF i + 4 + len <= n
                     THEN [ok |-> TRUE, type |-> f.type, payload |-> f.payload,
                           next |-> i + 5 + len]
                     ELSE Failed
<1> SUFFICES Goal
    BY DEF s, len
<1>5. CASE i + 4 > n
  <2>1. ReadFrame(s, i) = Failed
    BY <1>1, <1>5 DEF ReadFrame
  <2> QED
    BY <2>1, <1>2, <1>5
<1>6. CASE i + 4 <= n
  <2>1. \A k \in 1..4 : s[i + k] = PutUint32(len)[k]
    BY <1>1, <1>6, <1>3
  <2>2. GetUint32(s, i + 1) = GetUint32(PutUint32(len), 1)
    <3>1. /\ s[i + 1] = PutUint32(len)[1] /\ s[i + 2] = PutUint32(len)[2]
          /\ s[i + 3] = PutUint32(len)[3] /\ s[i + 4] = PutUint32(len)[4]
      BY <2>1
    <3>2. i + 1 + 1 = i + 2 /\ i + 1 + 2 = i + 3 /\ i + 3 + 1 = i + 4
      OBVIOUS
    <3> QED
      BY <3>1, <3>2 DEF GetUint32, GetUint16
  <2>3. GetUint32(s, i + 1) = len
    <3>1. len < Word * Word
      BY <1>2, MessagesFitFrames, MaxFrameIsNat, BaseFacts
    <3> QED
      BY <2>2, <3>1, <1>2, Put32
  <2>4. ReadFrame(s, i) =
          IF len > MaxFrame \/ i + 4 + len > n THEN Failed
          ELSE [ok |-> TRUE, type |-> s[i], payload |-> SubSeq(s, i + 5, i + 4 + len),
                next |-> i + 5 + len]
    <3>1. ~(i + 4 > Len(s))
      BY <1>1, <1>6
    <3> QED
      BY <1>1, <2>3, <3>1 DEF ReadFrame
  <2>5. CASE i + 4 + len > n
    BY <1>2, <2>4, <2>5
  <2>6. CASE i + 4 + len <= n
    <3>1. SubSeq(s, i + 5, i + 4 + len) = f.payload
      <4> DEFINE got == SubSeq(s, i + 5, i + 4 + len)
      <4>1. got \in Seq(Byte) /\ Len(got) = len /\ \A k \in 1..len : got[k] = s[i + 4 + k]
        <5>1. i + 5 \in 1..(n + 1) /\ i + 4 + len \in 0..n
          BY <1>2, <2>6
        <5>2. \A k \in 1..len : i + 5 + k - 1 = i + 4 + k
          BY <1>2
        <5>3. s \in Seq(Byte) /\ Len(s) = n /\ n \in Nat
          BY <1>1
        <5>4. /\ got \in Seq(Byte) /\ Len(got) = i + 4 + len - (i + 5) + 1
              /\ \A k \in 1..Len(got) : got[k] = s[i + 5 + k - 1]
          BY <5>1, <5>3, <1>2
        <5>5. i + 4 + len - (i + 5) + 1 = len
          BY <1>2
        <5> HIDE DEF got
        <5> QED
          BY <5>2, <5>4, <5>5
      <4>2. \A k \in 1..len : s[i + 4 + k] = f.payload[k]
        <5>1. \A k \in 1..len : i + 4 + k \in 1..n
          BY <1>2, <2>6
        <5> QED
          BY <1>1, <1>3, <5>1
      <4> HIDE DEF got
      <4>3. got = f.payload
        BY <4>1, <4>2, <1>2, <1>4
      <4> QED
        BY <4>3 DEF got
    <3>2. s[i] = f.type
      BY <1>1, <1>3, <1>6
    <3>3. ~(len > MaxFrame \/ i + 4 + len > n)
      BY <1>2, <2>6, MaxFrameIsNat
    <3> QED
      BY <3>1, <3>2, <3>3, <2>4, <2>6
  <2> HIDE DEF Goal
  <2> QED
    BY <2>5, <2>6, <1>2
<1> HIDE DEF Goal
<1> QED
  BY <1>5, <1>6

(* What Frames reads from each position on.                                *)
FramesFrom(s) ==
  LET from[i \in 1..(Len(s) + 1)] ==
        LET f == ReadFrame(s, i)
        IN  IF f.ok THEN <<[type |-> f.type, payload |-> f.payload]>> \o from[f.next] ELSE <<>>
  IN  from

LEMMA FramesUnfold ==
  ASSUME NEW s \in Seq(Byte)
  PROVE  /\ Frames(s) = FramesFrom(s)[1]
         /\ \A i \in 1..(Len(s) + 1) :
              /\ ~ReadFrame(s, i).ok => FramesFrom(s)[i] = <<>>
              /\ ReadFrame(s, i).ok =>
                   FramesFrom(s)[i] =
                     <<[type |-> ReadFrame(s, i).type, payload |-> ReadFrame(s, i).payload]>>
                       \o FramesFrom(s)[ReadFrame(s, i).next]
<1> DEFINE S == 1..(Len(s) + 1)
           V == Seq(Frame)
           F(i) == ReadFrame(s, i)
           Body(g, i) == IF F(i).ok
                         THEN <<[type |-> F(i).type, payload |-> F(i).payload]>> \o g[F(i).next]
                         ELSE <<>>
           H == [g \in [S -> V] |-> [i \in S |-> Body(g, i)]]
           size == [i \in S |-> Len(s) + 1 - i]
           f0 == [i \in S |-> <<>>]
           from[i \in 1..(Len(s) + 1)] ==
             LET f == ReadFrame(s, i)
             IN  IF f.ok THEN <<[type |-> f.type, payload |-> f.payload]>> \o from[f.next] ELSE <<>>
<1>1. FramesFrom(s) = from
  BY DEF FramesFrom
<1>2. Frames(s) = from[1]
  BY DEF Frames
<1>3. \A i \in S : F(i).ok => /\ [type |-> F(i).type, payload |-> F(i).payload] \in Frame
                             /\ F(i).next \in S /\ F(i).next > i
  BY ReadFrameType
<1>4. size \in [S -> Nat] /\ f0 \in [S -> V]
  OBVIOUS
<1> HIDE DEF F
<1>5. H \in [[S -> V] -> [S -> V]]
  <2> SUFFICES ASSUME NEW g \in [S -> V], NEW i \in S PROVE Body(g, i) \in V
      OBVIOUS
  <2>1. CASE F(i).ok
    <3>1. g[F(i).next] \in V /\ <<[type |-> F(i).type, payload |-> F(i).payload]>> \in V
      BY <1>3, <2>1
    <3> QED
      BY <2>1, <3>1
  <2> QED
    BY <2>1
<1>6. ASSUME NEW g \in [S -> V], NEW h \in [S -> V], NEW i \in S,
             \A y \in S : size[y] < size[i] => g[y] = h[y]
      PROVE  H[g][i] = H[h][i]
  <2>1. \A y \in S : y > i => size[y] < size[i]
    OBVIOUS
  <2> HIDE DEF size
  <2>2. F(i).ok => g[F(i).next] = h[F(i).next]
    BY <2>1, <1>3, <1>6
  <2> QED
    BY <2>2
<1>a. Grounded(S, V, size, H)
  BY <1>4, <1>5, <1>6 DEF Grounded
<1> HIDE DEF H, size, f0, V, S, Body, from
<1>7. \E f \in [S -> V] : f = H[f]
  BY <1>a, Recursion
<1>8. \E f : f = [i \in S |-> Body(f, i)]
  <2>1. PICK f \in [S -> V] : f = H[f]
    BY <1>7
  <2>2. H[f] = [i \in S |-> Body(f, i)]
    BY DEF H, Body
  <2> QED
    BY <2>1, <2>2
<1>9. from = [i \in S |-> Body(from, i)]
  BY <1>8 DEF F, S, from, Body
<1> HIDE DEF from
<1> QED
  BY <1>1, <1>2, <1>9 DEF F, S, Body

-----------------------------------------------------------------------------
(* The messages of a control stream, in the order they were written        *)

FrameOf(m) == [type |-> m.type, payload |-> Payload(m)]
Written    == [k \in 1..Len(sent) |-> FrameOf(sent[k])]

(* The frames fs fill w: number k lies between at[k] and at[k + 1].        *)
Layout(w, fs, at) ==
  /\ at \in [1..(Len(fs) + 1) -> 1..(Len(w) + 1)]
  /\ at[1] = 1 /\ at[Len(fs) + 1] = Len(w) + 1
  /\ \A k \in 1..Len(fs) : /\ at[k + 1] = at[k] + 5 + Len(fs[k].payload)
                           /\ FrameAt(w, at[k], fs[k])

LEMMA FramesFailed ==
  ASSUME NEW s \in Seq(Byte), NEW i \in 1..(Len(s) + 1), ReadFrame(s, i) = Failed
  PROVE  FramesFrom(s)[i] = <<>>
<1>1. ~ReadFrame(s, i).ok
  BY DEF Failed
<1> QED
  BY <1>1, FramesUnfold

LEMMA FramesNext ==
  ASSUME NEW s \in Seq(Byte), NEW i \in 1..(Len(s) + 1), NEW f \in Frame, NEW j,
         ReadFrame(s, i) = [ok |-> TRUE, type |-> f.type, payload |-> f.payload, next |-> j]
  PROVE  FramesFrom(s)[i] = <<f>> \o FramesFrom(s)[j]
<1>1. /\ ReadFrame(s, i).ok /\ ReadFrame(s, i).next = j
      /\ [type |-> ReadFrame(s, i).type, payload |-> ReadFrame(s, i).payload] = f
  BY DEF Frame
<1>2. FramesFrom(s)[i] =
        <<[type |-> ReadFrame(s, i).type, payload |-> ReadFrame(s, i).payload]>>
          \o FramesFrom(s)[ReadFrame(s, i).next]
  BY <1>1, FramesUnfold
<1> QED
  BY <1>1, <1>2

LEMMA LayoutRead ==
  ASSUME NEW w \in Seq(Byte), NEW fs \in Seq(Frame), NEW at, Layout(w, fs, at),
         NEW n \in 0..Len(w)
  PROVE  \E m \in 0..Len(fs) : /\ Frames(SubSeq(w, 1, n)) = SubSeq(fs, 1, m)
                               /\ n = Len(w) => m = Len(fs)
<1> DEFINE s == SubSeq(w, 1, n)
           L == Len(fs)
           Read(k, m) == /\ FramesFrom(s)[at[k]] = SubSeq(fs, k, m)
                         /\ n = Len(w) => m = L
           Reads(k) == \E m \in (k - 1)..L : Read(k, m)
           T == {d \in Nat : \A k \in 1..(L + 1) : k + d = L + 1 /\ at[k] <= n + 1 => Reads(k)}
<1>1. s \in Seq(Byte) /\ Len(s) = n /\ L \in Nat /\ n \in Nat /\ n <= Len(w)
  OBVIOUS
<1>2. /\ \A k \in 1..(L + 1) : at[k] \in 1..(Len(w) + 1)
      /\ at[1] = 1 /\ at[L + 1] = Len(w) + 1
      /\ \A k \in 1..L : at[k + 1] = at[k] + 5 + Len(fs[k].payload) /\ FrameAt(w, at[k], fs[k])
  BY DEF Layout
<1>3. \A k \in 1..L : fs[k] \in Frame
  OBVIOUS
<1>4. \A f \in Frame : Len(f.payload) \in Nat
  BY DEF Frame
<1>5. \A k \in 1..L : \A m \in k..L : SubSeq(fs, k, m) = <<fs[k]>> \o SubSeq(fs, k + 1, m)
  OBVIOUS
<1>6. \A k \in 1..(L + 1) : SubSeq(fs, k, k - 1) = <<>>
  OBVIOUS
<1> HIDE DEF L, Reads, s
<1>7. at[L + 1] <= n + 1 => Reads(L + 1)
  <2> SUFFICES ASSUME at[L + 1] <= n + 1 PROVE Reads(L + 1)
      OBVIOUS
  <2>1. at[L + 1] = Len(s) + 1 /\ Len(s) + 1 \in 1..(Len(s) + 1)
    BY <1>1, <1>2
  <2>2. ReadFrame(s, Len(s) + 1) = Failed
    BY <1>1 DEF ReadFrame
  <2>3. FramesFrom(s)[Len(s) + 1] = <<>>
    BY <2>1, <2>2, <1>1, FramesFailed
  <2>4. L \in (L + 1 - 1)..L /\ L + 1 \in 1..(L + 1) /\ L + 1 - 1 = L
    BY <1>1
  <2> QED
    BY <2>1, <2>3, <2>4, <1>6 DEF Reads
<1>8. ASSUME NEW k \in 1..L, at[k] <= n + 1, at[k + 1] <= n + 1 => Reads(k + 1)
      PROVE  Reads(k)
  <2> DEFINE i == at[k]
             len == Len(fs[k].payload)
             f == fs[k]
  <2>1. /\ i \in Nat \ {0} /\ at[k + 1] = i + 5 + len /\ len \in Nat
        /\ FrameAt(w, i, f) /\ f \in Frame
    BY <1>1, <1>2, <1>3, <1>4
  <2>2. ReadFrame(s, i) = IF i + 4 + len <= n
                          THEN [ok |-> TRUE, type |-> f.type, payload |-> f.payload,
                                next |-> i + 5 + len]
                          ELSE Failed
    BY <2>1, <1>1, ReadFrameAt DEF s
  <2>3. i \in 1..(Len(s) + 1)
    BY <2>1, <1>8, <1>1
  <2> HIDE DEF len, i, f
  <2>4. CASE i + 4 + len <= n
    <3>1. PICK m \in k..L : Read(k + 1, m)
      <4>1. at[k + 1] <= n + 1
        BY <2>1, <2>4, <1>1
      <4>2. Reads(k + 1)
        BY <4>1, <1>8
      <4>3. k + 1 - 1 = k
        BY <1>1
      <4> QED
        BY <4>2, <4>3 DEF Reads
    <3>2. FramesFrom(s)[i] = <<f>> \o FramesFrom(s)[at[k + 1]]
      <4>1. ReadFrame(s, i) = [ok |-> TRUE, type |-> f.type, payload |-> f.payload,
                               next |-> i + 5 + len]
        BY <2>2, <2>4
      <4>2. FramesFrom(s)[i] = <<f>> \o FramesFrom(s)[i + 5 + len]
        BY <4>1, <2>1, <2>3, <1>1, FramesNext
      <4> QED
        BY <4>2, <2>1
    <3>3. Read(k, m)
      BY <3>1, <3>2, <1>5 DEF i, f
    <3>4. m \in (k - 1)..L
      BY <1>1
    <3> QED
      BY <3>3, <3>4 DEF Reads
  <2>5. CASE ~(i + 4 + len <= n)
    <3>1. ReadFrame(s, i) = Failed
      BY <2>2, <2>5
    <3>2. FramesFrom(s)[at[k]] = <<>>
      BY <3>1, <2>3, <1>1, FramesFailed DEF i
    <3>3. n # Len(w)
      <4>1. at[k + 1] <= Len(w) + 1
        BY <1>1, <1>2
      <4> QED
        BY <4>1, <2>1, <2>5, <1>1
    <3>4. k - 1 \in (k - 1)..L /\ k \in 1..(L + 1)
      BY <1>1
    <3> QED
      BY <3>2, <3>3, <3>4, <1>6 DEF Reads
  <2> QED
    BY <2>4, <2>5
<1>9. 0 \in T
  BY <1>1, <1>7
<1>10. \A d \in Nat : d \in T => d + 1 \in T
  <2> TAKE d \in Nat
  <2> HAVE d \in T
  <2> SUFFICES ASSUME NEW k \in 1..(L + 1), k + (d + 1) = L + 1, at[k] <= n + 1
               PROVE  Reads(k)
      <3>1. d + 1 \in Nat
        OBVIOUS
      <3> HIDE DEF Reads
      <3> QED
        BY <3>1
  <2>1. k \in 1..L /\ k + 1 \in 1..(L + 1) /\ k + 1 + d = L + 1
    BY <1>1
  <2>2. at[k + 1] <= n + 1 => Reads(k + 1)
    BY <2>1
  <2> QED
    BY <2>1, <2>2, <1>8
<1> HIDE DEF T
<1>11. L \in T
  BY <1>1, <1>9, <1>10, Induction
<1>12. 1 \in 1..(L + 1) /\ 1 + L = L + 1 /\ at[1] <= n + 1 /\ 1 - 1 = 0
  BY <1>1, <1>2
<1>13. PICK m \in 0..L : Read(1, m)
  BY <1>11, <1>12 DEF T, Reads
<1>14. Frames(s) = FramesFrom(s)[at[1]]
  BY <1>1, <1>2, FramesUnfold
<1> QED
  BY <1>13, <1>14 DEF L, s

LEMMA LayoutAppend ==
  ASSUME NEW w \in Seq(Byte), NEW fs \in Seq(Frame), NEW at, Layout(w, fs, at), NEW f \in Frame
  PROVE  /\ w \o WriteFrame(f.type, f.payload) \in Seq(Byte)
         /\ \E b : Layout(w \o WriteFrame(f.type, f.payload), Append(fs, f), b)
<1> DEFINE p == f.payload
           len == Len(p)
           head == PutUint32(len)
           x == WriteFrame(f.type, p)
           L == Len(fs)
           v == w \o x
           b == [k \in 1..(L + 2) |-> IF k <= L + 1 THEN at[k] ELSE Len(w) + 6 + len]
           gs == Append(fs, f)
<1>1. f.type \in Byte /\ p \in Seq(Byte) /\ len \in Nat
  BY DEF Frame
<1>2. head \in Seq(Byte) /\ Len(head) = 4
  BY <1>1, Put32
<1> HIDE DEF head, len
<1>3. /\ x \in Seq(Byte) /\ Len(x) = 5 + len /\ x[1] = f.type
      /\ \A k \in 1..4 : x[1 + k] = head[k]
      /\ \A k \in 1..len : x[5 + k] = p[k]
  <2> DEFINE y == <<f.type>> \o head
  <2>1. x = y \o p
    BY DEF WriteFrame, head, len
  <2>2. /\ y \in Seq(Byte) /\ Len(y) = 5 /\ y[1] = f.type
        /\ \A k \in 1..4 : y[1 + k] = head[k]
    <3>1. <<f.type>> \in Seq(Byte) /\ Len(<<f.type>>) = 1 /\ <<f.type>>[1] = f.type
      BY <1>1
    <3> DEFINE z == <<f.type>>
    <3> HIDE DEF z
    <3>2. /\ z \o head \in Seq(Byte) /\ Len(z \o head) = Len(z) + Len(head)
          /\ \A k \in 1..Len(z) : (z \o head)[k] = z[k]
          /\ \A k \in 1..Len(head) : (z \o head)[Len(z) + k] = head[k]
      BY <3>1, <1>2, Joined DEF z
    <3>3. z[1] = f.type /\ Len(z) = 1 /\ y = z \o head
      BY DEF z
    <3> HIDE DEF y
    <3> QED
      BY <3>2, <3>3, <1>2
  <2>3. Len(p) = len
    BY DEF len
  <2> HIDE DEF y, x, p
  <2>4. /\ y \o p \in Seq(Byte) /\ Len(y \o p) = Len(y) + Len(p)
        /\ \A k \in 1..Len(y) : (y \o p)[k] = y[k]
        /\ \A k \in 1..Len(p) : (y \o p)[Len(y) + k] = p[k]
    <3>1. y \in Seq(Byte) /\ p \in Seq(Byte)
      BY <1>1, <2>2
    <3> QED
      BY <3>1, Joined
  <2>5. \A k \in 1..4 : 1 + k \in 1..5
    OBVIOUS
  <2> QED
    BY <1>1, <2>1, <2>2, <2>3, <2>4, <2>5
<1> HIDE DEF x
<1>4. /\ v \in Seq(Byte) /\ Len(v) = Len(w) + 5 + len
      /\ \A k \in 1..Len(w) : v[k] = w[k]
      /\ \A k \in 1..(5 + len) : v[Len(w) + k] = x[k]
  <2>1. w \o x \in Seq(Byte) /\ Len(w \o x) = Len(w) + Len(x)
    BY <1>3, Joined
  <2>2. \A k \in 1..Len(w) : (w \o x)[k] = w[k]
    BY <1>3, Joined
  <2>3. \A k \in 1..Len(x) : (w \o x)[Len(w) + k] = x[k]
    BY <1>3, Joined
  <2> HIDE DEF v
  <2>4. v = w \o x /\ Len(x) = 5 + len
    BY <1>3 DEF v
  <2> QED
    BY <2>1, <2>2, <2>3, <2>4, <1>1
<1>5. /\ gs \in Seq(Frame) /\ Len(gs) = L + 1 /\ L \in Nat
      /\ \A k \in 1..L : gs[k] = fs[k]
      /\ gs[L + 1] = f
  OBVIOUS
<1>6. /\ at \in [1..(L + 1) -> 1..(Len(w) + 1)]
      /\ at[1] = 1 /\ at[L + 1] = Len(w) + 1
      /\ \A k \in 1..L : at[k + 1] = at[k] + 5 + Len(fs[k].payload) /\ FrameAt(w, at[k], fs[k])
  BY DEF Layout
<1> HIDE DEF gs, L, v
<1>7. b \in [1..(Len(gs) + 1) -> 1..(Len(v) + 1)] /\ b[1] = 1 /\ b[Len(gs) + 1] = Len(v) + 1
  BY <1>1, <1>4, <1>5, <1>6
<1>8. ASSUME NEW k \in 1..Len(gs)
      PROVE  b[k + 1] = b[k] + 5 + Len(gs[k].payload) /\ FrameAt(v, b[k], gs[k])
  <2>1. CASE k \in 1..L
    <3>1. b[k] = at[k] /\ b[k + 1] = at[k + 1] /\ gs[k] = fs[k]
      BY <2>1, <1>5
    <3>2. at[k] \in Nat \ {0} /\ Len(fs[k].payload) \in Nat
      <4>1. fs[k] \in Frame
        BY <2>1 DEF L
      <4>2. \A g \in Frame : Len(g.payload) \in Nat
        BY DEF Frame
      <4>3. at[k] \in 1..(Len(w) + 1)
        BY <2>1, <1>5, <1>6
      <4> QED
        BY <4>1, <4>2, <4>3
    <3>3. FrameAt(v, at[k], fs[k])
      <4> DEFINE i == at[k]
                 n == Len(fs[k].payload)
      <4>1. /\ i + 4 + n <= Len(w) /\ w[i] = fs[k].type
            /\ \A j \in 1..4 : w[i + j] = PutUint32(n)[j]
            /\ \A j \in 1..n : w[i + 4 + j] = fs[k].payload[j]
        BY <2>1, <1>6 DEF FrameAt
      <4>2. i \in Nat \ {0} /\ n \in Nat
        BY <3>2
      <4> HIDE DEF i, n
      <4>a. i + 4 + n <= Len(v) /\ \A j \in 0..(4 + n) : v[i + j] = w[i + j]
        <5>1. Len(w) \in Nat /\ Len(v) = Len(w) + 5 + len /\ i + 4 + n <= Len(w)
          BY <4>1, <1>4
        <5>2. i + 4 + n <= Len(v) /\ \A j \in 0..(4 + n) : i + j \in 1..Len(w)
          BY <5>1, <4>2, <1>1
        <5> QED
          BY <5>2, <1>4
      <4>b. v[i] = w[i] /\ \A j \in 1..4 : v[i + j] = w[i + j]
        BY <4>a, <4>2
      <4>c. \A j \in 1..n : v[i + 4 + j] = w[i + 4 + j]
        <5>1. \A j \in 1..n : 4 + j \in 0..(4 + n) /\ i + (4 + j) = i + 4 + j
          BY <4>2
        <5> QED
          BY <4>a, <5>1
      <4>3. /\ i + 4 + n <= Len(v) /\ v[i] = fs[k].type
            /\ \A j \in 1..4 : v[i + j] = PutUint32(n)[j]
            /\ \A j \in 1..n : v[i + 4 + j] = fs[k].payload[j]
        BY <4>1, <4>a, <4>b, <4>c
      <4> QED
        BY <4>3 DEF i, n, FrameAt
    <3> HIDE DEF b
    <3> QED
      BY <3>1, <3>3, <2>1, <1>6
  <2>2. CASE k = L + 1
    <3>1. b[k] = Len(w) + 1 /\ b[k + 1] = Len(w) + 6 + len /\ gs[k] = f
      BY <2>2, <1>5, <1>6
    <3>2. FrameAt(v, Len(w) + 1, f)
      <4> DEFINE i == Len(w) + 1
      <4>1. /\ i + 4 + len <= Len(v) /\ v[i] = f.type
            /\ \A j \in 1..4 : v[i + j] = head[j]
            /\ \A j \in 1..len : v[i + 4 + j] = p[j]
        <5>1. v[i] = x[1] /\ i + 4 + len <= Len(v)
          BY <1>1, <1>4
        <5>a. \A j \in Nat : i + j = Len(w) + (1 + j) /\ i + 4 + j = Len(w) + (5 + j)
          OBVIOUS
        <5>2. \A j \in 1..4 : v[i + j] = x[1 + j]
          <6>1. \A j \in 1..4 : 1 + j \in 1..(5 + len) /\ i + j = Len(w) + (1 + j)
            BY <1>1, <5>a
          <6> QED
            BY <6>1, <1>4
        <5>3. \A j \in 1..len : v[i + 4 + j] = x[5 + j]
          <6>1. \A j \in 1..len : 5 + j \in 1..(5 + len) /\ i + 4 + j = Len(w) + (5 + j)
            BY <1>1, <5>a
          <6> QED
            BY <6>1, <1>4
        <5> QED
          BY <5>1, <5>2, <5>3, <1>3
      <4> HIDE DEF i
      <4> QED
        BY <4>1 DEF FrameAt, head, len, i
    <3>3. Len(f.payload) = len
      BY DEF len
    <3> HIDE DEF b
    <3> QED
      BY <3>1, <3>2, <3>3, <1>1
  <2> QED
    BY <2>1, <2>2, <1>5
<1> HIDE DEF b
<1>9. Layout(v, gs, b)
  BY <1>7, <1>8 DEF Layout
<1> QED
  BY <1>4, <1>9 DEF v, x, gs

-----------------------------------------------------------------------------
(* The invariant of a control stream                                       *)

Assignments == [port : Numbers, success : BOOLEAN, ip : IPs, message : Messages]

FirstToServer == [type : {MsgHandshake}, body : [token : Tokens, port : Numbers]]
FirstToClient == [type : {MsgPortAssign}, body : Assignments]
Message ==
  FirstToServer \union FirstToClient
    \union {Bare(t) : t \in {MsgHeartbeat, MsgHeartbeatACK, MsgClose}}

Control == kind \in {"toServer", "toClient"}

ControlInv ==
  Control =>
    /\ sent \in Seq(Message) /\ wire \in Seq(Byte)
    /\ \E at : Layout(wire, Written, at)
    /\ sent # <<>> /\ kind = "toServer" => sent[1] \in FirstToServer
    /\ sent # <<>> /\ kind = "toClient" => sent[1] \in FirstToClient

LEMMA Types ==
  /\ MsgHandshake = 1 /\ MsgPortAssign = 2 /\ MsgHeartbeat = 3 /\ MsgHeartbeatACK = 4
  /\ MsgClose = 5 /\ Base > 5 /\ 1..5 \subseteq Byte
BY BaseFacts, ContentsAreBytes
   DEF MsgHandshake, MsgPortAssign, MsgHeartbeat, MsgHeartbeatACK, MsgClose, Byte

LEMMA Contents ==
  /\ \A t \in Tokens \union IPs \union Messages : t \in Seq(Byte) /\ Len(t) \in Nat
  /\ \A n \in Numbers : n \in Nat /\ n < Word /\ n % Word = n
<1>1. \A n \in Numbers : n \in Nat /\ n < Word
  BY ContentsAreBytes, BaseFacts
<1>2. \A n \in Nat : n < Word => n % Word = n
  BY BaseFacts
<1>3. \A t \in Tokens \union IPs \union Messages : t \in Seq(Byte)
  BY ContentsAreBytes
<1> QED
  BY <1>1, <1>2, <1>3

(* A part s of a sequence, behind u and before t.                          *)
LEMMA Middle ==
  ASSUME NEW u \in Seq(Byte), NEW s \in Seq(Byte), NEW t \in Seq(Byte)
  PROVE  /\ u \o s \o t \in Seq(Byte) /\ Len(u \o s \o t) = Len(u) + Len(s) + Len(t)
         /\ \A k \in 1..Len(s) : (u \o s \o t)[Len(u) + k] = s[k]
         /\ SubSeq(u \o s \o t, Len(u) + 1, Len(u) + Len(s)) = s
<1> DEFINE x == u \o s
           y == x \o t
           z == SubSeq(y, Len(u) + 1, Len(u) + Len(s))
<1>1. /\ x \in Seq(Byte) /\ Len(x) = Len(u) + Len(s)
      /\ \A k \in 1..Len(s) : x[Len(u) + k] = s[k]
  BY Joined
<1> HIDE DEF x
<1>2. /\ y \in Seq(Byte) /\ Len(y) = Len(x) + Len(t)
      /\ \A k \in 1..Len(x) : y[k] = x[k]
  BY <1>1, Joined
<1>3. Len(u) \in Nat /\ Len(s) \in Nat /\ Len(t) \in Nat
  OBVIOUS
<1> HIDE DEF y
<1>4. \A k \in 1..Len(s) : y[Len(u) + k] = s[k]
  <2>1. \A k \in 1..Len(s) : Len(u) + k \in 1..Len(x)
    BY <1>1, <1>3
  <2> QED
    BY <2>1, <1>1, <1>2
<1>5. z \in Seq(Byte) /\ Len(z) = Len(s) /\ \A k \in 1..Len(s) : z[k] = y[Len(u) + k]
  BY <1>1, <1>2, <1>3
<1> HIDE DEF z
<1>6. z = s
  BY <1>4, <1>5
<1> QED
  BY <1>1, <1>2, <1>4, <1>6 DEF x, y, z

LEMMA MiddleNumber ==
  ASSUME NEW u \in Seq(Byte), NEW v \in Nat, NEW t \in Seq(Byte)
  PROVE  GetUint16(u \o PutUint16(v) \o t, Len(u) + 1) = v % Word
<1> DEFINE s == PutUint16(v)
           d == u \o s \o t
<1>1. s \in Seq(Byte) /\ Len(s) = 2 /\ GetUint16(s, 1) = v % Word
  BY Put16
<1> HIDE DEF s
<1>2. \A k \in 1..Len(s) : d[Len(u) + k] = s[k]
  BY <1>1, Middle
<1> HIDE DEF d
<1>3. d[Len(u) + 1] = s[1] /\ d[Len(u) + 1 + 1] = s[1 + 1]
  <2>1. Len(u) + 1 + 1 = Len(u) + 2 /\ 1 + 1 = 2
    OBVIOUS
  <2> QED
    BY <2>1, <1>1, <1>2
<1> QED
  BY <1>1, <1>3 DEF GetUint16, d, s

LEMMA Regroup ==
  ASSUME NEW a \in Seq(Byte), NEW b \in Seq(Byte), NEW c \in Seq(Byte)
  PROVE  (a \o b) \o c = a \o (b \o c)
OBVIOUS

LEMMA Empty ==
  ASSUME NEW a \in Seq(Byte)
  PROVE  <<>> \o a = a /\ a \o <<>> = a /\ <<>> \in Seq(Byte)
OBVIOUS

(* A sum of two numbers of 16 bits passes the 16 bits at most once.        *)
LEMMA WrapsOnce ==
  ASSUME NEW x \in Nat, Word <= x, x < Word + Word
  PROVE  Uint16(x) = x - Word
<1>1. x - Word \in 0..(Word - 1) /\ x = 1 * Word + (x - Word)
  BY BaseFacts
<1> QED
  BY <1>1, BaseFacts, Division DEF Uint16

LEMMA HandshakeCarried ==
  ASSUME NEW h \in [token : Tokens, port : Numbers]
  PROVE  /\ MarshalHandshake(h) \in Seq(Byte)
         /\ Len(MarshalHandshake(h)) = 4 + Len(h.token)
         /\ HandshakeFits(h) =>
              UnmarshalHandshake(MarshalHandshake(h)) =
                [ok |-> TRUE, token |-> h.token, port |-> h.port]
         /\ Len(h.token) < Word /\ ~HandshakeFits(h) =>
              ~UnmarshalHandshake(MarshalHandshake(h)).ok
<1> DEFINE len == Len(h.token)
           n == PutUint16(len)
           t == h.token
           q == PutUint16(h.port)
           d == n \o t \o q
<1>1. t \in Seq(Byte) /\ len \in Nat /\ h.port % Word = h.port /\ h.port \in Nat /\ len = Len(t)
  BY Contents
<1>2. n \in Seq(Byte) /\ Len(n) = 2 /\ q \in Seq(Byte) /\ Len(q) = 2
  BY <1>1, Put16
<1>3. MarshalHandshake(h) = d
  BY DEF MarshalHandshake
<1>4. GetUint16(d, 1) = len % Word
  <2>1. d = <<>> \o n \o (t \o q) /\ t \o q \in Seq(Byte) /\ <<>> \in Seq(Byte)
    <3> HIDE DEF n, t, q, len
    <3>1. t \o q \in Seq(Byte) /\ <<>> \in Seq(Byte) /\ <<>> \o n = n
      BY <1>1, <1>2, Joined, Empty
    <3>2. (n \o t) \o q = n \o (t \o q)
      BY <1>1, <1>2, Regroup
    <3> QED
      BY <3>1, <3>2
  <2>2. GetUint16(<<>> \o n \o (t \o q), Len(<<>>) + 1) = len % Word
    <3> HIDE DEF t, q
    <3> QED
      BY <1>1, <2>1, MiddleNumber
  <2> QED
    BY <2>1, <2>2
<1>5. GetUint16(d, 3 + len) = h.port % Word
  <2>1. d = n \o t \o q \o <<>> /\ n \o t \in Seq(Byte) /\ <<>> \in Seq(Byte)
    <3> HIDE DEF n, t, q
    <3>1. n \o t \in Seq(Byte) /\ n \o t \o q \in Seq(Byte)
      BY <1>1, <1>2, Joined
    <3> QED
      BY <3>1, Empty
  <2>2. Len(n \o t) = 2 + len
    <3> HIDE DEF n, t, q, len
    <3>1. Len(n \o t) = Len(n) + Len(t)
      BY <1>1, <1>2, Joined
    <3> QED
      BY <3>1, <1>1, <1>2
  <2>3. GetUint16(n \o t \o q \o <<>>, Len(n \o t) + 1) = h.port % Word
    <3> HIDE DEF n, t
    <3> QED
      BY <1>1, <2>1, MiddleNumber
  <2>4. 2 + len + 1 = 3 + len
    BY <1>1
  <2> HIDE DEF d
  <2> QED
    BY <2>1, <2>2, <2>3, <2>4
<1> HIDE DEF n, t, q, len
<1>6. d \in Seq(Byte) /\ Len(d) = 4 + len /\ SubSeq(d, 3, 2 + len) = t
  <2>1. /\ d \in Seq(Byte) /\ Len(d) = Len(n) + Len(t) + Len(q)
        /\ SubSeq(d, Len(n) + 1, Len(n) + Len(t)) = t
    BY <1>1, <1>2, Middle
  <2> HIDE DEF d
  <2> QED
    BY <2>1, <1>1, <1>2
<1> HIDE DEF d
<1>7. ASSUME 2 + len < Word
      PROVE  UnmarshalHandshake(d) = [ok |-> TRUE, token |-> t, port |-> h.port]
  <2>1. len % Word = len /\ h.port % Word = h.port /\ (2 + len) % Word = 2 + len
    <3>1. \A x \in Nat : x < Word => x % Word = x
      BY BaseFacts
    <3>2. 2 + len \in Nat /\ len < Word
      BY <1>1, <1>7, BaseFacts
    <3> QED
      BY <3>1, <3>2, <1>1, <1>7
  <2>2. /\ ~(Len(d) < 4) /\ Uint16(2 + len) = 2 + len /\ 2 + len + 1 = 3 + len
        /\ ~(2 + len < 2) /\ ~(Len(d) < 2 + len + 2)
    BY <1>1, <1>6, <2>1 DEF Uint16
  <2>3. ~(Len(d) < Uint16(2 + len + 2))
    <3>1. \A x \in Nat : x % Word <= x
      BY BaseFacts
    <3>2. 2 + len + 2 \in Nat /\ 2 + len + 2 = Len(d)
      BY <1>1, <1>6
    <3>3. \A x \in Nat : x % Word \in Nat
      BY BaseFacts
    <3>4. Uint16(2 + len + 2) <= Len(d) /\ Uint16(2 + len + 2) \in Nat /\ Len(d) \in Nat
      BY <3>1, <3>2, <3>3 DEF Uint16
    <3> QED
      BY <3>4
  <2> QED
    BY <2>1, <2>2, <2>3, <1>4, <1>5, <1>6 DEF UnmarshalHandshake
<1>8. ASSUME len < Word, ~(2 + len < Word)
      PROVE  ~UnmarshalHandshake(d).ok
  <2>1. 2 + len \in Nat /\ Word <= 2 + len /\ 2 + len < Word + Word /\ (2 + len) - Word < 2
    BY <1>1, <1>8, BaseFacts
  <2>2. Uint16(2 + len) = (2 + len) - Word
    BY <2>1, WrapsOnce
  <2>3. len % Word = len
    BY <1>1, <1>8, BaseFacts, Quotients
  <2>4. GetUint16(d, 1) = len
    BY <1>4, <2>3
  <2>5. UnmarshalHandshake(d) \in {Failed, Panicked}
    BY <2>1, <2>2, <2>4 DEF UnmarshalHandshake
  <2> QED
    BY <2>5 DEF Failed, Panicked
<1> QED
  BY <1>1, <1>3, <1>6, <1>7, <1>8 DEF HandshakeFits, t, len

LEMMA AssignmentCarried ==
  ASSUME NEW a \in Assignments
  PROVE  /\ MarshalAssignment(a) \in Seq(Byte)
         /\ Len(MarshalAssignment(a)) = 7 + Len(a.ip) + Len(a.message)
         /\ AssignmentFits(a) =>
              UnmarshalAssignment(MarshalAssignment(a)) =
                [ok |-> TRUE, port |-> a.port, success |-> a.success,
                 ip |-> a.ip, message |-> a.message]
         /\ Len(a.ip) + 7 < Word /\ Len(a.message) < Word /\ ~AssignmentFits(a) =>
              ~UnmarshalAssignment(MarshalAssignment(a)).ok
<1> DEFINE ipLen == Len(a.ip)
           msgLen == Len(a.message)
           flag == IF a.success THEN 1 ELSE 0
           p == PutUint16(a.port)
           f == <<flag>>
           n == PutUint16(ipLen)
           ip == a.ip
           k == PutUint16(msgLen)
           m == a.message
           pf == p \o f
           pfn == pf \o n
           ipTo == pfn \o ip
           msgFrom == k \o m
           d == ((pfn \o ip) \o k) \o m
<1>1. /\ ip \in Seq(Byte) /\ ipLen \in Nat /\ ipLen = Len(ip)
      /\ m \in Seq(Byte) /\ msgLen \in Nat /\ msgLen = Len(m)
      /\ a.port \in Nat /\ a.port % Word = a.port
      /\ flag \in Byte /\ (flag = 1 <=> a.success) /\ a.success \in BOOLEAN
  <2>1. a.ip \in IPs /\ a.message \in Messages /\ a.port \in Numbers /\ a.success \in BOOLEAN
    BY DEF Assignments
  <2>2. flag \in Byte /\ (flag = 1 <=> a.success)
    BY BaseFacts DEF Byte
  <2> HIDE DEF flag
  <2> QED
    BY <2>1, <2>2, Contents
<1>2. /\ p \in Seq(Byte) /\ Len(p) = 2 /\ n \in Seq(Byte) /\ Len(n) = 2
      /\ k \in Seq(Byte) /\ Len(k) = 2 /\ f \in Seq(Byte) /\ Len(f) = 1 /\ f[1] = flag
  BY <1>1, Put16
<1>3. MarshalAssignment(a) = d
  BY DEF MarshalAssignment
<1>4. p = PutUint16(a.port) /\ n = PutUint16(ipLen) /\ k = PutUint16(msgLen)
  OBVIOUS
<1> HIDE DEF p, f, n, ip, k, m, flag, ipLen, msgLen
<1>5. pf \in Seq(Byte) /\ Len(pf) = 3
  <2>1. pf \in Seq(Byte) /\ Len(pf) = Len(p) + Len(f)
    BY <1>2, Joined
  <2> QED
    BY <2>1, <1>2
<1>6. pfn \in Seq(Byte) /\ Len(pfn) = 5
  <2> HIDE DEF pf
  <2>1. pfn \in Seq(Byte) /\ Len(pfn) = Len(pf) + Len(n)
    BY <1>2, <1>5, Joined
  <2> QED
    BY <2>1, <1>2, <1>5
<1>7. ipTo \in Seq(Byte) /\ Len(ipTo) = 5 + ipLen
  <2> HIDE DEF pfn
  <2>1. ipTo \in Seq(Byte) /\ Len(ipTo) = Len(pfn) + Len(ip)
    BY <1>1, <1>6, Joined
  <2> QED
    BY <2>1, <1>1, <1>6
<1> DEFINE r == ip \o msgFrom
           nr == n \o r
<1>8. msgFrom \in Seq(Byte) /\ r \in Seq(Byte) /\ nr \in Seq(Byte)
  <2>1. msgFrom \in Seq(Byte)
    BY <1>1, <1>2, Joined
  <2> HIDE DEF msgFrom
  <2>2. r \in Seq(Byte)
    BY <2>1, <1>1, Joined
  <2> HIDE DEF r
  <2> QED
    BY <2>1, <2>2, <1>2, Joined
<1>9. d = pfn \o ip \o msgFrom /\ d = pf \o n \o r
  <2>1. d = (pfn \o ip) \o (k \o m)
    <3> DEFINE x == pfn \o ip
    <3>1. x \in Seq(Byte)
      BY <1>7
    <3> HIDE DEF x
    <3>2. (x \o k) \o m = x \o (k \o m)
      BY ZenonT(30), <3>1, <1>1, <1>2, Regroup
    <3> QED
      BY <3>2 DEF x
  <2>2. (pfn \o ip) \o msgFrom = pfn \o (ip \o msgFrom)
    <3> HIDE DEF pfn, msgFrom, r
    <3> QED
      BY <1>1, <1>6, <1>8, Regroup
  <2> QED
    BY <2>1, <2>2
<1>10. d = <<>> \o p \o (f \o nr) /\ d = p \o f \o nr /\ f \o nr \in Seq(Byte)
  <2>1. (pf \o n) \o r = pf \o nr
    <3>1. (pf \o n) \o r = pf \o (n \o r)
      <4> HIDE DEF pf, r
      <4>1. pf \in Seq(Byte) /\ n \in Seq(Byte) /\ r \in Seq(Byte)
        BY <1>2, <1>5, <1>8
      <4> QED
        BY <4>1, Regroup
    <3> QED
      BY <3>1
  <2> HIDE DEF nr, d
  <2>2. (p \o f) \o nr = p \o (f \o nr)
    <3>1. p \in Seq(Byte) /\ f \in Seq(Byte) /\ nr \in Seq(Byte)
      BY <1>2, <1>8
    <3> QED
      BY <3>1, Regroup
  <2>3. f \o nr \in Seq(Byte) /\ <<>> \o p = p
    BY <1>2, <1>8, Joined, Empty
  <2> QED
    BY <1>9, <2>1, <2>2, <2>3
<1>11. d = ipTo \o k \o m
  OBVIOUS
<1>12. /\ d \in Seq(Byte) /\ Len(d) = 7 + ipLen + msgLen
       /\ SubSeq(d, 8 + ipLen, 7 + ipLen + msgLen) = m
  <2> DEFINE x == ipTo \o k
  <2> HIDE DEF ipTo
  <2>1. x \in Seq(Byte) /\ Len(x) = Len(ipTo) + Len(k)
    BY <1>2, <1>7, Joined
  <2> HIDE DEF x
  <2>2. x \o m \in Seq(Byte)
    BY <2>1, <1>1, Joined
  <2>6. x \o m \o <<>> = x \o m /\ <<>> \in Seq(Byte)
    BY <2>2, Empty
  <2>3. /\ Len(x \o m \o <<>>) = Len(x) + Len(m) + Len(<<>>)
        /\ SubSeq(x \o m \o <<>>, Len(x) + 1, Len(x) + Len(m)) = m
    <3>1. x \in Seq(Byte) /\ m \in Seq(Byte) /\ <<>> \in Seq(Byte)
      BY <2>1, <2>6, <1>1
    <3> QED
      BY <3>1, Middle
  <2>4. d = x \o m
    BY <1>11 DEF x
  <2>5. Len(x) = 7 + ipLen /\ Len(<<>>) = 0
    BY <2>1, <1>1, <1>2, <1>7
  <2> HIDE DEF d
  <2> QED
    BY <2>2, <2>3, <2>4, <2>5, <2>6, <1>1
<1>13. SubSeq(d, 6, 5 + ipLen) = ip
  <2> HIDE DEF pfn, msgFrom
  <2>1. SubSeq(pfn \o ip \o msgFrom, Len(pfn) + 1, Len(pfn) + Len(ip)) = ip
    <3>1. pfn \in Seq(Byte) /\ ip \in Seq(Byte) /\ msgFrom \in Seq(Byte)
      BY <1>1, <1>6, <1>8
    <3> QED
      BY <3>1, Middle
  <2> HIDE DEF d
  <2>2. Len(pfn) + 1 = 6 /\ Len(pfn) + Len(ip) = 5 + ipLen
    BY <1>1, <1>6
  <2> QED
    BY <2>1, <2>2, <1>9
<1>14. d[3] = flag
  <2> HIDE DEF nr, d
  <2>1. \A j \in 1..Len(f) : (p \o f \o nr)[Len(p) + j] = f[j]
    <3>1. p \in Seq(Byte) /\ f \in Seq(Byte) /\ nr \in Seq(Byte)
      BY <1>2, <1>8
    <3> QED
      BY <3>1, Middle
  <2>2. 1 \in 1..Len(f) /\ Len(p) + 1 = 3
    BY <1>2
  <2> QED
    BY <2>1, <2>2, <1>2, <1>10
<1>15. GetUint16(d, 1) = a.port
  <2> DEFINE t == f \o nr
  <2>1. t \in Seq(Byte) /\ d = <<>> \o p \o t /\ <<>> \in Seq(Byte)
    BY <1>10
  <2> HIDE DEF t, d
  <2>2. GetUint16(<<>> \o PutUint16(a.port) \o t, Len(<<>>) + 1) = a.port % Word
    BY <2>1, <1>1, MiddleNumber
  <2> QED
    BY <2>1, <2>2, <1>1, <1>4
<1>16. GetUint16(d, 4) = ipLen % Word
  <2>1. r \in Seq(Byte) /\ d = pf \o n \o r
    BY <1>8, <1>9
  <2> HIDE DEF r, d, pf
  <2>2. GetUint16(pf \o PutUint16(ipLen) \o r, Len(pf) + 1) = ipLen % Word
    BY <2>1, <1>1, <1>5, MiddleNumber
  <2> QED
    BY <2>1, <2>2, <1>4, <1>5
<1>17. GetUint16(d, 6 + ipLen) = msgLen % Word
  <2> HIDE DEF d, ipTo
  <2>1. GetUint16(ipTo \o PutUint16(msgLen) \o m, Len(ipTo) + 1) = msgLen % Word
    BY <1>1, <1>7, MiddleNumber
  <2>2. Len(ipTo) + 1 = 6 + ipLen
    BY <1>1, <1>7
  <2> QED
    BY <2>1, <2>2, <1>4, <1>11
<1> HIDE DEF d
<1>18. ASSUME 5 + ipLen + 2 + msgLen < Word
       PROVE  UnmarshalAssignment(d) = [ok |-> TRUE, port |-> a.port, success |-> d[3] = 1,
                                        ip |-> ip, message |-> m]
  <2>1. \A x \in Nat : x < Word => x % Word = x
    BY BaseFacts
  <2>2. /\ 5 + ipLen \in Nat /\ 5 + ipLen < Word /\ ipLen < Word /\ msgLen < Word
        /\ 5 + ipLen + 2 \in Nat /\ 5 + ipLen + 2 < Word
        /\ 5 + ipLen + 2 + msgLen \in Nat
        /\ 5 + ipLen + 2 + msgLen = 7 + ipLen + msgLen
        /\ 5 + ipLen + 1 = 6 + ipLen /\ 5 + ipLen + 3 = 8 + ipLen
    <3>1. ipLen \in Nat /\ msgLen \in Nat /\ Word \in Nat
      BY <1>1, BaseFacts
    <3> QED
      BY <3>1, <1>18
  <2>3. /\ ipLen % Word = ipLen /\ msgLen % Word = msgLen /\ Uint16(5 + ipLen) = 5 + ipLen
        /\ Uint16(5 + ipLen + 2) = 5 + ipLen + 2
        /\ Uint16(5 + ipLen + 2 + msgLen) = 7 + ipLen + msgLen
        /\ 5 + ipLen + 2 + 1 = 8 + ipLen
    BY <2>1, <2>2, <1>1, <1>18 DEF Uint16
  <2>4. /\ ~(Len(d) < 5) /\ ~(Len(d) < 5 + ipLen + 2) /\ ~(Len(d) < 7 + ipLen + msgLen)
        /\ ~(5 + ipLen < 5) /\ ~(7 + ipLen + msgLen < 5 + ipLen + 2)
    BY <1>1, <1>12
  <2> QED
    BY <2>2, <2>3, <2>4, <1>12, <1>13, <1>15, <1>16, <1>17 DEF UnmarshalAssignment
<1>19. (d[3] = 1) = a.success
  BY <1>1, <1>14
<1>20. ASSUME ipLen + 7 < Word, msgLen < Word, ~(5 + ipLen + 2 + msgLen < Word)
       PROVE  ~UnmarshalAssignment(d).ok
  <2> DEFINE sum == 5 + ipLen + 2 + msgLen
  <2>1. /\ sum \in Nat /\ Word <= sum /\ sum < Word + Word /\ sum - Word < 5 + ipLen + 2
        /\ 5 + ipLen \in Nat /\ 5 + ipLen < Word /\ ipLen < Word
        /\ 5 + ipLen + 2 \in Nat /\ 5 + ipLen + 2 < Word /\ 5 + ipLen + 1 = 6 + ipLen
    <3>1. ipLen \in Nat /\ msgLen \in Nat /\ Word \in Nat
      BY <1>1, BaseFacts
    <3> QED
      BY <3>1, <1>20
  <2>2. Uint16(sum) = sum - Word
    <3> HIDE DEF sum
    <3> QED
      BY <2>1, WrapsOnce
  <2>3. \A x \in Nat : x < Word => x % Word = x
    BY BaseFacts
  <2>4. /\ ipLen % Word = ipLen /\ msgLen % Word = msgLen /\ Uint16(5 + ipLen) = 5 + ipLen
        /\ Uint16(5 + ipLen + 2) = 5 + ipLen + 2
    BY <2>1, <2>3, <1>1, <1>20 DEF Uint16
  <2>5. UnmarshalAssignment(d) \in {Failed, Panicked}
    BY <2>1, <2>2, <2>4, <1>16, <1>17 DEF UnmarshalAssignment
  <2> QED
    BY <2>5 DEF Failed, Panicked
<1>21. AssignmentFits(a) =>
         UnmarshalAssignment(d) = [ok |-> TRUE, port |-> a.port, success |-> a.success,
                                   ip |-> ip, message |-> m]
  BY <1>18, <1>19 DEF AssignmentFits, ipLen, msgLen
<1>22. Len(a.ip) + 7 < Word /\ Len(a.message) < Word /\ ~AssignmentFits(a) =>
         ~UnmarshalAssignment(d).ok
  BY <1>20 DEF AssignmentFits, ipLen, msgLen
<1> QED
  BY <1>3, <1>12, <1>21, <1>22 DEF ip, m, ipLen, msgLen

LEMMA FrameOfMessage ==
  ASSUME NEW m \in Message
  PROVE  FrameOf(m) \in Frame
<1>1. ASSUME m \in FirstToServer PROVE Payload(m) \in Seq(Byte) /\ Len(Payload(m)) <= MaxFrame
  <2>1. m.type = MsgHandshake /\ m.body \in [token : Tokens, port : Numbers]
    BY <1>1 DEF FirstToServer
  <2>2. Payload(m) = MarshalHandshake(m.body)
    BY <2>1, Types DEF Payload
  <2>3. m.body.token \in Tokens
    BY <2>1
  <2>4. Len(m.body.token) + 4 <= MaxFrame /\ Len(m.body.token) \in Nat
    BY <2>3, MessagesFitFrames, Contents
  <2>5. MarshalHandshake(m.body) \in Seq(Byte)
        /\ Len(MarshalHandshake(m.body)) = 4 + Len(m.body.token)
    BY <2>1, HandshakeCarried
  <2> QED
    BY <2>2, <2>4, <2>5, MaxFrameIsNat
<1>2. ASSUME m \in FirstToClient PROVE Payload(m) \in Seq(Byte) /\ Len(Payload(m)) <= MaxFrame
  <2>1. m.type = MsgPortAssign /\ m.body \in Assignments
    BY <1>2 DEF FirstToClient
  <2>2. Payload(m) = MarshalAssignment(m.body)
    BY <2>1, Types DEF Payload
  <2>3. m.body.ip \in IPs /\ m.body.message \in Messages
    BY <2>1 DEF Assignments
  <2>4. /\ Len(m.body.ip) + Len(m.body.message) + 7 <= MaxFrame
        /\ Len(m.body.ip) \in Nat /\ Len(m.body.message) \in Nat
    BY <2>3, MessagesFitFrames, Contents
  <2>5. MarshalAssignment(m.body) \in Seq(Byte)
        /\ Len(MarshalAssignment(m.body)) = 7 + Len(m.body.ip) + Len(m.body.message)
    BY <2>1, AssignmentCarried
  <2>6. \A x, y \in Nat : x + y + 7 <= MaxFrame => 7 + x + y <= MaxFrame
    BY MaxFrameIsNat
  <2>7. 7 + Len(m.body.ip) + Len(m.body.message) <= MaxFrame
    BY <2>4, <2>6
  <2> QED
    BY <2>2, <2>5, <2>7
<1>3. ASSUME NEW t \in {MsgHeartbeat, MsgHeartbeatACK, MsgClose}, m = Bare(t)
      PROVE  Payload(m) = <<>> /\ m.type \in 1..5
  <2>1. m.type = t /\ t \in 3..5
    BY <1>3, Types DEF Bare
  <2> QED
    BY <2>1, Types DEF Payload
<1>4. <<>> \in Seq(Byte) /\ Len(<<>>) <= MaxFrame
  BY MaxFrameIsNat
<1>5. m \in FirstToServer \/ m \in FirstToClient => m.type \in 1..5
  BY Types DEF FirstToServer, FirstToClient
<1>6. Payload(m) \in Seq(Byte) /\ Len(Payload(m)) <= MaxFrame /\ m.type \in Byte
  <2>1. m.type \in 1..5 => m.type \in Byte
    BY Types
  <2> QED
    BY <1>1, <1>2, <1>3, <1>4, <1>5, <2>1 DEF Message
<1> QED
  BY <1>6 DEF FrameOf, Frame

LEMMA ControlInit == Init => ControlInv
<1> SUFFICES ASSUME Init PROVE ControlInv
    OBVIOUS
<1> DEFINE at == [k \in 1..1 |-> 1]
<1>1. Layout(<<>>, <<>>, at)
  BY DEF Layout
<1>2. Written = <<>> /\ sent = <<>> /\ wire = <<>>
  BY DEF Init, Written
<1> QED
  BY <1>1, <1>2 DEF ControlInv

LEMMA FrameSent ==
  ASSUME ControlInv, Control, NEW m \in Message, SendFrame(m),
         sent = <<>> => (kind = "toServer" => m \in FirstToServer)
                          /\ (kind = "toClient" => m \in FirstToClient)
  PROVE  ControlInv'
<1> DEFINE f == FrameOf(m)
<1>1. sent \in Seq(Message) /\ wire \in Seq(Byte)
  BY DEF ControlInv
<1>2. PICK at : Layout(wire, Written, at)
  BY DEF ControlInv
<1>3. Written \in Seq(Frame) /\ f \in Frame
  BY <1>1, FrameOfMessage DEF Written
<1>4. sent' = Append(sent, m) /\ wire' = wire \o WriteFrame(m.type, Payload(m)) /\ kind' = kind
  BY DEF SendFrame, Send
<1>5. f.type = m.type /\ f.payload = Payload(m)
  BY DEF FrameOf
<1>6. Written' = Append(Written, f)
  <2>1. Len(sent') = Len(sent) + 1 /\ Len(sent) \in Nat /\ sent'[Len(sent) + 1] = m
        /\ \A k \in 1..Len(sent) : sent'[k] = sent[k]
    BY <1>1, <1>4
  <2>2. Written' = [k \in 1..(Len(sent) + 1) |-> FrameOf(sent'[k])]
    BY <2>1 DEF Written, FrameOf, Payload
  <2>3. /\ Append(Written, f) \in Seq(Frame) /\ Len(Append(Written, f)) = Len(sent) + 1
        /\ Append(Written, f)[Len(sent) + 1] = f
        /\ \A k \in 1..Len(sent) : Append(Written, f)[k] = FrameOf(sent[k])
    <3>1. Len(Written) = Len(sent) /\ \A k \in 1..Len(sent) : Written[k] = FrameOf(sent[k])
      BY <2>1 DEF Written
    <3> HIDE DEF f
    <3> QED
      BY <3>1, <2>1, <1>3
  <2>4. \A k \in 1..(Len(sent) + 1) : FrameOf(sent'[k]) = Append(Written, f)[k]
    <3>1. \A k \in 1..(Len(sent) + 1) : k \in 1..Len(sent) \/ k = Len(sent) + 1
      BY <2>1
    <3> QED
      BY <3>1, <2>1, <2>3
  <2> DEFINE ws == Append(Written, f)
  <2>5. ws = [k \in 1..(Len(sent) + 1) |-> ws[k]]
    <3>1. ws \in Seq(Frame) /\ Len(ws) = Len(sent) + 1
      BY <2>3
    <3> HIDE DEF ws
    <3> QED
      BY <3>1
  <2> HIDE DEF ws
  <2>6. [k \in 1..(Len(sent) + 1) |-> FrameOf(sent'[k])] = [k \in 1..(Len(sent) + 1) |-> ws[k]]
    BY <2>4 DEF ws
  <2> QED
    BY <2>2, <2>5, <2>6 DEF ws
<1>7. /\ wire \o WriteFrame(f.type, f.payload) \in Seq(Byte)
      /\ \E b : Layout(wire \o WriteFrame(f.type, f.payload), Append(Written, f), b)
  <2> HIDE DEF f
  <2> QED
    BY <1>1, <1>2, <1>3, LayoutAppend
<1> HIDE DEF f
<1>8. wire' \in Seq(Byte) /\ \E b : Layout(wire', Written', b)
  BY <1>4, <1>5, <1>6, <1>7
<1>9. sent' \in Seq(Message)
  BY <1>1, <1>4
<1>10. /\ kind = "toServer" => sent'[1] \in FirstToServer
       /\ kind = "toClient" => sent'[1] \in FirstToClient
  <2>1. CASE sent = <<>>
    BY <2>1, <1>4
  <2>2. CASE sent # <<>>
    <3>1. sent'[1] = sent[1]
      BY <2>2, <1>1, <1>4
    <3> QED
      BY <2>2, <3>1 DEF ControlInv
  <2> QED
    BY <2>1, <2>2
<1> QED
  BY <1>4, <1>8, <1>9, <1>10 DEF ControlInv

LEMMA ControlStep == ControlInv /\ [Next]_vars => ControlInv'
<1> SUFFICES ASSUME ControlInv, [Next]_vars PROVE ControlInv'
    OBVIOUS
<1>1. CASE ClientFrame
  <2>1. kind = "toServer"
    BY <1>1 DEF ClientFrame
  <2>2. CASE sent = <<>> /\ \E h \in [token : Tokens, port : Numbers] :
                 SendFrame([type |-> MsgHandshake, body |-> h])
    <3>1. PICK h \in [token : Tokens, port : Numbers] :
            SendFrame([type |-> MsgHandshake, body |-> h])
      BY <2>2
    <3>2. [type |-> MsgHandshake, body |-> h] \in FirstToServer
      BY DEF FirstToServer
    <3> QED
      BY <2>1, <3>1, <3>2, FrameSent DEF Control, Message
  <2>3. CASE sent # <<>> /\ \E t \in {MsgHeartbeat, MsgClose} : SendFrame(Bare(t))
    <3>1. PICK t \in {MsgHeartbeat, MsgClose} : SendFrame(Bare(t))
      BY <2>3
    <3>2. Bare(t) \in Message
      BY DEF Message
    <3> QED
      BY <2>1, <2>3, <3>1, <3>2, FrameSent DEF Control
  <2> QED
    BY <1>1, <2>2, <2>3 DEF ClientFrame
<1>2. CASE ServerFrame
  <2>1. kind = "toClient"
    BY <1>2 DEF ServerFrame
  <2>2. CASE sent = <<>> /\ \E a \in Assignments :
                 SendFrame([type |-> MsgPortAssign, body |-> a])
    <3>1. PICK a \in Assignments : SendFrame([type |-> MsgPortAssign, body |-> a])
      BY <2>2
    <3>2. [type |-> MsgPortAssign, body |-> a] \in FirstToClient
      BY DEF FirstToClient
    <3> QED
      BY <2>1, <3>1, <3>2, FrameSent DEF Control, Message
  <2>3. CASE sent # <<>> /\ SendFrame(Bare(MsgHeartbeatACK))
    <3>1. Bare(MsgHeartbeatACK) \in Message
      BY DEF Message
    <3> QED
      BY <2>1, <2>3, <3>1, FrameSent DEF Control
  <2> QED
    BY <1>2, <2>2, <2>3 DEF ServerFrame, Assignments
<1>3. CASE PlayerPacket \/ MoreBytes \/ Refuse
  <2>1. ~Control'
    BY <1>3 DEF PlayerPacket, MoreBytes, Refuse, Send, Control
  <2> QED
    BY <2>1 DEF ControlInv
<1>4. CASE UNCHANGED vars
  BY <1>4 DEF vars, ControlInv, Control, Written, FrameOf, Payload
<1> QED
  BY <1>1, <1>2, <1>3, <1>4 DEF Next

LEMMA ControlAlways == Spec => []ControlInv
BY ControlInit, ControlStep, PTL DEF Spec

(* Wherever a control stream is cut, its reader finds the messages that    *)
(* were written, in order, the last of them perhaps not yet there:         *)
(* ReadFrame of WriteFrame's bytes, for every content of the messages.     *)
THEOREM EveryFrameArrives == Spec => []FramesArrive
<1>1. ControlInv => FramesArrive
  <2> SUFFICES ASSUME ControlInv, Control PROVE FramesArrive
      BY DEF FramesArrive, Control
  <2>1. sent \in Seq(Message) /\ wire \in Seq(Byte)
    BY DEF ControlInv
  <2>2. PICK at : Layout(wire, Written, at)
    BY DEF ControlInv
  <2>3. Written \in Seq(Frame) /\ Len(Written) = Len(sent)
    BY <2>1, FrameOfMessage DEF Written
  <2>4. \A n \in 0..Len(wire) : \E m \in 0..Len(Written) :
          /\ Frames(SubSeq(wire, 1, n)) = SubSeq(Written, 1, m)
          /\ n = Len(wire) => m = Len(Written)
    BY <2>1, <2>2, <2>3, LayoutRead
  <2>5. SubSeq(wire, 1, Len(wire)) = wire /\ Len(wire) \in 0..Len(wire)
        /\ SubSeq(Written, 1, Len(Written)) = Written
    BY <2>1, <2>3
  <2>6. Frames(wire) = Written
    BY <2>4, <2>5
  <2>7. ASSUME NEW n \in 0..Len(wire)
        PROVE  LET got == Frames(SubSeq(wire, 1, n))
               IN  Len(got) <= Len(Written) /\ got = SubSeq(Written, 1, Len(got))
    <3>1. PICK m \in 0..Len(Written) : Frames(SubSeq(wire, 1, n)) = SubSeq(Written, 1, m)
      BY <2>4
    <3>2. Len(SubSeq(Written, 1, m)) = m /\ m <= Len(Written)
      BY <2>3
    <3> QED
      BY <3>1, <3>2
  <2>8. Written = [k \in 1..Len(sent) |-> [type |-> sent[k].type, payload |-> Payload(sent[k])]]
    BY DEF Written, FrameOf
  <2> QED
    BY <2>6, <2>7, <2>8 DEF FramesArrive
<1> QED
  BY <1>1, ControlAlways, PTL

(* The token and the port of a client, and the port, the address and the   *)
(* message of its answer, are unmarshalled as they were marshalled where   *)
(* their length sums fit in 16 bits, and never as anything else where only *)
(* the lengths do.                                                         *)
THEOREM EveryPayloadCarried == Spec => []PayloadsCarried
<1>1. ControlInv => PayloadsCarried
  <2> SUFFICES ASSUME ControlInv, Control, sent # <<>> PROVE PayloadsCarried
      BY DEF PayloadsCarried, Control
  <2>1. sent \in Seq(Message) /\ wire \in Seq(Byte) /\ 1 \in 1..Len(sent)
    BY DEF ControlInv
  <2>2. Frames(wire)[1].payload = Payload(sent[1])
    <3>1. PICK at : Layout(wire, Written, at)
      BY DEF ControlInv
    <3>2. Written \in Seq(Frame) /\ Len(Written) = Len(sent)
      BY <2>1, FrameOfMessage DEF Written
    <3>3. Len(wire) \in 0..Len(wire) /\ SubSeq(wire, 1, Len(wire)) = wire
          /\ SubSeq(Written, 1, Len(Written)) = Written
      BY <2>1, <3>2
    <3>4. Frames(wire) = Written
      BY <2>1, <3>1, <3>2, <3>3, LayoutRead
    <3> QED
      BY <3>4, <2>1 DEF Written, FrameOf
  <2>3. CASE kind = "toServer"
    <3>1. sent[1] \in FirstToServer
      BY <2>3 DEF ControlInv
    <3>2. Payload(sent[1]) = MarshalHandshake(sent[1].body)
          /\ sent[1].body \in [token : Tokens, port : Numbers]
      BY <3>1, Types DEF Payload, FirstToServer
    <3> DEFINE h == sent[1].body
               d == UnmarshalHandshake(Frames(wire)[1].payload)
    <3>3. h \in [token : Tokens, port : Numbers] /\ d = UnmarshalHandshake(MarshalHandshake(h))
      BY <2>2, <3>2
    <3> HIDE DEF h, d
    <3>4. /\ HandshakeFits(h) => d.ok
          /\ Len(h.token) < Word /\ d.ok => [token |-> d.token, port |-> d.port] = h
      <4>1. /\ HandshakeFits(h) => d = [ok |-> TRUE, token |-> h.token, port |-> h.port]
            /\ Len(h.token) < Word /\ ~HandshakeFits(h) => ~d.ok
        BY <3>3, HandshakeCarried
      <4>2. h = [token |-> h.token, port |-> h.port]
        BY <3>3
      <4> QED
        BY <4>1, <4>2
    <3> QED
      BY <2>3, <3>4 DEF PayloadsCarried, h, d
  <2>4. CASE kind = "toClient"
    <3>1. sent[1] \in FirstToClient
      BY <2>4 DEF ControlInv
    <3>2. Payload(sent[1]) = MarshalAssignment(sent[1].body) /\ sent[1].body \in Assignments
      BY <3>1, Types DEF Payload, FirstToClient
    <3> DEFINE b == sent[1].body
               d == UnmarshalAssignment(Frames(wire)[1].payload)
    <3>3. b \in Assignments /\ d = UnmarshalAssignment(MarshalAssignment(b))
      BY <2>2, <3>2
    <3> HIDE DEF b, d
    <3>4. /\ AssignmentFits(b) => d.ok
          /\ Len(b.ip) + 7 < Word /\ Len(b.message) < Word /\ d.ok =>
               [port |-> d.port, success |-> d.success, ip |-> d.ip, message |-> d.message] = b
      <4>1. /\ AssignmentFits(b) => d = [ok |-> TRUE, port |-> b.port, success |-> b.success,
                                         ip |-> b.ip, message |-> b.message]
            /\ Len(b.ip) + 7 < Word /\ Len(b.message) < Word /\ ~AssignmentFits(b) => ~d.ok
        BY <3>3, AssignmentCarried
      <4>2. b = [port |-> b.port, success |-> b.success, ip |-> b.ip, message |-> b.message]
        BY <3>3 DEF Assignments
      <4> QED
        BY <4>1, <4>2
    <3> QED
      BY <2>4, <3>4 DEF PayloadsCarried, b, d
  <2> QED
    BY <2>3, <2>4 DEF Control
<1> QED
  BY <1>1, ControlAlways, PTL

-----------------------------------------------------------------------------
(* VarInts                                                                 *)

LEMMA GroupFacts ==
  /\ Group \in Nat /\ Group > 1 /\ Base = 2 * Group /\ Byte \subseteq Nat
  /\ MaxGroups \in Nat /\ MaxPacket \in Nat /\ MaxPeek \in Nat /\ MaxAddr \in Nat
  /\ MaxName \in Nat /\ UUIDLen \in Nat \ {0}
BY GroupIsNat, LimitsAreNat, SameByte, BaseFacts DEF Byte

LEMMA VarIntUnfold ==
  /\ VarInt \in [Nat -> Seq(Byte)]
  /\ \A v \in Nat : /\ v < Group => VarInt[v] = <<v>>
                    /\ v >= Group => VarInt[v] = <<(v % Group) + Group>> \o VarInt[v \div Group]
<1> DEFINE V == Seq(Byte)
           rest(v) == v \div Group
           low(v) == (v % Group) + Group
           Body(g, v) == IF v < Group THEN <<v>> ELSE <<low(v)>> \o g[rest(v)]
           H == [g \in [Nat -> V] |-> [v \in Nat |-> Body(g, v)]]
           size == [v \in Nat |-> v]
<1>1. \A v \in Nat : /\ v < Group => v \in Byte
                     /\ ~(v < Group) => rest(v) \in Nat /\ rest(v) < v /\ low(v) \in Byte
  <2> SUFFICES ASSUME NEW v \in Nat
               PROVE  /\ v < Group => v \in Byte
                      /\ v >= Group => rest(v) \in Nat /\ rest(v) < v /\ low(v) \in Byte
      <3> HIDE DEF rest, low
      <3> QED
        BY GroupFacts
  <2>1. v % Group \in 0..(Group - 1) /\ rest(v) \in Nat /\ (v >= Group => rest(v) < v)
    BY GroupFacts, Quotients
  <2>2. \A x \in 0..(Group - 1) : x \in Byte /\ x + Group \in Byte
    BY GroupFacts DEF Byte
  <2>3. low(v) \in Byte
    BY <2>1, <2>2
  <2>4. v < Group => v \in Byte
    BY <2>2, GroupFacts
  <2> QED
    BY <2>1, <2>3, <2>4
<1>2. size \in [Nat -> Nat] /\ [v \in Nat |-> <<>>] \in [Nat -> V]
  OBVIOUS
<1> HIDE DEF rest, low
<1>3. \A g \in [Nat -> V], v \in Nat : Body(g, v) \in V
  <2> SUFFICES ASSUME NEW g \in [Nat -> V], NEW v \in Nat PROVE Body(g, v) \in V
      OBVIOUS
  <2>1. CASE v < Group
    BY <2>1, <1>1
  <2>2. CASE ~(v < Group)
    <3> DEFINE x == low(v)
               e == g[rest(v)]
    <3>1. x \in Byte /\ e \in V
      BY <2>2, <1>1
    <3> HIDE DEF x, e
    <3>2. <<x>> \o e \in V
      BY <3>1
    <3> QED
      BY <2>2, <3>2 DEF x, e
  <2> QED
    BY <2>1, <2>2
<1>4. H \in [[Nat -> V] -> [Nat -> V]]
  BY <1>3
<1>5. \A g, h \in [Nat -> V], v \in Nat :
        (\A y \in Nat : size[y] < size[v] => g[y] = h[y]) => H[g][v] = H[h][v]
  <2>1. ASSUME NEW g \in [Nat -> V], NEW h \in [Nat -> V], NEW v \in Nat,
               \A y \in Nat : size[y] < size[v] => g[y] = h[y]
        PROVE  H[g][v] = H[h][v]
    <3>1. \A y \in Nat : size[y] = y
      OBVIOUS
    <3>2. H[g][v] = Body(g, v) /\ H[h][v] = Body(h, v)
      <4> HIDE DEF Body
      <4> QED
        OBVIOUS
    <3> HIDE DEF H, size
    <3>3. CASE v < Group
      BY <3>2, <3>3
    <3>4. CASE ~(v < Group)
      <4>1. g[rest(v)] = h[rest(v)]
        BY <2>1, <3>1, <3>4, <1>1
      <4> QED
        BY <3>2, <3>4, <4>1
    <3> QED
      BY <3>3, <3>4
  <2> QED
    BY <2>1
<1>6. [Nat -> V] # {}
  BY <1>2
<1> HIDE DEF H, size, V, Body
<1>7. Grounded(Nat, V, size, H)
  BY <1>2, <1>4, <1>5, <1>6 DEF Grounded
<1>8. \E f \in [Nat -> V] : f = H[f]
  BY <1>7, Recursion
<1>9. \E f : f = [v \in Nat |-> Body(f, v)]
  <2>1. PICK f \in [Nat -> V] : f = H[f]
    BY <1>8
  <2>2. H[f] = [v \in Nat |-> Body(f, v)]
    BY DEF H
  <2> QED
    BY <2>1, <2>2
<1>10. VarInt = [v \in Nat |-> Body(VarInt, v)]
  BY <1>9 DEF VarInt, Body, rest, low
<1> DEFINE T == {v \in Nat : VarInt[v] \in V}
<1>11. \A v \in Nat : (\A m \in Nat : m < v => m \in T) => v \in T
  <2> SUFFICES ASSUME NEW v \in Nat, \A m \in Nat : m < v => VarInt[m] \in V
               PROVE  VarInt[v] \in V
      OBVIOUS
  <2> DEFINE g == [w \in Nat |-> IF w < v THEN VarInt[w] ELSE <<>>]
  <2>1. g \in [Nat -> V]
    BY DEF V
  <2>2. VarInt[v] = Body(VarInt, v)
    BY <1>10
  <2>3. Body(VarInt, v) = Body(g, v)
    BY <1>1 DEF Body
  <2> HIDE DEF g
  <2> QED
    BY <2>1, <2>2, <2>3, <1>3
<1> HIDE DEF T
<1>12. Nat \subseteq T
  BY <1>11, StrongInduction
<1>13. VarInt \in [Nat -> V]
  <2>1. \A v \in Nat : VarInt[v] \in V
    BY <1>12 DEF T
  <2>2. VarInt = [v \in Nat |-> VarInt[v]]
    BY <1>10
  <2> QED
    BY <2>1, <2>2
<1>14. \A v \in Nat : VarInt[v] = Body(VarInt, v)
  BY <1>10
<1> QED
  <2>1. \A v \in Nat : v >= Group => ~(v < Group)
    BY GroupFacts
  <2> QED
    BY <1>13, <1>14, <2>1 DEF V, Body, rest, low

(* What GroupsValue makes of the digits from each position on.             *)
GroupsFrom(d) ==
  LET from[k \in 1..(Len(d) + 1)] == IF k > Len(d) THEN 0 ELSE d[k] + Group * from[k + 1]
  IN  from

LEMMA GroupsUnfold ==
  ASSUME NEW d \in Seq(Nat)
  PROVE  /\ GroupsFrom(d)[1] = GroupsValue(d)
         /\ GroupsFrom(d)[Len(d) + 1] = 0
         /\ \A k \in 1..Len(d) : GroupsFrom(d)[k] = d[k] + Group * GroupsFrom(d)[k + 1]
<1> DEFINE S == 1..(Len(d) + 1)
           Body(g, k) == IF k > Len(d) THEN 0 ELSE d[k] + Group * g[k + 1]
           H == [g \in [S -> Nat] |-> [k \in S |-> Body(g, k)]]
           size == [k \in S |-> Len(d) + 1 - k]
           from[k \in 1..(Len(d) + 1)] == IF k > Len(d) THEN 0 ELSE d[k] + Group * from[k + 1]
<1>1. GroupsFrom(d) = from /\ GroupsValue(d) = from[1]
  BY DEF GroupsFrom, GroupsValue
<1>2. size \in [S -> Nat] /\ [k \in S |-> 0] \in [S -> Nat]
  OBVIOUS
<1>3. H \in [[S -> Nat] -> [S -> Nat]]
  <2> SUFFICES ASSUME NEW g \in [S -> Nat], NEW k \in S PROVE Body(g, k) \in Nat
      OBVIOUS
  <2>1. CASE k > Len(d)
    BY <2>1
  <2>2. CASE ~(k > Len(d))
    <3>1. d[k] \in Nat /\ k + 1 \in S
      BY <2>2
    <3>2. g[k + 1] \in Nat
      BY <3>1
    <3>3. \A x, y \in Nat : x + Group * y \in Nat
      BY GroupFacts
    <3> QED
      BY <2>2, <3>1, <3>2, <3>3
  <2> QED
    BY <2>1, <2>2
<1>4. \A g, h \in [S -> Nat], k \in S :
        (\A y \in S : size[y] < size[k] => g[y] = h[y]) => H[g][k] = H[h][k]
  <2> SUFFICES ASSUME NEW g \in [S -> Nat], NEW h \in [S -> Nat], NEW k \in S,
                      \A y \in S : size[y] < size[k] => g[y] = h[y]
               PROVE  Body(g, k) = Body(h, k)
      OBVIOUS
  <2>1. k <= Len(d) => k + 1 \in S /\ size[k + 1] < size[k]
    OBVIOUS
  <2> HIDE DEF size
  <2>2. k <= Len(d) => g[k + 1] = h[k + 1]
    BY <2>1
  <2> QED
    BY <2>2
<1>5. [S -> Nat] # {}
  BY <1>2
<1> HIDE DEF H, size, S, Body, from
<1>6. Grounded(S, Nat, size, H)
  BY <1>2, <1>3, <1>4, <1>5 DEF Grounded
<1>7. \E f \in [S -> Nat] : f = H[f]
  BY <1>6, Recursion
<1>8. \E f : f = [k \in S |-> Body(f, k)]
  <2>1. PICK f \in [S -> Nat] : f = H[f]
    BY <1>7
  <2>2. H[f] = [k \in S |-> Body(f, k)]
    BY DEF H
  <2> QED
    BY <2>1, <2>2
<1>9. from = [k \in S |-> Body(from, k)]
  BY <1>8 DEF from, Body, S
<1>10. \A k \in 1..(Len(d) + 1) : from[k] = Body(from, k)
  BY <1>9 DEF S
<1>11. \A k \in 1..(Len(d) + 1) :
         from[k] = IF k > Len(d) THEN 0 ELSE d[k] + Group * from[k + 1]
  BY <1>10 DEF Body
<1>12. from[Len(d) + 1] = 0
  <2>1. Len(d) + 1 \in 1..(Len(d) + 1) /\ Len(d) + 1 > Len(d)
    OBVIOUS
  <2> QED
    BY <2>1, <1>11
<1>13. \A k \in 1..Len(d) : from[k] = d[k] + Group * from[k + 1]
  <2>1. \A k \in 1..Len(d) : k \in 1..(Len(d) + 1) /\ ~(k > Len(d))
    OBVIOUS
  <2> QED
    BY <2>1, <1>11
<1> QED
  BY <1>1, <1>12, <1>13

LEMMA GroupsCons ==
  ASSUME NEW x \in Nat, NEW e \in Seq(Nat)
  PROVE  GroupsValue(<<x>> \o e) = x + Group * GroupsValue(e)
<1> DEFINE d == <<x>> \o e
           L == Len(e)
           T == {j \in Nat : \A k \in 1..(L + 1) :
                   k + j = L + 1 => GroupsFrom(d)[k + 1] = GroupsFrom(e)[k]}
<1>1. /\ d \in Seq(Nat) /\ Len(d) = L + 1 /\ L \in Nat /\ d[1] = x
      /\ \A k \in 1..L : d[k + 1] = e[k]
  OBVIOUS
<1> HIDE DEF d
<1>2. /\ GroupsFrom(d)[1] = GroupsValue(d) /\ GroupsFrom(d)[Len(d) + 1] = 0
      /\ \A k \in 1..Len(d) : GroupsFrom(d)[k] = d[k] + Group * GroupsFrom(d)[k + 1]
  BY <1>1, GroupsUnfold
<1>3. /\ GroupsFrom(e)[1] = GroupsValue(e) /\ GroupsFrom(e)[L + 1] = 0
      /\ \A k \in 1..L : GroupsFrom(e)[k] = e[k] + Group * GroupsFrom(e)[k + 1]
  BY GroupsUnfold
<1> HIDE DEF L
<1>4. 0 \in T
  BY <1>1, <1>2, <1>3
<1>5. \A j \in Nat : j \in T => j + 1 \in T
  <2> TAKE j \in Nat
  <2> HAVE j \in T
  <2>1. ASSUME NEW k \in 1..(L + 1), k + (j + 1) = L + 1
        PROVE  GroupsFrom(d)[k + 1] = GroupsFrom(e)[k]
    <3>1. k \in 1..L /\ k + 1 \in 1..(L + 1) /\ (k + 1) + j = L + 1 /\ k + 1 \in 1..Len(d)
      BY <1>1, <2>1
    <3>2. GroupsFrom(d)[k + 1 + 1] = GroupsFrom(e)[k + 1]
      BY <3>1
    <3>3. GroupsFrom(d)[k + 1] = d[k + 1] + Group * GroupsFrom(d)[k + 1 + 1]
      BY <3>1, <1>2
    <3>4. GroupsFrom(e)[k] = e[k] + Group * GroupsFrom(e)[k + 1] /\ d[k + 1] = e[k]
      BY <3>1, <1>1, <1>3
    <3> QED
      BY <3>2, <3>3, <3>4
  <2> QED
    BY <2>1
<1> HIDE DEF T
<1>6. L \in T
  BY <1>1, <1>4, <1>5, Induction
<1>7. GroupsFrom(d)[1 + 1] = GroupsFrom(e)[1]
  <2>1. 1 \in 1..(L + 1) /\ 1 + L = L + 1
    BY <1>1
  <2> QED
    BY <1>6, <2>1 DEF T
<1>8. GroupsFrom(d)[1] = d[1] + Group * GroupsFrom(d)[1 + 1]
  <2>1. 1 \in 1..Len(d)
    BY <1>1
  <2> QED
    BY <2>1, <1>2
<1> QED
  BY <1>1, <1>2, <1>3, <1>7, <1>8 DEF d

Digits(d) == [k \in 1..Len(d) |-> d[k] % Group]

(* The bytes of a VarInt: all but the last have the high bit.              *)
Form(d, v) ==
  /\ d \in Seq(Byte) /\ Len(d) >= 1
  /\ \A k \in 1..Len(d) : d[k] < Group <=> k = Len(d)
  /\ GroupsValue(Digits(d)) = v

LEMMA VarIntForm == \A v \in Nat : Form(VarInt[v], v)
<1> DEFINE T == {v \in Nat : Form(VarInt[v], v)}
<1>1. ASSUME NEW v \in Nat, \A m \in Nat : m < v => m \in T PROVE v \in T
  <2>0. /\ v % Group \in 0..(Group - 1) /\ v \div Group \in Nat
        /\ v = (v \div Group) * Group + (v % Group)
        /\ (v < Group => v % Group = v) /\ (v >= Group => v \div Group < v)
    BY GroupFacts, Quotients
  <2> DEFINE lo == v % Group
             q == v \div Group
  <2>1. CASE v < Group
    <3> DEFINE d == <<v>>
    <3>1. VarInt[v] = d
      BY <2>1, VarIntUnfold
    <3>2. d \in Seq(Byte) /\ Len(d) = 1 /\ d[1] = v
      BY <2>1, GroupFacts DEF Byte
    <3> HIDE DEF d
    <3>3. Digits(d) \in Seq(Nat) /\ Len(Digits(d)) = 1 /\ Digits(d)[1] = v
      BY <2>0, <2>1, <3>2 DEF Digits
    <3> DEFINE g == Digits(d)
    <3> HIDE DEF g
    <3>4. GroupsFrom(g)[1] = GroupsValue(g) /\ GroupsFrom(g)[2] = 0
          /\ GroupsFrom(g)[1] = g[1] + Group * GroupsFrom(g)[2]
      <4>1. g \in Seq(Nat) /\ Len(g) = 1 /\ 1 \in 1..Len(g) /\ 1 + 1 = 2
        BY <3>3 DEF g
      <4> QED
        BY <4>1, GroupsUnfold
    <3>5. GroupsValue(g) = v
      BY <3>3, <3>4, GroupFacts DEF g
    <3>6. \A k \in 1..Len(d) : d[k] < Group <=> k = Len(d)
      BY <2>1, <3>2
    <3>7. Form(d, v)
      BY <3>2, <3>5, <3>6 DEF Form, g
    <3> QED
      BY <3>1, <3>7
  <2>2. CASE v >= Group
    <3> DEFINE e == VarInt[q]
               x == lo + Group
               d == <<x>> \o e
    <3>1. VarInt[v] = d /\ e \in Seq(Byte)
      BY <2>0, <2>2, VarIntUnfold
    <3>2. Form(e, q)
      BY <1>1, <2>0, <2>2
    <3>3. lo \in 0..(Group - 1) /\ q \in Nat /\ v = q * Group + lo
      BY <2>0
    <3> HIDE DEF lo, q, e
    <3>4. x \in Byte /\ ~(x < Group) /\ x % Group = lo
      <4>1. x \in Byte /\ ~(x < Group) /\ x \in Nat /\ x = 1 * Group + lo
        BY <3>3, GroupFacts DEF Byte
      <4> HIDE DEF x
      <4> QED
        BY <4>1, <3>3, GroupFacts, Division
    <3> HIDE DEF x
    <3>5. /\ d \in Seq(Byte) /\ Len(d) = Len(e) + 1 /\ d[1] = x
          /\ \A k \in 1..Len(e) : d[k + 1] = e[k]
      BY <3>1, <3>4
    <3>6. /\ Len(e) >= 1 /\ Len(e) \in Nat /\ GroupsValue(Digits(e)) = q
          /\ \A k \in 1..Len(e) : e[k] < Group <=> k = Len(e)
      BY <3>1, <3>2 DEF Form
    <3> HIDE DEF d
    <3>7. \A k \in 1..Len(d) : d[k] < Group <=> k = Len(d)
      <4> TAKE k \in 1..Len(d)
      <4>1. CASE k = 1
        BY <4>1, <3>4, <3>5, <3>6
      <4>2. CASE k # 1
        <5>1. PICK j \in 1..Len(e) : k = j + 1
          <6>1. k - 1 \in 1..Len(e) /\ k = (k - 1) + 1
            BY <4>2, <3>5, <3>6
          <6> QED
            BY <6>1
        <5>2. d[k] = e[j]
          BY <5>1, <3>5
        <5>3. (k = Len(d)) <=> (j = Len(e))
          BY <5>1, <3>5, <3>6
        <5> QED
          BY <5>2, <5>3, <3>6
      <4> QED
        BY <4>1, <4>2
    <3>8. Digits(d) = <<lo>> \o Digits(e)
      <4>1. Digits(e) \in Seq(Nat) /\ Len(Digits(e)) = Len(e)
            /\ \A k \in 1..Len(e) : Digits(e)[k] = e[k] % Group
        <5>1. \A k \in 1..Len(e) : e[k] % Group \in Nat
          <6>1. \A k \in 1..Len(e) : e[k] \in Nat
            <7>1. \A k \in 1..Len(e) : e[k] \in Byte
              BY <3>1
            <7> QED
              BY <7>1, GroupFacts
          <6> QED
            BY <6>1, GroupFacts
        <5> QED
          BY <5>1, <3>6 DEF Digits
      <4> DEFINE f == Digits(e)
                 w == <<lo>> \o f
      <4> HIDE DEF f
      <4>2. /\ w \in Seq(Nat) /\ Len(w) = Len(e) + 1 /\ w[1] = lo
            /\ \A k \in 1..Len(e) : w[k + 1] = e[k] % Group
        BY <4>1, <3>3 DEF f
      <4> HIDE DEF w
      <4>3. ASSUME NEW k \in 1..(Len(e) + 1) PROVE w[k] = d[k] % Group
        <5>1. CASE k = 1
          BY <5>1, <4>2, <3>4, <3>5
        <5>2. CASE k # 1
          <6>1. k - 1 \in 1..Len(e) /\ k = (k - 1) + 1
            BY <5>2, <3>6
          <6> QED
            BY <6>1, <4>2, <3>5
        <5> QED
          BY <5>1, <5>2
      <4>4. w = [k \in 1..(Len(e) + 1) |-> w[k]]
        BY <4>2
      <4>5. [k \in 1..(Len(e) + 1) |-> w[k]] = [k \in 1..(Len(e) + 1) |-> d[k] % Group]
        BY <4>3
      <4> QED
        BY <4>4, <4>5, <3>5 DEF Digits, w, f
    <3>9. Digits(e) \in Seq(Nat)
      <4>1. \A k \in 1..Len(e) : e[k] % Group \in Nat
        <5>1. \A k \in 1..Len(e) : e[k] \in Nat
          <6>1. \A k \in 1..Len(e) : e[k] \in Byte
            BY <3>1
          <6> QED
            BY <6>1, GroupFacts
        <5> QED
          BY <5>1, GroupFacts
      <4> QED
        BY <4>1, <3>6 DEF Digits
    <3>10. GroupsValue(Digits(d)) = lo + Group * q
      <4>1. lo \in Nat
        BY <3>3
      <4> QED
        BY <4>1, <3>6, <3>8, <3>9, GroupsCons
    <3>11. lo + Group * q = v
      BY <3>3, GroupFacts
    <3>12. Form(d, v)
      BY <3>5, <3>6, <3>7, <3>10, <3>11 DEF Form
    <3> QED
      BY <3>1, <3>12
  <2> QED
    BY <2>1, <2>2, GroupFacts
<1> HIDE DEF T
<1>2. Nat \subseteq T
  BY <1>1, StrongInduction
<1> QED
  BY <1>2 DEF T

LEMMA VarIntBytes ==
  ASSUME NEW v \in Nat
  PROVE  /\ WriteVarInt(v) = VarInt[v] /\ VarInt[v] \in Seq(Byte)
         /\ Len(VarInt[v]) \in Nat /\ Len(VarInt[v]) >= 1
BY VarIntUnfold, VarIntForm DEF WriteVarInt, Form

-----------------------------------------------------------------------------
(* Reading what is held at a position                                      *)

(* The bytes of d are in s at position i.                                  *)
Holds(s, i, d) ==
  /\ i + Len(d) - 1 <= Len(s)
  /\ \A k \in 1..Len(d) : s[i + k - 1] = d[k]

LEMMA HoldsParts ==
  ASSUME NEW s \in Seq(Byte), NEW i \in Nat \ {0}, NEW a \in Seq(Byte), NEW b \in Seq(Byte),
         Holds(s, i, a \o b)
  PROVE  /\ Holds(s, i, a) /\ Holds(s, i + Len(a), b)
         /\ a \o b \in Seq(Byte) /\ Len(a \o b) = Len(a) + Len(b)
<1> DEFINE x == a \o b
           m == Len(a)
           n == Len(b)
<1>1. /\ x \in Seq(Byte) /\ Len(x) = m + n /\ m \in Nat /\ n \in Nat
      /\ \A k \in 1..m : x[k] = a[k]
      /\ \A k \in 1..n : x[m + k] = b[k]
  BY Joined
<1>2. i + Len(x) - 1 <= Len(s) /\ \A k \in 1..Len(x) : s[i + k - 1] = x[k]
  BY DEF Holds
<1> HIDE DEF x, m, n
<1>3. Len(s) \in Nat /\ i + (m + n) - 1 <= Len(s) /\ i + m - 1 <= Len(s) /\ i + m + n - 1 <= Len(s)
  BY <1>1, <1>2
<1>4. \A k \in 1..m : s[i + k - 1] = a[k]
  <2>1. \A k \in 1..m : k \in 1..Len(x)
    BY <1>1
  <2> QED
    BY <2>1, <1>1, <1>2
<1>5. \A k \in 1..n : s[i + m + k - 1] = b[k]
  <2>1. \A k \in 1..n : m + k \in 1..Len(x) /\ i + (m + k) - 1 = i + m + k - 1
    BY <1>1
  <2> QED
    BY <2>1, <1>1, <1>2
<1> QED
  BY <1>1, <1>3, <1>4, <1>5 DEF Holds, x, m, n

LEMMA HoldsPart ==
  ASSUME NEW s \in Seq(Byte), NEW i \in Nat \ {0}, NEW d \in Seq(Byte), Holds(s, i, d)
  PROVE  SubSeq(s, i, i + Len(d) - 1) = d
<1> DEFINE got == SubSeq(s, i, i + Len(d) - 1)
<1>1. Len(d) \in Nat /\ i + Len(d) - 1 <= Len(s) /\ \A k \in 1..Len(d) : s[i + k - 1] = d[k]
  BY DEF Holds
<1>2. got \in Seq(Byte) /\ Len(got) = Len(d) /\ \A k \in 1..Len(d) : got[k] = s[i + k - 1]
  BY <1>1
<1> HIDE DEF got
<1>3. got = d
  BY <1>1, <1>2
<1> QED
  BY <1>3 DEF got

LEMMA HoldsFirst ==
  ASSUME NEW d \in Seq(Byte), NEW t \in Seq(Byte)
  PROVE  Holds(d, 1, d) /\ Holds(d \o t, 1, d)
<1>1. /\ Len(d) \in Nat /\ Len(t) \in Nat /\ Len(d \o t) = Len(d) + Len(t)
      /\ \A k \in 1..Len(d) : (d \o t)[k] = d[k]
  BY Joined
<1>2. \A k \in 1..Len(d) : 1 + k - 1 = k
  OBVIOUS
<1> QED
  BY <1>1, <1>2 DEF Holds

LEMMA LeastGroup ==
  ASSUME NEW T, T \subseteq Nat, NEW n \in T, \A m \in T : n <= m
  PROVE  Min(T) = n
<1>1. Min(T) \in T /\ \A m \in T : Min(T) <= m
  BY DEF Min
<1>2. Min(T) \in Nat /\ n \in Nat /\ Min(T) <= n /\ n <= Min(T)
  BY <1>1
<1> QED
  BY <1>2

LEMMA ReadsVarInt ==
  ASSUME NEW s \in Seq(Byte), NEW i \in Nat \ {0}, NEW v \in Nat,
         Holds(s, i, VarInt[v]), Len(VarInt[v]) <= MaxGroups
  PROVE  ReadVarInt(s, i) = [ok |-> TRUE, next |-> i + Len(VarInt[v]), val |-> v]
<1> DEFINE d == VarInt[v]
           n == Len(d)
           T == {m \in 1..MaxGroups : LastByte(s, i, m)}
<1>1. /\ d \in Seq(Byte) /\ n \in Nat /\ n >= 1 /\ GroupsValue(Digits(d)) = v
      /\ \A k \in 1..n : d[k] < Group <=> k = n
  BY VarIntForm DEF Form
<1>2. i + n - 1 <= Len(s) /\ \A k \in 1..n : s[i + k - 1] = d[k]
  BY DEF Holds
<1>3. n \in 1..MaxGroups
  BY <1>1, GroupFacts
<1>4. n = Len(d)
  OBVIOUS
<1> HIDE DEF d, n
<1>5. n \in T
  <2>1. n \in 1..n
    BY <1>1
  <2> QED
    BY <2>1, <1>1, <1>2, <1>3 DEF LastByte
<1>6. \A m \in T : n <= m
  <2> SUFFICES ASSUME NEW m \in T, m < n PROVE FALSE
      BY <1>1, GroupFacts
  <2>1. m \in 1..n /\ m # n
    BY <1>1, GroupFacts
  <2>2. d[m] < Group
    BY <2>1, <1>2 DEF LastByte
  <2> QED
    BY <2>1, <2>2, <1>1
<1>7. Min(T) = n
  <2>1. T \subseteq Nat
    BY GroupFacts
  <2> HIDE DEF T
  <2> QED
    BY <2>1, <1>5, <1>6, LeastGroup
<1>8. \E m \in 1..MaxGroups : LastByte(s, i, m)
  BY <1>5
<1>9. ReadVarInt(s, i) = VarIntOf(s, i, n)
  BY <1>7, <1>8 DEF ReadVarInt
<1>10. [k \in 1..n |-> s[i + k - 1] % Group] = Digits(d)
  BY <1>2, <1>4 DEF Digits
<1>11. VarIntOf(s, i, n) = [ok |-> TRUE, next |-> i + n, val |-> v]
  BY <1>1, <1>10 DEF VarIntOf
<1> QED
  BY <1>9, <1>11 DEF d, n

LEMMA ReadsString ==
  ASSUME NEW s \in Seq(Byte), NEW i \in Nat \ {0}, NEW str \in Seq(Byte), NEW max \in Nat,
         Holds(s, i, WriteString(str)), Len(VarInt[Len(str)]) <= MaxGroups
  PROVE  /\ ReadVarInt(s, i).ok /\ ReadVarInt(s, i).val = Len(str)
         /\ ReadVarInt(s, i).next = i + Len(VarInt[Len(str)])
         /\ ReadString(s, i, max) =
              IF Len(str) <= max
              THEN [ok |-> TRUE, val |-> str, next |-> i + Len(WriteString(str))]
              ELSE NoPacket
<1> DEFINE L == Len(str)
           a == VarInt[L]
           j == i + Len(a)
           n == ReadVarInt(s, i)
<1>1. L \in Nat /\ a \in Seq(Byte) /\ Len(a) \in Nat /\ WriteString(str) = a \o str
  <2>1. L \in Nat
    OBVIOUS
  <2> HIDE DEF L
  <2>2. WriteVarInt(L) = a /\ a \in Seq(Byte)
    BY <2>1, VarIntBytes
  <2>3. WriteString(str) = WriteVarInt(L) \o str
    BY DEF WriteString, L
  <2> HIDE DEF a
  <2> QED
    BY <2>1, <2>2, <2>3
<1>2. Holds(s, i, a) /\ Holds(s, j, str) /\ Len(WriteString(str)) = Len(a) + L
  <2> HIDE DEF a
  <2>1. Holds(s, i, a \o str)
    BY <1>1
  <2> QED
    BY <1>1, <2>1, HoldsParts
<1>3. n = [ok |-> TRUE, next |-> j, val |-> L]
  BY <1>1, <1>2, ReadsVarInt
<1>4. j \in Nat \ {0} /\ j = i + Len(a)
  BY <1>1
<1>5. L = Len(str)
  OBVIOUS
<1> HIDE DEF a, j, L, n
<1>6. SubSeq(s, j, j + L - 1) = str /\ j + L - 1 <= Len(s)
  BY <1>2, <1>4, <1>5, HoldsPart DEF Holds
<1>7. j + L = i + Len(WriteString(str))
  BY <1>1, <1>2, <1>4
<1>8. StringAfter(s, n, max) = IF L <= max THEN [ok |-> TRUE, val |-> str, next |-> j + L]
                               ELSE NoPacket
  BY <1>3, <1>6 DEF StringAfter
<1>9. ReadString(s, i, max) = StringAfter(s, n, max) /\ n = ReadVarInt(s, i)
  BY DEF ReadString, n
<1>10. ReadString(s, i, max) = IF L <= max
                               THEN [ok |-> TRUE, val |-> str, next |-> i + Len(WriteString(str))]
                               ELSE NoPacket
  BY <1>7, <1>8, <1>9
<1>11. n.ok /\ n.val = L /\ n.next = j
  BY <1>3
<1> QED
  BY <1>9, <1>10, <1>11 DEF a, j, L

LEMMA ReadsUShort ==
  ASSUME NEW s \in Seq(Byte), NEW i \in Nat \ {0}, NEW v \in Numbers, Holds(s, i, PutUint16(v))
  PROVE  ReadUShort(s, i) = [ok |-> TRUE, val |-> v, next |-> i + 2]
<1> DEFINE d == PutUint16(v)
<1>1. v \in Nat /\ v % Word = v
  BY Contents
<1>2. d \in Seq(Byte) /\ Len(d) = 2 /\ GetUint16(d, 1) = v % Word
  BY <1>1, Put16
<1>3. i + Len(d) - 1 <= Len(s) /\ \A k \in 1..Len(d) : s[i + k - 1] = d[k]
  BY DEF Holds
<1> HIDE DEF d
<1>4. s[i] = d[1] /\ s[i + 1] = d[2] /\ i + 1 <= Len(s)
  <2>1. i + 1 - 1 = i /\ i + 2 - 1 = i + 1 /\ 1 \in 1..Len(d) /\ 2 \in 1..Len(d)
    BY <1>2
  <2> QED
    BY <2>1, <1>2, <1>3
<1>5. d[1] * Base + d[2] = v
  <2>1. 1 + 1 = 2
    OBVIOUS
  <2> QED
    BY <2>1, <1>1, <1>2 DEF GetUint16
<1>6. d[1] * 2 * Group = d[1] * Base
  <2>1. d[1] \in Nat
    <3>1. d[1] \in Byte
      BY <1>2
    <3> QED
      BY <3>1, GroupFacts
  <2>2. \A x \in Nat : x * 2 * Group = x * (2 * Group)
    BY GroupFacts
  <2> QED
    BY <2>1, <2>2, GroupFacts
<1> QED
  BY <1>4, <1>5, <1>6 DEF ReadUShort

LEMMA ReadsPacket ==
  ASSUME NEW s \in Seq(Byte), NEW i \in Nat \ {0}, NEW id \in {0, 1}, NEW p \in Seq(Byte),
         Holds(s, i, MarshalPacket(id, p)), Len(MarshalPacket(id, p)) <= MaxPacket
  PROVE  ReadFullPacket(s, i) = [ok |-> TRUE, id |-> id, payload |-> p,
                                 raw |-> MarshalPacket(id, p),
                                 next |-> i + Len(MarshalPacket(id, p))]
<1> DEFINE c == VarInt[id]
           body == c \o p
           L == Len(body)
           a == VarInt[L]
           m == MarshalPacket(id, p)
           j == i + Len(a)
<1>1. id \in Nat /\ c \in Seq(Byte) /\ Len(c) \in Nat /\ Len(c) >= 1 /\ Len(c) <= MaxGroups
  <2>1. id \in Nat /\ id \in 0..MaxPacket
    BY LimitsAreNat
  <2>2. WriteVarInt(id) = VarInt[id]
    BY <2>1, VarIntBytes
  <2> QED
    BY <2>1, <2>2, VarIntBytes, VarIntsFit
<1>2. WriteVarInt(id) = c
  BY <1>1, VarIntBytes
<1> HIDE DEF c
<1>3. body \in Seq(Byte) /\ L \in Nat /\ L >= 1 /\ L = Len(c) + Len(p)
  <2>1. body \in Seq(Byte) /\ Len(body) = Len(c) + Len(p)
    BY <1>1, Joined
  <2> HIDE DEF body
  <2> QED
    BY <2>1, <1>1
<1>4. m = a \o body /\ a \in Seq(Byte) /\ Len(a) \in Nat
  <2>1. m = WriteVarInt(Len(body)) \o body
    BY <1>2 DEF MarshalPacket
  <2> HIDE DEF L
  <2>2. WriteVarInt(L) = a /\ a \in Seq(Byte) /\ Len(a) \in Nat
    BY <1>3, VarIntBytes
  <2> QED
    BY <2>1, <2>2 DEF L
<1>5. L = Len(body)
  OBVIOUS
<1> HIDE DEF body, L, a, m
<1>6. Holds(s, i, a) /\ Holds(s, j, body) /\ Len(m) = Len(a) + L
  <2>1. Holds(s, i, a \o body)
    BY <1>4 DEF m
  <2>2. Holds(s, i, a) /\ Holds(s, i + Len(a), body) /\ Len(a \o body) = Len(a) + Len(body)
    <3>1. a \in Seq(Byte) /\ body \in Seq(Byte)
      BY <1>3, <1>4
    <3> QED
      BY <3>1, <2>1, HoldsParts
  <2> QED
    BY <1>4, <1>5, <2>2
<1>7. L \in 1..MaxPacket /\ Len(a) <= MaxGroups
  <2>1. Len(m) <= MaxPacket
    BY DEF m
  <2>2. L \in 1..MaxPacket
    BY <2>1, <1>3, <1>4, <1>6, GroupFacts
  <2>3. WriteVarInt(L) = a
    BY <1>3, VarIntBytes DEF a
  <2> QED
    BY <2>2, <2>3, VarIntsFit
<1>8. j \in Nat \ {0} /\ j - 1 = i + Len(a) - 1
  BY <1>4
<1>9. ReadVarInt(s, i) = [ok |-> TRUE, next |-> j, val |-> L]
  BY <1>3, <1>6, <1>7, ReadsVarInt DEF a
<1> HIDE DEF j
<1>10. SubSeq(s, j, j + L - 1) = body /\ j + L - 1 <= Len(s)
  BY <1>3, <1>5, <1>6, <1>8, HoldsPart DEF Holds
<1>11. SubSeq(s, i, j - 1) = a
  BY <1>4, <1>6, <1>8, HoldsPart
<1>12. Holds(body, 1, c) /\ Holds(body, 1 + Len(c), p)
  <2>1. Holds(body, 1, c \o p)
    <3>1. Holds(body, 1, body)
      BY <1>3, HoldsFirst
    <3> QED
      BY <3>1 DEF body
  <2> QED
    BY <2>1, <1>1, <1>3, HoldsParts
<1>13. ReadVarInt(body, 1) = [ok |-> TRUE, next |-> 1 + Len(c), val |-> id]
  BY <1>1, <1>3, <1>12, ReadsVarInt DEF c
<1>14. SubSeq(body, 1 + Len(c), Len(body)) = p
  <2>1. 1 + Len(c) \in Nat \ {0} /\ 1 + Len(c) + Len(p) - 1 = Len(body)
    <3>1. Len(p) \in Nat
      OBVIOUS
    <3>2. \A x, y \in Nat : 1 + x + y - 1 = x + y /\ 1 + x \in Nat \ {0}
      OBVIOUS
    <3>3. 1 + Len(c) + Len(p) - 1 = L /\ 1 + Len(c) \in Nat \ {0}
      BY <3>1, <3>2, <1>1, <1>3
    <3> QED
      BY <3>3, <1>5
  <2>2. SubSeq(body, 1 + Len(c), 1 + Len(c) + Len(p) - 1) = p
    BY <2>1, <1>3, <1>12, HoldsPart
  <2> QED
    BY <2>1, <2>2
<1> DEFINE n == ReadVarInt(s, i)
<1>15. /\ n.ok /\ n.val = L /\ n.next = j
       /\ SubSeq(s, n.next, n.next + n.val - 1) = body
       /\ n.next + n.val - 1 <= Len(s) /\ n.val \in 1..MaxPacket
       /\ SubSeq(s, i, n.next - 1) = a /\ n.next + n.val = j + L
  BY <1>7, <1>9, <1>10, <1>11
<1> DEFINE e == ReadVarInt(body, 1)
<1>a. e.ok /\ e.val = id /\ SubSeq(body, e.next, Len(body)) = p
  BY <1>13, <1>14
<1> HIDE DEF n, e
<1>16. PacketAfter(s, i, n) = [ok |-> TRUE, id |-> id, payload |-> p, raw |-> a \o body,
                               next |-> j + L]
  BY <1>15, <1>a DEF PacketAfter, e
<1>17. j + L = i + Len(m)
  BY <1>3, <1>4, <1>6 DEF j
<1> QED
  BY <1>4, <1>16, <1>17 DEF ReadFullPacket, n, m

-----------------------------------------------------------------------------
(* A reader of a prefix that holds all it read finds the same              *)

LEMMA VarIntOfPrefix ==
  ASSUME NEW s \in Seq(Byte), NEW e \in 0..Len(s), NEW i \in Nat \ {0},
         ReadVarInt(s, i).ok, ReadVarInt(s, i).next <= e + 1
  PROVE  ReadVarInt(SubSeq(s, 1, e), i) = ReadVarInt(s, i)
<1> DEFINE t == SubSeq(s, 1, e)
           S == {m \in 1..MaxGroups : LastByte(s, i, m)}
           T == {m \in 1..MaxGroups : LastByte(t, i, m)}
           n == Min(S)
<1>1. t \in Seq(Byte) /\ Len(t) = e /\ e \in Nat /\ e <= Len(s) /\ \A k \in 1..e : t[k] = s[k]
  OBVIOUS
<1>2. \E m \in 1..MaxGroups : LastByte(s, i, m)
  BY DEF ReadVarInt
<1>3. n \in S /\ \A m \in S : n <= m
  <2>1. S \subseteq Nat /\ S # {}
    BY <1>2, GroupFacts
  <2> HIDE DEF S
  <2>2. PICK m \in S : \A k \in S : m <= k
    BY <2>1, Least
  <2> QED
    BY <2>1, <2>2, LeastGroup
<1> HIDE DEF t, n
<1>4. n \in 1..MaxGroups /\ LastByte(s, i, n) /\ n \in Nat
  BY <1>3, GroupFacts
<1>5. ReadVarInt(s, i) = VarIntOf(s, i, n)
  BY <1>2 DEF ReadVarInt, n
<1>6. i + n - 1 <= e
  <2>1. ReadVarInt(s, i).next = i + n
    BY <1>5 DEF VarIntOf
  <2> QED
    BY <2>1, <1>1, <1>4
<1>7. \A m \in 1..n : t[i + m - 1] = s[i + m - 1]
  <2>1. \A m \in 1..n : i + m - 1 \in 1..e
    BY <1>1, <1>4, <1>6
  <2> QED
    BY <2>1, <1>1
<1>8. n \in T /\ \A m \in T : n <= m
  <2>1. LastByte(t, i, n)
    <3>1. n \in 1..n
      BY <1>4
    <3> QED
      BY <3>1, <1>1, <1>4, <1>6, <1>7 DEF LastByte
  <2>2. ASSUME NEW m \in T PROVE m \in S
    <3>1. m \in 1..MaxGroups /\ i + m - 1 <= e /\ t[i + m - 1] < Group
      BY <1>1 DEF LastByte
    <3>2. i + m - 1 \in 1..e /\ i + m - 1 <= Len(s)
      BY <3>1, <1>1, GroupFacts
    <3> QED
      BY <3>1, <3>2, <1>1 DEF LastByte
  <2> HIDE DEF S
  <2> QED
    BY <2>1, <2>2, <1>3, <1>4
<1>9. Min(T) = n
  <2>1. T \subseteq Nat
    BY GroupFacts
  <2> HIDE DEF T
  <2> QED
    BY <2>1, <1>8, LeastGroup
<1>10. \E m \in 1..MaxGroups : LastByte(t, i, m)
  BY <1>8
<1>11. ReadVarInt(t, i) = VarIntOf(t, i, n)
  BY <1>9, <1>10 DEF ReadVarInt
<1>12. VarIntOf(t, i, n) = VarIntOf(s, i, n)
  <2>1. [k \in 1..n |-> t[i + k - 1] % Group] = [k \in 1..n |-> s[i + k - 1] % Group]
    BY <1>7
  <2> QED
    BY <2>1 DEF VarIntOf
<1> QED
  BY <1>5, <1>11, <1>12 DEF t

LEMMA Adjacent ==
  ASSUME NEW s \in Seq(Byte), NEW i \in Nat \ {0}, NEW j \in (i + 1)..(Len(s) + 1),
         NEW e \in (j - 1)..Len(s)
  PROVE  SubSeq(s, i, j - 1) \o SubSeq(s, j, e) = SubSeq(s, i, e)
<1> DEFINE a == SubSeq(s, i, j - 1)
           b == SubSeq(s, j, e)
           c == SubSeq(s, i, e)
           w == a \o b
           v == e - j + 1
<1>0. j \in Nat /\ i < j /\ e \in Nat /\ v \in Nat /\ e = j + v - 1 /\ e <= Len(s) /\ j - 1 <= e
  OBVIOUS
<1> HIDE DEF v
<1>1. /\ a \in Seq(Byte) /\ Len(a) = j - i /\ \A k \in 1..(j - i) : a[k] = s[i + k - 1]
  BY <1>0
<1>2. /\ b \in Seq(Byte) /\ Len(b) = v /\ \A k \in 1..v : b[k] = s[j + k - 1]
  BY <1>0
<1>3. /\ c \in Seq(Byte) /\ Len(c) = j - i + v
      /\ \A k \in 1..(j - i + v) : c[k] = s[i + k - 1]
  BY <1>0
<1> HIDE DEF a, b, c
<1>4. /\ w \in Seq(Byte) /\ Len(w) = Len(a) + Len(b)
      /\ \A k \in 1..Len(a) : w[k] = a[k]
      /\ \A k \in 1..Len(b) : w[Len(a) + k] = b[k]
  BY <1>1, <1>2, Joined
<1> HIDE DEF w
<1>5. ASSUME NEW k \in 1..(j - i + v) PROVE w[k] = c[k]
  <2>1. CASE k <= j - i
    <3>1. k \in 1..(j - i)
      BY <2>1, <1>0
    <3> QED
      BY <3>1, <1>1, <1>3, <1>4
  <2>2. CASE ~(k <= j - i)
    <3>1. PICK m \in 1..v : k = (j - i) + m
      <4>1. k - (j - i) \in 1..v /\ k = (j - i) + (k - (j - i))
        BY <2>2, <1>0
      <4> QED
        BY <4>1
    <3>2. w[k] = b[m]
      BY <3>1, <1>1, <1>2, <1>4
    <3>3. j + m - 1 = i + k - 1
      BY <3>1, <1>0
    <3> QED
      BY <3>2, <3>3, <1>2, <1>3
  <2> QED
    BY <2>1, <2>2
<1>6. Len(w) = Len(c)
  BY <1>1, <1>2, <1>3, <1>4
<1>7. w = c
  BY <1>3, <1>4, <1>5, <1>6
<1> QED
  BY <1>7 DEF w, a, b, c

LEMMA ReadPositions ==
  ASSUME NEW s \in Seq(Byte), NEW i \in Nat \ {0}, ReadFullPacket(s, i).ok
  PROVE  LET n == ReadVarInt(s, i)
             f == ReadFullPacket(s, i)
         IN  /\ n.ok /\ n.next \in Nat /\ n.next > i /\ n.val \in 1..MaxPacket
             /\ f.next = n.next + n.val /\ f.next - 1 <= Len(s)
             /\ f.raw = SubSeq(s, i, f.next - 1)
<1> DEFINE n == ReadVarInt(s, i)
           f == ReadFullPacket(s, i)
           j == n.next
<1>1. f = PacketAfter(s, i, n)
  BY DEF ReadFullPacket
<1> HIDE DEF n, f
<1>2. f.ok
  BY DEF f
<1>3. /\ n.ok /\ n.val \in 1..MaxPacket /\ j + n.val - 1 <= Len(s)
      /\ f.next = j + n.val
      /\ f.raw = SubSeq(s, i, j - 1) \o SubSeq(s, j, j + n.val - 1)
  BY <1>1, <1>2 DEF PacketAfter, NoPacket
<1>4. j \in Nat /\ j > i
  <2>1. \E m \in 1..MaxGroups : LastByte(s, i, m)
    BY <1>3 DEF ReadVarInt, n
  <2>2. n = VarIntOf(s, i, Min({m \in 1..MaxGroups : LastByte(s, i, m)}))
    BY <2>1 DEF ReadVarInt, n
  <2> DEFINE T == {m \in 1..MaxGroups : LastByte(s, i, m)}
  <2>3. T \subseteq Nat /\ T # {} /\ T \subseteq 1..MaxGroups
    BY <2>1, GroupFacts
  <2>4. n = VarIntOf(s, i, Min(T))
    BY <2>2
  <2> HIDE DEF T
  <2>5. Min(T) \in 1..MaxGroups
    <3>1. PICK m \in T : \A k \in T : m <= k
      BY <2>3, Least
    <3>2. Min(T) = m
      BY <2>3, <3>1, LeastGroup
    <3> QED
      BY <2>3, <3>1, <3>2
  <2>6. j = i + Min(T)
    BY <2>4 DEF VarIntOf
  <2> QED
    BY <2>5, <2>6, GroupFacts
<1> DEFINE v == n.val
<1>5. v \in Nat /\ v >= 1 /\ j + v - 1 <= Len(s) /\ Len(s) \in Nat
  BY <1>3, GroupFacts
<1> HIDE DEF j, v
<1>6. SubSeq(s, i, j - 1) \o SubSeq(s, j, j + v - 1) = SubSeq(s, i, j + v - 1)
  <2>1. j \in (i + 1)..(Len(s) + 1) /\ j + v - 1 \in (j - 1)..Len(s)
    BY <1>4, <1>5
  <2> QED
    BY <2>1, Adjacent
<1>7. f.next = j + v /\ f.next - 1 <= Len(s) /\ f.raw = SubSeq(s, i, f.next - 1)
  <2>1. f.next = j + v /\ f.raw = SubSeq(s, i, j - 1) \o SubSeq(s, j, j + v - 1)
    BY <1>3 DEF v
  <2>2. f.raw = SubSeq(s, i, j + v - 1)
    BY <2>1, <1>6
  <2>3. f.next - 1 = j + v - 1 /\ f.next - 1 <= Len(s)
    BY <2>1, <1>4, <1>5
  <2> QED
    BY <2>1, <2>2, <2>3
<1>8. n.ok /\ n.next = j /\ n.val = v /\ n.val \in 1..MaxPacket
  BY <1>3 DEF j, v
<1> QED
  BY <1>4, <1>7, <1>8 DEF n, f

LEMMA PacketOfPrefix ==
  ASSUME NEW s \in Seq(Byte), NEW e \in 0..Len(s), NEW i \in Nat \ {0},
         ReadFullPacket(s, i).ok, ReadFullPacket(s, i).next <= e + 1
  PROVE  ReadFullPacket(SubSeq(s, 1, e), i) = ReadFullPacket(s, i)
<1> DEFINE t == SubSeq(s, 1, e)
           n == ReadVarInt(s, i)
           last == n.next + n.val - 1
<1>1. /\ n.ok /\ n.next \in Nat /\ n.next > i /\ n.val \in 1..MaxPacket
      /\ ReadFullPacket(s, i).next = n.next + n.val
  BY ReadPositions
<1>2. n.val \in Nat /\ n.val >= 1
  BY <1>1, GroupFacts
<1>3. n.next <= e + 1 /\ last <= e /\ last \in Nat /\ n.next - 1 <= e /\ n.next - 1 \in Nat
  <2> HIDE DEF n
  <2> QED
    BY <1>1, <1>2
<1>4. ReadVarInt(t, i) = n
  BY <1>1, <1>3, VarIntOfPrefix
<1>5. Len(t) = e /\ t \in Seq(Byte)
  OBVIOUS
<1>6. \A a \in Nat \ {0}, b \in 0..e : SubSeq(t, a, b) = SubSeq(s, a, b)
  OBVIOUS
<1> HIDE DEF t, n
<1>7. SubSeq(t, n.next, last) = SubSeq(s, n.next, last)
      /\ SubSeq(t, i, n.next - 1) = SubSeq(s, i, n.next - 1)
  <2>1. n.next \in Nat \ {0} /\ last \in 0..e /\ n.next - 1 \in 0..e
    BY <1>1, <1>3
  <2> QED
    BY <2>1, <1>6
<1>8. last <= Len(s) /\ last <= Len(t)
  BY <1>3, <1>5
<1>9. PacketAfter(t, i, n) = PacketAfter(s, i, n)
  BY <1>7, <1>8 DEF PacketAfter
<1> QED
  BY <1>4, <1>9 DEF ReadFullPacket, t, n

LEMMA RereadSame ==
  ASSUME NEW s \in Seq(Byte), ReadInitialPackets(s).ok
  PROVE  ReadInitialPackets(ReadInitialPackets(s).raw) = ReadInitialPackets(s)
<1> DEFINE r == ReadInitialPackets(s)
           f == ReadFullPacket(s, 1)
           g == ReadFullPacket(s, f.next)
           t == SubSeq(s, 1, g.next - 1)
<1>1. f.ok /\ g.ok /\ r.raw = f.raw \o g.raw
  BY DEF ReadInitialPackets, NoPacket
<1>2. f.next \in Nat /\ f.next > 1 /\ f.next - 1 <= Len(s) /\ f.raw = SubSeq(s, 1, f.next - 1)
  <2>1. LET n == ReadVarInt(s, 1)
        IN  /\ n.next \in Nat /\ n.next > 1 /\ n.val \in Nat
            /\ f.next = n.next + n.val /\ f.next - 1 <= Len(s)
            /\ f.raw = SubSeq(s, 1, f.next - 1)
    BY <1>1, GroupFacts, ReadPositions
  <2> QED
    BY <2>1
<1>3. /\ g.next \in Nat /\ g.next > f.next /\ g.next - 1 <= Len(s)
      /\ g.raw = SubSeq(s, f.next, g.next - 1)
  <2> HIDE DEF f
  <2>1. LET n == ReadVarInt(s, f.next)
        IN  /\ n.next \in Nat /\ n.next > f.next /\ n.val \in Nat
            /\ g.next = n.next + n.val /\ g.next - 1 <= Len(s)
            /\ g.raw = SubSeq(s, f.next, g.next - 1)
    <3>1. f.next \in Nat \ {0} /\ ReadFullPacket(s, f.next).ok
      BY <1>1, <1>2
    <3>2. 1..MaxPacket \subseteq Nat
      BY GroupFacts
    <3> QED
      BY <3>1, <3>2, ReadPositions
  <2> HIDE DEF g
  <2> QED
    BY <2>1, <1>2
<1> HIDE DEF f, g, r
<1>4. r.raw = t
  <2>1. \A j \in 2..(Len(s) + 1) : \A e \in (j - 1)..Len(s) :
          SubSeq(s, 1, j - 1) \o SubSeq(s, j, e) = SubSeq(s, 1, e)
    BY Adjacent
  <2>2. f.next \in 2..(Len(s) + 1) /\ g.next - 1 \in (f.next - 1)..Len(s)
    BY <1>2, <1>3
  <2>3. SubSeq(s, 1, f.next - 1) \o SubSeq(s, f.next, g.next - 1) = t
    BY <2>1, <2>2
  <2> QED
    BY <2>3, <1>1, <1>2, <1>3
<1>5. g.next - 1 \in 0..Len(s) /\ f.next <= (g.next - 1) + 1 /\ g.next <= (g.next - 1) + 1
  BY <1>2, <1>3
<1>6. ReadFullPacket(t, 1) = f
  BY <1>1, <1>5, PacketOfPrefix DEF f
<1>7. ReadFullPacket(t, f.next) = g
  BY <1>1, <1>2, <1>5, PacketOfPrefix DEF g
<1> HIDE DEF t
<1>8. ReadInitialPackets(t) = ReadInitialPackets(s)
  BY <1>6, <1>7 DEF ReadInitialPackets, f, g
<1> QED
  BY <1>4, <1>8 DEF r

-----------------------------------------------------------------------------
(* The bytes that a player's game, an external connection of any kind and  *)
(* a refusal leave on the wire                                             *)

HandshakeBody(h) ==
  WriteVarInt(h.version) \o WriteString(h.addr) \o PutUint16(h.port) \o WriteVarInt(h.nextState)
SecondBody(m) == IF m.status THEN <<>> ELSE WriteString(m.name) \o m.uuid

LEMMA StringBytes ==
  ASSUME NEW str \in Seq(Byte)
  PROVE  /\ WriteString(str) = VarInt[Len(str)] \o str /\ WriteString(str) \in Seq(Byte)
         /\ Len(WriteString(str)) = Len(VarInt[Len(str)]) + Len(str)
<1>1. Len(str) \in Nat
  OBVIOUS
<1>2. WriteVarInt(Len(str)) = VarInt[Len(str)] /\ VarInt[Len(str)] \in Seq(Byte)
  BY <1>1, VarIntBytes
<1>3. WriteString(str) = VarInt[Len(str)] \o str
  BY <1>2 DEF WriteString
<1> QED
  BY <1>2, <1>3, Joined

LEMMA PacketBytes ==
  ASSUME NEW id \in {0, 1}, NEW p \in Seq(Byte)
  PROVE  /\ MarshalPacket(id, p) \in Seq(Byte)
         /\ Len(p) < Len(MarshalPacket(id, p))
         /\ Len(VarInt[id] \o p) \in 1..Len(MarshalPacket(id, p))
<1> DEFINE a == VarInt[id]
           body == a \o p
           n == Len(body)
           m == MarshalPacket(id, p)
<1>1. a \in Seq(Byte) /\ Len(a) \in Nat /\ Len(a) >= 1 /\ WriteVarInt(id) = a
  BY VarIntBytes
<1>2. m = WriteVarInt(n) \o body
  BY <1>1 DEF MarshalPacket
<1> HIDE DEF a, m
<1>3. body \in Seq(Byte) /\ n = Len(a) + Len(p) /\ Len(p) \in Nat
  BY <1>1, Joined
<1>4. n \in Nat /\ n >= 1 /\ Len(p) < n
  <2> HIDE DEF n
  <2> QED
    BY <1>1, <1>3
<1>5. n = Len(body)
  OBVIOUS
<1> HIDE DEF body, n
<1>6. /\ WriteVarInt(n) \in Seq(Byte) /\ Len(WriteVarInt(n)) \in Nat
      /\ Len(WriteVarInt(n)) >= 1
  BY <1>4, VarIntBytes
<1>7. m \in Seq(Byte) /\ Len(m) = Len(WriteVarInt(n)) + n
  BY <1>2, <1>3, <1>5, <1>6, Joined
<1>8. Len(p) < Len(m) /\ n \in 1..Len(m)
  <2> HIDE DEF n
  <2> QED
    BY <1>3, <1>4, <1>6, <1>7
<1> QED
  BY <1>7, <1>8 DEF m, n, body, a

LEMMA HandshakeBytes ==
  ASSUME NEW h \in Handshakes
  PROVE  /\ h.version \in Nat /\ h.version \in Versions /\ h.addr \in Seq(Byte)
         /\ h.port \in Numbers /\ h.port \in Nat /\ h.nextState \in {1, 2, 3}
         /\ HandshakeBody(h) \in Seq(Byte)
         /\ HandshakePacket(h) = MarshalPacket(0, HandshakeBody(h))
         /\ HandshakePacket(h) \in Seq(Byte) /\ Len(HandshakePacket(h)) <= MaxPacket
<1>1. /\ h.version \in Versions /\ h.addr \in Addrs /\ h.port \in Numbers
      /\ h.nextState \in {1, 2, 3}
  BY DEF Handshakes
<1>2. h.version \in Nat /\ h.addr \in Seq(Byte) /\ h.port \in Nat /\ h.nextState \in Nat
  <2>1. h.version \in Nat /\ h.addr \in Seq(Byte)
    BY <1>1, PacketsAreBytes
  <2>2. h.port \in Nat
    BY <1>1, Contents
  <2> QED
    BY <1>1, <2>1, <2>2
<1> DEFINE a == WriteVarInt(h.version)
           b == WriteString(h.addr)
           c == PutUint16(h.port)
           d == WriteVarInt(h.nextState)
<1>3. a \in Seq(Byte) /\ b \in Seq(Byte) /\ c \in Seq(Byte) /\ d \in Seq(Byte)
  BY <1>2, VarIntBytes, StringBytes, Put16
<1>4. HandshakeBody(h) = a \o b \o c \o d
  BY DEF HandshakeBody
<1> HIDE DEF a, b, c, d
<1>5. a \o b \in Seq(Byte)
  BY <1>3, Joined
<1>6. a \o b \o c \in Seq(Byte)
  BY <1>3, <1>5, Joined
<1>7. HandshakeBody(h) \in Seq(Byte)
  BY <1>3, <1>4, <1>6, Joined
<1>8. HandshakePacket(h) = MarshalPacket(0, HandshakeBody(h))
  BY DEF HandshakePacket, HandshakeBody
<1>9. HandshakePacket(h) \in Seq(Byte)
  BY <1>7, <1>8, PacketBytes
<1> QED
  BY <1>1, <1>2, <1>7, <1>8, <1>9, PacketsFit

LEMMA SecondBytes ==
  ASSUME NEW m \in Seconds
  PROVE  /\ m.id \in {0, 1} /\ m.status \in BOOLEAN
         /\ ~m.status => m.name \in Seq(Byte) /\ m.uuid \in Seq(Byte) /\ Len(m.uuid) <= UUIDLen
         /\ SecondBody(m) \in Seq(Byte)
         /\ SecondPacket(m) = MarshalPacket(m.id, SecondBody(m))
         /\ SecondPacket(m) \in Seq(Byte) /\ Len(SecondPacket(m)) <= MaxPacket
<1>0. /\ m.id \in {0, 1} /\ m.status \in BOOLEAN
      /\ ~m.status => m.name \in Names /\ m.uuid \in UUIDs
  <2>1. CASE m \in [id : {0, 1}, status : {FALSE}, name : Names, uuid : UUIDs]
    BY <2>1
  <2>2. CASE m = [id |-> 0, status |-> TRUE]
    BY <2>2
  <2> QED
    BY <2>1, <2>2 DEF Seconds
<1>1. m.id \in {0, 1} /\ m.status \in BOOLEAN
  BY <1>0
<1>2. ~m.status => m.name \in Names /\ m.uuid \in UUIDs
  BY <1>0
<1>3. ~m.status => m.name \in Seq(Byte) /\ m.uuid \in Seq(Byte) /\ Len(m.uuid) <= UUIDLen
  BY <1>2, PacketsAreBytes
<1>4. SecondBody(m) \in Seq(Byte)
  <2>1. CASE m.status
    <3>1. <<>> \in Seq(Byte)
      OBVIOUS
    <3> QED
      BY <2>1, <3>1 DEF SecondBody
  <2>2. CASE ~m.status
    <3>1. WriteString(m.name) \in Seq(Byte)
      BY <1>3, <2>2, StringBytes
    <3>2. WriteString(m.name) \o m.uuid \in Seq(Byte)
      BY <3>1, <1>3, <2>2, Joined
    <3> QED
      BY <2>2, <3>2 DEF SecondBody
  <2> QED
    BY <2>1, <2>2, <1>1
<1>5. SecondPacket(m) = MarshalPacket(m.id, SecondBody(m))
  BY DEF SecondPacket, SecondBody
<1>6. SecondPacket(m) \in Seq(Byte)
  BY <1>1, <1>4, <1>5, PacketBytes
<1> QED
  BY <1>1, <1>3, <1>4, <1>5, <1>6, PacketsFit

LEMMA RefusalBytes ==
  ASSUME NEW r \in Reasons
  PROVE  /\ r \in Seq(Byte) /\ WriteString(r) \in Seq(Byte)
         /\ BuildDisconnectLoginPacket(r) = MarshalPacket(0, WriteString(r))
         /\ BuildDisconnectLoginPacket(r) \in Seq(Byte)
         /\ Len(BuildDisconnectLoginPacket(r)) <= MaxPacket
<1>1. r \in Seq(Byte)
  BY PacketsAreBytes
<1>2. WriteString(r) \in Seq(Byte)
  BY <1>1, StringBytes
<1>3. BuildDisconnectLoginPacket(r) = MarshalPacket(0, WriteString(r))
  BY DEF BuildDisconnectLoginPacket
<1> QED
  BY <1>1, <1>2, <1>3, PacketBytes, PacketsFit

LEMMA Pair ==
  ASSUME NEW S, NEW T, NEW a \in S, NEW b \in T
  PROVE  Append(<<a>>, b) = <<a, b>>
<1> DEFINE U == S \union T
           p == Append(<<a>>, b)
           q == <<a, b>>
<1>1. <<a>> \in Seq(U) /\ b \in U /\ q \in Seq(U) /\ Len(q) = 2 /\ q[1] = a /\ q[2] = b
  OBVIOUS
<1>2. Len(p) = 2 /\ p \in Seq(U)
  BY <1>1
<1>3. p[1] = a /\ p[2] = b
  BY <1>1
<1> HIDE DEF p, q, U
<1>4. \A k \in 1..2 : p[k] = q[k]
  BY <1>1, <1>3
<1>5. p = q
  BY <1>1, <1>2, <1>4
<1> QED
  BY <1>5 DEF p, q

(* Inductive: on a player's connection are the two packets and then any    *)
(* bytes, behind a refusal nothing.                                        *)
PlayerWire ==
  \/ sent = <<>> /\ wire = <<>>
  \/ \E h \in Handshakes : sent = <<h>> /\ wire = HandshakePacket(h)
  \/ \E h \in Handshakes, m \in Seconds, t \in Seq(Byte) :
       sent = <<h, m>> /\ wire = HandshakePacket(h) \o SecondPacket(m) \o t

RefusalWire ==
  \/ sent = <<>> /\ wire = <<>>
  \/ \E r \in Reasons : sent = <<r>> /\ wire = BuildDisconnectLoginPacket(r)

GameInv ==
  /\ kind = "player" => PlayerWire
  /\ kind = "raw" => wire \in Seq(Byte)
  /\ kind = "refusal" => RefusalWire

LEMMA GameInit == Init => GameInv
BY DEF Init, GameInv, PlayerWire, RefusalWire

LEMMA GameStep == GameInv /\ [Next]_vars => GameInv'
<1> SUFFICES ASSUME GameInv, [Next]_vars PROVE GameInv'
  OBVIOUS
<1>1. CASE ClientFrame
  BY <1>1 DEF ClientFrame, SendFrame, Send, GameInv
<1>2. CASE ServerFrame
  BY <1>2 DEF ServerFrame, SendFrame, Send, GameInv
<1>3. CASE PlayerPacket
  <2>0. kind = "player" /\ kind' = kind /\ PlayerWire
    BY <1>3 DEF PlayerPacket, Send, GameInv
  <2>1. CASE sent = <<>>
    <3>1. PICK h \in Handshakes : Send(h, HandshakePacket(h))
      BY <1>3, <2>1 DEF PlayerPacket
    <3>2. wire = <<>>
      BY <2>0, <2>1 DEF PlayerWire
    <3>3. <<>> \o HandshakePacket(h) = HandshakePacket(h)
      BY HandshakeBytes, Empty
    <3>4. sent' = <<h>> /\ wire' = HandshakePacket(h)
      BY <3>1, <3>2, <3>3, <2>1 DEF Send
    <3> QED
      BY <3>4, <2>0 DEF GameInv, PlayerWire
  <2>2. CASE Len(sent) = 1
    <3>1. PICK m \in Seconds : Send(m, SecondPacket(m))
      BY <1>3, <2>2 DEF PlayerPacket
    <3>2. PICK h \in Handshakes : sent = <<h>> /\ wire = HandshakePacket(h)
      <4>1. sent # <<>> /\ \A h \in Handshakes, m2 \in Seconds : sent # <<h, m2>>
        BY <2>2
      <4> QED
        BY <2>0, <4>1 DEF PlayerWire
    <3> DEFINE w == HandshakePacket(h) \o SecondPacket(m)
    <3>3. w \in Seq(Byte)
      BY HandshakeBytes, SecondBytes, Joined
    <3>4. w \o <<>> = w /\ <<>> \in Seq(Byte)
      BY <3>3, Empty
    <3>5. sent' = <<h, m>> /\ wire' = w
      <4>1. sent' = Append(sent, m) /\ wire' = wire \o SecondPacket(m)
        BY <3>1 DEF Send
      <4>2. Append(<<h>>, m) = <<h, m>>
        BY Pair
      <4> QED
        BY <4>1, <4>2, <3>2
    <3>6. \E g \in Handshakes, k \in Seconds, t \in Seq(Byte) :
            sent' = <<g, k>> /\ wire' = HandshakePacket(g) \o SecondPacket(k) \o t
      BY <3>4, <3>5
    <3> QED
      BY <3>6, <2>0 DEF GameInv, PlayerWire
  <2> QED
    BY <1>3, <2>1, <2>2 DEF PlayerPacket
<1>4. CASE MoreBytes
  <2>1. PICK b \in RawBytes : wire' = Append(wire, b)
    BY <1>4 DEF MoreBytes
  <2>2. b \in Byte /\ <<b>> \in Seq(Byte)
    BY PacketsAreBytes
  <2>3. kind' = kind /\ sent' = sent
    BY <1>4 DEF MoreBytes
  <2>4. CASE kind = "raw"
    BY <2>1, <2>2, <2>3, <2>4 DEF GameInv
  <2>5. CASE kind = "player" /\ Len(sent) = 2
    <3>1. PICK h \in Handshakes, m \in Seconds, t \in Seq(Byte) :
            sent = <<h, m>> /\ wire = HandshakePacket(h) \o SecondPacket(m) \o t
      BY <2>5 DEF GameInv, PlayerWire
    <3> DEFINE w == HandshakePacket(h) \o SecondPacket(m)
    <3>2. w \in Seq(Byte)
      BY HandshakeBytes, SecondBytes, Joined
    <3>3. wire = w \o t
      BY <3>1
    <3> HIDE DEF w
    <3>4. wire \in Seq(Byte) /\ t \o <<b>> \in Seq(Byte)
      BY <3>2, <3>3, <2>2, Joined
    <3>5. wire' = wire \o <<b>>
      BY <2>1, <3>4
    <3>6. wire' = w \o (t \o <<b>>)
      BY <3>2, <3>3, <3>5, <2>2, Regroup
    <3>7. \E g \in Handshakes, k \in Seconds, u \in Seq(Byte) :
            sent' = <<g, k>> /\ wire' = HandshakePacket(g) \o SecondPacket(k) \o u
      BY <3>1, <3>4, <3>6, <2>3 DEF w
    <3> QED
      BY <3>7, <2>3, <2>5 DEF GameInv, PlayerWire
  <2> QED
    BY <1>4, <2>4, <2>5 DEF MoreBytes
<1>5. CASE Refuse
  <2>1. kind = "refusal" /\ kind' = kind /\ sent = <<>> /\ RefusalWire
    BY <1>5 DEF Refuse, Send, GameInv
  <2>2. PICK r \in Reasons : Send(r, BuildDisconnectLoginPacket(r))
    BY <1>5 DEF Refuse
  <2>3. wire = <<>>
    BY <2>1 DEF RefusalWire
  <2>4. <<>> \o BuildDisconnectLoginPacket(r) = BuildDisconnectLoginPacket(r)
    BY RefusalBytes, Empty
  <2>5. sent' = <<r>> /\ wire' = BuildDisconnectLoginPacket(r)
    BY <2>1, <2>2, <2>3, <2>4 DEF Send
  <2> QED
    BY <2>1, <2>5 DEF GameInv, RefusalWire
<1>6. CASE UNCHANGED vars
  BY <1>6 DEF vars, GameInv, PlayerWire, RefusalWire
<1> QED
  BY <1>1, <1>2, <1>3, <1>4, <1>5, <1>6 DEF Next

LEMMA GameAlways == Spec => []GameInv
BY GameInit, GameStep, PTL DEF Spec

(* Of a connection whose two packets the server could read, the client     *)
(* reads the same from the data stream, whatever the bytes: it finds the   *)
(* same player and forwards the same bytes (handleExternalConnection       *)
(* writes the raw packets, handleDataStream reads them again).             *)
THEOREM HostReadsSame == Spec => []HostSeesSame
<1>1. GameInv => HostSeesSame
  <2> SUFFICES ASSUME GameInv, kind \in {"player", "raw"}, ReadInitialPackets(wire).ok
               PROVE  ReadInitialPackets(ReadInitialPackets(wire).raw) = ReadInitialPackets(wire)
      BY DEF HostSeesSame
  <2>1. wire \in Seq(Byte)
    <3>1. CASE kind = "raw"
      BY <3>1 DEF GameInv
    <3>2. CASE kind = "player" /\ sent = <<>> /\ wire = <<>>
      BY <3>2
    <3>3. ASSUME NEW h \in Handshakes, wire = HandshakePacket(h) PROVE wire \in Seq(Byte)
      BY <3>3, HandshakeBytes
    <3>4. ASSUME NEW h \in Handshakes, NEW m \in Seconds, NEW t \in Seq(Byte),
                 wire = HandshakePacket(h) \o SecondPacket(m) \o t
          PROVE  wire \in Seq(Byte)
      <4>1. HandshakePacket(h) \o SecondPacket(m) \in Seq(Byte)
        BY HandshakeBytes, SecondBytes, Joined
      <4> QED
        BY <3>4, <4>1, Joined
    <3> QED
      BY <3>1, <3>2, <3>3, <3>4 DEF GameInv, PlayerWire
  <2> QED
    BY <2>1, RereadSame
<1> QED
  BY <1>1, GameAlways, PTL

(* Every reason for which a player is refused, the game reads as a login   *)
(* disconnect packet that ends where the bytes end.                        *)
THEOREM RefusalIsReadable == Spec => []RefusalReadable
<1>1. GameInv => RefusalReadable
  <2> SUFFICES ASSUME GameInv, kind = "refusal", sent # <<>> PROVE RefusalReadable
      BY DEF RefusalReadable
  <2>1. PICK r \in Reasons : sent = <<r>> /\ wire = BuildDisconnectLoginPacket(r)
    BY DEF GameInv, RefusalWire
  <2> DEFINE p == WriteString(r)
             w == MarshalPacket(0, p)
  <2>2. /\ r \in Seq(Byte) /\ p \in Seq(Byte) /\ w \in Seq(Byte) /\ wire = w
        /\ Len(w) <= MaxPacket /\ sent[1] = r
    BY <2>1, RefusalBytes
  <2>3. Holds(w, 1, w)
    BY <2>2, HoldsFirst
  <2>4. ReadFullPacket(w, 1) = [ok |-> TRUE, id |-> 0, payload |-> p, raw |-> w,
                                next |-> 1 + Len(w)]
    BY <2>2, <2>3, ReadsPacket
  <2>5. Holds(p, 1, p)
    BY <2>2, HoldsFirst
  <2>6. Len(r) \in Nat /\ Len(VarInt[Len(r)]) \in Nat /\ Len(p) = Len(VarInt[Len(r)]) + Len(r)
    BY <2>2, StringBytes, VarIntBytes
  <2>7. Len(p) <= Len(w) /\ Len(w) \in Nat
    <3>1. Len(p) < Len(w)
      BY <2>2, PacketBytes
    <3> HIDE DEF p, w
    <3> QED
      BY <3>1, <2>2
  <2>8. Len(r) <= Len(w) /\ Len(r) <= MaxPacket
    BY <2>2, <2>6, <2>7, GroupFacts
  <2>9. Len(VarInt[Len(r)]) <= MaxGroups
    <3>1. Len(r) \in 0..MaxPacket
      BY <2>6, <2>8, GroupFacts
    <3>2. WriteVarInt(Len(r)) = VarInt[Len(r)]
      BY <2>6, VarIntBytes
    <3> QED
      BY <3>1, <3>2, VarIntsFit
  <2>10. ReadString(p, 1, Len(w)) = [ok |-> TRUE, val |-> r, next |-> 1 + Len(p)]
    BY <2>2, <2>5, <2>7, <2>8, <2>9, ReadsString
  <2> HIDE DEF p, w
  <2>11. Len(p) \in Nat /\ 1 + Len(p) = Len(p) + 1 /\ 1 + Len(w) = Len(w) + 1
    BY <2>2
  <2> DEFINE f == ReadFullPacket(w, 1)
  <2>12. f.ok /\ f.id = 0 /\ f.next = Len(w) + 1 /\ f.payload = p
    BY <2>4, <2>11
  <2>13. ReadString(p, 1, Len(w)) = [ok |-> TRUE, val |-> r, next |-> Len(p) + 1]
    BY <2>10, <2>11
  <2> HIDE DEF f
  <2>14. ReadString(f.payload, 1, Len(w)) = [ok |-> TRUE, val |-> r, next |-> Len(f.payload) + 1]
    BY <2>12, <2>13
  <2> QED
    BY <2>2, <2>12, <2>14 DEF RefusalReadable, f
<1> QED
  BY <1>1, GameAlways, PTL

-----------------------------------------------------------------------------
(* The two packets of a game as each reader finds them                     *)

(* The fields in front of the payload of a packet at position i.           *)
LEMMA ReadsHeader ==
  ASSUME NEW s \in Seq(Byte), NEW i \in Nat \ {0}, NEW id \in {0, 1}, NEW p \in Seq(Byte),
         Holds(s, i, MarshalPacket(id, p)), Len(MarshalPacket(id, p)) <= MaxPacket
  PROVE  LET n == ReadVarInt(s, i)
             e == ReadVarInt(s, n.next)
         IN  /\ n.ok /\ n.val \in 1..Len(MarshalPacket(id, p))
             /\ n.next \in Nat /\ n.next > i
             /\ n.next + n.val = i + Len(MarshalPacket(id, p))
             /\ e.ok /\ e.val = id /\ e.next \in Nat \ {0}
             /\ e.next + Len(p) = n.next + n.val
             /\ Holds(s, e.next, p)
<1> DEFINE c == VarInt[id]
           body == c \o p
           L == Len(body)
           a == VarInt[L]
           m == MarshalPacket(id, p)
           j == i + Len(a)
<1>1. /\ id \in Nat /\ c \in Seq(Byte) /\ Len(c) \in Nat /\ Len(c) >= 1 /\ Len(c) <= MaxGroups
      /\ WriteVarInt(id) = c
  <2>1. id \in Nat /\ id \in 0..MaxPacket
    BY LimitsAreNat
  <2> QED
    BY <2>1, VarIntBytes, VarIntsFit
<1>2. L \in 1..Len(m) /\ m \in Seq(Byte) /\ Len(m) \in Nat
  BY PacketBytes
<1>3. m = WriteVarInt(L) \o body
  BY <1>1 DEF MarshalPacket
<1> HIDE DEF c, m
<1>4. body \in Seq(Byte) /\ L = Len(c) + Len(p) /\ Len(p) \in Nat
  BY <1>1, Joined
<1>5. L = Len(body)
  OBVIOUS
<1> HIDE DEF body, L
<1>6. /\ L \in Nat /\ L \in 0..MaxPacket /\ WriteVarInt(L) = a /\ a \in Seq(Byte)
      /\ Len(a) \in Nat /\ Len(a) >= 1 /\ Len(a) <= MaxGroups
  <2>1. L \in Nat /\ L \in 0..MaxPacket
    <3>1. Len(m) <= MaxPacket
      BY DEF m
    <3> QED
      BY <3>1, <1>2, GroupFacts
  <2> QED
    BY <2>1, VarIntBytes, VarIntsFit
<1> HIDE DEF a
<1>7. /\ Holds(s, i, a) /\ Holds(s, j, body) /\ Len(m) = Len(a) + L
  <2>1. Holds(s, i, a \o body)
    BY <1>3, <1>6 DEF m
  <2>2. a \in Seq(Byte) /\ body \in Seq(Byte)
    BY <1>4, <1>6
  <2>3. Holds(s, i, a) /\ Holds(s, i + Len(a), body) /\ Len(a \o body) = Len(a) + Len(body)
    BY <2>1, <2>2, HoldsParts
  <2> QED
    BY <2>3, <1>3, <1>5, <1>6
<1>8. j \in Nat \ {0} /\ j > i /\ j + L = i + Len(m) /\ L \in 1..Len(m)
  BY <1>2, <1>6, <1>7
<1> DEFINE n == ReadVarInt(s, i)
           k == j + Len(c)
<1>9. n = [ok |-> TRUE, next |-> j, val |-> L]
  BY <1>6, <1>7, ReadsVarInt DEF a
<1> HIDE DEF j
<1>10. Holds(s, j, c) /\ Holds(s, k, p)
  <2>1. Holds(s, j, c \o p)
    BY <1>7 DEF body
  <2>2. j \in Nat \ {0} /\ c \in Seq(Byte)
    BY <1>1, <1>8
  <2> QED
    BY <2>1, <2>2, HoldsParts
<1>11. ReadVarInt(s, j) = [ok |-> TRUE, next |-> k, val |-> id]
  BY <1>1, <1>8, <1>10, ReadsVarInt DEF c
<1>12. k \in Nat \ {0} /\ k + Len(p) = j + L
  BY <1>1, <1>4, <1>8
<1> HIDE DEF k
<1> DEFINE e == ReadVarInt(s, n.next)
<1>13. n.ok /\ n.val = L /\ n.next = j
  BY <1>9
<1>14. e.ok /\ e.val = id /\ e.next = k
  BY <1>11, <1>13
<1> HIDE DEF n, e
<1>15. /\ n.ok /\ n.val \in 1..Len(m) /\ n.next \in Nat /\ n.next > i
       /\ n.next + n.val = i + Len(m)
       /\ e.ok /\ e.val = id /\ e.next \in Nat \ {0}
       /\ e.next + Len(p) = n.next + n.val
       /\ Holds(s, e.next, p)
  BY <1>8, <1>10, <1>12, <1>13, <1>14
<1> QED
  BY <1>15 DEF n, e, m

(* The fields of a handshake whose body is at position i.                  *)
LEMMA ReadsHandshake ==
  ASSUME NEW s \in Seq(Byte), NEW i \in Nat \ {0}, NEW h \in Handshakes,
         Holds(s, i, HandshakeBody(h))
  PROVE  LET v == ReadVarInt(s, i)
             n == ReadVarInt(s, v.next)
             k == n.next + n.val
         IN  /\ v.ok /\ v.val = h.version
             /\ ReadString(s, v.next, MaxAddr) =
                  IF Len(h.addr) <= MaxAddr THEN [ok |-> TRUE, val |-> h.addr, next |-> k]
                  ELSE NoPacket
             /\ ReadUShort(s, k) = [ok |-> TRUE, val |-> h.port, next |-> k + 2]
             /\ ReadVarInt(s, k + 2).val = h.nextState
<1> DEFINE a == VarInt[h.version]
           b == WriteString(h.addr)
           c == PutUint16(h.port)
           d == VarInt[h.nextState]
           L == Len(h.addr)
           q == VarInt[L]
<1>1. /\ h.version \in Nat /\ h.version \in Versions /\ h.addr \in Seq(Byte) /\ L \in Nat
      /\ h.port \in Numbers /\ h.port \in Nat /\ h.nextState \in {1, 2, 3} /\ h.nextState \in Nat
  BY HandshakeBytes
<1>2. /\ a \in Seq(Byte) /\ Len(a) \in Nat /\ Len(a) <= MaxGroups /\ WriteVarInt(h.version) = a
      /\ d \in Seq(Byte) /\ Len(d) \in Nat /\ Len(d) <= MaxGroups /\ WriteVarInt(h.nextState) = d
      /\ q \in Seq(Byte) /\ Len(q) \in Nat /\ WriteVarInt(L) = q
  BY <1>1, VarIntBytes, VarIntsFit
<1>3. b \in Seq(Byte) /\ Len(b) = Len(q) + L /\ Len(b) \in Nat
  <2>1. h.addr \in Seq(Byte)
    BY <1>1
  <2>2. b \in Seq(Byte) /\ Len(b) = Len(q) + L
    BY <2>1, StringBytes
  <2> HIDE DEF b, L, q
  <2>3. Len(b) \in Nat
    BY <2>2
  <2> QED
    BY <2>2, <2>3
<1>4. c \in Seq(Byte) /\ Len(c) = 2
  BY <1>1, Put16
<1>5. HandshakeBody(h) = a \o b \o c \o d
  BY <1>2 DEF HandshakeBody
<1> HIDE DEF a, b, c, d, L, q
<1> DEFINE ab == a \o b
           abc == ab \o c
<1>6. ab \in Seq(Byte) /\ Len(ab) = Len(a) + Len(b) /\ HandshakeBody(h) = abc \o d
  BY <1>2, <1>3, <1>5, Joined
<1> HIDE DEF ab
<1>7. abc \in Seq(Byte) /\ Len(abc) = Len(a) + Len(b) + 2
  <2>1. ab \in Seq(Byte) /\ c \in Seq(Byte)
    BY <1>4, <1>6
  <2>2. abc \in Seq(Byte) /\ Len(abc) = Len(ab) + Len(c)
    BY <2>1, Joined
  <2> HIDE DEF abc
  <2> QED
    BY <2>2, <1>4, <1>6
<1> HIDE DEF abc
<1>8. /\ Holds(s, i, abc) /\ Holds(s, i + Len(abc), d)
      /\ Len(HandshakeBody(h)) = Len(abc) + Len(d)
  <2>1. Holds(s, i, abc \o d)
    BY <1>6
  <2>a. abc \in Seq(Byte) /\ d \in Seq(Byte)
    BY <1>2, <1>7
  <2>2. Holds(s, i, abc) /\ Holds(s, i + Len(abc), d) /\ Len(abc \o d) = Len(abc) + Len(d)
    BY <2>1, <2>a, HoldsParts
  <2> QED
    BY <2>2, <1>6
<1>9. Holds(s, i, ab) /\ Holds(s, i + Len(ab), c)
  <2>1. Holds(s, i, ab \o c)
    BY <1>8 DEF abc
  <2> QED
    BY <2>1, <1>4, <1>6, HoldsParts
<1>10. Holds(s, i, a) /\ Holds(s, i + Len(a), b)
  <2>1. Holds(s, i, a \o b)
    BY <1>9 DEF ab
  <2> QED
    BY <2>1, <1>2, <1>3, HoldsParts
<1>11. L \in 0..MaxPacket
  <2>1. /\ HandshakeBody(h) \in Seq(Byte)
        /\ HandshakePacket(h) = MarshalPacket(0, HandshakeBody(h))
        /\ HandshakePacket(h) \in Seq(Byte) /\ Len(HandshakePacket(h)) <= MaxPacket
    BY HandshakeBytes
  <2>2. Len(HandshakeBody(h)) < Len(HandshakePacket(h))
    BY <2>1, PacketBytes
  <2>4. Len(HandshakePacket(h)) \in Nat
    BY <2>1
  <2>5. L <= Len(HandshakeBody(h)) /\ Len(HandshakeBody(h)) \in Nat
    BY <1>1, <1>2, <1>3, <1>7, <1>8
  <2> QED
    BY <2>1, <2>2, <2>4, <2>5, <1>1, GroupFacts
<1>12. Len(q) <= MaxGroups
  BY <1>2, <1>11, VarIntsFit
<1> DEFINE j == i + Len(a)
           k == j + Len(b)
           v == ReadVarInt(s, i)
           n == ReadVarInt(s, v.next)
<1>13. j \in Nat \ {0} /\ k \in Nat \ {0} /\ k + 2 \in Nat \ {0}
  BY <1>2, <1>3
<1>14. Holds(s, j, b) /\ Holds(s, k, c) /\ Holds(s, k + 2, d)
  <2>1. i + Len(ab) = k /\ i + Len(abc) = k + 2
    BY <1>2, <1>3, <1>6, <1>7
  <2> QED
    BY <2>1, <1>8, <1>9, <1>10
<1>15. v = [ok |-> TRUE, next |-> j, val |-> h.version]
  BY <1>1, <1>2, <1>10, ReadsVarInt DEF a
<1> HIDE DEF j
<1>16. v.ok /\ v.next = j /\ v.val = h.version
  BY <1>15
<1> HIDE DEF v, k
<1>17. /\ ReadVarInt(s, j).ok /\ ReadVarInt(s, j).val = L
       /\ ReadVarInt(s, j).next = j + Len(q)
       /\ ReadString(s, j, MaxAddr) =
            IF L <= MaxAddr THEN [ok |-> TRUE, val |-> h.addr, next |-> j + Len(b)]
            ELSE NoPacket
  <2>1. Holds(s, j, WriteString(h.addr)) /\ Len(VarInt[Len(h.addr)]) <= MaxGroups
    BY <1>12, <1>14 DEF b, q, L
  <2>2. h.addr \in Seq(Byte) /\ MaxAddr \in Nat /\ j \in Nat \ {0}
    BY <1>1, <1>13, GroupFacts
  <2> QED
    BY <2>1, <2>2, ReadsString DEF b, q, L
<1>18. n.next + n.val = k
  <2>1. n.next = j + Len(q) /\ n.val = L
    BY <1>16, <1>17
  <2> HIDE DEF n
  <2> QED
    BY <2>1, <1>1, <1>2, <1>3, <1>13 DEF k
<1>19. ReadUShort(s, k) = [ok |-> TRUE, val |-> h.port, next |-> k + 2]
  BY <1>1, <1>13, <1>14, ReadsUShort DEF c
<1>20. ReadVarInt(s, k + 2).val = h.nextState
  <2>1. ReadVarInt(s, k + 2) =
          [ok |-> TRUE, next |-> k + 2 + Len(VarInt[h.nextState]), val |-> h.nextState]
    BY <1>1, <1>2, <1>13, <1>14, ReadsVarInt DEF d
  <2> QED
    BY <2>1
<1>21. ReadString(s, v.next, MaxAddr) =
         IF Len(h.addr) <= MaxAddr THEN [ok |-> TRUE, val |-> h.addr, next |-> k] ELSE NoPacket
  BY <1>16, <1>17 DEF k, L
<1> HIDE DEF n
<1>22. /\ v.ok /\ v.val = h.version
       /\ ReadString(s, v.next, MaxAddr) =
            IF Len(h.addr) <= MaxAddr THEN [ok |-> TRUE, val |-> h.addr, next |-> n.next + n.val]
            ELSE NoPacket
       /\ ReadUShort(s, n.next + n.val) =
            [ok |-> TRUE, val |-> h.port, next |-> n.next + n.val + 2]
       /\ ReadVarInt(s, n.next + n.val + 2).val = h.nextState
  BY <1>16, <1>18, <1>19, <1>20, <1>21
<1> QED
  BY <1>22 DEF v, n

(* Name and UUID of a login whose body is at position i.                   *)
LEMMA ReadsLogin ==
  ASSUME NEW s \in Seq(Byte), NEW i \in Nat \ {0}, NEW m \in Seconds, ~m.status,
         Holds(s, i, SecondBody(m))
  PROVE  LET k == i + Len(WriteString(m.name))
         IN  /\ ReadString(s, i, MaxName) =
                  IF Len(m.name) <= MaxName THEN [ok |-> TRUE, val |-> m.name, next |-> k]
                  ELSE NoPacket
             /\ Len(m.uuid) = UUIDLen => UUIDAt(s, k) = m.uuid
             /\ s = SecondBody(m) /\ i = 1 /\ Len(m.uuid) < UUIDLen => UUIDAt(s, k) = <<>>
<1> DEFINE a == WriteString(m.name)
           b == m.uuid
           k == i + Len(a)
           L == Len(m.name)
<1>1. /\ m.name \in Seq(Byte) /\ b \in Seq(Byte) /\ L \in Nat /\ Len(b) \in Nat
      /\ m.id \in {0, 1} /\ SecondPacket(m) = MarshalPacket(m.id, SecondBody(m))
      /\ SecondBody(m) \in Seq(Byte)
      /\ SecondPacket(m) \in Seq(Byte) /\ Len(SecondPacket(m)) <= MaxPacket
  BY SecondBytes
<1>2. a \in Seq(Byte) /\ Len(a) = Len(VarInt[L]) + L /\ Len(VarInt[L]) \in Nat
  BY <1>1, StringBytes, VarIntBytes
<1>3. SecondBody(m) = a \o b
  BY DEF SecondBody
<1> HIDE DEF a, b, L
<1>4. Len(a) \in Nat /\ L <= Len(a) /\ k \in Nat \ {0}
  BY <1>1, <1>2
<1>5. Holds(s, i, a) /\ Holds(s, k, b) /\ Len(SecondBody(m)) = Len(a) + Len(b)
  <2>1. Holds(s, i, a \o b)
    BY <1>3
  <2>2. a \in Seq(Byte) /\ b \in Seq(Byte)
    BY <1>1, <1>2
  <2>3. Holds(s, i, a) /\ Holds(s, i + Len(a), b) /\ Len(a \o b) = Len(a) + Len(b)
    BY <2>1, <2>2, HoldsParts
  <2> QED
    BY <2>3, <1>3
<1>6. Len(VarInt[L]) <= MaxGroups
  <2>1. Len(SecondBody(m)) < Len(SecondPacket(m)) /\ Len(SecondPacket(m)) \in Nat
    BY <1>1, PacketBytes
  <2>2. L \in 0..MaxPacket
    BY <2>1, <1>1, <1>4, <1>5, GroupFacts
  <2>3. WriteVarInt(L) = VarInt[L]
    BY <1>1, VarIntBytes
  <2> QED
    BY <2>2, <2>3, VarIntsFit
<1>7. ReadString(s, i, MaxName) =
        IF L <= MaxName THEN [ok |-> TRUE, val |-> m.name, next |-> k] ELSE NoPacket
  <2>1. Holds(s, i, WriteString(m.name)) /\ Len(VarInt[Len(m.name)]) <= MaxGroups
    BY <1>5, <1>6 DEF a, L
  <2>2. m.name \in Seq(Byte) /\ MaxName \in Nat
    BY <1>1, GroupFacts
  <2> QED
    BY <2>1, <2>2, ReadsString DEF a, L
<1>8. ASSUME Len(b) = UUIDLen PROVE UUIDAt(s, k) = b
  <2>1. SubSeq(s, k, k + Len(b) - 1) = b /\ k + Len(b) - 1 <= Len(s)
    BY <1>1, <1>4, <1>5, HoldsPart DEF Holds
  <2> HIDE DEF k
  <2> QED
    BY <2>1, <1>8 DEF UUIDAt
<1>9. ASSUME s = SecondBody(m), i = 1, Len(b) < UUIDLen PROVE UUIDAt(s, k) = <<>>
  <2>1. ~(k + UUIDLen - 1 <= Len(s))
    <3>1. Len(s) = Len(a) + Len(b) /\ k = 1 + Len(a)
      BY <1>5, <1>9
    <3> HIDE DEF k
    <3> QED
      BY <3>1, <1>1, <1>4, <1>9, GroupFacts
  <2> HIDE DEF k
  <2> QED
    BY <2>1 DEF UUIDAt
<1> QED
  BY <1>7, <1>8, <1>9 DEF a, b, L

(* Where the two packets are, and what the reader of the connection        *)
(* returns for each.                                                       *)
LEMMA TwoPackets ==
  ASSUME NEW h \in Handshakes, NEW m \in Seconds, NEW t \in Seq(Byte), NEW w,
         w = HandshakePacket(h) \o SecondPacket(m) \o t
  PROVE  /\ w \in Seq(Byte)
         /\ Holds(w, 1, HandshakePacket(h))
         /\ Holds(w, 1 + Len(HandshakePacket(h)), SecondPacket(m))
         /\ ReadFullPacket(w, 1) =
              [ok |-> TRUE, id |-> 0, payload |-> HandshakeBody(h),
               raw |-> HandshakePacket(h), next |-> 1 + Len(HandshakePacket(h))]
         /\ ReadFullPacket(w, 1 + Len(HandshakePacket(h))) =
              [ok |-> TRUE, id |-> m.id, payload |-> SecondBody(m), raw |-> SecondPacket(m),
               next |-> 1 + Len(HandshakePacket(h)) + Len(SecondPacket(m))]
<1> DEFINE a == HandshakePacket(h)
           b == SecondPacket(m)
           ab == a \o b
           j == 1 + Len(a)
<1>1. /\ a \in Seq(Byte) /\ Len(a) \in Nat /\ Len(a) <= MaxPacket
      /\ a = MarshalPacket(0, HandshakeBody(h)) /\ HandshakeBody(h) \in Seq(Byte)
  BY HandshakeBytes
<1>2. /\ b \in Seq(Byte) /\ Len(b) <= MaxPacket /\ m.id \in {0, 1}
      /\ b = MarshalPacket(m.id, SecondBody(m)) /\ SecondBody(m) \in Seq(Byte)
  BY SecondBytes
<1> HIDE DEF a, b
<1>3. ab \in Seq(Byte)
  BY <1>1, <1>2, Joined
<1>4. w = ab \o t
  BY DEF a, b
<1> HIDE DEF ab
<1>5. w \in Seq(Byte) /\ Holds(w, 1, ab)
  BY <1>3, <1>4, Joined, HoldsFirst
<1>6. Holds(w, 1, a) /\ Holds(w, j, b)
  <2>1. Holds(w, 1, a \o b) /\ 1 \in Nat \ {0}
    BY <1>5 DEF ab
  <2> QED
    BY <2>1, <1>1, <1>2, <1>5, HoldsParts
<1>7. j \in Nat \ {0}
  BY <1>1
<1>8. ReadFullPacket(w, 1) = [ok |-> TRUE, id |-> 0, payload |-> HandshakeBody(h), raw |-> a,
                              next |-> 1 + Len(a)]
  <2>1. Holds(w, 1, MarshalPacket(0, HandshakeBody(h)))
        /\ Len(MarshalPacket(0, HandshakeBody(h))) <= MaxPacket /\ 1 \in Nat \ {0} /\ 0 \in {0, 1}
    BY <1>1, <1>6
  <2> QED
    BY ZenonT(30), <2>1, <1>1, <1>5, ReadsPacket
<1> HIDE DEF j
<1>9. ReadFullPacket(w, j) = [ok |-> TRUE, id |-> m.id, payload |-> SecondBody(m), raw |-> b,
                              next |-> j + Len(b)]
  <2>1. Holds(w, j, MarshalPacket(m.id, SecondBody(m)))
        /\ Len(MarshalPacket(m.id, SecondBody(m))) <= MaxPacket
    BY <1>2, <1>6
  <2>2. w \in Seq(Byte) /\ j \in Nat \ {0} /\ m.id \in {0, 1} /\ SecondBody(m) \in Seq(Byte)
    BY <1>2, <1>5, <1>7
  <2>3. ReadFullPacket(w, j) =
          [ok |-> TRUE, id |-> m.id, payload |-> SecondBody(m),
           raw |-> MarshalPacket(m.id, SecondBody(m)),
           next |-> j + Len(MarshalPacket(m.id, SecondBody(m)))]
    BY ZenonT(30), <2>1, <2>2, ReadsPacket
  <2> QED
    BY <2>3, <1>2
<1> QED
  BY <1>5, <1>6, <1>8, <1>9 DEF a, b, j

(* The version and the next state of a handshake packet.                   *)
LEMMA FieldsOfHandshake ==
  ASSUME NEW h \in Handshakes
  PROVE  HandshakeFields(HandshakePacket(h)) = [version |-> h.version, nextState |-> h.nextState]
<1> DEFINE p == HandshakePacket(h)
           b == HandshakeBody(h)
           n == ReadVarInt(p, 1)
           e == ReadVarInt(p, n.next)
<1>1. p \in Seq(Byte) /\ Len(p) <= MaxPacket /\ b \in Seq(Byte) /\ p = MarshalPacket(0, b)
  BY HandshakeBytes
<1> HIDE DEF p, b
<1>2. Holds(p, 1, MarshalPacket(0, b)) /\ Len(MarshalPacket(0, b)) <= MaxPacket
      /\ 1 \in Nat \ {0} /\ 0 \in {0, 1}
  BY <1>1, HoldsFirst
<1>3. e.next \in Nat \ {0} /\ Holds(p, e.next, b)
  BY <1>1, <1>2, ReadsHeader
<1> DEFINE i == e.next
           v == ReadVarInt(p, i)
           q == ReadVarInt(p, v.next)
<1>4. i \in Nat \ {0} /\ Holds(p, i, HandshakeBody(h))
  BY <1>3 DEF b
<1> HIDE DEF n, e, i
<1>5. v.val = h.version /\ ReadVarInt(p, q.next + q.val + 2).val = h.nextState
  BY ZenonT(30), <1>1, <1>4, ReadsHandshake
<1>6. HandshakeFields(p) = [version |-> v.val, nextState |-> ReadVarInt(p, q.next + q.val + 2).val]
  BY DEF HandshakeFields, e, n, i
<1> QED
  BY <1>5, <1>6 DEF p

(* What the reader of the connection returns for them.                     *)
LEMMA InitialPackets ==
  ASSUME NEW h \in Handshakes, NEW m \in Seconds, NEW t \in Seq(Byte), NEW w,
         w = HandshakePacket(h) \o SecondPacket(m) \o t
  PROVE  ReadInitialPackets(w) =
           IF Acceptable(h, m)
           THEN [ok |-> TRUE, raw |-> HandshakePacket(h) \o SecondPacket(m),
                 login |-> LoginOf(h, m)]
           ELSE NoPacket
<1> DEFINE a == HandshakePacket(h)
           b == SecondPacket(m)
           f == ReadFullPacket(w, 1)
           g == ReadFullPacket(w, f.next)
           name == ReadString(g.payload, 1, MaxName)
           raw == f.raw \o g.raw
<1>1. /\ f = [ok |-> TRUE, id |-> 0, payload |-> HandshakeBody(h), raw |-> a,
              next |-> 1 + Len(a)]
      /\ ReadFullPacket(w, 1 + Len(a)) =
           [ok |-> TRUE, id |-> m.id, payload |-> SecondBody(m), raw |-> b,
            next |-> 1 + Len(a) + Len(b)]
  BY ZenonT(30), TwoPackets
<1>2. f.ok /\ f.id = 0 /\ f.raw = a /\ f.next = 1 + Len(a)
  BY <1>1
<1>3. g.ok /\ g.id = m.id /\ g.payload = SecondBody(m) /\ g.raw = b
  BY <1>1, <1>2
<1>4. HandshakeFields(a) = [version |-> h.version, nextState |-> h.nextState]
  BY FieldsOfHandshake
<1>5. HandshakeFields(f.raw).version = h.version
      /\ HandshakeFields(f.raw).nextState = h.nextState
  BY <1>2, <1>4
<1>6. raw = a \o b
  BY <1>2, <1>3
<1> DEFINE r == ReadInitialPackets(w)
<1>7. r = IF h.nextState = 1 THEN [ok |-> TRUE, raw |-> raw, login |-> NoLogin]
          ELSE IF m.id # 0 \/ ~name.ok THEN NoPacket
          ELSE [ok |-> TRUE, raw |-> raw,
                login |-> [name |-> name.val, uuid |-> UUIDAt(g.payload, name.next),
                           version |-> h.version, isLogin |-> TRUE]]
  BY <1>2, <1>3, <1>5 DEF ReadInitialPackets
<1> HIDE DEF f, g, r, a, b, raw
<1>8. name = ReadString(SecondBody(m), 1, MaxName)
  BY <1>3
<1> HIDE DEF name
<1>9. r = IF Acceptable(h, m)
          THEN [ok |-> TRUE, raw |-> a \o b, login |-> LoginOf(h, m)] ELSE NoPacket
  <2>1. CASE h.nextState = 1
    BY <2>1, <1>6, <1>7 DEF Acceptable, LoginOf
  <2>2. CASE h.nextState # 1 /\ m.id # 0
    BY <2>2, <1>7 DEF Acceptable
  <2>3. CASE h.nextState # 1 /\ m.id = 0 /\ m.status
    <3>1. SecondBody(m) = <<>>
      BY <2>3 DEF SecondBody
    <3>2. ~ReadVarInt(<<>>, 1).ok
      <4>1. ASSUME NEW k \in 1..MaxGroups PROVE ~LastByte(<<>>, 1, k)
        <5>1. Len(<<>>) = 0 /\ k \in Nat /\ k >= 1
          BY GroupFacts
        <5> QED
          BY <5>1 DEF LastByte
      <4> QED
        BY <4>1 DEF ReadVarInt
    <3>3. name = NoPacket
      BY <3>1, <3>2, <1>8 DEF ReadString, StringAfter
    <3> QED
      BY <2>3, <3>3, <1>7 DEF Acceptable, NoPacket
  <2>4. CASE h.nextState # 1 /\ m.id = 0 /\ ~m.status
    <3> DEFINE s == SecondBody(m)
               k == 1 + Len(WriteString(m.name))
    <3>1. /\ s \in Seq(Byte) /\ m.name \in Seq(Byte) /\ m.uuid \in Seq(Byte)
          /\ Len(m.uuid) <= UUIDLen /\ Len(m.uuid) \in Nat
      BY <2>4, SecondBytes
    <3>2. Holds(s, 1, SecondBody(m)) /\ 1 \in Nat \ {0}
      BY <3>1, HoldsFirst
    <3>3. /\ ReadString(s, 1, MaxName) =
               IF Len(m.name) <= MaxName THEN [ok |-> TRUE, val |-> m.name, next |-> k]
               ELSE NoPacket
          /\ Len(m.uuid) = UUIDLen => UUIDAt(s, k) = m.uuid
          /\ Len(m.uuid) < UUIDLen => UUIDAt(s, k) = <<>>
      BY <2>4, <3>1, <3>2, ReadsLogin
    <3>4. UUIDAt(s, k) = IF Len(m.uuid) < UUIDLen THEN <<>> ELSE m.uuid
      BY <3>1, <3>3, GroupFacts
    <3> HIDE DEF s, k
    <3>5. CASE Len(m.name) <= MaxName
      <4>1. name.ok /\ name.val = m.name /\ name.next = k
        BY <3>3, <3>5, <1>8 DEF s
      <4>2. UUIDAt(g.payload, name.next) = UUIDAt(s, k)
        BY <4>1, <1>3 DEF s
      <4>3. Acceptable(h, m)
        BY <2>4, <3>5 DEF Acceptable
      <4>4. LoginOf(h, m) = [name |-> name.val, uuid |-> UUIDAt(g.payload, name.next),
                             version |-> h.version, isLogin |-> TRUE]
        BY <4>1, <4>2, <3>4, <2>4 DEF LoginOf
      <4>5. r = [ok |-> TRUE, raw |-> raw, login |-> LoginOf(h, m)]
        BY <4>1, <4>4, <1>7, <2>4
      <4> QED
        BY <4>3, <4>5, <1>6
    <3>6. CASE ~(Len(m.name) <= MaxName)
      <4>1. ~name.ok
        BY <3>3, <3>6, <1>8 DEF s, NoPacket
      <4> QED
        BY <4>1, <1>7, <2>4, <3>6 DEF Acceptable
    <3> QED
      BY <3>5, <3>6
  <2> QED
    BY <2>1, <2>2, <2>3, <2>4, SecondBytes
<1> QED
  BY <1>9 DEF r, a, b

LEMMA BothSent ==
  ASSUME GameInv, kind = "player", Len(sent) = 2
  PROVE  \E h \in Handshakes, m \in Seconds, t \in Seq(Byte) :
           sent = <<h, m>> /\ wire = HandshakePacket(h) \o SecondPacket(m) \o t
<1>1. sent # <<>>
  OBVIOUS
<1>2. ASSUME NEW h \in Handshakes PROVE sent # <<h>>
  OBVIOUS
<1> QED
  BY <1>1, <1>2 DEF GameInv, PlayerWire

(* Every byte of the two packets and, of an acceptable login, name, UUID   *)
(* and version: ReadInitialPackets finds what the game sent, whatever      *)
(* follows.                                                                *)
THEOREM ReadsTheGame == Spec => []ReadsWhatWasSent
<1>1. GameInv => ReadsWhatWasSent
  <2> SUFFICES ASSUME GameInv, kind = "player", Len(sent) = 2 PROVE ReadsWhatWasSent
      BY DEF ReadsWhatWasSent
  <2>1. PICK h \in Handshakes, m \in Seconds, t \in Seq(Byte) :
          sent = <<h, m>> /\ wire = HandshakePacket(h) \o SecondPacket(m) \o t
    BY BothSent
  <2>2. sent[1] = h /\ sent[2] = m
    BY <2>1
  <2>3. ReadInitialPackets(wire) =
          IF Acceptable(h, m)
          THEN [ok |-> TRUE, raw |-> HandshakePacket(h) \o SecondPacket(m),
                login |-> LoginOf(h, m)]
          ELSE NoPacket
    BY <2>1, InitialPackets
  <2> QED
    BY <2>2, <2>3 DEF ReadsWhatWasSent, NoPacket
<1> QED
  BY <1>1, GameAlways, PTL

(* What the parsers of peeked data find of a login that is acceptable.     *)
SameFields(h, w) ==
  /\ PeekMCHandshake(w).version = h.version
  /\ PeekMCHandshake(w).addr = h.addr /\ PeekMCHandshake(w).port = h.port
BehindHandshake(h, w) ==
  LET n == ReadVarInt(w, 1)
  IN  /\ Len(w) >= 7 /\ n.ok /\ n.val \in 1..MaxPeek
      /\ n.next + n.val = 1 + Len(HandshakePacket(h))
      /\ ReadVarInt(w, ReadVarInt(w, n.next).next).val = h.version

LEMMA PeekedHandshake ==
  ASSUME NEW h \in Handshakes, NEW m \in Seconds, NEW t \in Seq(Byte), NEW w,
         w = HandshakePacket(h) \o SecondPacket(m) \o t, PeekMCHandshake(w).ok
  PROVE  SameFields(h, w) /\ BehindHandshake(h, w)
<1> DEFINE a == HandshakePacket(h)
           body == HandshakeBody(h)
           n == ReadVarInt(w, 1)
           e == ReadVarInt(w, n.next)
           i == e.next
           v == ReadVarInt(w, i)
           addr == ReadString(w, v.next, MaxAddr)
           port == ReadUShort(w, addr.next)
           q == ReadVarInt(w, v.next)
           k == q.next + q.val
<1>1. w \in Seq(Byte) /\ Holds(w, 1, a)
  BY TwoPackets
<1>2. /\ a \in Seq(Byte) /\ Len(a) <= MaxPacket /\ body \in Seq(Byte)
      /\ a = MarshalPacket(0, body) /\ h.addr \in Seq(Byte)
  BY HandshakeBytes
<1> HIDE DEF a, body
<1>3. n.ok /\ n.next + n.val = 1 + Len(a) /\ e.next \in Nat \ {0} /\ Holds(w, e.next, body)
  <2>1. Holds(w, 1, MarshalPacket(0, body)) /\ Len(MarshalPacket(0, body)) <= MaxPacket
        /\ 1 \in Nat \ {0} /\ 0 \in {0, 1}
    BY <1>1, <1>2
  <2> QED
    BY <2>1, <1>1, <1>2, ReadsHeader
<1>4. i \in Nat \ {0} /\ Holds(w, i, HandshakeBody(h))
  BY <1>3 DEF body
<1> HIDE DEF i
<1>5. /\ v.val = h.version
      /\ addr = IF Len(h.addr) <= MaxAddr THEN [ok |-> TRUE, val |-> h.addr, next |-> k]
                ELSE NoPacket
      /\ ReadUShort(w, k) = [ok |-> TRUE, val |-> h.port, next |-> k + 2]
  BY <1>1, <1>4, ReadsHandshake
<1> DEFINE p == PeekMCHandshake(w)
<1>6. /\ Len(w) >= 7 /\ n.val \in 1..MaxPeek /\ addr.ok
      /\ p.version = v.val /\ p.addr = addr.val /\ p.port = port.val
  BY DEF PeekMCHandshake, NoPacket, i
<1> HIDE DEF n, e, v, k, p
<1>7. addr = [ok |-> TRUE, val |-> h.addr, next |-> k]
  BY <1>5, <1>6 DEF NoPacket
<1> HIDE DEF addr
<1>8. addr.val = h.addr /\ port = [ok |-> TRUE, val |-> h.port, next |-> k + 2]
  <2>1. addr.val = h.addr /\ addr.next = k
    BY <1>7
  <2>2. port = ReadUShort(w, k)
    BY <2>1
  <2> QED
    BY <2>1, <2>2, <1>5
<1>9. /\ p.version = h.version /\ p.addr = h.addr /\ p.port = h.port
      /\ Len(w) >= 7 /\ n.ok /\ n.val \in 1..MaxPeek /\ n.next + n.val = 1 + Len(a)
      /\ v.val = h.version
  BY <1>3, <1>5, <1>6, <1>8
<1> QED
  BY <1>9 DEF n, e, v, i, p, a, SameFields, BehindHandshake

LEMMA PeekedLogin ==
  ASSUME NEW h \in Handshakes, NEW m \in Seconds, NEW t \in Seq(Byte), NEW w,
         w = HandshakePacket(h) \o SecondPacket(m) \o t, PeekMCHandshake(w).ok,
         m.id = 0, ~m.status, Len(m.name) <= MaxName, Len(m.uuid) = UUIDLen
  PROVE  ParseLoginFromPeekData(w) =
           [ok |-> TRUE, name |-> m.name, version |-> h.version, uuid |-> m.uuid]
<1> DEFINE b == SecondPacket(m)
           body == SecondBody(m)
           n == ReadVarInt(w, 1)
           v == ReadVarInt(w, ReadVarInt(w, n.next).next)
           start == n.next + n.val
           len == ReadVarInt(w, start)
           id == ReadVarInt(w, len.next)
           i == id.next
           name == ReadString(w, i, MaxName)
           j == 1 + Len(HandshakePacket(h))
<1>1. Len(w) >= 7 /\ n.ok /\ n.val \in 1..MaxPeek /\ start = j /\ v.val = h.version
  BY PeekedHandshake DEF BehindHandshake
<1>2. w \in Seq(Byte) /\ Holds(w, j, b)
  BY TwoPackets
<1>3. /\ b \in Seq(Byte) /\ Len(b) <= MaxPacket /\ body \in Seq(Byte)
      /\ b = MarshalPacket(0, body)
  BY SecondBytes
<1>4. Len(b) <= MaxPeek
  BY PacketsFit
<1>5. Len(b) \in Nat /\ Len(b) >= 1 /\ Len(w) \in Nat
  <2>1. Len(body) < Len(MarshalPacket(0, body)) /\ 0 \in {0, 1}
    BY <1>3, PacketBytes
  <2>2. Len(body) < Len(b)
    BY <2>1, <1>3
  <2> HIDE DEF b, body
  <2>3. Len(body) \in Nat /\ Len(b) \in Nat /\ Len(w) \in Nat
    BY <1>2, <1>3
  <2> QED
    BY <2>2, <2>3
<1>6. j \in Nat \ {0}
  <2>1. Len(HandshakePacket(h)) \in Nat
    BY HandshakeBytes
  <2> QED
    BY <2>1
<1> HIDE DEF b, body, n, j, v, start
<1>7. start <= Len(w)
  BY <1>1, <1>2, <1>5, <1>6 DEF Holds
<1>8. /\ len.ok /\ len.val \in 1..Len(b) /\ id.ok /\ id.val = 0 /\ i \in Nat \ {0}
      /\ Holds(w, i, body)
  <2>1. Holds(w, j, MarshalPacket(0, body)) /\ Len(MarshalPacket(0, body)) <= MaxPacket
        /\ 0 \in {0, 1}
    BY <1>2, <1>3
  <2>2. LET x == ReadVarInt(w, j)
            e == ReadVarInt(w, x.next)
        IN  /\ x.ok /\ x.val \in 1..Len(MarshalPacket(0, body))
            /\ e.ok /\ e.val = 0 /\ e.next \in Nat \ {0} /\ Holds(w, e.next, body)
    BY <2>1, <1>2, <1>3, <1>6, ReadsHeader
  <2> QED
    BY <2>2, <1>1, <1>3
<1>9. len.val \in 1..MaxPeek
  BY <1>4, <1>5, <1>8, GroupFacts
<1> HIDE DEF i
<1>10. /\ name = [ok |-> TRUE, val |-> m.name, next |-> i + Len(WriteString(m.name))]
       /\ UUIDAt(w, i + Len(WriteString(m.name))) = m.uuid
  <2>1. Holds(w, i, SecondBody(m)) /\ i \in Nat \ {0}
    BY <1>8 DEF body
  <2> QED
    BY <2>1, <1>2, ReadsLogin
<1>11. name.ok /\ name.val = m.name /\ UUIDAt(w, name.next) = m.uuid
  BY <1>10
<1> DEFINE l == ParseLoginFromPeekData(w)
<1>12. l = IF /\ Len(w) >= 7 /\ n.ok /\ n.val \in 1..MaxPeek /\ start <= Len(w)
              /\ len.ok /\ len.val \in 1..MaxPeek /\ id.ok /\ id.val = 0 /\ name.ok
           THEN [ok |-> TRUE, name |-> name.val, version |-> v.val,
                 uuid |-> UUIDAt(w, name.next)]
           ELSE NoPacket
  BY DEF ParseLoginFromPeekData, n, v, start, i
<1> HIDE DEF len, id, name, l
<1>13. l = [ok |-> TRUE, name |-> m.name, version |-> h.version, uuid |-> m.uuid]
  BY <1>1, <1>7, <1>8, <1>9, <1>11, <1>12
<1> QED
  BY <1>13 DEF l

(* Of a login with a UUID that the peeking parser takes for a handshake,   *)
(* PeekMCHandshake and ParseLoginFromPeekData find version, address, port, *)
(* name and UUID that ReadInitialPackets finds.                            *)
THEOREM ParsersFindTheSame == Spec => []ParsersAgree
<1>1. GameInv => ParsersAgree
  <2> DEFINE r == ReadInitialPackets(wire)
             p == PeekMCHandshake(wire)
             l == ParseLoginFromPeekData(wire)
  <2> SUFFICES ASSUME GameInv, kind = "player", Len(sent) = 2,
                      r.ok, p.ok, r.login.isLogin, r.login.uuid # <<>>
               PROVE  /\ l.ok
                      /\ l.name = r.login.name /\ l.uuid = r.login.uuid
                      /\ p.version = r.login.version /\ l.version = r.login.version
                      /\ p.addr = sent[1].addr /\ p.port = sent[1].port
      BY DEF ParsersAgree
  <2>1. PICK h \in Handshakes, m \in Seconds, t \in Seq(Byte) :
          sent = <<h, m>> /\ wire = HandshakePacket(h) \o SecondPacket(m) \o t
    BY BothSent
  <2>2. sent[1] = h
    BY <2>1
  <2>3. r = IF Acceptable(h, m)
            THEN [ok |-> TRUE, raw |-> HandshakePacket(h) \o SecondPacket(m),
                  login |-> LoginOf(h, m)]
            ELSE NoPacket
    BY <2>1, InitialPackets
  <2>4. /\ p.version = h.version /\ p.addr = h.addr /\ p.port = h.port
    <3>1. SameFields(h, wire)
      BY <2>1, PeekedHandshake
    <3> QED
      BY <3>1 DEF SameFields
  <2> HIDE DEF r
  <2>5. Acceptable(h, m) /\ r.login = LoginOf(h, m)
    BY <2>3 DEF NoPacket
  <2>6. /\ h.nextState # 1
        /\ r.login = [name |-> m.name, uuid |-> IF Len(m.uuid) < UUIDLen THEN <<>> ELSE m.uuid,
                      version |-> h.version, isLogin |-> TRUE]
    BY <2>5 DEF LoginOf, NoLogin
  <2>7. m.id = 0 /\ ~m.status /\ Len(m.name) <= MaxName
    BY <2>5, <2>6 DEF Acceptable
  <2>8. ~(Len(m.uuid) < UUIDLen)
    BY <2>6
  <2>9. Len(m.uuid) = UUIDLen /\ r.login.uuid = m.uuid
    <3>1. m.uuid \in Seq(Byte) /\ Len(m.uuid) <= UUIDLen
      BY <2>7, SecondBytes
    <3>2. Len(m.uuid) \in Nat
      BY <3>1
    <3> QED
      BY <3>1, <3>2, <2>6, <2>8, GroupFacts
  <2>10. l = [ok |-> TRUE, name |-> m.name, version |-> h.version, uuid |-> m.uuid]
    BY <2>1, <2>7, <2>9, PeekedLogin
  <2> HIDE DEF l, p
  <2>11. r.login.name = m.name /\ r.login.version = h.version
    BY <2>6
  <2> QED
    BY <2>2, <2>4, <2>9, <2>10, <2>11
<1> QED
  BY <1>1, GameAlways, PTL
=============================================================================
