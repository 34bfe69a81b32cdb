---------------------------- MODULE BridgeProofs ---------------------------
(***************************************************************************)
(* Theorems about one bridged connection, for any number of pieces in both *)
(* directions and any room between two ends.                               *)
(***************************************************************************)
EXTENDS Bridge, TLAPS

-----------------------------------------------------------------------------
(* Pieces on their way                                                     *)

(* s holds the pieces that follow piece n, in order.                       *)
Run(s, n) == \A i \in 1..Len(s) : s[i] = n + i

(* A copier with n pieces behind it at the far end: s has left its hand    *)
(* and is on its way there, h is in its hand, b in its buffer, and it has  *)
(* counted c pieces.  Passed is the last piece it has taken in.            *)
Passed(h, b, c)      == c + (IF h = 0 THEN 0 ELSE 1) + Len(b)
Stage(n, s, h, b, c) ==
  /\ s \in Seq(Nat) /\ h \in Nat /\ b \in Seq(Nat) /\ c \in Nat
  /\ Run(s, n)
  /\ c = n + Len(s)
  /\ h # 0 => h = c + 1
  /\ Run(b, Passed(h, <<>>, c))

LEMMA RunAppend ==
  ASSUME NEW s \in Seq(Nat), NEW n \in Nat, Run(s, n), NEW x \in Nat, x = n + Len(s) + 1
  PROVE  /\ Append(s, x) \in Seq(Nat)
         /\ Len(Append(s, x)) = Len(s) + 1
         /\ Run(Append(s, x), n)
<1>1. /\ Append(s, x) \in Seq(Nat)
      /\ Len(Append(s, x)) = Len(s) + 1
      /\ \A i \in 1..Len(s) : Append(s, x)[i] = s[i]
      /\ Append(s, x)[Len(s) + 1] = x
  OBVIOUS
<1>2. ASSUME NEW i \in 1..(Len(s) + 1) PROVE Append(s, x)[i] = n + i
  <2>1. CASE i \in 1..Len(s)
    BY <1>1, <2>1 DEF Run
  <2>2. CASE i = Len(s) + 1
    BY <1>1, <2>2
  <2> QED
    BY <2>1, <2>2
<1> QED
  BY <1>1, <1>2 DEF Run

LEMMA RunTail ==
  ASSUME NEW s \in Seq(Nat), NEW n \in Nat, Run(s, n), s # <<>>
  PROVE  /\ Tail(s) \in Seq(Nat)
         /\ Len(s) \in Nat /\ Len(s) > 0
         /\ Len(Tail(s)) = Len(s) - 1
         /\ Head(s) = n + 1
         /\ Run(Tail(s), n + 1)
BY DEF Run

LEMMA RunCut ==
  ASSUME NEW s \in Seq(Nat), NEW n \in Nat, Run(s, n), NEW m \in 1..Len(s)
  PROVE  /\ SubSeq(s, 2, m) \in Seq(Nat)
         /\ Len(SubSeq(s, 2, m)) = m - 1
         /\ Run(SubSeq(s, 2, m), n + 1)
         /\ SubSeq(s, m + 1, Len(s)) \in Seq(Nat)
         /\ Len(SubSeq(s, m + 1, Len(s))) = Len(s) - m
         /\ Run(SubSeq(s, m + 1, Len(s)), n + m)
         /\ Head(s) = n + 1
<1>1. /\ SubSeq(s, 2, m) \in Seq(Nat)
      /\ Len(SubSeq(s, 2, m)) = m - 1
      /\ \A i \in 1..(m - 1) : SubSeq(s, 2, m)[i] = s[i + 1]
  OBVIOUS
<1>2. /\ SubSeq(s, m + 1, Len(s)) \in Seq(Nat)
      /\ Len(SubSeq(s, m + 1, Len(s))) = Len(s) - m
      /\ \A i \in 1..(Len(s) - m) : SubSeq(s, m + 1, Len(s))[i] = s[i + m]
  OBVIOUS
<1>3. Head(s) = n + 1
  BY DEF Run
<1>4. Run(SubSeq(s, 2, m), n + 1)
  BY <1>1 DEF Run
<1>5. Run(SubSeq(s, m + 1, Len(s)), n + m)
  BY <1>2 DEF Run
<1> QED
  BY <1>1, <1>2, <1>3, <1>4, <1>5

(* The far end takes its next piece.                                       *)
LEMMA StageTaken ==
  ASSUME NEW n \in Nat, NEW s, NEW h, NEW b, NEW c,
         Stage(n, s, h, b, c), s # <<>>
  PROVE  Head(s) = n + 1 /\ Stage(n + 1, Tail(s), h, b, c)
BY RunTail DEF Stage

(* The far end takes m pieces at once.                                     *)
LEMMA StageCut ==
  ASSUME NEW n \in Nat, NEW s, NEW h, NEW b, NEW c,
         Stage(n, s, h, b, c), NEW m \in 1..Len(s)
  PROVE  Stage(n + m, SubSeq(s, m + 1, Len(s)), h, b, c)
<1>t. s \in Seq(Nat) /\ h \in Nat /\ b \in Seq(Nat) /\ c \in Nat
  BY DEF Stage
<1>1. /\ Len(SubSeq(s, m + 1, Len(s))) = Len(s) - m
      /\ Run(SubSeq(s, m + 1, Len(s)), n + m)
  BY RunCut DEF Stage
<1>2. c = (n + m) + (Len(s) - m)
  BY DEF Stage
<1>3. SubSeq(s, m + 1, Len(s)) \in Seq(Nat) /\ n + m \in Nat
  BY <1>t
<1> QED
  BY <1>t, <1>1, <1>2, <1>3 DEF Stage

(* The copier writes and counts the piece in its hand.                     *)
LEMMA StageWrite ==
  ASSUME NEW n \in Nat, NEW s, NEW h, NEW b, NEW c,
         Stage(n, s, h, b, c), h # 0
  PROVE  /\ Stage(n, Append(s, h), 0, b, c + 1)
         /\ Passed(0, b, c + 1) = Passed(h, b, c)
BY RunAppend DEF Stage, Passed

(* The copier takes the next piece from its buffer ...                     *)
LEMMA StageBuffer ==
  ASSUME NEW n \in Nat, NEW s, NEW b, NEW c,
         Stage(n, s, 0, b, c), b # <<>>
  PROVE  /\ Head(b) # 0
         /\ Stage(n, s, Head(b), Tail(b), c)
         /\ Passed(Head(b), Tail(b), c) = Passed(0, b, c)
<1>1. s \in Seq(Nat) /\ b \in Seq(Nat) /\ c \in Nat /\ Passed(0, <<>>, c) = c
  BY DEF Stage, Passed
<1>2. /\ Tail(b) \in Seq(Nat) /\ Len(b) \in Nat /\ Len(Tail(b)) = Len(b) - 1
      /\ Head(b) = c + 1
      /\ Run(Tail(b), c + 1)
  BY <1>1, RunTail DEF Stage
<1>3. Passed(Head(b), <<>>, c) = c + 1
  BY <1>1, <1>2 DEF Passed
<1>4. Stage(n, s, Head(b), Tail(b), c)
  BY <1>1, <1>2, <1>3 DEF Stage
<1> QED
  BY <1>1, <1>2, <1>4 DEF Passed

(* ... or from the pieces x that wait at its own end ...                   *)
LEMMA StageRead ==
  ASSUME NEW n \in Nat, NEW s, NEW c, NEW x \in Seq(Nat),
         Stage(n, s, 0, <<>>, c), Run(x, Passed(0, <<>>, c)), x # <<>>
  PROVE  /\ Head(x) # 0
         /\ Stage(n, s, Head(x), <<>>, c)
         /\ Passed(Head(x), <<>>, c) = Passed(0, <<>>, c) + 1
<1>1. s \in Seq(Nat) /\ c \in Nat /\ Passed(0, <<>>, c) = c
  BY DEF Stage, Passed
<1>2. Head(x) = c + 1
  BY <1>1, RunTail
<1>3. Passed(Head(x), <<>>, c) = c + 1
  BY <1>1, <1>2 DEF Passed
<1> QED
  BY <1>1, <1>2, <1>3 DEF Stage, Run

(* ... of which its handler may have put m into hand and buffer before.    *)
LEMMA StagePeek ==
  ASSUME NEW n \in Nat, NEW s, NEW c, NEW x \in Seq(Nat),
         Stage(n, s, 0, <<>>, c), Run(x, Passed(0, <<>>, c)), NEW m \in 1..Len(x)
  PROVE  /\ Head(x) # 0
         /\ Stage(n, s, Head(x), SubSeq(x, 2, m), c)
         /\ Passed(Head(x), SubSeq(x, 2, m), c) = Passed(0, <<>>, c) + m
<1>1. s \in Seq(Nat) /\ c \in Nat /\ Passed(0, <<>>, c) = c
  BY DEF Stage, Passed
<1>2. /\ Head(x) = c + 1
      /\ SubSeq(x, 2, m) \in Seq(Nat)
      /\ Len(SubSeq(x, 2, m)) = m - 1
      /\ Run(SubSeq(x, 2, m), c + 1)
  BY <1>1, RunCut
<1>3. Passed(Head(x), <<>>, c) = c + 1
  BY <1>1, <1>2 DEF Passed
<1>4. Passed(Head(x), SubSeq(x, 2, m), c) = c + m
  BY <1>1, <1>2 DEF Passed
<1>5. Head(x) \in Nat \ {0}
  BY <1>1, <1>2
<1>6. Stage(n, s, Head(x), SubSeq(x, 2, m), c)
  BY <1>1, <1>2, <1>3, <1>5 DEF Stage
<1> QED
  BY <1>1, <1>2, <1>4, <1>5, <1>6

-----------------------------------------------------------------------------
(* One direction, from the far end to the near one: got has arrived; then  *)
(* come the stages of the two copiers, and s3, on its way from the sender  *)
(* to the second copier.                                                   *)
Chain(got, s1, h1, b1, c1, s2, h2, b2, c2, s3, sent) ==
  /\ got \in Seq(Nat) /\ Run(got, 0)
  /\ Stage(Len(got), s1, h1, b1, c1)
  /\ Stage(Passed(h1, b1, c1), s2, h2, b2, c2)
  /\ s3 \in Seq(Nat) /\ Run(s3, Passed(h2, b2, c2))
  /\ sent = Passed(h2, b2, c2) + Len(s3)

LEMMA PassedNat ==
  ASSUME NEW h \in Nat, NEW b \in Seq(Nat), NEW c \in Nat
  PROVE  Passed(h, b, c) \in Nat /\ Passed(h, b, c) >= c
BY DEF Passed

LEMMA ChainDeliver ==
  ASSUME NEW got, NEW s1, NEW h1, NEW b1, NEW c1, NEW s2, NEW h2, NEW b2, NEW c2, NEW s3,
         NEW sent, Chain(got, s1, h1, b1, c1, s2, h2, b2, c2, s3, sent),
         s1 # <<>>
  PROVE  /\ Head(s1) = Len(got) + 1 /\ Len(got) < sent
         /\ Chain(Append(got, Head(s1)), Tail(s1), h1, b1, c1, s2, h2, b2, c2, s3, sent)
<1>1. Len(got) \in Nat /\ s1 \in Seq(Nat) /\ c1 = Len(got) + Len(s1)
  BY DEF Chain, Stage
<1>2. Head(s1) = Len(got) + 1 /\ Stage(Len(got) + 1, Tail(s1), h1, b1, c1)
  BY <1>1, StageTaken DEF Chain
<1>3. /\ Append(got, Head(s1)) \in Seq(Nat)
      /\ Len(Append(got, Head(s1))) = Len(got) + 1
      /\ Run(Append(got, Head(s1)), 0)
  BY <1>1, <1>2, RunAppend DEF Chain
<1>4. Len(s1) > 0 /\ Len(s1) \in Nat
  BY <1>1
<1>5. /\ Passed(h1, b1, c1) \in Nat /\ Passed(h1, b1, c1) >= c1
      /\ Passed(h2, b2, c2) \in Nat /\ Passed(h2, b2, c2) >= c2
  BY PassedNat DEF Chain, Stage
<1>6. Len(got) < sent
  BY <1>1, <1>4, <1>5 DEF Chain, Stage
<1> QED
  BY <1>2, <1>3, <1>6 DEF Chain

LEMMA ChainWrite1 ==
  ASSUME NEW got, NEW s1, NEW h1, NEW b1, NEW c1, NEW s2, NEW h2, NEW b2, NEW c2, NEW s3,
         NEW sent, Chain(got, s1, h1, b1, c1, s2, h2, b2, c2, s3, sent),
         h1 # 0
  PROVE  Chain(got, Append(s1, h1), 0, b1, c1 + 1, s2, h2, b2, c2, s3, sent)
BY StageWrite DEF Chain

LEMMA ChainBuffer1 ==
  ASSUME NEW got, NEW s1, NEW h1, NEW b1, NEW c1, NEW s2, NEW h2, NEW b2, NEW c2, NEW s3,
         NEW sent, Chain(got, s1, h1, b1, c1, s2, h2, b2, c2, s3, sent),
         h1 = 0, b1 # <<>>
  PROVE  Head(b1) # 0 /\ Chain(got, s1, Head(b1), Tail(b1), c1, s2, h2, b2, c2, s3, sent)
BY StageBuffer DEF Chain

LEMMA ChainRead1 ==
  ASSUME NEW got, NEW s1, NEW h1, NEW b1, NEW c1, NEW s2, NEW h2, NEW b2, NEW c2, NEW s3,
         NEW sent, Chain(got, s1, h1, b1, c1, s2, h2, b2, c2, s3, sent),
         h1 = 0, b1 = <<>>, s2 # <<>>
  PROVE  Head(s2) # 0 /\ Chain(got, s1, Head(s2), b1, c1, Tail(s2), h2, b2, c2, s3, sent)
<1>1. Passed(0, <<>>, c1) \in Nat
  BY PassedNat DEF Chain, Stage
<1>2. Stage(Len(got), s1, 0, <<>>, c1) /\ Stage(Passed(0, <<>>, c1), s2, h2, b2, c2)
  BY DEF Chain
<1>3. s2 \in Seq(Nat) /\ Run(s2, Passed(0, <<>>, c1)) /\ Len(got) \in Nat
  BY <1>2 DEF Stage, Chain
<1>4. /\ Head(s2) # 0
      /\ Stage(Len(got), s1, Head(s2), <<>>, c1)
      /\ Passed(Head(s2), <<>>, c1) = Passed(0, <<>>, c1) + 1
  BY <1>2, <1>3, StageRead
<1>5. Stage(Passed(0, <<>>, c1) + 1, Tail(s2), h2, b2, c2)
  BY <1>1, <1>2, StageTaken
<1> QED
  BY <1>4, <1>5 DEF Chain

LEMMA ChainPeek1 ==
  ASSUME NEW got, NEW s1, NEW h1, NEW b1, NEW c1, NEW s2, NEW h2, NEW b2, NEW c2, NEW s3,
         NEW sent, Chain(got, s1, h1, b1, c1, s2, h2, b2, c2, s3, sent),
         h1 = 0, b1 = <<>>, NEW m \in 1..Len(s2)
  PROVE  /\ Head(s2) # 0
         /\ Chain(got, s1, Head(s2), SubSeq(s2, 2, m), c1,
                  SubSeq(s2, m + 1, Len(s2)), h2, b2, c2, s3, sent)
<1>1. Passed(0, <<>>, c1) \in Nat
  BY PassedNat DEF Chain, Stage
<1>2. Stage(Len(got), s1, 0, <<>>, c1) /\ Stage(Passed(0, <<>>, c1), s2, h2, b2, c2)
  BY DEF Chain
<1>3. s2 \in Seq(Nat) /\ Run(s2, Passed(0, <<>>, c1)) /\ Len(got) \in Nat
  BY <1>2 DEF Stage, Chain
<1>4. /\ Head(s2) # 0
      /\ Stage(Len(got), s1, Head(s2), SubSeq(s2, 2, m), c1)
      /\ Passed(Head(s2), SubSeq(s2, 2, m), c1) = Passed(0, <<>>, c1) + m
  BY <1>2, <1>3, StagePeek
<1>5. Stage(Passed(0, <<>>, c1) + m, SubSeq(s2, m + 1, Len(s2)), h2, b2, c2)
  BY <1>1, <1>2, StageCut
<1> QED
  BY <1>4, <1>5 DEF Chain

LEMMA ChainWrite2 ==
  ASSUME NEW got, NEW s1, NEW h1, NEW b1, NEW c1, NEW s2, NEW h2, NEW b2, NEW c2, NEW s3,
         NEW sent, Chain(got, s1, h1, b1, c1, s2, h2, b2, c2, s3, sent),
         h2 # 0
  PROVE  Chain(got, s1, h1, b1, c1, Append(s2, h2), 0, b2, c2 + 1, s3, sent)
<1>p. Passed(h1, b1, c1) \in Nat
  BY PassedNat DEF Chain, Stage
<1> QED
  BY <1>p, StageWrite DEF Chain

LEMMA ChainBuffer2 ==
  ASSUME NEW got, NEW s1, NEW h1, NEW b1, NEW c1, NEW s2, NEW h2, NEW b2, NEW c2, NEW s3,
         NEW sent, Chain(got, s1, h1, b1, c1, s2, h2, b2, c2, s3, sent),
         h2 = 0, b2 # <<>>
  PROVE  Head(b2) # 0 /\ Chain(got, s1, h1, b1, c1, s2, Head(b2), Tail(b2), c2, s3, sent)
<1>p. Passed(h1, b1, c1) \in Nat
  BY PassedNat DEF Chain, Stage
<1> QED
  BY <1>p, StageBuffer DEF Chain

LEMMA ChainRead2 ==
  ASSUME NEW got, NEW s1, NEW h1, NEW b1, NEW c1, NEW s2, NEW h2, NEW b2, NEW c2, NEW s3,
         NEW sent, Chain(got, s1, h1, b1, c1, s2, h2, b2, c2, s3, sent),
         h2 = 0, b2 = <<>>, s3 # <<>>
  PROVE  Head(s3) # 0 /\ Chain(got, s1, h1, b1, c1, s2, Head(s3), b2, c2, Tail(s3), sent)
<1>p. Passed(h1, b1, c1) \in Nat
  BY PassedNat DEF Chain, Stage
<1>q. Passed(0, <<>>, c2) \in Nat
  BY PassedNat DEF Chain, Stage
<1>1. /\ Head(s3) # 0
      /\ Stage(Passed(h1, b1, c1), s2, Head(s3), <<>>, c2)
      /\ Passed(Head(s3), <<>>, c2) = Passed(0, <<>>, c2) + 1
  BY <1>p, StageRead DEF Chain
<1>2. /\ Tail(s3) \in Seq(Nat) /\ Len(s3) \in Nat /\ Len(Tail(s3)) = Len(s3) - 1
      /\ Run(Tail(s3), Passed(0, <<>>, c2) + 1)
  BY <1>q, RunTail DEF Chain
<1>3. sent = Passed(0, <<>>, c2) + 1 + Len(Tail(s3))
  BY <1>q, <1>2 DEF Chain
<1> QED
  BY <1>1, <1>2, <1>3 DEF Chain

LEMMA ChainPeek2 ==
  ASSUME NEW got, NEW s1, NEW h1, NEW b1, NEW c1, NEW s2, NEW h2, NEW b2, NEW c2, NEW s3,
         NEW sent, Chain(got, s1, h1, b1, c1, s2, h2, b2, c2, s3, sent),
         h2 = 0, b2 = <<>>, NEW m \in 1..Len(s3)
  PROVE  /\ Head(s3) # 0
         /\ Chain(got, s1, h1, b1, c1, s2, Head(s3), SubSeq(s3, 2, m), c2,
                  SubSeq(s3, m + 1, Len(s3)), sent)
<1>p. Passed(h1, b1, c1) \in Nat
  BY PassedNat DEF Chain, Stage
<1>q. Passed(0, <<>>, c2) \in Nat
  BY PassedNat DEF Chain, Stage
<1>r. Len(s3) \in Nat
  BY DEF Chain
<1>1. /\ Head(s3) # 0
      /\ Stage(Passed(h1, b1, c1), s2, Head(s3), SubSeq(s3, 2, m), c2)
      /\ Passed(Head(s3), SubSeq(s3, 2, m), c2) = Passed(0, <<>>, c2) + m
  BY <1>p, StagePeek DEF Chain
<1>2. /\ SubSeq(s3, m + 1, Len(s3)) \in Seq(Nat)
      /\ Len(SubSeq(s3, m + 1, Len(s3))) = Len(s3) - m
      /\ Run(SubSeq(s3, m + 1, Len(s3)), Passed(0, <<>>, c2) + m)
  BY <1>q, RunCut DEF Chain
<1>3. sent = Passed(0, <<>>, c2) + m + Len(SubSeq(s3, m + 1, Len(s3)))
  BY <1>q, <1>r, <1>2 DEF Chain
<1> QED
  BY <1>1, <1>2, <1>3 DEF Chain

LEMMA ChainSend ==
  ASSUME NEW got, NEW s1, NEW h1, NEW b1, NEW c1, NEW s2, NEW h2, NEW b2, NEW c2, NEW s3,
         NEW sent, Chain(got, s1, h1, b1, c1, s2, h2, b2, c2, s3, sent)
  PROVE  /\ sent + 1 \in Nat
         /\ Chain(got, s1, h1, b1, c1, s2, h2, b2, c2, Append(s3, sent + 1), sent + 1)
<1>1. Passed(h2, b2, c2) \in Nat /\ s3 \in Seq(Nat)
  BY PassedNat DEF Chain, Stage
<1>2. /\ Append(s3, sent + 1) \in Seq(Nat)
      /\ Len(Append(s3, sent + 1)) = Len(s3) + 1
      /\ Run(Append(s3, sent + 1), Passed(h2, b2, c2))
  BY <1>1, RunAppend DEF Chain
<1> QED
  BY <1>1, <1>2 DEF Chain


-----------------------------------------------------------------------------
(* The inductive invariant                                                 *)

(* No piece is ever lost between the two ends: what a copier that failed   *)
(* has in its hand stays there, with all that comes after it.              *)
UpChain ==
  Chain(gotUp,
        inbox["game"], hand["clientUp"], buffer["clientUp"], count["clientUp"],
        inbox["clientStream"], hand["serverUp"], buffer["serverUp"], count["serverUp"],
        inbox["serverConn"], sentUp)

DownChain ==
  Chain(gotDown,
        inbox["player"], hand["serverDown"], buffer["serverDown"], count["serverDown"],
        inbox["serverStream"], hand["clientDown"], buffer["clientDown"], count["clientDown"],
        inbox["clientConn"], sentDown)

Typed ==
  /\ inbox \in [Ends -> Seq(Nat)]
  /\ buffer \in [Copiers -> Seq(Nat)]
  /\ hand \in [Copiers -> Nat]
  /\ count \in [Copiers -> Nat]

(* A copier has a piece in its hand exactly when it is about to write it;  *)
(* before it starts, its handler does, for the initial data.               *)
Unstarted(ks) == \A k \in ks : copier[k] = "none"
Empty(k)      == hand[k] = 0 /\ buffer[k] = <<>>

Handing ==
  /\ copier \in [Copiers -> {"none", "read", "write", "ended"}]
  /\ \A k \in Copiers : /\ copier[k] = "read" => hand[k] = 0
                        /\ copier[k] = "write" => hand[k] # 0
  /\ \A k \in {"serverDown", "clientDown"} : copier[k] = "none" => hand[k] = 0

ServerStages ==
  /\ server \in {"peek", "admit", "openStream"} => client = "none"
  /\ server \in {"peek", "admit", "openStream", "writeInitial"} => Unstarted(ServerCopiers)
  /\ server = "peek" => Empty("serverUp")
  /\ server \in {"admit", "openStream", "writeInitial"} => hand["serverUp"] # 0

ClientStages ==
  /\ client \in {"none", "accept", "dial", "peek", "addPlayer", "writeInitial"} =>
       Unstarted(ClientCopiers)
  /\ client \in {"none", "accept", "dial", "peek"} => Empty("clientUp")
  /\ client \in {"addPlayer", "writeInitial"} => hand["clientUp"] # 0

BridgeInv == UpChain /\ DownChain /\ Typed /\ Handing /\ ServerStages /\ ClientStages

LEMMA Names ==
  /\ Peer["player"] = "serverConn" /\ Peer["serverStream"] = "clientStream"
  /\ Peer["clientConn"] = "game"   /\ Peer["clientStream"] = "serverStream"
  /\ Peer["game"] = "clientConn"   /\ Peer["serverConn"] = "player"
  /\ From["serverUp"] = "serverConn"     /\ To["serverUp"] = "serverStream"
  /\ From["serverDown"] = "serverStream" /\ To["serverDown"] = "serverConn"
  /\ From["clientUp"] = "clientStream"   /\ To["clientUp"] = "clientConn"
  /\ From["clientDown"] = "clientConn"   /\ To["clientDown"] = "clientStream"
BY DEF Peer, From, To

LEMMA NamesTyped ==
  \A k \in Copiers : From[k] \in Ends /\ To[k] \in Ends /\ Peer[To[k]] \in Ends
BY Names DEF Copiers, Ends

LEMMA BridgeInit == Init => BridgeInv
<1> SUFFICES ASSUME Init PROVE BridgeInv
    OBVIOUS
<1>1. Passed(0, <<>>, 0) = 0 /\ Run(<<>>, 0)
  BY DEF Passed, Run
<1>2. Stage(0, <<>>, 0, <<>>, 0)
  BY <1>1 DEF Stage
<1>3. Chain(<<>>, <<>>, 0, <<>>, 0, <<>>, 0, <<>>, 0, <<>>, 0)
  BY <1>1, <1>2 DEF Chain
<1>4. UpChain /\ DownChain
  BY <1>3 DEF Init, UpChain, DownChain, Ends, Copiers
<1>5. Typed /\ Handing /\ ServerStages /\ ClientStages
  BY DEF Init, Typed, Handing, ServerStages, ClientStages, Unstarted, Empty, Ends, Copiers,
         ServerCopiers, ClientCopiers
<1> QED
  BY <1>4, <1>5 DEF BridgeInv

-----------------------------------------------------------------------------
(* The steps that move a piece                                             *)

(* A copier takes a piece from its buffer or from its own end.             *)
LEMMA ReadMoves ==
  ASSUME BridgeInv, NEW k \in Copiers, CopyRead(k)
  PROVE  UpChain' /\ DownChain' /\ hand'[k] # 0 /\ Typed'
<1>t. inbox \in [Ends -> Seq(Nat)] /\ buffer \in [Copiers -> Seq(Nat)] /\ hand \in [Copiers -> Nat]
  BY DEF BridgeInv, Typed
<1>h. /\ hand[k] = 0 /\ count' = count
      /\ UNCHANGED <<sentUp, gotUp, sentDown, gotDown>>
  BY DEF CopyRead, BridgeInv, Handing, userVars
<1>1. ASSUME buffer[k] # <<>>,
             hand' = [hand EXCEPT ![k] = Head(buffer[k])],
             buffer' = [buffer EXCEPT ![k] = Tail(@)],
             inbox' = inbox
      PROVE  UpChain' /\ DownChain' /\ hand'[k] # 0 /\ Typed'
  <2>1. /\ hand'[k] = Head(buffer[k]) /\ buffer'[k] = Tail(buffer[k]) /\ hand'[k] \in Nat
        /\ \A j \in Copiers : j # k => hand'[j] = hand[j] /\ buffer'[j] = buffer[j]
    BY <1>t, <1>1
  <2>2. ASSUME k = "clientUp" PROVE UpChain' /\ DownChain' /\ hand'[k] # 0
    BY <1>h, <1>1, <2>1, <2>2, ChainBuffer1 DEF BridgeInv, UpChain, DownChain, Copiers
  <2>3. ASSUME k = "serverUp" PROVE UpChain' /\ DownChain' /\ hand'[k] # 0
    BY <1>h, <1>1, <2>1, <2>3, ChainBuffer2 DEF BridgeInv, UpChain, DownChain, Copiers
  <2>4. ASSUME k = "serverDown" PROVE UpChain' /\ DownChain' /\ hand'[k] # 0
    BY <1>h, <1>1, <2>1, <2>4, ChainBuffer1 DEF BridgeInv, UpChain, DownChain, Copiers
  <2>5. ASSUME k = "clientDown" PROVE UpChain' /\ DownChain' /\ hand'[k] # 0
    BY <1>h, <1>1, <2>1, <2>5, ChainBuffer2 DEF BridgeInv, UpChain, DownChain, Copiers
  <2>6. Typed'
    BY <1>t, <1>h, <1>1 DEF BridgeInv, Typed
  <2> QED
    BY <2>2, <2>3, <2>4, <2>5, <2>6 DEF Copiers
<1>2. ASSUME buffer[k] = <<>>, inbox[From[k]] # <<>>,
             hand' = [hand EXCEPT ![k] = Head(inbox[From[k]])],
             inbox' = [inbox EXCEPT ![From[k]] = Tail(@)],
             buffer' = buffer
      PROVE  UpChain' /\ DownChain' /\ hand'[k] # 0 /\ Typed'
  <2>1. /\ hand'[k] = Head(inbox[From[k]]) /\ hand'[k] \in Nat
        /\ inbox'[From[k]] = Tail(inbox[From[k]])
        /\ \A j \in Copiers : j # k => hand'[j] = hand[j]
        /\ \A e \in Ends : e # From[k] => inbox'[e] = inbox[e]
    BY <1>t, <1>2, NamesTyped
  <2>2. ASSUME k = "clientUp" PROVE UpChain' /\ DownChain' /\ hand'[k] # 0
    BY <1>h, <1>2, <2>1, <2>2, Names, ChainRead1 DEF BridgeInv, UpChain, DownChain, Copiers, Ends
  <2>3. ASSUME k = "serverUp" PROVE UpChain' /\ DownChain' /\ hand'[k] # 0
    BY <1>h, <1>2, <2>1, <2>3, Names, ChainRead2 DEF BridgeInv, UpChain, DownChain, Copiers, Ends
  <2>4. ASSUME k = "serverDown" PROVE UpChain' /\ DownChain' /\ hand'[k] # 0
    BY <1>h, <1>2, <2>1, <2>4, Names, ChainRead1 DEF BridgeInv, UpChain, DownChain, Copiers, Ends
  <2>5. ASSUME k = "clientDown" PROVE UpChain' /\ DownChain' /\ hand'[k] # 0
    BY <1>h, <1>2, <2>1, <2>5, Names, ChainRead2 DEF BridgeInv, UpChain, DownChain, Copiers, Ends
  <2>6. Typed'
    BY <1>t, <1>h, <1>2, NamesTyped DEF BridgeInv, Typed
  <2> QED
    BY <2>2, <2>3, <2>4, <2>5, <2>6 DEF Copiers
<1> QED
  BY <1>1, <1>2 DEF CopyRead, CanRead, Read

(* A copier or its handler writes and counts the piece in its hand.        *)
LEMMA WriteMoves ==
  ASSUME BridgeInv, NEW k \in Copiers, hand[k] # 0,
         Write(To[k], hand[k]), hand' = [hand EXCEPT ![k] = 0], Counted(k),
         UNCHANGED <<buffer, sentUp, gotUp, sentDown, gotDown>>
  PROVE  UpChain' /\ DownChain' /\ Typed'
<1>t. /\ inbox \in [Ends -> Seq(Nat)] /\ buffer \in [Copiers -> Seq(Nat)]
      /\ hand \in [Copiers -> Nat] /\ count \in [Copiers -> Nat]
  BY DEF BridgeInv, Typed
<1>u. /\ buffer' = buffer /\ sentUp' = sentUp /\ gotUp' = gotUp
      /\ sentDown' = sentDown /\ gotDown' = gotDown
  OBVIOUS
<1>1. /\ hand'[k] = 0 /\ count'[k] = count[k] + 1
      /\ inbox'[Peer[To[k]]] = Append(inbox[Peer[To[k]]], hand[k])
      /\ \A j \in Copiers : j # k => hand'[j] = hand[j] /\ count'[j] = count[j]
      /\ \A e \in Ends : e # Peer[To[k]] => inbox'[e] = inbox[e]
  BY <1>t, NamesTyped DEF Write, Counted
<1>2. ASSUME k = "clientUp" PROVE UpChain' /\ DownChain'
  <2>1. Chain(gotUp,
               Append(inbox["game"], hand["clientUp"]), 0, buffer["clientUp"], count["clientUp"] + 1,
               inbox["clientStream"], hand["serverUp"], buffer["serverUp"], count["serverUp"],
               inbox["serverConn"], sentUp)
    BY <1>2, ChainWrite1 DEF BridgeInv, UpChain
  <2>2. UpChain'
    BY <1>u, <1>1, <1>2, <2>1, Names DEF UpChain, Copiers, Ends
  <2>3. DownChain'
    BY <1>u, <1>1, <1>2, Names DEF BridgeInv, DownChain, Copiers, Ends
  <2> QED
    BY <2>2, <2>3
<1>3. ASSUME k = "serverUp" PROVE UpChain' /\ DownChain'
  <2>1. Chain(gotUp,
               inbox["game"], hand["clientUp"], buffer["clientUp"], count["clientUp"],
               Append(inbox["clientStream"], hand["serverUp"]), 0, buffer["serverUp"], count["serverUp"] + 1,
               inbox["serverConn"], sentUp)
    BY <1>3, ChainWrite2 DEF BridgeInv, UpChain
  <2>2. UpChain'
    BY <1>u, <1>1, <1>3, <2>1, Names DEF UpChain, Copiers, Ends
  <2>3. DownChain'
    BY <1>u, <1>1, <1>3, Names DEF BridgeInv, DownChain, Copiers, Ends
  <2> QED
    BY <2>2, <2>3
<1>4. ASSUME k = "serverDown" PROVE UpChain' /\ DownChain'
  <2>1. Chain(gotDown,
               Append(inbox["player"], hand["serverDown"]), 0, buffer["serverDown"], count["serverDown"] + 1,
               inbox["serverStream"], hand["clientDown"], buffer["clientDown"], count["clientDown"],
               inbox["clientConn"], sentDown)
    BY <1>4, ChainWrite1 DEF BridgeInv, DownChain
  <2>2. DownChain'
    BY <1>u, <1>1, <1>4, <2>1, Names DEF DownChain, Copiers, Ends
  <2>3. UpChain'
    BY <1>u, <1>1, <1>4, Names DEF BridgeInv, UpChain, Copiers, Ends
  <2> QED
    BY <2>2, <2>3
<1>5. ASSUME k = "clientDown" PROVE UpChain' /\ DownChain'
  <2>1. Chain(gotDown,
               inbox["player"], hand["serverDown"], buffer["serverDown"], count["serverDown"],
               Append(inbox["serverStream"], hand["clientDown"]), 0, buffer["clientDown"], count["clientDown"] + 1,
               inbox["clientConn"], sentDown)
    BY <1>5, ChainWrite2 DEF BridgeInv, DownChain
  <2>2. DownChain'
    BY <1>u, <1>1, <1>5, <2>1, Names DEF DownChain, Copiers, Ends
  <2>3. UpChain'
    BY <1>u, <1>1, <1>5, Names DEF BridgeInv, UpChain, Copiers, Ends
  <2> QED
    BY <2>2, <2>3
<1>6. Typed'
  BY <1>t, NamesTyped DEF Write, Counted, Typed
<1> QED
  BY <1>2, <1>3, <1>4, <1>5, <1>6 DEF Copiers

(* A handler reads the initial data, and more than that into the buffer.   *)
LEMMA PeekMoves ==
  ASSUME BridgeInv, NEW k \in {"serverUp", "clientUp"}, Empty(k), Peek(From[k], k),
         UNCHANGED <<count, sentUp, gotUp, sentDown, gotDown>>
  PROVE  UpChain' /\ DownChain' /\ hand'[k] # 0 /\ Typed'
<1>t. /\ inbox \in [Ends -> Seq(Nat)] /\ buffer \in [Copiers -> Seq(Nat)]
      /\ hand \in [Copiers -> Nat] /\ k \in Copiers
  BY DEF BridgeInv, Typed, Copiers
<1>u. /\ count' = count /\ sentUp' = sentUp /\ gotUp' = gotUp
      /\ sentDown' = sentDown /\ gotDown' = gotDown
      /\ hand[k] = 0 /\ buffer[k] = <<>>
  BY DEF Empty
<1>1. PICK m \in 1..Len(inbox[From[k]]) :
        /\ hand' = [hand EXCEPT ![k] = Head(inbox[From[k]])]
        /\ buffer' = [buffer EXCEPT ![k] = SubSeq(inbox[From[k]], 2, m)]
        /\ inbox' = [inbox EXCEPT ![From[k]] = SubSeq(@, m + 1, Len(@))]
        /\ inbox[From[k]] # <<>>
  BY DEF Peek, CanRead
<1>2. /\ hand'[k] = Head(inbox[From[k]]) /\ hand' \in [Copiers -> Nat]
      /\ buffer'[k] = SubSeq(inbox[From[k]], 2, m)
      /\ inbox'[From[k]] = SubSeq(inbox[From[k]], m + 1, Len(inbox[From[k]]))
      /\ \A j \in Copiers : j # k => hand'[j] = hand[j] /\ buffer'[j] = buffer[j]
      /\ \A e \in Ends : e # From[k] => inbox'[e] = inbox[e]
  BY <1>t, <1>1, NamesTyped
<1>3. ASSUME k = "clientUp" PROVE UpChain' /\ DownChain' /\ hand'[k] # 0
  <2>0. m \in 1..Len(inbox["clientStream"])
    BY <1>3, Names
  <2>1. /\ Head(inbox["clientStream"]) # 0
        /\ Chain(gotUp,
               inbox["game"], Head(inbox["clientStream"]), SubSeq(inbox["clientStream"], 2, m), count["clientUp"],
               SubSeq(inbox["clientStream"], m + 1, Len(inbox["clientStream"])), hand["serverUp"], buffer["serverUp"], count["serverUp"],
               inbox["serverConn"], sentUp)
    BY <1>u, <1>3, <2>0, ChainPeek1 DEF BridgeInv, UpChain
  <2>2. UpChain'
    BY <1>u, <1>2, <1>3, <2>1, Names DEF UpChain, Copiers, Ends
  <2>3. DownChain'
    BY <1>u, <1>2, <1>3, Names DEF BridgeInv, DownChain, Copiers, Ends
  <2> QED
    BY <1>2, <1>3, <2>1, <2>2, <2>3, Names
<1>4. ASSUME k = "serverUp" PROVE UpChain' /\ DownChain' /\ hand'[k] # 0
  <2>0. m \in 1..Len(inbox["serverConn"])
    BY <1>4, Names
  <2>1. /\ Head(inbox["serverConn"]) # 0
        /\ Chain(gotUp,
               inbox["game"], hand["clientUp"], buffer["clientUp"], count["clientUp"],
               inbox["clientStream"], Head(inbox["serverConn"]), SubSeq(inbox["serverConn"], 2, m), count["serverUp"],
               SubSeq(inbox["serverConn"], m + 1, Len(inbox["serverConn"])), sentUp)
    BY <1>u, <1>4, <2>0, ChainPeek2 DEF BridgeInv, UpChain
  <2>2. UpChain'
    BY <1>u, <1>2, <1>4, <2>1, Names DEF UpChain, Copiers, Ends
  <2>3. DownChain'
    BY <1>u, <1>2, <1>4, Names DEF BridgeInv, DownChain, Copiers, Ends
  <2> QED
    BY <1>2, <1>4, <2>1, <2>2, <2>3, Names
<1>5. Typed'
  <2>1. inbox[From[k]] \in Seq(Nat)
    BY <1>t, NamesTyped
  <2>2. /\ Head(inbox[From[k]]) \in Nat
        /\ SubSeq(inbox[From[k]], 2, m) \in Seq(Nat)
        /\ SubSeq(inbox[From[k]], m + 1, Len(inbox[From[k]])) \in Seq(Nat)
    BY <1>1, <2>1
  <2> QED
    BY <1>t, <1>u, <1>1, <2>2, NamesTyped DEF BridgeInv, Typed
<1> QED
  BY <1>3, <1>4, <1>5

(* The ends send and receive.                                              *)
LEMMA SendMoves ==
  ASSUME BridgeInv, PlayerWrite \/ GameWrite
  PROVE  UpChain' /\ DownChain' /\ Typed'
<1>t. inbox \in [Ends -> Seq(Nat)]
  BY DEF BridgeInv, Typed
<1>1. CASE PlayerWrite
  <2>1. /\ inbox' = [inbox EXCEPT !["serverConn"] = Append(@, sentUp + 1)]
        /\ sentUp' = sentUp + 1
        /\ UNCHANGED <<buffer, hand, count, gotUp, gotDown, sentDown>>
    BY <1>1, Names DEF PlayerWrite, Write, copyVars
  <2>2. /\ sentUp + 1 \in Nat
        /\ Chain(gotUp,
               inbox["game"], hand["clientUp"], buffer["clientUp"], count["clientUp"],
               inbox["clientStream"], hand["serverUp"], buffer["serverUp"], count["serverUp"],
               Append(inbox["serverConn"], sentUp + 1), sentUp + 1)
    BY ChainSend DEF BridgeInv, UpChain
  <2>3. UpChain'
    BY <1>t, <2>1, <2>2 DEF UpChain, Ends
  <2>4. DownChain'
    BY <1>t, <2>1 DEF BridgeInv, DownChain, Ends
  <2>5. Typed'
    BY <1>t, <2>1, <2>2 DEF BridgeInv, Typed, Ends
  <2> QED
    BY <2>2, <2>3, <2>4, <2>5
<1>2. CASE GameWrite
  <2>1. /\ inbox' = [inbox EXCEPT !["clientConn"] = Append(@, sentDown + 1)]
        /\ sentDown' = sentDown + 1
        /\ UNCHANGED <<buffer, hand, count, gotUp, gotDown, sentUp>>
    BY <1>2, Names DEF GameWrite, Write, copyVars
  <2>2. /\ sentDown + 1 \in Nat
        /\ Chain(gotDown,
               inbox["player"], hand["serverDown"], buffer["serverDown"], count["serverDown"],
               inbox["serverStream"], hand["clientDown"], buffer["clientDown"], count["clientDown"],
               Append(inbox["clientConn"], sentDown + 1), sentDown + 1)
    BY ChainSend DEF BridgeInv, DownChain
  <2>3. DownChain'
    BY <1>t, <2>1, <2>2 DEF DownChain, Ends
  <2>4. UpChain'
    BY <1>t, <2>1 DEF BridgeInv, UpChain, Ends
  <2>5. Typed'
    BY <1>t, <2>1, <2>2 DEF BridgeInv, Typed, Ends
  <2> QED
    BY <2>2, <2>3, <2>4, <2>5
<1> QED
  BY <1>1, <1>2

LEMMA ReceiveMoves ==
  ASSUME BridgeInv, PlayerRead \/ GameRead
  PROVE  /\ UpChain' /\ DownChain' /\ Typed'
         /\ GameRead => Len(gotUp) < sentUp /\ Head(inbox["game"]) = Len(gotUp) + 1
         /\ PlayerRead => Len(gotDown) < sentDown /\ Head(inbox["player"]) = Len(gotDown) + 1
<1>t. inbox \in [Ends -> Seq(Nat)]
  BY DEF BridgeInv, Typed
<1>1. ASSUME GameRead
      PROVE  /\ UpChain' /\ DownChain' /\ Typed'
             /\ Len(gotUp) < sentUp /\ Head(inbox["game"]) = Len(gotUp) + 1
  <2>1. /\ inbox["game"] # <<>>
        /\ inbox' = [inbox EXCEPT !["game"] = Tail(@)]
        /\ gotUp' = Append(gotUp, Head(inbox["game"]))
        /\ UNCHANGED <<buffer, hand, count, sentUp, gotDown, sentDown>>
    BY <1>1 DEF GameRead, CanRead, Read, copyVars
  <2>2. /\ Head(inbox["game"]) = Len(gotUp) + 1 /\ Len(gotUp) < sentUp
        /\ Chain(Append(gotUp, Head(inbox["game"])),
               Tail(inbox["game"]), hand["clientUp"], buffer["clientUp"], count["clientUp"],
               inbox["clientStream"], hand["serverUp"], buffer["serverUp"], count["serverUp"],
               inbox["serverConn"], sentUp)
    BY <2>1, ChainDeliver DEF BridgeInv, UpChain
  <2>3. UpChain'
    BY <1>t, <2>1, <2>2 DEF UpChain, Ends
  <2>4. DownChain'
    BY <1>t, <2>1 DEF BridgeInv, DownChain, Ends
  <2>5. Typed'
    BY <1>t, <2>1, <2>2 DEF BridgeInv, Typed, Ends
  <2> QED
    BY <2>2, <2>3, <2>4, <2>5
<1>2. ASSUME PlayerRead
      PROVE  /\ UpChain' /\ DownChain' /\ Typed'
             /\ Len(gotDown) < sentDown /\ Head(inbox["player"]) = Len(gotDown) + 1
  <2>1. /\ inbox["player"] # <<>>
        /\ inbox' = [inbox EXCEPT !["player"] = Tail(@)]
        /\ gotDown' = Append(gotDown, Head(inbox["player"]))
        /\ UNCHANGED <<buffer, hand, count, sentDown, gotUp, sentUp>>
    BY <1>2 DEF PlayerRead, CanRead, Read, copyVars
  <2>2. /\ Head(inbox["player"]) = Len(gotDown) + 1 /\ Len(gotDown) < sentDown
        /\ Chain(Append(gotDown, Head(inbox["player"])),
               Tail(inbox["player"]), hand["serverDown"], buffer["serverDown"], count["serverDown"],
               inbox["serverStream"], hand["clientDown"], buffer["clientDown"], count["clientDown"],
               inbox["clientConn"], sentDown)
    BY <2>1, ChainDeliver DEF BridgeInv, DownChain
  <2>3. DownChain'
    BY <1>t, <2>1, <2>2 DEF DownChain, Ends
  <2>4. UpChain'
    BY <1>t, <2>1 DEF BridgeInv, UpChain, Ends
  <2>5. Typed'
    BY <1>t, <2>1, <2>2 DEF BridgeInv, Typed, Ends
  <2> QED
    BY <2>2, <2>3, <2>4, <2>5
<1> QED
  BY <1>1, <1>2 DEF GameRead, PlayerRead

LEMMA NothingMoves ==
  BridgeInv /\ UNCHANGED <<inbox, buffer, hand, count, userVars>> => UpChain' /\ DownChain' /\ Typed'
BY DEF BridgeInv, Typed, UpChain, DownChain, userVars

-----------------------------------------------------------------------------

LEMMA BridgeStep == BridgeInv /\ [Next]_vars => BridgeInv'
<1> SUFFICES ASSUME BridgeInv, [Next]_vars PROVE BridgeInv'
    OBVIOUS
<1> USE DEF BridgeInv, ServerCopiers, ClientCopiers, Unstarted, Empty, Copiers, handlerVars,
            copyVars, userVars
<1>1. CASE ServerAdmit
  BY <1>1, NothingMoves DEF ServerAdmit, Close, Handing, ServerStages, ClientStages
<1>2. CASE ServerOpenStream
  BY <1>2, NothingMoves DEF ServerOpenStream, Close, Handing, ServerStages, ClientStages
<1>3. CASE ServerDone
  BY <1>3, NothingMoves DEF ServerDone, Close, Handing, ServerStages, ClientStages
<1>4. CASE ServerCloseStream
  BY <1>4, NothingMoves DEF ServerCloseStream, Close, Handing, ServerStages, ClientStages
<1>5. CASE ServerRelease
  BY <1>5, NothingMoves DEF ServerRelease, Close, Handing, ServerStages, ClientStages
<1>6. CASE ServerCloseConn
  BY <1>6, NothingMoves DEF ServerCloseConn, Close, Handing, ServerStages, ClientStages
<1>7. CASE ClientAccept
  BY <1>7, NothingMoves DEF ClientAccept, Close, Handing, ServerStages, ClientStages
<1>8. CASE ClientDial
  BY <1>8, NothingMoves DEF ClientDial, Close, Handing, ServerStages, ClientStages
<1>9. CASE ClientAddPlayer
  BY <1>9, NothingMoves DEF ClientAddPlayer, Close, Handing, ServerStages, ClientStages
<1>10. CASE ClientDone
  BY <1>10, NothingMoves DEF ClientDone, Close, Handing, ServerStages, ClientStages
<1>11. CASE ClientCloseStream
  BY <1>11, NothingMoves DEF ClientCloseStream, Close, Handing, ServerStages, ClientStages
<1>12. CASE ClientCloseConn
  BY <1>12, NothingMoves DEF ClientCloseConn, Close, Handing, ServerStages, ClientStages
<1>13. CASE ClientRemovePlayer
  BY <1>13, NothingMoves DEF ClientRemovePlayer, Close, Handing, ServerStages, ClientStages
<1>14. CASE PlayerLeave
  BY <1>14, NothingMoves DEF PlayerLeave, Close, Handing, ServerStages, ClientStages
<1>15. CASE GameClose
  BY <1>15, NothingMoves DEF GameClose, Close, Handing, ServerStages, ClientStages
<1>16. CASE LoseLink
  BY <1>16, NothingMoves DEF LoseLink, Close, Handing, ServerStages, ClientStages
<1>17. ASSUME NEW k \in Copiers, CopyEnd(k) PROVE BridgeInv'
  BY <1>17, NothingMoves DEF CopyEnd, Handing, ServerStages, ClientStages
<1>18. ASSUME NEW k \in Copiers, CopyRead(k) PROVE BridgeInv'
  <2>1. UpChain' /\ DownChain' /\ hand'[k] # 0 /\ Typed'
    BY <1>18, ReadMoves
  <2>2. Handing'
    BY <1>18, <2>1 DEF CopyRead, Handing, Typed
  <2>3. /\ copier[k] = "read" /\ copier' = [copier EXCEPT ![k] = "write"]
        /\ \A j \in Copiers : j # k => hand'[j] = hand[j] /\ buffer'[j] = buffer[j]
        /\ server' = server /\ client' = client
    BY <1>18 DEF CopyRead, Typed
  <2>4. ServerStages' /\ ClientStages'
    BY <2>1, <2>3 DEF Handing, ServerStages, ClientStages
  <2> QED
    BY <2>1, <2>2, <2>4
<1>19. ASSUME NEW k \in Copiers, CopyWrite(k) PROVE BridgeInv'
  <2>1. UpChain' /\ DownChain' /\ Typed'
    BY <1>19, WriteMoves DEF CopyWrite, Handing
  <2>2. Handing'
    BY <1>19, <2>1 DEF CopyWrite, Handing, Typed
  <2>3. ServerStages' /\ ClientStages'
    BY <1>19 DEF CopyWrite, Handing, ServerStages, ClientStages
  <2> QED
    BY <2>1, <2>2, <2>3
<1>20. CASE ServerPeek
  <2>1. CASE Peek("serverConn", "serverUp")
    <3>1. UpChain' /\ DownChain' /\ hand'["serverUp"] # 0 /\ Typed'
      BY <1>20, <2>1, PeekMoves, Names DEF ServerPeek, ServerStages, ClientStages
    <3>2. Handing'
      BY <1>20, <2>1, <3>1 DEF ServerPeek, Peek, Handing, Typed, ServerStages, ClientStages
    <3>3. ServerStages' /\ ClientStages'
      BY <1>20, <2>1, <3>1 DEF ServerPeek, Peek, Handing, ServerStages, ClientStages
    <3> QED
      BY <3>1, <3>2, <3>3
  <2>2. CASE server' = "closeConn" /\ UNCHANGED <<inbox, buffer, hand>>
    BY <1>20, <2>2, NothingMoves DEF ServerPeek, Handing, ServerStages, ClientStages
  <2> QED
    BY <1>20, <2>1, <2>2 DEF ServerPeek
<1>21. CASE ClientPeek
  <2>1. CASE Peek("clientStream", "clientUp")
    <3>1. UpChain' /\ DownChain' /\ hand'["clientUp"] # 0 /\ Typed'
      BY <1>21, <2>1, PeekMoves, Names DEF ClientPeek, ServerStages, ClientStages
    <3>2. Handing'
      BY <1>21, <2>1, <3>1 DEF ClientPeek, Peek, Handing, Typed, ServerStages, ClientStages
    <3>3. ServerStages' /\ ClientStages'
      BY <1>21, <2>1, <3>1 DEF ClientPeek, Peek, Handing, ServerStages, ClientStages
    <3> QED
      BY <3>1, <3>2, <3>3
  <2>2. CASE client' = "closeStream" /\ UNCHANGED <<inbox, buffer, hand>>
    BY <1>21, <2>2, NothingMoves DEF ClientPeek, Handing, ServerStages, ClientStages
  <2> QED
    BY <1>21, <2>1, <2>2 DEF ClientPeek
<1>22. CASE ServerWriteInitial
  <2>1. CASE WriteInitial("serverUp")
    <3>1. UpChain' /\ DownChain' /\ Typed'
      BY <1>22, <2>1, WriteMoves DEF ServerWriteInitial, WriteInitial, ServerStages, ClientStages
    <3>2. Handing'
      BY <1>22, <2>1, <3>1
         DEF ServerWriteInitial, WriteInitial, Start, Handing, Typed, ServerStages, ClientStages
    <3>3. ServerStages' /\ ClientStages'
      BY <1>22, <2>1 DEF ServerWriteInitial, WriteInitial, Start, Handing, ServerStages, ClientStages
    <3> QED
      BY <3>1, <3>2, <3>3
  <2>2. CASE UNCHANGED <<inbox, hand, count, copier>>
    BY <1>22, <2>2, NothingMoves DEF ServerWriteInitial, Handing, ServerStages, ClientStages
  <2> QED
    BY <1>22, <2>1, <2>2 DEF ServerWriteInitial
<1>23. CASE ClientWriteInitial
  <2>1. CASE WriteInitial("clientUp")
    <3>1. UpChain' /\ DownChain' /\ Typed'
      BY <1>23, <2>1, WriteMoves DEF ClientWriteInitial, WriteInitial, ServerStages, ClientStages
    <3>2. Handing'
      BY <1>23, <2>1, <3>1
         DEF ClientWriteInitial, WriteInitial, Start, Handing, Typed, ServerStages, ClientStages
    <3>3. ServerStages' /\ ClientStages'
      BY <1>23, <2>1 DEF ClientWriteInitial, WriteInitial, Start, Handing, ServerStages, ClientStages
    <3> QED
      BY <3>1, <3>2, <3>3
  <2>2. CASE UNCHANGED <<inbox, hand, count, copier>>
    BY <1>23, <2>2, NothingMoves DEF ClientWriteInitial, Handing, ServerStages, ClientStages
  <2> QED
    BY <1>23, <2>1, <2>2 DEF ClientWriteInitial
<1>24. CASE PlayerWrite
  BY <1>24, SendMoves DEF PlayerWrite, Handing, ServerStages, ClientStages
<1>25. CASE GameWrite
  BY <1>25, SendMoves DEF GameWrite, Handing, ServerStages, ClientStages
<1>26. CASE PlayerRead
  BY <1>26, ReceiveMoves DEF PlayerRead, Handing, ServerStages, ClientStages
<1>27. CASE GameRead
  BY <1>27, ReceiveMoves DEF GameRead, Handing, ServerStages, ClientStages
<1>28. CASE UNCHANGED vars
  BY <1>28, NothingMoves DEF vars, Handing, ServerStages, ClientStages
<1> QED
  BY <1>1, <1>2, <1>3, <1>4, <1>5, <1>6, <1>7, <1>8, <1>9, <1>10, <1>11, <1>12, <1>13, <1>14, <1>15, <1>16, <1>17, <1>18, <1>19, <1>20, <1>21, <1>22, <1>23, <1>24, <1>25, <1>26, <1>27, <1>28
     DEF Next, ServerStep, ClientStep, CopyStep

LEMMA BridgeAlways == Spec => []BridgeInv
BY BridgeInit, BridgeStep, PTL DEF Spec

-----------------------------------------------------------------------------
(* The properties                                                          *)

(* Both directions of a bridge implement Pipe: whoever closes or fails at  *)
(* whatever moment, each side has received the pieces the other one wrote, *)
(* from the first one on, in order and none twice.                         *)
THEOREM BridgeImplementsPipe == Spec => BytesInOrder
<1>1. Init => Up!Init /\ Down!Init
  BY DEF Init, Up!Init, Down!Init
<1>2. BridgeInv /\ [Next]_vars => [Up!Next]_(Up!vars) /\ [Down!Next]_(Down!vars)
  <2> SUFFICES ASSUME BridgeInv, [Next]_vars
               PROVE  [Up!Next]_(Up!vars) /\ [Down!Next]_(Down!vars)
      OBVIOUS
  <2>1. CASE GameRead
    BY <2>1, ReceiveMoves
       DEF GameRead, Up!Next, Up!Deliver, Up!vars, Down!vars
  <2>2. CASE PlayerRead
    BY <2>2, ReceiveMoves
       DEF PlayerRead, Down!Next, Down!Deliver, Up!vars, Down!vars
  <2>3. CASE PlayerWrite
    BY <2>3 DEF PlayerWrite, Up!Next, Up!Write, Up!vars, Down!vars
  <2>4. CASE GameWrite
    BY <2>4 DEF GameWrite, Down!Next, Down!Write, Up!vars, Down!vars
  <2>5. CASE UNCHANGED userVars
    BY <2>5 DEF userVars, Up!vars, Down!vars
  <2> QED
    BY <2>1, <2>2, <2>3, <2>4, <2>5
       DEF Next, vars, ServerStep, ClientStep, CopyStep, ServerPeek, ServerAdmit,
           ServerOpenStream, ServerWriteInitial, ServerDone, ServerCloseStream, ServerRelease,
           ServerCloseConn, ClientAccept, ClientDial, ClientPeek, ClientAddPlayer,
           ClientWriteInitial, ClientDone, ClientCloseStream, ClientCloseConn,
           ClientRemovePlayer, CopyRead, CopyWrite, CopyEnd, PlayerLeave, GameClose, LoseLink
<1>3. Spec => Up!Spec /\ Down!Spec
  BY <1>1, <1>2, BridgeAlways, PTL DEF Spec, Up!Spec, Down!Spec
<1> QED
  BY <1>3 DEF BytesInOrder

(* When nothing is on its way, the counters of server and client agree     *)
(* with each other and with what player and game exchanged.                *)
THEOREM CountersAgree == Spec => []TrafficAgrees
<1>1. ASSUME NEW got, NEW c1, NEW c2, NEW sent,
             Chain(got, <<>>, 0, <<>>, c1, <<>>, 0, <<>>, c2, <<>>, sent)
      PROVE  {c2, c1, Len(got)} = {sent}
  <2>1. got \in Seq(Nat) /\ c1 \in Nat /\ c2 \in Nat
    BY <1>1 DEF Chain, Stage
  <2>2. c1 = Len(got) /\ Passed(0, <<>>, c1) = c1
    BY <1>1, <2>1 DEF Chain, Stage, Passed
  <2>3. c2 = c1 /\ sent = c2
    BY <1>1, <2>1, <2>2 DEF Chain, Stage, Passed
  <2> QED
    BY <2>2, <2>3
<1>2. BridgeInv => TrafficAgrees
  <2> SUFFICES ASSUME BridgeInv, Idle
               PROVE  /\ {count["serverUp"], count["clientUp"], Len(gotUp)} = {sentUp}
                      /\ {count["serverDown"], count["clientDown"], Len(gotDown)} = {sentDown}
      BY DEF TrafficAgrees
  <2>1. Chain(gotUp, <<>>, 0, <<>>, count["clientUp"], <<>>, 0, <<>>, count["serverUp"], <<>>, sentUp)
    BY DEF BridgeInv, UpChain, Idle, Ends, Copiers
  <2>2. Chain(gotDown, <<>>, 0, <<>>, count["serverDown"], <<>>, 0, <<>>, count["clientDown"], <<>>,
              sentDown)
    BY DEF BridgeInv, DownChain, Idle, Ends, Copiers
  <2>3. {count["serverUp"], count["clientUp"], Len(gotUp)} = {sentUp}
    BY <1>1, <2>1
  <2>4. {count["clientDown"], count["serverDown"], Len(gotDown)} = {sentDown}
    BY <1>1, <2>2
  <2> QED
    BY <2>3, <2>4
<1> QED
  BY <1>2, BridgeAlways, PTL
=============================================================================
