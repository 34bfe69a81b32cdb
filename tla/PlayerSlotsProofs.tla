------------------------- MODULE PlayerSlotsProofs -------------------------
(***************************************************************************)
(* Theorems about the player slots, for any finite number of connections,  *)
(* any number of dashboard requests and any limit.                         *)
(***************************************************************************)
EXTENDS PlayerSlots, FiniteSetTheorems, TLAPS

(* Typing without the bound on the count, which CountIsHolders gives.      *)
Typed ==
  /\ playerCount \in Nat
  /\ unlimited \in BOOLEAN
  /\ players \in [Names -> Conns \union {Absent}]
  /\ name \in [Conns -> Names \union {NoName}]
  /\ cur \in [Conns -> Nat]
  /\ old \in [Togglers -> BOOLEAN]
  /\ pc \in [Conns \union Togglers -> ConnLabels \union {"loadUnlimited", "swap", "toggled"}]
  /\ \A h \in Conns : pc[h] \in ConnLabels
  /\ \A h \in Conns : pc[h] = "decrement" => cur[h] > 0

LEMMA TypedInit == Init => Typed
<1> SUFFICES ASSUME Init PROVE Typed
    OBVIOUS
<1>1. pc \in [Conns \union Togglers -> {"start", "loadUnlimited"}]
  BY DEF Init
<1>2. \A h \in Conns : pc[h] = "start"
  BY DEF Init
<1> QED
  BY <1>1, <1>2 DEF Init, Typed, ConnLabels, Absent

LEMMA TypedStep == Typed /\ [Next]_vars => Typed'
<1> SUFFICES ASSUME Typed, [Next]_vars PROVE Typed'
    OBVIOUS
<1> USE SeparateThreads DEF Typed, ConnLabels, Goto, Absent
<1>1. ASSUME NEW h \in Conns, Login(h) PROVE Typed'
  BY <1>1 DEF Login
<1>2. ASSUME NEW h \in Conns, LoadCount(h) PROVE Typed'
  BY <1>2 DEF LoadCount
<1>3. ASSUME NEW h \in Conns, CheckLimit(h) PROVE Typed'
  BY <1>3 DEF CheckLimit
<1>4. ASSUME NEW h \in Conns, Increment(h) PROVE Typed'
  BY <1>4 DEF Increment
<1>5. ASSUME NEW h \in Conns, AddPlayer(h) PROVE Typed'
  BY <1>5 DEF AddPlayer
<1>6. ASSUME NEW h \in Conns, RemovePlayer(h) PROVE Typed'
  BY <1>6 DEF RemovePlayer
<1>7. ASSUME NEW h \in Conns, LoadRelease(h) PROVE Typed'
  BY <1>7 DEF LoadRelease
<1>8. ASSUME NEW h \in Conns, Decrement(h) PROVE Typed'
  BY <1>8 DEF Decrement
<1>9. ASSUME NEW t \in Togglers, LoadUnlimited(t) PROVE Typed'
  BY <1>9 DEF LoadUnlimited
<1>10. ASSUME NEW t \in Togglers, SwapUnlimited(t) PROVE Typed'
  BY <1>10 DEF SwapUnlimited
<1>11. CASE UNCHANGED vars
  BY <1>11 DEF vars
<1> QED
  BY <1>1, <1>2, <1>3, <1>4, <1>5, <1>6, <1>7, <1>8, <1>9, <1>10, <1>11 DEF Next, HandlerStep

-----------------------------------------------------------------------------
(* The count                                                               *)

LEMMA HoldersFinite == IsFiniteSet(Holders) /\ Cardinality(Holders) <= Cardinality(Conns)
                       /\ Cardinality(Conns) \in Nat /\ Cardinality(Holders) \in Nat
BY ConnsFinite, FS_Subset, FS_CardinalityType DEF Holders

LEMMA CountInit == Init => CountIsHolders
<1> SUFFICES ASSUME Init PROVE CountIsHolders
    OBVIOUS
<1>1. Holders = {}
  BY DEF Init, Holders
<1> QED
  BY <1>1, FS_EmptySet DEF Init, CountIsHolders

LEMMA CountStep == Typed /\ CountIsHolders /\ [Next]_vars => CountIsHolders'
<1> SUFFICES ASSUME Typed, CountIsHolders, [Next]_vars PROVE CountIsHolders'
    OBVIOUS
<1>1. ASSUME NEW h \in Conns, Increment(h) PROVE CountIsHolders'
  <2>1. CASE playerCount = cur[h]
    <3>1. h \notin Holders /\ Holders' = Holders \union {h}
      BY <1>1, <2>1 DEF Increment, Holders, Goto, Typed
    <3>2. Cardinality(Holders') = Cardinality(Holders) + 1
      BY <3>1, HoldersFinite, FS_AddElement
    <3> QED
      BY <1>1, <2>1, <3>2 DEF Increment, CountIsHolders
  <2>2. CASE playerCount # cur[h]
    <3>1. Holders' = Holders
      BY <1>1, <2>2 DEF Increment, Holders, Goto, Typed
    <3> QED
      BY <1>1, <2>2, <3>1 DEF Increment, CountIsHolders
  <2> QED
    BY <2>1, <2>2
<1>2. ASSUME NEW h \in Conns, LoadRelease(h) PROVE CountIsHolders'
  <2>1. playerCount # 0
    <3>1. h \in Holders
      BY <1>2 DEF LoadRelease, Holders
    <3> QED
      BY <3>1, HoldersFinite, FS_EmptySet DEF CountIsHolders
  <2>2. Holders' = Holders
    BY <1>2, <2>1 DEF LoadRelease, Holders, Goto, Typed
  <2> QED
    BY <1>2, <2>2 DEF LoadRelease, CountIsHolders
<1>3. ASSUME NEW h \in Conns, Decrement(h) PROVE CountIsHolders'
  <2>1. CASE playerCount = cur[h]
    <3>1. h \in Holders /\ Holders' = Holders \ {h}
      BY <1>3, <2>1 DEF Decrement, Holders, Goto, Typed
    <3>2. Cardinality(Holders') = Cardinality(Holders) - 1
      BY <3>1, HoldersFinite, FS_RemoveElement
    <3> QED
      BY <1>3, <2>1, <3>2 DEF Decrement, CountIsHolders
  <2>2. CASE playerCount # cur[h]
    <3>1. Holders' = Holders
      BY <1>3, <2>2 DEF Decrement, Holders, Goto, Typed
    <3> QED
      BY <1>3, <2>2, <3>1 DEF Decrement, CountIsHolders
  <2> QED
    BY <2>1, <2>2
<1>4. ASSUME NEW h \in Conns,
             Login(h) \/ LoadCount(h) \/ CheckLimit(h) \/ AddPlayer(h) \/ RemovePlayer(h)
      PROVE  CountIsHolders'
  <2>1. Holders' = Holders /\ playerCount' = playerCount
    BY <1>4 DEF Login, LoadCount, CheckLimit, AddPlayer, RemovePlayer, Holders, Goto, Typed
  <2> QED
    BY <2>1 DEF CountIsHolders
<1>5. ASSUME NEW t \in Togglers, LoadUnlimited(t) \/ SwapUnlimited(t) PROVE CountIsHolders'
  <2>1. Holders' = Holders /\ playerCount' = playerCount
    BY <1>5, SeparateThreads DEF LoadUnlimited, SwapUnlimited, Holders, Goto, Typed
  <2> QED
    BY <2>1 DEF CountIsHolders
<1>6. CASE UNCHANGED vars
  BY <1>6 DEF vars, CountIsHolders, Holders
<1> QED
  BY <1>1, <1>2, <1>3, <1>4, <1>5, <1>6 DEF Next, HandlerStep

(* PlayerCount is the number of connections that were let in and have not  *)
(* left, in every interleaving of the retry loops.                         *)
THEOREM CountAlwaysExact == Spec => []CountIsHolders
BY TypedInit, TypedStep, CountInit, CountStep, PTL DEF Spec

(* The state stays within its types; the count never underflows or passes  *)
(* the number of connections.                                              *)
THEOREM TypeCorrect == Spec => []TypeOK
<1>1. Spec => [](Typed /\ CountIsHolders)
  BY TypedInit, TypedStep, CountInit, CountStep, PTL DEF Spec
<1>2. Typed /\ CountIsHolders => TypeOK
  BY HoldersFinite DEF Typed, CountIsHolders, TypeOK
<1> QED
  BY <1>1, <1>2, PTL

-----------------------------------------------------------------------------
(* The limit                                                               *)

(* A connection about to increment read a count below the limit.           *)
LimitInv ==
  NeverLifted =>
    /\ ~unlimited
    /\ \A t \in Togglers : pc[t] \in {"loadUnlimited", "swap"}
    /\ \A h \in Conns : pc[h] = "increment" => cur[h] < MaxPlayers
    /\ playerCount <= MaxPlayers

LEMMA LimitInit == Init => LimitInv
BY SeparateThreads, LimitIsNat DEF Init, LimitInv

TogglerTyped == \A t \in Togglers : pc[t] \in {"loadUnlimited", "swap", "toggled"}

LEMMA TogglerStep == Typed /\ TogglerTyped /\ [Next]_vars => TogglerTyped'
BY SeparateThreads DEF Typed, TogglerTyped, Next, HandlerStep, vars, Goto, Login, LoadCount,
   CheckLimit, Increment, AddPlayer, RemovePlayer, LoadRelease, Decrement, LoadUnlimited,
   SwapUnlimited

LEMMA LimitStep == Typed /\ TogglerTyped /\ LimitInv /\ [Next]_vars => LimitInv'
<1> SUFFICES ASSUME Typed, TogglerTyped, LimitInv, [Next]_vars PROVE LimitInv'
    OBVIOUS
<1> USE SeparateThreads, LimitIsNat DEF Typed, TogglerTyped, LimitInv, NeverLifted, Goto
<1>1. ASSUME NEW h \in Conns, Login(h) \/ LoadCount(h) \/ AddPlayer(h) \/ RemovePlayer(h)
                              \/ LoadRelease(h)
      PROVE  LimitInv'
  BY <1>1 DEF Login, LoadCount, AddPlayer, RemovePlayer, LoadRelease
<1>2. ASSUME NEW h \in Conns, CheckLimit(h) PROVE LimitInv'
  BY <1>2 DEF CheckLimit
<1>3. ASSUME NEW h \in Conns, Increment(h) PROVE LimitInv'
  BY <1>3 DEF Increment
<1>4. ASSUME NEW h \in Conns, Decrement(h) PROVE LimitInv'
  BY <1>4 DEF Decrement
<1>5. ASSUME NEW t \in Togglers, LoadUnlimited(t) PROVE LimitInv'
  BY <1>5 DEF LoadUnlimited
<1>6. ASSUME NEW t \in Togglers, SwapUnlimited(t) PROVE LimitInv'
  BY <1>6 DEF SwapUnlimited
<1>7. CASE UNCHANGED vars
  BY <1>7 DEF vars
<1> QED
  BY <1>1, <1>2, <1>3, <1>4, <1>5, <1>6, <1>7 DEF Next, HandlerStep

(* Until the limit is lifted for the first time no more than MaxPlayers    *)
(* connections are inside.                                                 *)
THEOREM LimitKept == Spec => []WithinLimit
<1>1. Init => TogglerTyped
  BY SeparateThreads DEF Init, TogglerTyped
<1>2. Spec => [](Typed /\ CountIsHolders /\ TogglerTyped /\ LimitInv)
  BY <1>1, TypedInit, TypedStep, CountInit, CountStep, TogglerStep, LimitInit, LimitStep, PTL
     DEF Spec
<1>3. CountIsHolders /\ LimitInv => WithinLimit
  BY DEF CountIsHolders, LimitInv, WithinLimit
<1> QED
  BY <1>2, <1>3, PTL

-----------------------------------------------------------------------------
(* The roster                                                              *)

LEMMA RosterStep == Typed /\ RosterNoGhosts /\ [Next]_vars => RosterNoGhosts'
<1> SUFFICES ASSUME Typed, RosterNoGhosts, [Next]_vars PROVE RosterNoGhosts'
    OBVIOUS
<1> USE SeparateThreads, NoNameIsNoConn DEF Typed, RosterNoGhosts, Goto, Absent
<1>1. ASSUME NEW h \in Conns, AddPlayer(h) PROVE RosterNoGhosts'
  BY <1>1 DEF AddPlayer
<1>2. ASSUME NEW h \in Conns, RemovePlayer(h) PROVE RosterNoGhosts'
  BY <1>2 DEF RemovePlayer
<1>3. ASSUME NEW h \in Conns,
             \/ Login(h) \/ LoadCount(h) \/ CheckLimit(h) \/ Increment(h)
             \/ LoadRelease(h) \/ Decrement(h)
      PROVE  RosterNoGhosts'
  <2>1. /\ pc[h] # "bridging"
        /\ players' = players
        /\ \A g \in Conns \ {h} : name'[g] = name[g] /\ pc'[g] = pc[g]
    BY <1>3 DEF Login, LoadCount, CheckLimit, Increment, LoadRelease, Decrement
  <2> QED
    BY <2>1
<1>4. ASSUME NEW t \in Togglers, LoadUnlimited(t) \/ SwapUnlimited(t) PROVE RosterNoGhosts'
  BY <1>4 DEF LoadUnlimited, SwapUnlimited
<1>5. CASE UNCHANGED vars
  BY <1>5 DEF vars
<1> QED
  BY <1>1, <1>2, <1>3, <1>4, <1>5 DEF Next, HandlerStep

(* Behind every roster entry is a connection that is inside and carries    *)
(* that name.                                                              *)
THEOREM NoGhosts == Spec => []RosterNoGhosts
<1>1. Init => RosterNoGhosts
  BY DEF Init, RosterNoGhosts, Absent
<1> QED
  BY <1>1, TypedInit, TypedStep, RosterStep, PTL DEF Spec

(* With different names an entry is written and deleted by its own player  *)
(* only.                                                                   *)
OwnEntry ==
  /\ \A h \in Conns : pc[h] = "start" => name[h] = NoName
  /\ NamesDiffer => \A h \in Conns :
       pc[h] = "bridging" /\ name[h] # NoName => players[name[h]] = h

LEMMA OwnEntryStep == Typed /\ OwnEntry /\ [Next]_vars => OwnEntry'
<1> SUFFICES ASSUME Typed, OwnEntry, [Next]_vars PROVE OwnEntry'
    OBVIOUS
<1> USE SeparateThreads, NoNameIsNoName DEF Typed, OwnEntry, NamesDiffer, Goto
<1>1. ASSUME NEW h \in Conns, Login(h) PROVE OwnEntry'
  <2>1. NamesDiffer' => NamesDiffer
    BY <1>1 DEF Login
  <2> QED
    BY <1>1, <2>1 DEF Login
<1>2. ASSUME NEW h \in Conns, AddPlayer(h) PROVE OwnEntry'
  BY <1>2 DEF AddPlayer
<1>3. ASSUME NEW h \in Conns, RemovePlayer(h) PROVE OwnEntry'
  BY <1>3 DEF RemovePlayer
<1>4. ASSUME NEW h \in Conns,
             LoadCount(h) \/ CheckLimit(h) \/ Increment(h) \/ LoadRelease(h) \/ Decrement(h)
      PROVE  OwnEntry'
  <2>1. /\ pc'[h] \notin {"start", "bridging"} /\ players' = players /\ name' = name
        /\ \A g \in Conns \ {h} : pc'[g] = pc[g]
    BY <1>4 DEF LoadCount, CheckLimit, Increment, LoadRelease, Decrement
  <2> QED
    BY <2>1
<1>5. ASSUME NEW t \in Togglers, LoadUnlimited(t) \/ SwapUnlimited(t) PROVE OwnEntry'
  BY <1>5 DEF LoadUnlimited, SwapUnlimited
<1>6. CASE UNCHANGED vars
  BY <1>6 DEF vars
<1> QED
  BY <1>1, <1>2, <1>3, <1>4, <1>5, <1>6 DEF Next, HandlerStep

(* As long as no two connections carry the same name, every named player   *)
(* who is inside is in the roster.                                         *)
THEOREM RosterAlwaysComplete == Spec => []RosterComplete
<1>1. Init => OwnEntry
  BY SeparateThreads DEF Init, OwnEntry
<1>2. Spec => [](Typed /\ OwnEntry)
  BY <1>1, TypedInit, TypedStep, OwnEntryStep, PTL DEF Spec
<1>3. Typed /\ OwnEntry => RosterComplete
  BY NoNameIsNoConn DEF Typed, OwnEntry, RosterComplete, ConnectedListed, Absent
<1> QED
  BY <1>2, <1>3, PTL
=============================================================================
