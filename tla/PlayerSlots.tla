---------------------------- MODULE PlayerSlots ----------------------------
(***************************************************************************)
(* The players of one tunnel session: the lock-free counter PlayerCount,   *)
(* the roster Players and the limit switch UnlimitedPlayers of a Session   *)
(* (server/port_table.go), used by one handleExternalConnection goroutine  *)
(* per login connection (server/tunnel_manager.go) and by the dashboard's  *)
(* handleToggleUnlimited.                                                  *)
(*                                                                         *)
(* Each atomic load, compare-and-swap and sync.Map operation is one step.  *)
(* A handler keeps its *Session for as long as it runs, so the session's   *)
(* removal from the port table changes nothing here.  Status pings touch   *)
(* none of this state and are left out.                                    *)
(***************************************************************************)
EXTENDS Naturals, FiniteSets

CONSTANTS
  Conns,       \* external connections that log in
  Togglers,    \* dashboard requests that toggle the limit
  Names,       \* player names
  NoName,      \* a login packet without a name
  MaxPlayers   \* MaxPlayersPerClient

ASSUME LimitIsNat      == MaxPlayers \in Nat
ASSUME ConnsFinite     == IsFiniteSet(Conns)
ASSUME SeparateThreads == Conns \intersect Togglers = {}
ASSUME NoNameIsNoName  == NoName \notin Names
ASSUME NoNameIsNoConn  == NoName \notin Conns

VARIABLES
  playerCount,  \* Session.PlayerCount
  unlimited,    \* Session.UnlimitedPlayers
  players,      \* Session.Players: name -> the connection of its PlayerInfo
  name,         \* per connection: playerName
  cur,          \* per connection: the local cur of the two loops
  old,          \* per toggler: the local old
  pc

vars == <<playerCount, unlimited, players, name, cur, old, pc>>

Absent == NoName   \* no entry under a key of Players

Goto(t, label) == pc' = [pc EXCEPT ![t] = label]

-----------------------------------------------------------------------------
(* Wrong variants of the steps, each put in the place of the step it is a  *)
(* variant of to see that the properties tell them apart.                  *)

(* Store of cur+1 instead of the compare-and-swap.                         *)
AddWithoutCAS(h) ==
  /\ pc[h] = "increment"
  /\ playerCount' = cur[h] + 1
  /\ Goto(h, "register")
  /\ UNCHANGED <<unlimited, players, name, cur, old>>

(* IncrementPlayer goes round its loop once more after it has succeeded.   *)
IncrementNoReturn(h) ==
  /\ pc[h] = "increment"
  /\ \/ /\ playerCount = cur[h]
        /\ playerCount' = cur[h] + 1
     \/ /\ playerCount # cur[h]
        /\ UNCHANGED playerCount
  /\ Goto(h, "loadCount")
  /\ UNCHANGED <<unlimited, players, name, cur, old>>

(* cur > max instead of cur >= max.                                        *)
RefuseTooLate(h) ==
  /\ pc[h] = "checkLimit"
  /\ \/ /\ unlimited \/ cur[h] <= MaxPlayers
        /\ Goto(h, "increment")
     \/ /\ ~unlimited /\ cur[h] > MaxPlayers
        /\ Goto(h, "refused")
  /\ UNCHANGED <<playerCount, unlimited, players, name, cur, old>>

(* RemovePlayer is not deferred.                                           *)
LeaveInRoster(h) ==
  /\ pc[h] = "bridging"
  /\ Goto(h, "loadRelease")
  /\ UNCHANGED <<playerCount, unlimited, players, name, cur, old>>

(* RemovePlayer empties the roster.                                        *)
ClearRoster(h) ==
  /\ pc[h] = "bridging"
  /\ players' = [n \in Names |-> Absent]
  /\ Goto(h, "loadRelease")
  /\ UNCHANGED <<playerCount, unlimited, name, cur, old>>

-----------------------------------------------------------------------------
(* handleExternalConnection                                                *)

(* ReadInitialPackets has returned a login.                                *)
Login(h) ==
  /\ pc[h] = "start"
  /\ \E n \in Names \union {NoName} : name' = [name EXCEPT ![h] = n]
  /\ Goto(h, "loadCount")
  /\ UNCHANGED <<playerCount, unlimited, players, cur, old>>

(* IncrementPlayer: load, limit, CompareAndSwap, and again if it failed.   *)
LoadCount(h) ==
  /\ pc[h] = "loadCount"
  /\ cur' = [cur EXCEPT ![h] = playerCount]
  /\ Goto(h, "checkLimit")
  /\ UNCHANGED <<playerCount, unlimited, players, name, old>>

CheckLimit(h) ==
  /\ pc[h] = "checkLimit"
  /\ \/ /\ unlimited \/ cur[h] < MaxPlayers
        /\ Goto(h, "increment")
     \/ /\ ~unlimited /\ cur[h] >= MaxPlayers
        /\ Goto(h, "refused")
  /\ UNCHANGED <<playerCount, unlimited, players, name, cur, old>>

Increment(h) ==
  /\ pc[h] = "increment"
  /\ \/ /\ playerCount = cur[h]
        /\ playerCount' = cur[h] + 1
        /\ Goto(h, "register")
     \/ /\ playerCount # cur[h]
        /\ Goto(h, "loadCount")
        /\ UNCHANGED playerCount
  /\ UNCHANGED <<unlimited, players, name, cur, old>>

(* AddPlayer, for a player with a name.                                    *)
AddPlayer(h) ==
  /\ pc[h] = "register"
  /\ players' = [n \in Names |-> IF n = name[h] THEN h ELSE players[n]]
  /\ Goto(h, "bridging")
  /\ UNCHANGED <<playerCount, unlimited, name, cur, old>>

(* The stream could not be opened, or one direction of the copy ended: the *)
(* deferred calls run in reverse order, RemovePlayer first.                *)
RemovePlayer(h) ==
  /\ pc[h] = "bridging"
  /\ players' = [n \in Names |-> IF n = name[h] THEN Absent ELSE players[n]]
  /\ Goto(h, "loadRelease")
  /\ UNCHANGED <<playerCount, unlimited, name, cur, old>>

(* DecrementPlayer.                                                        *)
LoadRelease(h) ==
  /\ pc[h] = "loadRelease"
  /\ cur' = [cur EXCEPT ![h] = playerCount]
  /\ \/ playerCount = 0 /\ Goto(h, "gone")
     \/ playerCount > 0 /\ Goto(h, "decrement")
  /\ UNCHANGED <<playerCount, unlimited, players, name, old>>

Decrement(h) ==
  /\ pc[h] = "decrement"
  /\ \/ /\ playerCount = cur[h]
        /\ playerCount' = cur[h] - 1
        /\ Goto(h, "gone")
     \/ /\ playerCount # cur[h]
        /\ Goto(h, "loadRelease")
        /\ UNCHANGED playerCount
  /\ UNCHANGED <<unlimited, players, name, cur, old>>

-----------------------------------------------------------------------------
(* handleToggleUnlimited                                                   *)

LoadUnlimited(t) ==
  /\ pc[t] = "loadUnlimited"
  /\ old' = [old EXCEPT ![t] = unlimited]
  /\ Goto(t, "swap")
  /\ UNCHANGED <<playerCount, unlimited, players, name, cur>>

SwapUnlimited(t) ==
  /\ pc[t] = "swap"
  /\ \/ /\ unlimited = old[t]
        /\ unlimited' = ~old[t]
        /\ Goto(t, "toggled")
     \/ /\ unlimited # old[t]
        /\ Goto(t, "loadUnlimited")
        /\ UNCHANGED unlimited
  /\ UNCHANGED <<playerCount, players, name, cur, old>>

-----------------------------------------------------------------------------

Init ==
  /\ playerCount = 0
  /\ unlimited = FALSE
  /\ players = [n \in Names |-> Absent]
  /\ name = [h \in Conns |-> NoName]
  /\ cur = [h \in Conns |-> 0]
  /\ old = [t \in Togglers |-> FALSE]
  /\ pc = [t \in Conns \union Togglers |->
             IF t \in Conns THEN "start" ELSE "loadUnlimited"]

HandlerStep(h) ==
  \/ LoadCount(h) \/ CheckLimit(h) \/ Increment(h) \/ AddPlayer(h)
  \/ LoadRelease(h) \/ Decrement(h)

Next ==
  \/ \E h \in Conns : Login(h) \/ HandlerStep(h) \/ RemovePlayer(h)
  \/ \E t \in Togglers : LoadUnlimited(t) \/ SwapUnlimited(t)

Spec == Init /\ [][Next]_vars

-----------------------------------------------------------------------------

ConnLabels == {"start", "loadCount", "checkLimit", "increment", "refused",
               "register", "bridging", "loadRelease", "decrement", "gone"}

TypeOK ==
  /\ playerCount \in 0..Cardinality(Conns)
  /\ unlimited \in BOOLEAN
  /\ players \in [Names -> Conns \union {Absent}]
  /\ name \in [Conns -> Names \union {NoName}]
  /\ cur \in [Conns -> Nat]
  /\ old \in [Togglers -> BOOLEAN]
  /\ pc \in [Conns \union Togglers -> ConnLabels \union {"loadUnlimited", "swap", "toggled"}]

(* Connections that were let in and have not given their slot back.        *)
Holders == {h \in Conns : pc[h] \in {"register", "bridging", "loadRelease", "decrement"}}

(* No admission or release is lost or counted twice: the number that the   *)
(* dashboard shows and the limit is checked against is the number of       *)
(* connections inside, in every interleaving of the two retry loops.       *)
CountIsHolders == playerCount = Cardinality(Holders)

(* As long as nobody has lifted the limit, no more than MaxPlayers are     *)
(* inside, even if all connections arrive at once.                         *)
NeverLifted == \A t \in Togglers : pc[t] # "toggled"
WithinLimit == NeverLifted => Cardinality(Holders) <= MaxPlayers

(* The roster shows no ghosts: the connection behind an entry is inside    *)
(* and carries that name, also when several players use one name.          *)
RosterNoGhosts ==
  \A n \in Names : players[n] # Absent =>
    name[players[n]] = n /\ pc[players[n]] = "bridging"

(* RemovePlayer "removes a disconnected player": a player who is connected *)
(* stays in the roster.                                                    *)
ConnectedListed ==
  \A h \in Conns : pc[h] = "bridging" /\ name[h] # NoName => players[name[h]] # Absent

(* It does if no two connections carry the same name.                      *)
NamesDiffer == \A g, h \in Conns : g # h /\ name[g] = name[h] => name[g] = NoName
RosterComplete == NamesDiffer => ConnectedListed
=============================================================================
