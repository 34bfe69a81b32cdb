# MSPB: models, checks and proofs

MSPB lets a player host a Minecraft server behind NAT. A *client* next to the Minecraft server
opens one TCP connection to a *central server*; a yamux session on it carries a control stream
(handshake, port assignment, heartbeats) and one data stream per player. The central server gives
each client an external port, listens on it, and bridges every connection it accepts there to a
new data stream.

This directory holds TLA+ modules translated from the Go sources, TLC configurations for them, and
proofs checked by TLAPS. Source references are paths below `src/`.

- [Inventory](#inventory): what the system consists of
- [Modules](#modules): which module models what, and how it corresponds to the code
- [Runs](#runs): what is model-checked, with which bounds and fairness
- [Proofs](#proofs): what holds for every value of the constants, and why
- [Findings](#findings): where the code does not do what it says
- [What is left out](#what-is-left-out) and [Plan](#plan)

## Inventory

### Port table: `server/port_table.go`

*State.* `portToSession` and `clientToSession`, two independent `sync.Map`s; per `Session` the
`Closed` flag, the listener, the channel `tickerDone` and the yamux session `DataSession`. A zero
`Session`, the sentinel `portTaken`, stands in `portToSession` for a port being allocated.

*Operations.* `AllocatePort` (returns an existing session, or reserves a random port with
`LoadOrStore`, binds it, stores the session in both maps and starts the rate ticker), `GetSession`,
`UpdateHeartbeat`, `removeSession` (deletes both map entries, then `Close`), `ReclaimStaleSessions`.

*Interaction.* One goroutine per client connection allocates and, when its control stream ends,
cleans up; dashboard requests remove sessions; a 30 s ticker removes sessions without a heartbeat.
No lock spans two operations on the maps: everything interleaves.

*Hard.* One session removed by two goroutines while its port is allocated again; a session
removed half-way through its registration; a port found busy by `net.Listen`; a session looked up
by port number after the port has changed hands; `Close` run twice.

*Correct if.* A session found under a port is open and its listener is bound there; `Close` has its
effect once; a reservation holds until it is replaced or rolled back; a client is removed only by
those who mean it; whatever was opened is closed in the end.

### Player slots and roster: `server/port_table.go`, `server/tunnel_manager.go`, `server/dashboard.go`

*State.* `PlayerCount`, `UnlimitedPlayers`, `Players` of a `Session`.
*Operations.* `IncrementPlayer` / `DecrementPlayer` (compare-and-swap loops), `AddPlayer` /
`RemovePlayer` (a map keyed by player name), `handleToggleUnlimited`.
*Hard.* Any number of connections race in the loops; the deferred releases run in reverse order;
one name may be used by two connections.
*Correct if.* The count is the number of admitted connections, the limit is kept, the roster lists
those who are there and nobody else.

### Tunnel manager: `server/tunnel_manager.go`

*State.* The port table, and per connection the local variables of its goroutines: each of them holds the
port as a number and looks the session up again.

*Control connection* (`HandleClientConnection`, `handleHeartbeat`, `cleanupSession`): first byte,
yamux session, handshake within 10 s, allocation, `DataSession` written into the session found under
the new port, then heartbeats until an error, a 45 s silence or `MsgClose`.
*External connections* (`acceptExternalConnections`, `handleExternalConnection`): accept on the
session's listener, read the first packets, look the session up, admit, open a stream, copy both ways.

*Hard.* Lookups by port number at three different times; the unsynchronised write of `DataSession`;
the byte counters taken from a session that may not have been found; players between dialling and
acceptance when the client goes; two copiers of which the first to end closes everything.

*Correct if.* A player gets to the client whose port was dialled, and is answered or reset; a client that
is gone leaves no port, acceptor or player behind; a bridge loses, doubles and swaps nothing.

### Server dashboard, web server, start-up: `server/dashboard.go`, `server/web_server.go`, `server/server_main.go`

Two handlers change state (`handleCloseSession`, `handleToggleUnlimited`); all others read. Start-up
runs the accept loop and the reclaim ticker.

### Client: `client/client.go`, `client/cmd.go`

*State.* `controlConn`, `dataSession`, `controlStream` (no lock), the channel `done`, an error
channel of capacity 2 per connection.
*Operations.* `Run` (reconnect loop), `connectAndServe`, `runHeartbeat`, `acceptDataStreams`,
`handleDataStream`, `Stop` from the signal goroutine.
*Hard.* Loss and stop at any moment, goroutines of an old connection that survive into the next one,
fields that are reset between a test and a use, waiting for an error nobody reports.
*Correct if.* A lost connection is noticed and dialled again, nothing of an old connection is left
open, a stop ends the program.

### Lock file: `client/lock.go`; client dashboard: `client/dashboard.go`

*State.* One file, its open handles, and which processes exist.
*Operations.* `acquireLock` creates the file exclusively and writes the pid; an existing file is read, and
removed if its process is gone or its pid cannot be read, after which it tries again. `releaseLock` closes
and removes it.
*Hard.* Starts at the same time, a death between creation and write, a pid that another program has now, two
starts that find the same stale file.
*Correct if.* One client runs at a time, the file names it, and a start ends in one way or the other.

The dashboard is display state: a roster keyed by name, counters, flags.

### Codecs: `shared/protocol.go`, `shared/mc_packet.go`

Frames and their payloads with 16-bit lengths; VarInts, Minecraft framing, `ReadInitialPackets`, the parsers
of peeked data (which only tests would call), the disconnect packet. No state but the position in the stream.
*Correct if* what one side encodes the other decodes wherever the stream is cut, no byte is
lost between packets, server and client read the same player, and length checks do not wrap.

## Modules

| Module | Models | Role |
|---|---|---|
| `PortTableState` | state of the port table and its goroutines | constants, variables, helpers |
| `PortTable` | `AllocatePort`, `removeSession`, `Close` and their callers | the detailed specification, wrong variants of its operations, its properties, the refinement of `PortLease` |
| `PortLease` | what the table promises to a lookup | the abstract specification |
| `PortTableProofs`, `PortLeaseProofs` | | theorems |
| `PlayerSlots` | player count, limit switch, roster | specification, properties, wrong variants |
| `PlayerSlotsProofs` | | theorems |
| `TunnelManager` | control connection, acceptor and handlers, on top of `PortTable` | composition: EXTENDS `PortTable`, its actions run the table's |
| `QuietProofs` | | theorems about `PortTable` and `TunnelManager` |
| `Bridge` | one external connection, both handlers and four copiers | specification, properties, the refinement of `Pipe` |
| `Pipe` | what one direction of a bridge promises | the abstract specification |
| `BridgeProofs` | | theorems |
| `Client` | the client's connection loop | specification, properties, wrong variants |
| `ClientProofs` | | theorems |
| `ClientLock` | the lock file and the processes that compete for it | specification, properties, wrong variants |
| `ClientLockProofs` | | theorems |
| `Protocol`, `MCPacket` | the two codecs | operators on byte sequences, wrong variants |
| `Wire` | the byte streams of the program's connections | composition of the codecs: who writes what, and what the readers make of it |
| `WireProofs` | | theorems |
| `MCPortTable`, `MCPlayerSlots`, `MCClient`, `MCTunnelManager`, `MCBridge`, `MCClientLock`, `MCWire` | | instances for TLC: symmetry sets, contents of messages |

### `PortTable`

A step is one operation on something shared: a `sync.Map` call, an atomic, a plain field used by two
goroutines, a socket. `pc[g]` is the next step of goroutine `g`, `obj[g]` the `*Session` it holds.

| Action | Code (`server/port_table.go` unless named) |
|---|---|
| `AllocatePort`, `LoadExisting`, `CheckExisting` | entry of `AllocatePort`, lookup by client, reuse or removal of the existing session |
| `ReservePort`, `NoAvailablePorts` | one turn of the loop over `rand.Perm` with `LoadOrStore`; the error after the last port and the caller's `session.Close()` |
| `Listen`, `RollbackPort` | `net.Listen` and the new `Session`; `Delete` of the sentinel on failure |
| `StorePort`, `StoreClient`, `StartRateTicker` | the two `Store`s and the ticker, in the code's order |
| `LookupOwn`, `SetDataSession` | `HandleClientConnection`: lookup of the own session, write of `DataSession` |
| `CleanupSession` | `cleanupSession(port, ...)` when the control stream ends |
| `HandleCloseSession`, `ReclaimStale` | dashboard request; one key of the `Range` of `ReclaimStaleSessions` |
| `DeletePort`, `DeleteClient`, `CloseCAS`, `CloseTicker`, `CloseListener`, `CloseData` | `removeSession` and `Session.Close`, for whichever goroutine runs them |

- The random permutation is a choice of any port not tried yet.
- A `Session` is named `<<client, call>>`; the sentinel's port and client are zero values, which no map
  holds, so removing it deletes nothing (`PortOf`, `ClientIDOf`).
- Time is abstracted: `Expirable` is the set of clients that may fall silent for 45 s, and
  `ReclaimStale` may take any of them at any time; the sentinel, whose heartbeat is zero, always.
- `tickerDone` and `DataSession` are read and written without synchronisation in the code. They are
  word-sized fields; the model takes every interleaving of whole reads and writes.
- `ForeignPorts` are ports of the range on which another program listens.
- In the program every connection has a `ClientID` of its own (address and time), so `AllocatePort` is
  called once per `ClientID`. `MaxCalls > 1` exercises the code's own branch for a client it knows.

`PortLease` has three pieces of state, who is bound to a port, whom a lookup finds, and who has ever
been found, and four actions, `Open`, `Publish`, `Hide`, `Close`: a session is found only while it is
bound, is hidden before it is closed, and never comes back. `PortTable` implements it with
`holder <- listening`, `visible <- GetSession`, `published <-` the sessions past `StorePort`.

### `PlayerSlots`

One session and the login connections to it. `Login` is the result of `ReadInitialPackets`;
`LoadCount`, `CheckLimit`, `Increment` are `IncrementPlayer`; `AddPlayer`, `RemovePlayer` the roster;
`LoadRelease`, `Decrement` are `DecrementPlayer`; `LoadUnlimited`, `SwapUnlimited` the toggle. A handler
keeps its `*Session`, so the port table plays no part.

### `TunnelManager`

`TunnelManager` extends `PortTable`: the client goroutine is the control connection, and its actions are
those of the table (`HandshakeRead` is `AllocatePort`, `Allocation` its steps, `Cleanup` is
`cleanupSession`) with the goroutines around them.

| Action | Code (`server/tunnel_manager.go`) |
|---|---|
| `HandshakeFails`, `HandshakeRead` | `HandleClientConnection` up to a valid handshake, or any failure before it |
| `Allocation` | `AllocatePort`, the lookup of the own session, `DataSession` |
| `StartGoroutines` | the answer is sent, `handleHeartbeat` and the acceptor start |
| `Disconnect`, `Cleanup` | the connection breaks; `handleHeartbeat` returns, or the answer could not be sent, and cleans up |
| `AcceptorLookup`, `AcceptPlayer`, `AcceptorReturn` | `acceptExternalConnections`: its own lookup, `Accept`, the check of `Closed` after an error |
| `Dial`, `DialReset` | the operating system's side of a listener: connections are complete before they are accepted, and reset when it closes |
| `LookupAndAdmit`, `OpenBridge`, `HangUp`, `BridgeCut` | `handleExternalConnection`: initial packets and lookup, stream and copiers, end |

`dialled` (the session whose listener the player reached) and `via` (the client whose acceptor took the
player) say where a player wanted to go and where it went. `HangUp` frees all variables of a player: a
`Players` element is one connection.

### `Bridge`

`handleExternalConnection` from its first read on, the stream, `handleDataStream`, and the two parties at
the ends; the table's lookup is assumed to have found the session. Each io.Copy goroutine is a copier with
`CopyRead`, `CopyWrite`, `CopyEnd`; the two `bufio.Reader`s are `buffer`. Data goes in numbered pieces, of
which the first is the initial data. A closed TCP connection with unread data resets its peer, which may
then lose what it has not read; a yamux stream delivers what was written before its close. A write and the
addition to the counter behind it are one step.

`Pipe` says that the receiver has got pieces 1 to n and no others; `Bridge` implements it once for each
direction (`BytesInOrder`).

### `ClientLock`

A step is one file operation (`Create`, `WritePid`, `UndoCreate`, `OpenFile`, `ReadFile`, `RemoveDamaged`,
`RemoveStale`, `CloseLock`, `Unlink`) or the query of a process (`CheckAlive`); `os.ReadFile` is two, since
the file is open in between. `Die` ends a process anywhere and closes its handles. The program
is built for Windows (`syscall.OpenProcess`), where a file opened by Go's `os` package cannot be removed while it is
open; `Removable` says so. `Reused` holds the processes whose pid another program gets later.

### `Protocol`, `MCPacket`, `Wire`

A reader is an operator on a byte sequence and a position that returns what it read with the position behind
it; shortage is failure, since `io.ReadFull` and `bufio` wait for the rest. Byte values, VarInt groups and
all limits are constants; `Base`, the number of byte values, is twice `Group`, as 256 is twice 128. Sums of
lengths are taken modulo `Word`, which is `Base * Base`, where the code has `uint16` (`Uint16`). VarInts are a
recursive function (`VarInt`, `GroupsValue`), one group at a time as in the code's loops. Readers whose error the
caller ignores return 0 and the position they stopped at (`HandshakeFields`). A slice bound out of range, which
ends the process, is `Panicked`; a returned error is `Failed`. `PayloadsCarried` says that a payload whose
positions fit in 16 bits is read back, and that one whose lengths fit and whose positions do not is never taken for
other content.

`Wire` puts bytes on a connection in the order the program does: `ClientFrame`, `ServerFrame` for the control
stream, `PlayerPacket` and `MoreBytes` for a player, `Refuse` for the answer to a player too many, and
arbitrary bytes on a connection of its own.

### `Client`

The main goroutine runs `Run` and `connectAndServe` step by step, deferred functions included
(`CloseStream` to `ForgetConn`, last one first). Each connection that is dialled successfully has a
`runHeartbeat` (`HeartbeatDone`, `Ping`, `Pong`) and an `acceptDataStreams` goroutine (`CheckDone`,
`ReadSession`, `AcceptStream`, `AcceptError`), which are not stopped when their connection is. `Stop`
is `Signal` and the four steps after it. `LoseConnection` is the network or the server. A nil
dereference sets `crashed`, after which nothing happens.

## Runs

| Run | Instance | Shows |
|---|---|---|
| `table_full` | 2 clients, dashboard, reclaimer, 2 ports | `TypeOK`, `TableLive`, `CloseOnce`, and `LeaseSpec`: the table implements `PortLease`, under every interleaving of allocation, cleanup, dashboard and reclaimer |
| `table_quiet` | 3 clients, reclaimer, 3 ports, one foreign; no dashboard, nobody falls silent | `ReservationHeld`, `HeldPortIsOwn`, `RemovesOwnSession`, `NothingLeaks` |
| `table_calls` | 1 client calling `AllocatePort` three times, whose heartbeats may stop, reclaimer, 3 ports, one foreign; fair | `OneEntryPerClient`, `AllocationReturns`, `ClosedFreesPort` |
| `tunnel` | 2 clients, 1 port, 2 players; fair; sessions are removed by their own connection only | `RoutedWhileOpen`, `DialAnswered`, `GoneClientForgotten` |
| `player_slots` | 3 connections, 2 names, 2 slots, 2 toggles | `TypeOK`, `CountIsHolders`, `WithinLimit`, `RosterNoGhosts`, `RosterComplete` |
| `bridge` | 2 pieces up, 1 down, 2 between two ends; anybody closes at any moment; fair | `BytesInOrder` (implements `Pipe` both ways), `TrafficAgrees`, `UpArrives`, `TornDown`, `FarewellArrives` |
| `client_run` | up to 3 connections, losses, a stop at any moment; fair | `TypeOK` (with errors never exceeding the channel), `NoLinkLeft`, `NoCrashWhileServing`, `HeartbeatEnds`, `LossNoticed` |
| `client_lock` | 3 processes, one pid used again; fair | `TypeOK`, `OneHolder`, `HolderNamed`, `StartReturns`, `LoneStartSucceeds` |
| `wire` | bytes of 8 values, VarInts of up to 3 bytes, 3 frames, 7 arbitrary bytes | `FramesArrive`, `PayloadsCarried`, `ReadsWhatWasSent`, `HostSeesSame`, `ParsersAgree`, `RefusalReadable` |
| `port_lost` | 2 clients, dashboard, reclaimer, 1 port | violation, see [Findings](#findings) |
| `stop_hangs` | 1 connection, a stop; fair | violation |
| `session_gone` | 1 client, 1 port, 1 player; no other remover | violation |

Every property of a passing run is also run against a wrong variant of one operation, which it must
reject; the pairs are listed under `mutants` in `PROJECT.json`.

**Two modes of the table.** What a session found in the table looks like (`TableLive`, `CloseOnce`,
`LeaseSpec`) holds whatever the removers do. What a *client* may rely on (`ReservationHeld`,
`HeldPortIsOwn`, `RemovesOwnSession`, `NothingLeaks`) does not: the findings show that a dashboard
request or an expired heartbeat can break it. `table_quiet` shows where it does hold, namely as long as
the only remover of a session is its own connection. The reclaimer still runs there and still meets
sentinels.

`tunnel` runs in the same mode: with other removers a player can be routed to another client (see the
remarks under [Findings](#findings)).

**`RoutedWhileOpen`** speaks of clients whose session is still open. A client that disconnected just before
its acceptor looked its session up may find the next owner's: the acceptor of a client that is gone then
takes some of the new owner's players, who are cut off because no stream can be opened, until that listener
closes. What holds is that as long as a client's session is open its players get to it, and to nobody else. Nothing
is claimed for players who dialled a session that has been closed since.

**`OneEntryPerClient`**: calls for one `ClientID` do not repeat in the program, and for a single call the property
holds whoever removes sessions (`OneEntryOnFirstCall`). `table_calls` has one client with three calls and one remover
beside it, and for this cast it holds for any number of calls (`OneEntryOneRemover`). It does not hold beyond:
with two slow removers of one session, the dashboard and the reclaimer, it fails on a third call:
the slower one deletes the newer session's entry by `ClientID` (`server/port_table.go:269`), and the client
gets a second port. This stays a remark.

**Bounds.** Two clients and one port (or two) are the smallest instance in which a port changes hands
under a slow remover; a dashboard goroutine that starts again after each request and the reclaimer
give any number of removals, up to four at once. Three clients in `table_quiet` let all ports be taken
while one client finds none. In `tunnel` two clients and one port are enough for a late lookup to meet the
next owner, and two players for one to wait while another is served. Two slots and three connections make
the last slot contended; the limit is a parameter of the proofs. In `bridge` the second piece up is the one
that a buffered reader can hold beyond the initial data, and `Window` lets a piece wait behind it. Three
connections of the client are one that is ending, one that is serving and one more whose fields an old
goroutine can pick up. Three processes are a file's dead owner and two starts that compete for it; the proofs
cover any number. In `wire` the lengths of tokens and messages straddle the VarInt boundaries (4 and 16) and
both sides of the largest sums that fit in 16 bits (`Word` = 64); names go one beyond `MaxName`. `MaxConns` bounds
successful dials only, failed ones are unlimited; `MaxCalls` bounds calls of `AllocatePort`; `MaxUp`,
`MaxDown`, `MaxFrames`, `MaxRaw`, `MaxMore` bound what is sent. All bounds are constants of the modules.
Symmetry is used in runs of invariants and of `LeaseSpec`, which constrains single steps and is symmetric
itself; never with liveness.

**Deadlock** is not checked: clients finish, connections and processes end, the client returns or crashes,
senders reach their bound.

**Fairness.** `PortTable` assumes weak fairness of each goroutine inside `AllocatePort` and
`removeSession`: the Go scheduler runs a runnable goroutine eventually. It assumes nothing of the
arrival of dashboard requests, the end of connections or the ticker. The loop over the ports is finite,
which is what `AllocationReturns` rests on. `Client` assumes weak fairness of each goroutine, and strong
fairness of the `done` case in the selects of `runHeartbeat` and `Run`: a select with several ready
cases chooses at random, and their timers are far apart. Nothing is assumed of data streams, losses or
signals.

`TunnelManager` adds weak fairness of the acceptors and handlers, of the system's reset of unaccepted
connections, and of `Cleanup` once the yamux session is closed: the read in `handleHeartbeat` fails then, or
times out after 45 s. Dials, disconnections and the end of a game are not fair. `Bridge` assumes weak fairness of
each handler and copier, and that player and game read what has arrived while they are there; nothing of
writes, closings and losses. `ClientLock` assumes that a starting or stopping process runs on, and strong
fairness of two steps: a reader that has the file open alone finishes reading, and a removal that is possible is
made. This excludes only that several starts on a damaged file go on for ever in lockstep, one
always opening the file before another has closed it; without it the retry in `acquireLock` has no bound.
Nothing makes a process start, stop or die.

## Proofs

All theorems are about every behaviour of a specification and hold for any number of clients, closers, reclaimers,
ports, calls, connections, players, pieces, processes, names and any limit, under the named assumptions of the modules.
These say that

- names are distinct where the program's types keep them apart (`DistinctNames`, `SeparateThreads`, `NoNameIsNoName`,
  `NoNameIsNoConn`, `ReusedAreProcs`, `NotPids`), and the set of connections is finite (`ConnsFinite`);
- bounds are numbers (`CallBound`, `LimitIsNat`, `ConnBound`, `MayStopBool`, `BoundsAreNat`, `BaseIsNat`,
  `MaxFrameIsNat`, `GroupIsNat`, `LimitsAreNat`), and a byte has one bit more than a VarInt group (`SameByte`);
- contents are bytes, and fit where the program puts them: the token, which the operator configures, and the
  server's own messages into a frame of 1 MB, whose length fits in 32 bits (`ContentsAreBytes`,
  `MessagesFitFrames`); a game's packets into the 2 MB the reader accepts, and a login with a legal name into
  the 1024 bytes of the peeking parser (`PacketsAreBytes`, `PacketsFit`); versions and lengths into five VarInt
  bytes (`VarIntsFit`). TLC evaluates all of them for the constants of the runs; names beyond `MaxName` and
  tokens beyond the 16-bit sums are among the values.

The table below names the conditions under which a theorem holds, if there are any. Those of `QuietProofs` have the hypothesis `Quiet`: no dashboard request and no client whose
heartbeats stop. It is the hypothesis of the runs `table_quiet` and `tunnel`, and without it the properties are
false: see `port_lost` and the remarks.

| Theorem | Module | States |
|---|---|---|
| `TypeCorrect` | `PortTableProofs` | `TypeOK` |
| `TableAlwaysLive` | `PortTableProofs` | `TableLive` |
| `CloseRunsOnce` | `PortTableProofs` | `CloseOnce` |
| `OneEntryOnFirstCall` | `PortTableProofs` | `OneEntryPerClient`, if `MaxCalls = 1` |
| `ImplementsLease` | `PortTableProofs` | `LeaseSpec` |
| `LeaseVisibleHolds` | `PortLeaseProofs` | what is visible in `PortLease` is bound, under one port only |
| `TypeCorrect`, `CountAlwaysExact`, `LimitKept`, `NoGhosts`, `RosterAlwaysComplete` | `PlayerSlotsProofs` | the five invariants of `player_slots` |
| `ReservationsHold`, `PortsAreOwn`, `OwnSessionRemoved`, `NothingIsLeaked` | `QuietProofs` | the four invariants of `table_quiet`, if `Quiet` |
| `OneEntryOneRemover` | `PortTableProofs` | `OneEntryPerClient` for any number of calls, if one client and at most one other remover are there (`Alone`) |
| `OneEntry` | `QuietProofs` | `OneEntryPerClient` for any number of calls, if `Quiet` |
| `PlayersAreRouted`, `TunnelLeaksNothing` | `QuietProofs` | `RoutedWhileOpen` and `NothingLeaks` of `TunnelSpec`, if `Quiet` |
| `BridgeImplementsPipe`, `CountersAgree` | `BridgeProofs` | `BytesInOrder`, `TrafficAgrees` |
| `TypeCorrect`, `NoLinkIsLeft`, `ServingIsSafe` | `ClientProofs` | the three invariants of `client_run` |
| `EveryFrameArrives`, `EveryPayloadCarried`, `ReadsTheGame`, `HostReadsSame`, `ParsersFindTheSame`, `RefusalIsReadable` | `WireProofs` | the six invariants of `wire` |
| `TypeCorrect`, `OneHolderAlways`, `HolderAlwaysNamed` | `ClientLockProofs` | the three invariants of `client_lock` |

**The port table's inductive invariant.** `TableLive` alone is not inductive: a step that stores a
session must know that the port is still bound and that the session is new, and a step that closes one
must know that it cannot be found. `IInv` adds, over all sessions and goroutines:

- `EntryLive`: `TableLive`, and the session of an entry has been through `StorePort`;
- `StoringLive`, `StoredBuilt`: between bind and store a session is open and bound to the port in hand, and
  after the store it has its port;
- `KnownPublished`: a session that the client map or a goroutine refers to has been through `StorePort`, so
  a remover never holds a session that is still to be stored;
- `RemovedHidden`: once a remover of session `s` is past `DeletePort`, or `s` is closed, no entry leads to
  `s`. This is what orders "hide" before "close" for *every* remover;
- `ListenerOwned`: a listener is bound to the port its session carries;
- `PortHeld`: a client between allocation and cleanup has a port in hand;
- `Fresh`: sessions of calls to come, and of a call that has not bound a port yet, are not built.

Deleting the entry of *another* session, which the findings are about, can only hide a session, so the
invariant survives it: safety of lookups does not depend on who deletes. `CloseOnce` rests on a second
invariant: a goroutine inside `Close` has set `Closed`, and no two are inside it for one session. The
refinement proof of `PortLease` maps each action to a lease action or a stutter: `Listen` to `Open`, `StorePort`
to `Publish`, `DeletePort` to `Hide` (or a stutter when the entry is gone), `CloseListener` to `Close`.

**One entry per client.** The three theorems differ in what keeps a second session out of the table. With one call there
is no second session (`OneEntryOnFirstCall`). In the quiet table each entry belongs to the step its client is at
(`OneEntry`). With one remover beside the client the entry goes one step before the client map does, so between the two
a call of `AllocatePort` may see either. `OneInv` says which sessions of the client the table may hold (`Current`):
one when it is being stored or in the client map, and none while the client looks for a port. The other remover, until
its two deletes are done, holds such a session too, and an open one (`HandsCurrent`). So when `AllocatePort` finds
a closed session, or none, nobody is about to delete what it will enter.

**Player slots.** `CountIsHolders` is inductive together with types: each successful compare-and-swap
changes the count and the set of holders by one, and the cardinality lemmas of the library do the rest.
`WithinLimit` needs that a connection about to swap has seen a count below the limit, which the swap
confirms. `RosterNoGhosts` and `RosterComplete` need that an entry is written by a connection carrying
that name.

**Lock file.** `OneHolder` and `HolderNamed` follow from an invariant about handles: who has created the file
keeps it open (`HolderOpen`), an open file exists (`OpenExists`), and it holds what its creator has written so
far (`HolderFile`). So while a client holds the lock, no removal succeeds, whatever another start has read
before and takes for stale, and no creation does either.

**The quiet table.** What a client may rely on needs to know where each client is. `QuietInv` says, for every client,
which entries, listener, map entry, yamux session and flags its step implies, and back: a sentinel belongs to exactly
one client that is reserving (`Sentinels`), a session in the table or on a listener to the client that built it
(`Entries`, `Listeners`, `ClientMap`), only its client ever has a session in hand, and the reclaimer nothing
but sentinels (`Hands`). The converse parts are what makes it inductive: that the reclaimer's `DeletePort` of a
sentinel deletes nothing follows from `PortOf(portTaken)`, that no rollback frees another one's port from
`Sentinels`. `TunnelInv` adds that the acceptor that runs holds the client's own session or one that is closed
(`Acceptors`), that a client past `CloseCAS` is closed (`ClosedAtTheEnd`), and that players on their way belong
to an acceptor (`Accepted`); the table's steps inside it are steps of `PortTable`, so `QuietInv` is reused, and only
`HandshakeFails` and `Disconnect` need a proof of their own (`YamuxStep`).

**Bridge.** `UpChain` and `DownChain` describe a direction from end to end: what has arrived, what lies in each inbox,
hand and buffer, and the counters in between, are one run of consecutive pieces. Each action moves a piece
across one link of the chain (the lemmas `Chain...`), or ends a copier, which leaves its pieces where they
are. Both theorems are read off the chain: the first from its head, the second when all links are empty.

**Client.** `NoLinkLeft` needs that only the current connection can be up (`OneLink`); that errors fit the channel
needs that a goroutine reports once and ends (`OneReportEach`) and that goroutines of a connection to come do not
exist (`NotStarted`); `NoCrashWhileServing` that the three fields hold the current connection from the handshake
to the first deferred function (`FieldsHeld`).

**Codecs.** The control stream's invariant is a layout: positions at which each written frame begins, the next one behind
it (`Layout`). A cut of the stream falls into one frame, and `Frames` of the part before the cut are the
frames that end there (`LayoutRead`). A written VarInt is characterised by its form (`Form`: the high bit is set
on all bytes but the last, and the groups have the value); the reader finds the last byte and the value
(`ReadsVarInt`). From it follow strings, headers, packets and whole logins at any position of the wire
(`Holds`). Payloads need that a sum of at most two words wraps at most once (`WrapsOnce`): a wrapped position
lies before the one it should lie behind, so the reader fails or panics and never returns other content.
`HostReadsSame` is about arbitrary bytes: a reader that ended within a prefix of its input finds the
same in the prefix (`VarIntOfPrefix`, `PacketOfPrefix`). `VarInt`, `GroupsValue` and `Frames` are recursive
functions; the induction is over a set of numbers, which needs no theorem with an operator parameter: a set of
naturals that is not empty has a least member (`Least`), and a recursion whose calls go down in a measure has
a solution (`Recursion`).

**Only model-checked.** All liveness: `AllocationReturns`, `ClosedFreesPort`, `DialAnswered`, `GoneClientForgotten`,
`UpArrives`, `TornDown`, `FarewellArrives`, `HeartbeatEnds`, `LossNoticed`, `StartReturns` and
`LoneStartSucceeds` rest on fairness and `ENABLED`, which are outside what TLAPS proves. The invariants and the two
refinements of the passing runs are theorems: those of `table_quiet` and `RoutedWhileOpen` under `Quiet`,
`OneEntryPerClient` for one call, or for one client with at most one other remover, or under `Quiet`. These are the
conditions of the runs that check them.

## Findings

Each is a run TLC ends with a counterexample.

| Run, property | What happens |
|---|---|
| `port_lost`, `PortsReclaimed` | `removeSession` (`server/port_table.go:268`) deletes a port's entry without comparing it. The slower of two removers deletes the entry of the next session; that client's cleanup then finds nothing, and its listener stays bound for good. `README.md:12` promises that ports are reclaimed. |
| `stop_hangs`, `StopEndsRun` | A `Stop` while the client is dialling finds nothing to close; both goroutines then leave through `done` without an error and `connectAndServe` waits for ever (`client/client.go:174`). The lock file stays. |
| `session_gone`, `SessionKnown` | `handleExternalConnection` checks `sessOK` before its first use of the session but not before it takes the addresses of the byte counters (`server/tunnel_manager.go:337`). Between the deletion of the table's entry and the closing of the yamux session the lookup fails and the stream still opens: nil dereference in a goroutine, and the server ends. |

Remarks: behaviour met while modelling that has no run of its own. Each can be seen with the named property
on the named instance.

- *Cleanup of another client* (`server/tunnel_manager.go:369`): with a closer or an expirable client in `Clients = {c1, c2}`,
  `Ports = {p1}`, `RemovesOwnSession` fails: the session found by port number may be the next owner's.
- *A ticker left running* (`server/port_table.go:226`): on the same instance `AtRest => TickersStopped` fails.
  The session is published before `StartRateTicker` makes the channel; a `Close` in between closes nothing.
- *A client map entry left behind* (`server/port_table.go:225`): with one client and one closer
  `AtRest => MapsAgree` fails: a dashboard request between the two stores deletes an entry of the client map that is
  made afterwards. In the program nobody looks it up again.
- *Roster* (`server/port_table.go:125`): with two connections of one name `ConnectedListed` fails: a player
  reconnects, and the end of the old connection removes the new entry. The client's roster
  (`client/dashboard.go:110`) has the same shape, and lists every status request as "unknown".
- *Nil session in the client* (`client/client.go:222`): after a heartbeat error the fields are reset while
  `acceptDataStreams` goes round its loop, and `[]~crashed` fails with two connections and no stop.
  `NoCrashWhileServing` is what holds: it never hits a connection that serves.
- *Stop while a connection is taken down* (`client/client.go:319`, `:320`): `Stop` tests the fields and uses them
  afterwards, while the deferred functions of `connectAndServe` reset them; `[]~crashed` fails with one
  connection and a stop. The program is about to end then, but the lock file stays.
- *Length sums* (`shared/protocol.go:99`, `:142`, `:147`): the sums in the length checks are 16 bits wide. For lengths
  whose sum wraps around the check passes, the slices after it (`:102`, `:103`, `:145`, `:146`, `:150`) are out of range, and
  nothing recovers on these paths: the process that reads the payload ends. The lengths are the peer's, so the
  configuration of one side does not exclude this on the other.
- *Misrouting* (`server/tunnel_manager.go:235`, `:166`): if the dashboard removes a session between its
  allocation and the lookups that follow, the client stays connected without a session, and its acceptor may
  take the listener of the port's next owner and serve that owner's players for as long as it lives. Even without
  the dashboard a late acceptor of a client that is gone takes players away, see `RoutedWhileOpen` above.
- *Lock file*: mutual exclusion rests on Windows' share modes. If an open file could be removed, a start that
  finds the file of another one still empty would remove it, and both would run. Of two starts on a
  stale file one may fail without need, and a pid that another program has got refuses every start
  until that program ends.
- *Comments*: `shared/mc_packet.go:305` says that the login is parsed for next state 2 only; the code parses it
  for every state but 1 (a transfer, state 3, is such a case and is read correctly).

## What is left out

- *Rate sampling* (`RateIn`, `RateOut`, on both sides) and the numbers `Stats` and `ReclaimStaleSessions`
  return: they feed log lines and statistics only. The byte counters are in `Bridge`.
- `notifyChange` / `onChange`: the callback only logs.
- *Read-only handlers, pages, icons, build files*: no state.
- *The libraries*: yamux, sockets, `sync.Map` are taken as the code relies on them: map calls are atomic,
  a port has one listener, closing unblocks. yamux's windows and keep-alive appear as `Window` and as the
  loss of a link.
- *A crash of the server*: nothing is persisted; a restart is `Init`.
- *Contents whose own length passes 16 bits*: `Marshal` cuts the length off; `PayloadsCarried` claims nothing for them.
- *Payloads nobody's `Marshal` writes*: the control stream carries what `WriteFrame` and the `Marshal` functions write,
  not any bytes. The `Unmarshal` functions are defined for other bytes too (see *Length sums* above), but no property
  feeds them.
- *`PeekMCHandshake` and `ParseLoginFromPeekData`* have no caller in the program; they are modelled as operators and compared
  with the reader in use (`ParsersAgree`).
- *The rest of the client dashboard*: flags and times that only its read-only handlers print.

## Plan

Done: all components with state of their own, their composition in `TunnelManager`, `Bridge` and `Wire`, and theorems
for the safety properties of the passing runs, under the conditions named above. Next, in this order:

1. `UpdateHeartbeat` and time: the 15 s, 30 s and 45 s periods as a small clock, in place of `Expirable`, and `Quiet`
   with it as a statement about clients that keep sending.
2. A type invariant of `TunnelManager` and `Bridge` as theorems of their own, and which part of `QuietInv` survives
   a dashboard request for another client's session.
