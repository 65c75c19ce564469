# Mahjong server: specifications, model checks and proofs

This directory describes the game logic of the server under `src/Server` in TLA+: modules that
translate its handlers, TLC configurations that check them on small tables, and theorems checked
by TLAPS for tables of any size.

## The system

One process, one main thread. `ServerFramework` updates its components about every 30 ms:
network, command system, match system, rooms, characters.
Everything that changes the state of a game is a *command* executed on a receiver (a character, a
room, a manager). `pushCommand` executes a command on the spot, nested in the caller;
`pushDelayCommand` queues it for a later update. So a packet handler, with every command it
pushes, is one atomic step; interleaving comes from the order in which clients' packets and
delayed commands arrive. Beside the main thread, one thread accepts connections (it creates and
pushes commands too), one receives and sends, and one cuts what was received into packets.

| component | state | operations | what must hold |
|---|---|---|---|
| `Room`, the hand (`Game/Room/Room.cpp`) | play state, tile pool, wait list, choose list, banker seat | ready, start, deal, draw, discard, hu/gang/peng/pass, end, continue | nobody is waited for in vain; one tile in one place; hand sizes; one banker; a hand ends |
| `CharacterPlayer`, `CharacterData` | hand, melds, discards, flags | reorder, get, drop, peng, gang, clear | hands sorted where the helpers need it |
| `ServerUtility` | none | `canHu`, `canPeng`, `canGang`, `generateHuType`, ... | accepts exactly the hands made of a pair and melds |
| `CharacterMahjongRobot` | one queued answer per kind of request | answer a request after a delay | every request is answered, with a legal answer |
| `Room`, joining and leaving; `RoomManager` | players, seats, rooms | create, join, leave, destroy | players, seats and characters agree; rooms live as long as their clients |
| `MatchSystem` | the pool of waiting players | request, match, time out, offline | a player in the pool exists; a match gives a seat |
| `CharacterManager` | characters by id, name and type | login, offline, destroy | one character per account; a connection finds the one it logged in |
| `MahjongRobotManager` | robot accounts, robots logged in | register, log in, pick one | the server gets through its start; idle robots are used first |
| `MySQLDataBase` | account and character tables | register, query | the two tables agree, whatever fails |
| `CommandSystem` | input, process and execute lists | push, delay, interrupt, receiver dies | a command runs at most once, never on a dead receiver |
| `NetServer`, `NetClient` | clients, byte buffers, packet lists | receive, parse, execute, send, heartbeat | packets in order, each once; nobody works on a client that is destroyed; a client that is gone is dropped |
| framework (components, serialisation, logs, memory), packets | - | - | no rule of the game depends on them |

The behaviours that are hard to test: several players answering the same discard in any order; a
robot's answer fixed when it is asked and executed later; the next request issued while the last
one is still being cleaned up; the second hand of a room; players that vanish in the middle.
`PROJECT.json` lists them as hazards, each at its line.

## Modules

### MahjongRoom - one table

A full room from its players getting ready to the end of the hand, and over again. A player is
named by its seat. State and source: `playState` is `mPlayState`; `pool` and `huaPool` count
`mMahjongPool` by kind (the shuffle makes every order possible, so a draw takes any tile left);
`handIn`, `pengGang`, `ready`, `getStartDone`, `banker` are the fields of `CharacterData`;
`waitList` is `mWaitList`, with `NoWait` for an absent key; `chooseList` and `bankerPos` are the
fields of `Room`. `askedDrop` and `askedAction` are what is *outside* the room: the request
message a client has on its screen, or the robot's queued command. They are what makes a
lost answer visible.

| action | handler |
|---|---|
| `PlayerReady` (with `StartGame`) | `Room::playerReady`, `CommandRoomStartGame`, `generateStartMahjong` |
| `PlayerGetStartDone` | `CommandRoomPlayerGetStartDone`, `allPlayerGetStartDone` |
| `RequestDrop` | `requestDrop`, `notifyPlayerDropped`, `requestMahjong` of the next player |
| `ConfirmIgnored`, `ConfirmHu`, `ConfirmAndWait`, `ConfirmLast` | `playerConfirmAction`, by its early returns and branches |
| `PlayerContinueGame` | `playerContinueGame(true)`, `reset` |

`PlayerReady`, `PlayerGetStartDone`, `RequestDrop` and the confirmations are enabled when a client
offers them (no packet without a request). `wrongGang` is a history variable: the seats that laid
down a gang of tiles they do not own (see below), which other properties must set aside.
`crashed` marks the null pointer `allPlayerGetStartDone` dereferences without a banker seat.

### RoomLobby - the rooms of the server

Players log in, create and join rooms, add robots, get ready, choose to play on or leave, lose
their connection and, some steps later, their character. `server.rooms` is `RoomManager::mRoomList`
(with, per room, `members` for `mPlayerList`, `seatOf` for `mPlayerPositionList`, `stay` and `gone`
for the keys of `mPlayerChooseList`); `server.data` is the part of `CharacterData` that rooms use.
`object` is the *address* of a player's `CharacterPlayer`, so that a pointer that outlives its
character, and an address that is used again, are visible. A whole hand is the one state
`PLAYING`. The operations (`joinRoom`, `playerLeaveRoom`, `playerReady`, ...) are functions from a
server to the next one, because the handlers nest the commands they push; an action composes
them as its handler does. `server.crashed` marks the dereference of a null pointer, or an undefined
one that goes wrong (the parameter `ub`). `torn` marks a hand that a player has left; `lost` a
hand that ended without a banker.

| action | handler |
|---|---|
| `Login` | `CSLogin`, `CommandCharacterManagerPlayerLogin` |
| `CreateRoom`, `JoinRoom` | `CSCreateRoom`, `CSJoinRoom`, `CommandCharacterJoinRoom`, `Room::joinRoom` |
| `AddMahjongRobot` | `CSAddMahjongRobot`, `MahjongRobotManager::createRobot` |
| `Ready` | `CSReady`, `Room::playerReady`, `CommandRoomStartGame` |
| `LeaveRequest` | `CSLeaveRoom` |
| `ContinueGame`, `QuitGame` | `Room::playerContinueGame` |
| `Disconnect`, `NotifyPlayerOffline` | `NetClient::destroy`, `CommandCharacterManagerNotifyPlayerOffline` |
| `EndGame`, `PlayBreaks` | the end of a hand, or the crash of one that cannot go on |

Getting ready, choosing to play on and leaving only need a room: no handler tests the room's state
(`CSReady.cpp:11-19`, `CSContinueGame.cpp:12-20`), so a player may do each in the middle of a hand.
`reset` then ends that hand: its late discards find the room in no playing state and do nothing
(`Room.cpp:704`). Two things such players may cause are left out: a choice in mid-hand clears the
player's tiles, and a late packet about the start hands may meet a room that was reset; the model
takes none to come. A hand may end in a draw with a seat empty (the command for its player has no
receiver and is only logged); for a winner, `endGame` follows the pointer of every seat
(`Room.cpp:318-340`), so that an empty one is a crash (`PlayBreaks`).

### FreeMatch - the match system

Composes with `RoomLobby` (it EXTENDS it, and tells the pool of the lobby's `NotifyPlayerOffline`).
`pool` is `mFreeMatchPool` in order, `inPool` the keys of `mFreeMatchPoolMap`. `MatchIntoRooms` and
`WaitForRoom` are the two loops of `MatchSystem::update`, of which one call only ever runs one to
effect; the waiting time counts updates. Their bodies are recursive functions of the turn
(`sendToRooms`, `fillWithRobots`, `visitAll`): a turn of the second loop (`turn`) opens, fills and starts
a room, or lets a player wait on.

### CommandSystem - the queue of commands

`DelayedCalls` is what its users rely on: a delayed command runs at most once, never on a receiver
that has died, never after it was cancelled. `CommandSystem` is the code: the input list that two
threads append to, the process list, the execute list of the current update, and the pool of
command objects. `CallsAreKept` says that it implements `DelayedCalls`, where the pending calls are
the entries of the three lists that still have a receiver.

Lists only grow at their end, so they are sets of entries that carry the number of their push. What
runs inside a command is the part of the server that matters here: a robot that is asked
(`RobotAsk`), that enters and leaves a room (`LeaveRoom`, which interrupts), rooms that come and go
(`DestroyRoom`, which has the system notified), commands nested in one another (`PushCommand`,
`FinishNested`). `BeginUpdate`, `StartCommand`, `SkipCommand`, `FinishCommand` and `EndUpdate` are
`CommandSystem::update`, taken apart because commands are pushed, interrupted and orphaned in the
middle of it. The accepting thread is `AcceptLook`, `AcceptTake`, `AcceptPush`: it looks for an
unused command under one lock while `destroyCmd` appends under another, an undefined outcome
(`crashed`). `mInusedList` is read only when the pool is destroyed, and left out; so is the
interruption of a command without an id, which changes nothing.

### ClientStream - one client and three threads

A connection from its socket to its packets and back. A packet of the client is two pieces of the
stream, header and body, and keeps the numbers of both when it is parsed. A message to the client is
as many pieces as it has bytes, a header of `HeaderSize` and a body of one of `BodySizes`, and may be
larger than the temporary buffer (`Sendable`) or what is free in the send buffer. `sendPacketCheck`
also refuses a message that names a client; no message of the server does, and the model leaves that
out. `sent` records the kinds of the packets sent, `wire` is what has been sent to the server and not received, `temp` and `recv` are the two
receive buffers, `lists` the two packet lists the main thread swaps, `out` the send buffer with its
start and length. Each thread has a program counter (`receiver`, `parser`, `main`); a thread that is
not idle holds its spin lock, so the locks need no variables. Three races are as in the code: the
parsing thread looks up the list to append to and appends later, by when the main thread may walk it
(`LookUpList`, `PushPacket`: an undefined outcome, or the packet is cleared unexecuted, `lost`); the
sending thread reads the data to send without the lock of the buffer (`processSend`, `SocketTakes`);
a client is marked dead by any thread, and destroyed under both locks (`disconnectSocket`).

### Sessions - accounts, characters, connections

Registration and login of players and robots over the two tables. A query may fail at any time, and
the process may be killed and started again (`Kill`, `Start`): only the tables survive. The start
registers robots until there are enough (`registeRobot`, one try a step, as it is a loop that must
end), logs them in (`loginRobot`), and runs; a player that asks for a robot when none is idle takes
the main thread back to registering (`createRobot`). Packets are `Register`, `Login`; connections
`notifyAcceptClient`, `disconnectSocket`; the offline command `NotifyPlayerOffline` runs in a later
step, as `NetClient::destroy` pushes it with a delay. `FindsNobody` is the login that is told there
is no such character because its creation was refused, and uses it: the process dies
(`nullCharacter`). `failed` records that some query has failed.

### HuRules - which hands win

`canHu` and its helpers as operators on sequences and bags of tiles; `MCHuRules` enumerates hands.
The code takes a meld out of the list of tiles, calls itself, and puts the meld back when that fails;
it returns whether some order of taking melds leaves a pair. `canHuGroup` says so level by level:
`left[n]` are the groups that n melds leave. A call ends at two tiles or fewer, that is after
a third of the tiles, rounded down, have been melds.

### NumberLemmas and the modules named _proofs - proofs

`NumberLemmas`: least numbers, remainders, intervals, and an induction up to a number that the provers
can use, over a set instead of an operator (`SetInduction`). The theorems about `MahjongRoom` are in
`MahjongRoom_proofs`, those about the winning rules in `HuRules_proofs`; `RoomLobby_proofs` has those about the lobby,
and `FreeMatch_proofs`, on top of it, those about the match system; `Sessions_proofs`,
`CommandSystem_proofs` and `ClientStream_proofs` those about the modules they are named for.

A few definitions are followed or preceded by a *variant* of themselves (`neverHandsOver`,
`Unsorted`, ...), a slip a programmer could make there. They are not part of the specification:
put in the place of the original they break the property that `PROJECT.json` names with them.

## Runs

| run | bounds | shows |
|---|---|---|
| `room_three_players` | 2 humans and a robot, 4 kinds of 4 tiles, 1 flower, hands of 5, banker's deal fixed | `TypeOK`, `DropTurn`, `WaitersAreAsked`, `OneClaimer`, `OneBanker`, `HandSize`, `HandsReordered`, `TilesConserved` |
| `room_robots` | 2 robots, 3 kinds | `HandEnds` under fairness |
| `lobby` | 3 players, a robot, 3 addresses, 3 seats, one room, up to renaming | `TypeOK`, `SeatsAgree`, `BankerSits`, `ClientsKeepRoom` |
| `match_pool` | 2 players, 3 robots, 2 seats, 2 rooms, up to renaming | `PoolAgrees`, `MatchKeepsSeats` |
| `match_waits` | 2 players, 2 robots, one room | `EveryWaitEnds` under fairness |
| `hu_hands` | hands of up to 8 of 8 kinds (a suit of six, one of another, a wind), at most one meld | `HuIsPairAndMelds`, `QingYiSeIsOneSuit` |
| `command_queue` | one room and one robot, delays of 1 or 2 short frames, frames of 1 or too long, 4 delayed commands, 3 command objects, one nested | `TypeOK`, `CommandHeldOnce`, `RobotCanAnswer`, `CallsAreKept`, `RunInOrder`, `EveryCallEnds` |
| `client_stream` | 2 packets in, 3 pieces of messages out, a header of 1 and bodies of 0, 1 or 2, temporary and send buffer of 2 pieces, a time-out of one unit | `TypeOK`, `NobodyInDestroyed`, `ExecutedOnce`, `ExecutedAsSent`, `StreamInOrder`, `PacketsEnd`, `ClosedClientLeaves` |
| `sessions` | 2 account names, 2 character names, 2 guids, one robot at the start and one later, 2 tries, 2 connections, one kill | `TypeOK`, `RowsBelong`, `ClientHasCharacter`, `NoNullCharacter`, `LeavingEnds`, `MainLoopGoesOn` |
| `room_stuck` | 2 humans, 3 kinds, all deals | finding: the room waits for nobody |
| `room_wrong_gang` | the same | finding: a gang of the tile drawn instead of the four held |
| `room_banker_seat` | the same | finding: the second hand has no banker seat |

Hands of five are the smallest with a pair and a meld, so every claim can arise: hu on a draw and
on a discard, peng, gang from three, gang from a peng, gang of four, an exhausted pool. Three kinds
make a run. Every kind keeps its real number of copies, four. Two players reach the second hand,
three let two players claim one discard. Three seats are the least at which a leaving banker has
two players to hand over to, and at which two win one discard; a robot more than the seats fills
them shows that the last one is refused. Two rooms let a player wait in the pool while it is in
another room. Hands of eight hold two melds and a pair, so the search backtracks over a meld.

Two delays and a frame that is not counted let a later command overtake an earlier one, and four
pushes let a command be in each of the three lists and in the hand of the accepting thread; three
objects are fewer than the pushes, so that objects are used again. One room that may be created
again shows a command that waited for the first one. Two packets are the least of which one can be
parsed while the other is executed, and whose headers and bodies could be mixed up. A send buffer of
two pieces holds a message with a body or two without; with a piece sent of what it holds, the next one
has it compacted, and a body of one piece passes the check, which forgets the header, and does not
fit; a body of two is too large for the temporary buffer. Two guids are a robot and a player, or two players when the registration of the robot
has failed; two names let a robot try a name that is taken; after one kill the tables hold what an
earlier process left.

`CHECK_DEADLOCK FALSE`: a room can really stop (it gets stuck, crashes, or all players are gone).

**Fairness.** `FairSpec` assumes weak fairness of a robot's steps and nothing of humans: a robot's
command is in the delayed queue, and the main loop executes every command in it once its time has
come. `HandEnds` allows the room to get stuck, which `room_stuck` shows it may. `FairMatchSpec`
assumes weak fairness of `update`, which the main loop calls every time round. `EveryWaitEnds`
allows a crash, and stops at the bounds of the model (`AtBound`: no room or robots left).

`CommandSystem`: the main loop begins an update again and again, of which infinitely many are shorter
than a second (strong fairness of `ShortFrame`, since between updates other components push
commands), goes through its list, and every command that is executed returns. Nothing makes a
client connect or a room die. `ClientStream`: the receiving and the parsing thread run for ever (weak
fairness); the main thread asks for spin locks that they take again and again, so for it the
fairness is strong: nothing in `ThreadLock` makes the lock fair, but the main thread tries it every
millisecond and the others let go of it between their passes. The client's end owes nothing.
`Sessions`: a process that is down is
started, and goes on with what it is doing; of the commands that wait, every one is executed in the
next frame, though a packet may send the main thread back to registering robots first, hence strong
fairness of `NotifyPlayerOffline`. `MainLoopGoesOn` does not assume that a name picked at random is
ever free.

## Where the code differs from its comments

The runs whose expectation is a violation state one comment each. The models follow the code in
these places too, without a run of their own:

* `Room.cpp:136`, the choice to play on is announced to the others that chose so: the choose list
  keeps pointers to players that have left or gone offline since, whose characters are deleted
  (`ChooseStay`, `ub` in `ContinueGame`).
* `MatchSystem.cpp:23`, waiting players are matched into rooms that are not full: the list is not
  refreshed as they fill up, and whoever is refused is out of the pool without a room
  (`MatchIntoRooms`).
* `NetClient.h:57`, the heartbeat time is the time since the last heartbeat: `notifyReceiveHeartBeat`
  is never called and `CSHeartBeat` does not touch it, so every client is dropped after the time-out
  (600 s), whatever it sends (`beat`).
* `NetClient.cpp:36`, a character that has logged in is told when its client is gone: a second login
  on the connection overwrites `mCharacterGUID`, and the first character stays online for ever; its
  account is answered that it is logged in elsewhere (`Login`).
* `NetClient.cpp:163-168` takes no lock, `mExecuteIndexLock` guards only the swap: a packet may be
  appended to the list that the main thread walks and clears (`PushPacket`).
* `NetServer.cpp:202` reads the send buffer without `mSendLock`, while `StreamBuffer.cpp:35` may move
  its data to the front (`receiver.moved`, the case that `StreamInOrder` sets aside).
* `NetClient.cpp:245` asks for room for the body of a message: if the header does not fit as well, the
  message is dropped without a word (`sendPacket`).
* `CommandPool.h:33`, an unused command is reused: taking it erases the list of its type, so the other
  unused commands of that type are never used again nor freed (`RemoveUnuse`).
* `CommandCharacterManagerPlayerLogin.cpp:19`, the character just created is looked up: if its name is
  online already, none was created, and a null pointer is used. It takes a failed query (two
  characters without a row have the same empty name), and with two robots it happens at every start
  (`FindsNobody`).
* `Room.cpp:499`, the banker takes 14 tiles: with the banker at another seat b than 0, seat (2b) mod n
  takes them, as a list that starts at the banker is indexed by seats (`Room.cpp:467-517`,
  `DealIndex`). `HandSize` therefore holds of a first banker at seat 0 (`FirstBankers`).
* `ServerUtility.cpp:143`, a hand needs to lack a suit to win: `getHuaseList` fills a copy of the
  list, so it never has to (`canHuGroup`).
* `Room.cpp:685`, the room starts when all are ready: not when the last one is a robot that
  `CSAddMahjongRobot` readies (`AddMahjongRobot`).
* `Room.cpp:149`, all have chosen: the entries are counted up to the number of seats, so the
  choice of a player that went offline, or of a robot, is waited for (`chosen`).
* `CommandRoomPlayerLeave.cpp:10` and `Room.cpp:109`, a player or the robots leave: `CSLeaveRoom`
  and the loop at `Room.cpp:112` push the command to a character, with no player in it
  (`LeaveRequest`, the last line of `playerLeaveRoom`).
* `MatchSystem.cpp:68`, the player is added to the room made for it: not one that has joined
  another room while it waited; robots then play without it (`matchWithRobots`).

## What is proved

For any number of seats, robots, tiles and copies, any winning rule `CanHu` and any set of deals
(`ConstantsAssumption`):

* `TypeCorrect`: `Spec => []TypeOK`. The invariant is inductive as it stands; the first part of
  `MahjongRoom_proofs` says what each operator on hands returns.
* `WaitersCanAnswer`: `Spec => []WaitersAreAsked`. The inductive invariant `AskingInv` adds that a
  request to discard excludes waiting players, that what a robot has queued answers its current
  request, and that a robot has at most one command queued: without these the guard "ignore a
  request while one is queued" could lose a request.
* `AlwaysOneBanker`: `Spec => []OneBanker`, from the facts that a winner or the discarding player is
  a seat, which the wait list's type gives.

The tiles, with four copies of each tile, as `GameDefine.h` has it:

* `TilesAreConserved`, `HandsAreReordered`, `OnlyOneClaims`: `TilesConserved`, `HandsReordered` and
  `OneClaimer`. What an action does to a hand is decided when a player is asked, and carried out
  steps later, when the last one has answered. The invariant `HandsInv` therefore says what the
  entries of the wait list were computed from and that it still holds (`WaitSorted`): a tile drawn is
  the last of the hand it was added to; of a tile claimed the claimer still holds the copies the
  peng or gang takes, and one copy, that of the discard, is in no hand, pool or meld. It also says
  that hands are sorted while a discard is due (`DropSorted`) and empty before a deal (`Starts`).
  `OnlyOneClaims` is then a matter of counting: two claimers would hold four copies, and the
  discard is one more. That a player may lay down a gang it does not own (finding
  `EveryGangIsPaid`) breaks all this for that player only, and the hand does not go on after it:
  nobody is asked again (`WrongGangDraw`).
* `HandsHaveTheirSize`, `DropsAreInTurn`: `HandSize` and `DropTurn`, with hands of 3m + 2 tiles and the
  banker at seat 0 (`FullRoom`). `SizesInv` adds whose turn it is in the states in which nobody
  is asked anything, when the start hands are shown and when a claim is decided. The size of a hand
  matters to `DropTurn` because a hand without tiles would be asked for a tile past its end. From
  another seat than 0 the deal goes to the wrong player (finding `BankerPosIsBanker`).

The assumptions (`ConstantsAssumption`) only say what the constants are: at least one seat and one
kind of tile, robots and first bankers among the seats, natural numbers of tiles, and deals that
give every seat a sequence of tiles. Of the winning rule `CanHu` nothing is assumed.

For any accounts, names, bounds, failing queries and restarts (`SessionConstants`: the bounds are
natural numbers and the empty name is nobody's):

* `SessionTypes`: `Spec => []TypeOK` of `Sessions`.
* `RowsAlwaysBelong`: `Spec => []RowsBelong`. It holds because the guid of a new account is one more
  than the greatest one in the account table, into which the first of the two inserts goes.
* `ClientsKeepCharacters`: `Spec => []ClientHasCharacter`.
* `NullNeedsFailure`: `Spec => []NoNullCharacter`.

All four come from one inductive invariant, `Inv` of `Sessions_proofs`. It adds that a character is
online once and has an account, a robot's exactly when no connection uses it; that what is leaving is
used by no connection; that connections to come have no character; and, as long as no query has
failed, that names tell characters apart in the table and online. Without the part about leaving
characters, an offline command that comes late could take away the character of a connection that has
logged in meanwhile: that a character online cannot log in is what excludes it.

For any rooms, robots, delays, lengths of frames and bounds (`CommandConstants`: delays and frames are
natural numbers, and the receivers, `NetServer` and `NULL` differ), in `CommandSystem_proofs`:

* `CommandTypes`: `Spec => []TypeOK` of `CommandSystem`.
* `PoolNeverShares`: `Spec => []CommandHeldOnce`. Numbers of command objects are given out once, the
  lists of unused commands are sorted by type, and what the accepting thread has found stays on its
  list until it takes it (`NumsKnown`): `mNewCmdLock` keeps the main thread out of `newCmd` until then.
* `RobotsAnswer`: `Spec => []RobotCanAnswer`, as no two questions are answered by one command
  (`AnswersApart`).
* `ExecutedInOrder`: `Spec => RunInOrder`. Of two commands that wait, the one pushed first has waited at
  least as long, and what is about to be executed has overtaken only longer delays (`WaitedLonger`).
* `QueueKeepsCalls`: `Spec => CallsAreKept`, the refinement of `DelayedCalls`. An id is on one list once
  and never given out again, the id in the hand of the accepting thread is nobody's, commands that wait
  have receivers that exist or none, and nothing is on the execute list between two updates
  (`QueueInv`): without the last, a frame would drop what the previous one left there.

`Inv` is the conjunction of all these; each of them is preserved by a lemma of its own (`TypeStep`,
`QueueStep`, `AnswersStep`, `WaitedStep`, `PoolStep`), and `CallsStep` maps every step to one of
`DelayedCalls` or to none.

For any players, robots, seats and bounds on rooms (`LobbyAssumption`: players and robots are finite sets and
differ, robots are numbered, and there is at least one seat), all four properties of the lobby:

* `LobbyTypes`: `Spec => []TypeOK` of `RoomLobby`, and `RoomsAgree`: `Spec => []SeatsAgree`
  (`RoomLobby_proofs`). The invariant `Inv` adds that rooms are numbered in the order of their
  creation, so that the number of a new room is nobody's, that a character in a room sits on one of
  its seats, and that whoever is connected or in a room is logged in. A player joins a room that is
  not full: `SeatFree` counts the members against the seats and finds one for it, as members sit
  on different seats. The operations of the server get a lemma each (`JoinRoomGood`,
  `LeaveRoomGood`, ...), the actions, which nest them, are put together from these.
* `OneBankerSits`: `Spec => []BankerSits`. `Banked` adds to `Inv` that a room
  nobody has entered has not lost a banker: the first one to enter becomes the banker. When the
  banker leaves, `findNextSeat` walks to a seat that is taken, and `SeatsAgree` says that a member
  sits there.
* `RoomsKeptByClients`: `Spec => ClientsKeepRoom`, from what each operation does to the clients of
  one room (`ClientStays`) and `SeatsAgree` before and after the step.

For any waiting time (`MatchAssumption`: at least one update) on top of that, in `FreeMatch_proofs`:

* `PoolHolds`: `MatchSpec => []PoolAgrees`. The invariant `PoolInv` says that nobody is in the list twice,
  which makes the lengths agree and the first request of a player that goes offline the only one.
* `MatchMovesNobody`: `MatchSpec => MatchKeepsSeats`, `MatchKeepsRooms`: the lobby's `TypeOK`, `SeatsAgree` and
  `BankerSits`, and `MatchKeepsClients`: its `ClientsKeepRoom`, with the match system beside the requests
  of the players. An update nests many of the lobby's operations in one step, as often as players
  wait and a room has seats: `SendingTurns`, `FillingTurns` and `VisitingTurns` show that the recursive
  functions are what their turns say, and `SendEnters`, `FillFills` and `VisitEnters` carry the relation
  `Enters` (rooms are added, characters enter them, nobody in one moves) from turn to turn.
  `addRobot` picks the least idle robot, and would be undefined without one: `Fills` counts the robots
  a room takes against its members (`Supply`), and `VisitEnters` the rooms that are made against
  the players that are late.

For any numbers of packets and pieces, any sizes of headers, bodies and buffers, time-out and lengths
of frames (`StreamConstants`: they are natural numbers; header, send buffer and time-out are not
zero), with three threads on one client, in `ClientStream_proofs`:

* `TypesHold`: `Spec => []TypeOK`; among its parts, that what is to be sent never reaches beyond the send
  buffer.
* `DestroyedAlone`: `Spec => []NobodyInDestroyed`. A thread that is in the middle of something holds its
  lock, and the client is only destroyed with both locks (`ThreadsInv`).
* `NoPacketTwice`: `Spec => ExecutedOnce`. By `PacketInv` the last packets sent are still pieces of the
  stream, in their order; of those before them the first are pushed, and the parsing thread holds the
  others. A packet that is pushed is in the two lists at most once, though the list it was looked
  up for may have been swapped meanwhile, and what was executed in this frame lies behind
  the main thread.
* `PacketsAsSent`: `Spec => ExecutedAsSent`, from `PacketInv` too: what is received and not parsed is a
  suffix of the stream that begins with a header, so `parseData` pairs each header with its own
  body (`Faithful`), and no list changes a packet after that.
* `SentInOrder`: `Spec => StreamInOrder`. `SendInv` says that the buffer holds, from its start on, the
  pieces accepted and not yet delivered, and that what the sending thread has read of it (start and
  number) is still what it was, unless the buffer was compacted meanwhile (`receiver.moved`).

For any number of tiles in a suit, any set of tiles (numbered from 1) and hands up to any size
(`RulesAssumption`), with at most four copies of a tile (`HandInv`), in `HuRules_proofs`:

* `HuIsASplit`: `Spec => []HuIsPairAndMelds`. A group that is left is the group of some places of the
  hand (`GroupOf`), so a meld takes three places (`GroupTaken`). One way (`HuSplits`), the melds taken
  so far and the group left make up the hand: the counts of the runs are kept by their
  first tile, and four copies leave room for one triplet of a kind. The other way (`SplitIsHu`), as
  long as more than the pair is left some tile is in a run or a triplet, whose tiles then are all there
  (`MeldCanBeTaken`); after a third of the tiles exactly the pair remains. It shows that the
  backtracking, whichever melds it tries first, misses no way to win.
* `QingYiSeIsJustified`: `Spec => []QingYiSeIsOneSuit`. `generateHuType` leaves a winning tile that is
  greater than all of the hand out of the list it examines (`withDrop`). By `HuIsASplit` that tile is in
  the pair, a triplet or a run, so another tile has its suit (`NoTileIsAlone`).

## What is only model-checked

`HandEnds`, `EveryWaitEnds`, `EveryCallEnds`, `PacketsEnd`, `ClosedClientLeaves`, `LeavingEnds` and
`MainLoopGoesOn`, as liveness is beyond the proof system. Every invariant and action property of a run
that passes is a theorem.

## What is not modelled

* What becomes of a hand that a player has left: module `MahjongRoom` has a full room throughout,
  `RoomLobby` lets such a hand end or crash. The wait list's pointers to such a player are thus
  not followed.
* The money of a hand (`Room.cpp:341-388`), discards and flowers: no rule reads them, and money is
  never written back to the tables.
* A receive buffer that overflows: it is far larger than any packet, and the model's stream shorter
  than it. Many clients at once: the threads go from one to the next, and what one client does is
  seen by another only through the rooms.
* How the server stops while threads run (`CustomThread.cpp:44-53` does not wait for a background
  thread), the SQLite tables (read once, used by nobody), shared memory, input, the tree of
  components, serialisation, packet layouts, logs, configuration, debug and memory tools: no rule of
  the game depends on them. `Frame/SocketTCP` is a near copy of
  `Game/Net` that the project file `Server.vcxproj` does not name. More than a third of the
  source lines are the header of SQLite and other vendored or generated code.
