----------------------------- MODULE RoomLobby -----------------------------
(***************************************************************************)
(* Rooms and the characters in them: players log in, create, join and      *)
(* leave rooms, add robots, get ready, choose to play on, and go offline.  *)
(* The hand of mahjong itself (module MahjongRoom) is one state, PLAYING,  *)
(* that ends with any banker, so that every room of the server is here.    *)
(*                                                                         *)
(* A handler nests the commands it pushes, so the operations on rooms are  *)
(* functions from a state of the server to the next one, and an action     *)
(* composes the ones its handler calls.                                    *)
(***************************************************************************)
EXTENDS Integers, FiniteSets

CONSTANTS
    Players,    \* accounts of human players
    Robots,     \* the characters of MahjongRobotManager, by their GUIDs
    Objects,    \* the addresses a CharacterPlayer may be allocated at
    MaxPlayer,  \* MAX_PLAYER, the seats of a room
    MaxRooms    \* bound: how many rooms are ever created

Characters == Players \cup Robots
Seats == 0 .. MaxPlayer - 1
RoomIds == 0 .. MaxRooms - 1    \* mRoomIDSeed counts up, no id is used twice

CONSTANTS Nobody, Freed         \* a null seat; the address of no object

ASSUME LobbyAssumption ==
    /\ MaxPlayer \in Nat \ {0}
    /\ MaxRooms \in Nat
    /\ IsFiniteSet(Players)
    /\ Robots \subseteq Nat /\ IsFiniteSet(Robots)
    /\ Players \cap Robots = {}
    /\ Nobody \notin Characters
    /\ Freed \notin Objects

VARIABLES
    server,     \* rooms, character data, number of rooms created, crashed
    object,     \* where the CharacterPlayer of a player that is logged in is
    connected   \* players whose client is connected

vars == <<server, object, connected>>

(* PLAYING stands for MPS_GET_START, MPS_NORMAL_GAMING and MPS_WAIT_FOR_ACTION. *)
PlayStates == {"MPS_NONE", "MPS_WAITING", "PLAYING", "MPS_ENDING"}

INVALID_INT_ID == -1
NoData == [room |-> INVALID_INT_ID, position |-> -1, banker |-> FALSE, ready |-> FALSE]
CharacterData == [room: RoomIds \cup {INVALID_INT_ID}, position: Seats \cup {-1},
                  banker: BOOLEAN, ready: BOOLEAN]

(* members is mPlayerList, seatOf is mPlayerPositionList; stay and gone are the *)
(* keys of mPlayerChooseList that chose to play on, and not to.  torn: a        *)
(* member left during the hand, which keeps pointers to it.  lost: the hand     *)
(* ended with nobody as banker.                                                 *)
NewRoom == [state |-> "MPS_NONE", members |-> {}, seatOf |-> [i \in Seats |-> Nobody],
            bankerPos |-> -1, stay |-> {}, gone |-> {}, torn |-> FALSE,
            lost |-> FALSE]
Room == [state: PlayStates, members: SUBSET Characters,
         seatOf: [Seats -> Characters \cup {Nobody}], bankerPos: Seats \cup {-1},
         stay: SUBSET Objects, gone: SUBSET Objects, torn: BOOLEAN,
         lost: BOOLEAN]

Rooms(s) == DOMAIN s.rooms
InRoom(s, c) == s.data[c].room \in Rooms(s)
RoomOf(s, c) == s.rooms[s.data[c].room]

fullByOne(R) == Cardinality(R.members) > MaxPlayer      \* variant: one too many
isFull(R) == Cardinality(R.members) >= MaxPlayer
AnyMember(R) == R.members # {}       \* variant: a robot keeps a room alive
HasClient(R) == R.members \cap Players # {}
isAllPlayerReady(s, R) == \A c \in R.members : s.data[c].ready

\* The least number of a set of numbers.
Least(S) == CHOOSE i \in S : \A j \in S : i <= j

----------------------------------------------------------------------------
(* Operations of rooms *)

createRoom(s) ==
    [s EXCEPT !.rooms = [r \in Rooms(s) \cup {s.created} |->
                            IF r = s.created THEN NewRoom ELSE s.rooms[r]],
              !.created = @ + 1]

\* setMahjongState(MPS_WAITING): a hand that was on is over, and its pointers go.
reset(R) == [R EXCEPT !.state = "MPS_WAITING", !.bankerPos = -1, !.stay = {}, !.gone = {},
                      !.torn = FALSE]

\* (Variant: a character in a room joins another one.)
mayJoinAgain(s, c, r) == r \in Rooms(s) /\ ~isFull(s.rooms[r]) /\ c \notin s.rooms[r].members
mayJoin(s, c, r) == /\ ~InRoom(s, c) /\ r \in Rooms(s)
                    /\ ~isFull(s.rooms[r]) /\ c \notin s.rooms[r].members

\* Character c takes the first empty seat of room r.  The first one in the room
\* becomes the banker.
joinRoom(s, c, r) ==
    IF ~mayJoin(s, c, r)
    THEN s
    ELSE LET free == {i \in Seats : s.rooms[r].seatOf[i] = Nobody}
             seat == IF free = {} THEN -1 ELSE Least(free)
             R == [s.rooms[r] EXCEPT !.members = @ \cup {c},
                                     !.seatOf = [i \in Seats |-> IF i = seat THEN c ELSE @[i]]]
             first == R.members = {c}
         IN  [s EXCEPT !.rooms[r] = IF first THEN [reset(R) EXCEPT !.bankerPos = seat] ELSE R,
                       !.data[c] = [@ EXCEPT !.room = r, !.position = seat, !.banker = first]]

IdleRobots(s) == {b \in Robots : s.data[b].room = INVALID_INT_ID}

\* The first idle robot joins room r and is readied.
addRobot(s, r) ==
    LET b == Least(IdleRobots(s))
    IN  [joinRoom(s, b, r) EXCEPT !.data[b].ready = TRUE]

\* The next seat after pos that somebody sits on.
findNextSeat(R, pos) ==
    LET Occupied(k) == R.seatOf[(pos + k) % MaxPlayer] # Nobody
    IN  (pos + Least({k \in 1 .. MaxPlayer : Occupied(k)})) % MaxPlayer

\* A banker that leaves others behind hands over.  (Variant: it never does.)
neverHandsOver(s, c, R) == FALSE
handsOver(s, c, R) == s.data[c].banker /\ R.members # {}

\* Player c leaves its room.  A banker hands over to the next player; the last
\* client to leave takes the room with it, but a robot still there is sent a
\* command meant for the room, without a player.
playerLeaveRoom(s, c) ==
    LET r == s.data[c].room
        pos == s.data[c].position
        R == [s.rooms[r] EXCEPT !.members = @ \ {c}, !.seatOf[pos] = Nobody,
                                !.torn = @ \/ s.rooms[r].state = "PLAYING"]
        handOver == handsOver(s, c, R)
        heir == IF handOver THEN findNextSeat(R, pos) ELSE pos
        data == [x \in Characters |->
                    IF x = c THEN NoData
                    ELSE IF handOver /\ x = R.seatOf[heir] THEN [s.data[x] EXCEPT !.banker = TRUE]
                    ELSE s.data[x]]
        left == IF handOver THEN [R EXCEPT !.bankerPos = heir] ELSE R
    IN  IF R.members = {}
        THEN [s EXCEPT !.data = data, !.rooms = [q \in Rooms(s) \ {r} |-> s.rooms[q]]]
        ELSE [s EXCEPT !.data = data, !.rooms[r] = left, !.crashed = ~HasClient(R)]

\* The choice of the player at address a is entered in the choose list, where an
\* older one of that address stays.
ChooseStay(R, a) == [R EXCEPT !.stay = @ \cup ({a} \ R.gone)]
ChooseGone(R, a) == [R EXCEPT !.gone = @ \cup ({a} \ R.stay)]

\* All choices made: the room waits for players again.
chosen(R) == IF Cardinality(R.stay \cup R.gone) = MaxPlayer THEN reset(R) ELSE R

startGame(s, r) ==
    [s EXCEPT !.rooms[r].state = "PLAYING",
              !.data = [c \in Characters |-> IF c \in s.rooms[r].members
                                             THEN [s.data[c] EXCEPT !.ready = FALSE]
                                             ELSE s.data[c]]]

playerReady(s, c, b) ==
    LET t == [s EXCEPT !.data[c].ready = b]
        R == RoomOf(t, c)
    IN  IF isFull(R) /\ isAllPlayerReady(t, R) THEN startGame(t, s.data[c].room) ELSE t

----------------------------------------------------------------------------
(* Actions *)

LoggedIn(p) == object[p] # Freed
Live == {object[p] : p \in {q \in Players : LoggedIn(q)}}

Init ==
    /\ server = [rooms |-> [r \in {} |-> NewRoom], data |-> [c \in Characters |-> NoData],
                 created |-> 0, crashed |-> FALSE]
    /\ object = [p \in Players |-> Freed]
    /\ connected = {}

Request(p) == p \in connected /\ ~server.crashed

\* A player that is not logged in yet (or whose last session is still being
\* taken down) is refused; the others get a character of their own.
Login(p) ==
    /\ ~server.crashed
    /\ ~LoggedIn(p)
    /\ \E a \in Objects \ Live : object' = [object EXCEPT ![p] = a]
    /\ connected' = connected \cup {p}
    /\ UNCHANGED server

CreateRoom(p) ==
    /\ Request(p)
    /\ server.created < MaxRooms
    /\ server' = joinRoom(createRoom(server), p, server.created)
    /\ UNCHANGED <<object, connected>>

JoinRoom(p, r) ==
    /\ Request(p)
    /\ server' = joinRoom(server, p, r)
    /\ UNCHANGED <<object, connected>>

\* A player adds a robot to its room.  The robot is readied without the room being
\* told.
AddMahjongRobot(p) ==
    /\ Request(p)
    /\ InRoom(server, p) /\ ~isFull(RoomOf(server, p))
    /\ IdleRobots(server) # {}
    /\ server' = addRobot(server, server.data[p].room)
    /\ UNCHANGED <<object, connected>>

\* No state is tested: when all are ready in the middle of a hand, another one starts.
Ready(p, b) ==
    /\ Request(p)
    /\ InRoom(server, p)
    /\ server' = playerReady(server, p, b)
    /\ UNCHANGED <<object, connected>>

\* The command of a leave request goes to the character instead of the room and
\* names no player: executing it dereferences a null pointer.
LeaveRequest(p) ==
    /\ Request(p)
    /\ server' = [server EXCEPT !.crashed = TRUE]
    /\ UNCHANGED <<object, connected>>

\* A player plays on, after a hand or, as no state is tested, at any other time.  The
\* players that chose so before are told, through pointers to them; ub: following one
\* to a freed character kills the server.
ContinueGame(p, ub) ==
    LET r == server.data[p].room
        R == server.rooms[r]
    IN  /\ Request(p)
        /\ InRoom(server, p)
        /\ server' = [server EXCEPT
              !.data[p].ready = FALSE,
              !.rooms[r] = chosen(ChooseStay(R, object[p])),
              !.crashed = ub /\ ~(R.stay \subseteq Live)]
        /\ UNCHANGED <<object, connected>>

\* ... or leaves; the choice is entered after that, in a room that may have been
\* deleted (ub: the write to it kills the server).
QuitGame(p, ub) ==
    LET r == server.data[p].room
        R == server.rooms[r]
        s == playerLeaveRoom(server, p)
    IN  /\ Request(p)
        /\ InRoom(server, p)
        /\ server' = IF s.crashed THEN s
                     ELSE IF r \in Rooms(s)
                     THEN [s EXCEPT !.rooms[r] = chosen(ChooseGone(@, object[p]))]
                     ELSE [s EXCEPT !.crashed = ub]
        /\ UNCHANGED <<object, connected>>

\* The connection is lost; the player's character learns of it later, from a
\* delayed command.
Disconnect(p) ==
    /\ Request(p)
    /\ connected' = connected \ {p}
    /\ UNCHANGED <<server, object>>

\* (Variant: the player's room is not told.)
OfflineInSilence(p) ==
    /\ ~server.crashed
    /\ LoggedIn(p) /\ p \notin connected
    /\ object' = [object EXCEPT ![p] = Freed]
    /\ UNCHANGED <<server, connected>>
NotifyPlayerOffline(p) ==
    /\ ~server.crashed
    /\ LoggedIn(p) /\ p \notin connected
    /\ server' = IF InRoom(server, p) THEN playerLeaveRoom(server, p) ELSE server
    /\ object' = [object EXCEPT ![p] = Freed]
    /\ UNCHANGED connected

\* Of two winners of one discard neither becomes banker but the player that
\* discarded; if that one has left and its seat is taken again, nobody does.
NextBankers(R) == R.members \cup IF R.torn /\ MaxPlayer > 2 THEN {Nobody} ELSE {}

\* The hand is over, with no winner, or, which takes a player on every seat, with b as
\* the next banker.
EndGame(r) ==
    LET R == server.rooms[r]
        ended == [R EXCEPT !.state = "MPS_ENDING", !.torn = FALSE]
    IN  /\ ~server.crashed
        /\ R.state = "PLAYING" /\ R.bankerPos # -1
        /\ \/ server' = [server EXCEPT !.rooms[r] = ended]
           \/ /\ isFull(R)
              /\ \E b \in NextBankers(R) :
                   server' = [server EXCEPT
                       !.rooms[r] = [ended EXCEPT !.lost = (b = Nobody)],
                       !.data = [c \in Characters |-> IF c \in R.members
                                   THEN [server.data[c] EXCEPT !.banker = (c = b)]
                                   ELSE server.data[c]]]
        /\ UNCHANGED <<object, connected>>

\* A hand without a banker position, or one that a player has left, runs into an
\* empty seat or a pointer to the player that left.
PlayBreaks(r) ==
    /\ ~server.crashed
    /\ server.rooms[r].state = "PLAYING"
    /\ server.rooms[r].bankerPos = -1 \/ server.rooms[r].torn
    /\ server' = [server EXCEPT !.crashed = TRUE]
    /\ UNCHANGED <<object, connected>>

(* Every step but a player going offline, of which the match system is told. *)
Step ==
    \/ \E p \in Players :
         \/ Login(p) \/ CreateRoom(p) \/ AddMahjongRobot(p)
         \/ LeaveRequest(p) \/ Disconnect(p)
         \/ \E r \in Rooms(server) : JoinRoom(p, r)
         \/ \E b \in BOOLEAN : Ready(p, b) \/ ContinueGame(p, b) \/ QuitGame(p, b)
    \/ \E r \in Rooms(server) : EndGame(r) \/ PlayBreaks(r)

Next == Step \/ \E p \in Players : NotifyPlayerOffline(p)

Spec == Init /\ [][Next]_vars

----------------------------------------------------------------------------
(* Properties *)

TypeOK ==
    /\ DOMAIN server = {"rooms", "data", "created", "crashed"}
    /\ Rooms(server) \subseteq RoomIds
    /\ \A r \in Rooms(server) : /\ server.rooms[r] \in Room
                                /\ Cardinality(server.rooms[r].members) <= MaxPlayer
    /\ server.data \in [Characters -> CharacterData]
    /\ server.created \in 0 .. MaxRooms
    /\ server.crashed \in BOOLEAN
    /\ object \in [Players -> Objects \cup {Freed}]
    /\ connected \subseteq Players

\* The four records of who is where say the same: a room's players and seats, and
\* every character's room and position.  A room points to no freed character, and
\* a character in no room keeps nothing from its last one.
SeatsAgree ==
    /\ \A r \in Rooms(server) :
         LET R == server.rooms[r]
         IN  /\ R.members = {c \in Characters : server.data[c].room = r}
             /\ \A c \in R.members, i \in Seats : R.seatOf[i] = c <=> server.data[c].position = i
             /\ \A i \in Seats : R.seatOf[i] \in R.members \cup {Nobody}
             /\ \A p \in R.members \cap Players : LoggedIn(p)
    /\ \A c \in Characters : ~InRoom(server, c) => server.data[c] = NoData

\* However its players come and go, a room with players has exactly one banker (none
\* only after a hand that left it without), and while it waits for a hand its banker
\* seat is unset or the banker's.
BankerSits ==
    \A r \in Rooms(server) :
        LET R == server.rooms[r]
            bankers == {c \in R.members : server.data[c].banker}
        IN  R.members # {} =>
              /\ Cardinality(bankers) = IF R.lost THEN 0 ELSE 1
              /\ R.state = "MPS_WAITING" => R.bankerPos = -1 \/ R.seatOf[R.bankerPos] \in bankers

Clients(R) == R.members \cap Players

\* A room with a client in it is destroyed in the step in which its last client
\* leaves, and in no other.
ClientsKeepRoom ==
    [][\A r \in Rooms(server) :
          Clients(server.rooms[r]) # {} /\ ~server'.crashed =>
              (r \in Rooms(server') <=> \E p \in Players : server'.data[p].room = r)]_vars
=============================================================================
