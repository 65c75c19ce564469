--------------------------- MODULE RoomLobby_proofs ---------------------------
(***************************************************************************)
(* For any players, robots, seats and number of rooms: the records of who  *)
(* is in which room and on which seat agree, however players come and go.  *)
(*                                                                         *)
(* The operations are functions on states of the server, so are the parts  *)
(* of the invariant; an action composes the facts about its operations.    *)
(***************************************************************************)
EXTENDS RoomLobby, NumberLemmas, FiniteSetTheorems, TLAPS

(* The parts of the invariant *)

StateTypes(s) ==
    /\ DOMAIN s = {"rooms", "data", "created", "crashed"}
    /\ Rooms(s) \subseteq RoomIds
    /\ \A r \in Rooms(s) : /\ s.rooms[r] \in Room
                           /\ Cardinality(s.rooms[r].members) <= MaxPlayer
    /\ s.data \in [Characters -> CharacterData]
    /\ s.created \in 0 .. MaxRooms
    /\ s.crashed \in BOOLEAN

\* A room's players and seats, and the characters' rooms and positions, say the same.
StateSeats(s) ==
    /\ \A r \in Rooms(s) :
         /\ s.rooms[r].members = {c \in Characters : s.data[c].room = r}
         /\ \A c \in s.rooms[r].members, i \in Seats :
               s.rooms[r].seatOf[i] = c <=> s.data[c].position = i
         /\ \A i \in Seats : s.rooms[r].seatOf[i] \in s.rooms[r].members \cup {Nobody}
    /\ \A c \in Characters : ~InRoom(s, c) => s.data[c] = NoData
    /\ \A c \in Characters : InRoom(s, c) => s.data[c].position \in Seats

\* Rooms are numbered in the order of their creation.
StateNumbers(s) == \A r \in Rooms(s) : r < s.created

Good(s) == StateTypes(s) /\ StateSeats(s) /\ StateNumbers(s)

Inv ==
    /\ Good(server)
    /\ object \in [Players -> Objects \cup {Freed}]
    /\ connected \subseteq Players
    /\ \A p \in connected : LoggedIn(p)
    /\ \A p \in Players : InRoom(server, p) => LoggedIn(p)

----------------------------------------------------------------------------
(* Facts about the operators *)

LEMMA LobbyFacts ==
    /\ IsFiniteSet(Characters)
    /\ IsFiniteSet(Seats) /\ Cardinality(Seats) = MaxPlayer /\ Seats \subseteq Nat
    /\ RoomIds \subseteq Nat
    /\ Nobody \notin Characters
    /\ -1 \notin Seats /\ INVALID_INT_ID \notin RoomIds
<1>1. IsFiniteSet(Characters)
  BY LobbyAssumption, FS_Union DEF Characters
<1>2. MaxPlayer \in Nat /\ MaxPlayer > 0 /\ MaxRooms \in Nat
  BY LobbyAssumption
<1>3. IsFiniteSet(Seats) /\ Cardinality(Seats) = MaxPlayer
  <2>1. IsFiniteSet(0 .. MaxPlayer - 1)
        /\ Cardinality(0 .. MaxPlayer - 1) = IF 0 > MaxPlayer - 1 THEN 0 ELSE MaxPlayer - 1 - 0 + 1
    BY <1>2, FS_Interval
  <2> QED
    BY <1>2, <2>1 DEF Seats
<1>4. Seats \subseteq Nat /\ RoomIds \subseteq Nat /\ -1 \notin Seats /\ INVALID_INT_ID \notin RoomIds
  BY <1>2 DEF Seats, RoomIds, INVALID_INT_ID
<1> QED
  BY <1>1, <1>3, <1>4, LobbyAssumption

\* The least number of a non-empty set is in it.
LEMMA LeastIsLeast ==
    ASSUME NEW S, S \subseteq Nat, S # {}
    PROVE  Least(S) \in S
<1>1. \E i \in S : \A j \in S : i <= j
  BY LeastNumber
<1> QED
  BY <1>1 DEF Least

\* The members of a room are a finite set of characters.
LEMMA MembersFinite ==
    ASSUME NEW s, StateTypes(s), NEW r \in Rooms(s)
    PROVE  /\ s.rooms[r] \in Room
           /\ s.rooms[r].members \subseteq Characters
           /\ IsFiniteSet(s.rooms[r].members)
           /\ Cardinality(s.rooms[r].members) \in Nat
<1>1. s.rooms[r] \in Room /\ s.rooms[r].members \subseteq Characters
  BY DEF StateTypes, Room
<1>2. IsFiniteSet(s.rooms[r].members)
  BY <1>1, LobbyFacts, FS_Subset
<1> QED
  BY <1>1, <1>2, FS_CardinalityType

\* Setting a flag of a character does not move it.
LEMMA FlagSet ==
    ASSUME NEW d \in CharacterData, NEW b \in BOOLEAN
    PROVE  /\ [d EXCEPT !.banker = b] \in CharacterData
           /\ [d EXCEPT !.banker = b].room = d.room
           /\ [d EXCEPT !.banker = b].position = d.position
           /\ [d EXCEPT !.banker = b].banker = b
           /\ [d EXCEPT !.ready = b] \in CharacterData
           /\ [d EXCEPT !.ready = b].room = d.room
           /\ [d EXCEPT !.ready = b].position = d.position
           /\ [d EXCEPT !.ready = b].banker = d.banker
           /\ d.banker \in BOOLEAN
BY DEF CharacterData

\* A room that is not full has an empty seat.
LEMMA SeatFree ==
    ASSUME NEW s, Good(s), NEW r \in Rooms(s), ~isFull(s.rooms[r])
    PROVE  \E i \in Seats : s.rooms[r].seatOf[i] = Nobody
<1> DEFINE R == s.rooms[r]
<1>1. R \in Room /\ IsFiniteSet(R.members) /\ Cardinality(R.members) \in Nat
  BY MembersFinite DEF Good
<1>2. Cardinality(R.members) < Cardinality(Seats)
  BY <1>1, LobbyFacts, LobbyAssumption DEF isFull
<1> SUFFICES ASSUME \A i \in Seats : R.seatOf[i] # Nobody
             PROVE  FALSE
  OBVIOUS
<1>3. \A i \in Seats : R.seatOf[i] \in R.members
  BY DEF Good, StateSeats
<1>4. R.seatOf \in [Seats -> R.members]
  BY <1>1, <1>3 DEF Room
<1>5. PICK i, j \in Seats : i # j /\ R.seatOf[i] = R.seatOf[j]
  <2> HIDE DEF R
  <2>1. \E x, y \in Seats : x # y /\ R.seatOf[x] = R.seatOf[y]
    <3>1. IsFiniteSet(Seats)
      BY LobbyFacts
    <3> QED
      BY <1>1, <1>2, <1>4, <3>1, FS_PigeonHole
  <2> QED
    BY <2>1
<1>6. s.data[R.seatOf[i]].position = i /\ s.data[R.seatOf[j]].position = j
  BY <1>3 DEF Good, StateSeats
<1> QED
  BY <1>5, <1>6

----------------------------------------------------------------------------
(* Operations: what they make of a state *)

\* Joining a room: the character takes a seat nobody sits on; nothing else moves.
SeatFor(R) == Least({i \in Seats : R.seatOf[i] = Nobody})
Seated(R, c) == [R EXCEPT !.members = @ \cup {c},
                          !.seatOf = [i \in Seats |-> IF i = SeatFor(R) THEN c ELSE @[i]]]
OnlyOne(R, c) == R.members \cup {c} = {c}
JoinedRoom(R, c) ==
    IF OnlyOne(R, c) THEN [reset(Seated(R, c)) EXCEPT !.bankerPos = SeatFor(R)] ELSE Seated(R, c)
JoinedData(d, R, c, r) ==
    [d EXCEPT !.room = r, !.position = SeatFor(R), !.banker = OnlyOne(R, c)]

LEMMA SeatForFree ==
    ASSUME NEW s, Good(s), NEW r \in Rooms(s), ~isFull(s.rooms[r])
    PROVE  /\ SeatFor(s.rooms[r]) \in Seats
           /\ s.rooms[r].seatOf[SeatFor(s.rooms[r])] = Nobody
<1> DEFINE free == {i \in Seats : s.rooms[r].seatOf[i] = Nobody}
<1>1. free \subseteq Nat /\ free # {}
  BY SeatFree, LobbyFacts
<1>2. Least(free) \in free
  BY <1>1, LeastIsLeast
<1> QED
  BY <1>2 DEF SeatFor
JoinedState(s, c, r) ==
    [s EXCEPT !.rooms[r] = JoinedRoom(s.rooms[r], c),
              !.data[c] = JoinedData(s.data[c], s.rooms[r], c, r)]

LEMMA JoinRoomIs ==
    ASSUME NEW s, Good(s), NEW c \in Characters, NEW r, mayJoin(s, c, r)
    PROVE  joinRoom(s, c, r) = JoinedState(s, c, r)
<1> DEFINE free == {i \in Seats : s.rooms[r].seatOf[i] = Nobody}
<1>1. r \in Rooms(s) /\ ~isFull(s.rooms[r])
  BY DEF mayJoin
<1>2. free # {}
  BY <1>1, SeatFree
<1>3. s.rooms[r] \in Room
  BY <1>1 DEF Good, StateTypes
<1> QED
  BY <1>2, <1>3 DEF joinRoom, JoinedState, JoinedRoom, JoinedData, Seated, SeatFor, OnlyOne, Room

\* The record of a joined room.
LEMMA JoinedRoomIs ==
    ASSUME NEW R \in Room, NEW c \in Characters, SeatFor(R) \in Seats
    PROVE  /\ JoinedRoom(R, c) \in Room
           /\ JoinedRoom(R, c).members = R.members \cup {c}
           /\ \A i \in Seats : JoinedRoom(R, c).seatOf[i] =
                                  IF i = SeatFor(R) THEN c ELSE R.seatOf[i]
<1> DEFINE S == Seated(R, c)
           Z == [reset(S) EXCEPT !.bankerPos = SeatFor(R)]
<1>1. /\ S \in Room /\ S.members = R.members \cup {c}
      /\ \A i \in Seats : S.seatOf[i] = IF i = SeatFor(R) THEN c ELSE R.seatOf[i]
  BY DEF Seated, Room
<1> HIDE DEF S
<1>2. Z \in Room /\ Z.members = S.members /\ Z.seatOf = S.seatOf
  BY <1>1 DEF Room, reset, PlayStates
<1> QED
  BY <1>1, <1>2 DEF JoinedRoom, S

\* Joining keeps the state good.
LEMMA JoinRoomGood ==
    ASSUME NEW s, Good(s), NEW c \in Characters, NEW r, mayJoin(s, c, r)
    PROVE  /\ Good(joinRoom(s, c, r))
           /\ joinRoom(s, c, r).crashed = s.crashed
           /\ Rooms(joinRoom(s, c, r)) = Rooms(s)
           /\ \A x \in Characters : InRoom(joinRoom(s, c, r), x) <=> InRoom(s, x) \/ x = c
<1> DEFINE t == joinRoom(s, c, r)
           R == s.rooms[r]
           X == JoinedRoom(R, c)
           D == [s.data EXCEPT ![c] = JoinedData(s.data[c], R, c, r)]
<1>1. /\ r \in Rooms(s) /\ ~isFull(R) /\ c \notin R.members /\ ~InRoom(s, c)
      /\ R \in Room
  BY MembersFinite DEF mayJoin, Good
<1>2. SeatFor(R) \in Seats /\ R.seatOf[SeatFor(R)] = Nobody
  BY <1>1, SeatForFree
<1>3. t = [s EXCEPT !.rooms[r] = X, !.data = D]
  <2>1. joinRoom(s, c, r) = JoinedState(s, c, r)
    BY JoinRoomIs
  <2>2. DOMAIN s = {"rooms", "data", "created", "crashed"}
    BY DEF Good, StateTypes
  <2>3. t = [s EXCEPT !.rooms[r] = X, !.data[c] = JoinedData(s.data[c], R, c, r)]
    BY <2>1 DEF JoinedState
  <2> HIDE DEF t, R, X
  <2> QED
    BY <2>2, <2>3
<1>4. /\ X \in Room /\ X.members = R.members \cup {c}
      /\ \A i \in Seats : X.seatOf[i] = IF i = SeatFor(R) THEN c ELSE R.seatOf[i]
  BY <1>1, <1>2, JoinedRoomIs
<1>5. /\ s.data \in [Characters -> CharacterData] /\ r \in RoomIds
      /\ r \in Nat
  BY <1>1, LobbyFacts DEF Good, StateTypes
<1>6. /\ D \in [Characters -> CharacterData]
      /\ \A x \in Characters \ {c} : D[x] = s.data[x]
      /\ D[c].room = r /\ D[c].position = SeatFor(R)
  <2>1. s.data[c] \in CharacterData /\ OnlyOne(R, c) \in BOOLEAN
    BY <1>5 DEF OnlyOne
  <2>2. /\ JoinedData(s.data[c], R, c, r) \in CharacterData
        /\ JoinedData(s.data[c], R, c, r).room = r
        /\ JoinedData(s.data[c], R, c, r).position = SeatFor(R)
    BY <1>2, <1>5, <2>1 DEF JoinedData, CharacterData
  <2> QED
    BY <1>5, <2>2
<1> HIDE DEF X, D, t
<1>7. /\ DOMAIN t = {"rooms", "data", "created", "crashed"}
      /\ Rooms(t) = Rooms(s)
      /\ \A q \in Rooms(s) : t.rooms[q] = IF q = r THEN X ELSE s.rooms[q]
      /\ t.data = D
      /\ t.created = s.created /\ t.crashed = s.crashed
  BY <1>1, <1>3 DEF Good, StateTypes, Rooms
<1>8. Cardinality(X.members) <= MaxPlayer
  <2>1. IsFiniteSet(R.members) /\ Cardinality(R.members) \in Nat
    BY <1>1, MembersFinite DEF Good
  <2>2. Cardinality(R.members) < MaxPlayer
    BY <1>1, <2>1, LobbyAssumption DEF isFull
  <2>3. Cardinality(X.members) = Cardinality(R.members) + 1
    <3> HIDE DEF R
    <3> QED
      BY <1>1, <1>4, <2>1, FS_AddElement
  <2> QED
    BY <2>1, <2>2, <2>3, LobbyAssumption
<1>9. StateTypes(t)
  BY <1>4, <1>6, <1>7, <1>8 DEF Good, StateTypes
<1>10. \A x \in Characters : InRoom(t, x) <=> InRoom(s, x) \/ x = c
  BY <1>1, <1>6, <1>7 DEF InRoom
<1>11. StateSeats(t)
  <2>1. ASSUME NEW q \in Rooms(s)
        PROVE  t.rooms[q].members = {x \in Characters : t.data[x].room = q}
    <3>1. s.rooms[q].members = {x \in Characters : s.data[x].room = q}
      BY DEF Good, StateSeats
    <3>2. s.data[c].room # q
      BY <1>1 DEF InRoom
    <3>3. \A x \in Characters : x \in t.rooms[q].members <=> t.data[x].room = q
      BY <1>4, <1>6, <1>7, <3>1, <3>2
    <3>4. t.rooms[q].members \subseteq Characters
      BY <1>4, <1>7, <3>1
    <3> QED
      BY <3>3, <3>4
  <2>2. ASSUME NEW q \in Rooms(s), NEW x \in t.rooms[q].members, NEW i \in Seats
        PROVE  t.rooms[q].seatOf[i] = x <=> t.data[x].position = i
    <3>1. s.rooms[q].members = {y \in Characters : s.data[y].room = q}
      BY DEF Good, StateSeats
    <3>2. \A y \in s.rooms[q].members : s.rooms[q].seatOf[i] = y <=> s.data[y].position = i
      BY DEF Good, StateSeats
    <3>3. s.rooms[q].seatOf[i] \in s.rooms[q].members \cup {Nobody}
      BY DEF Good, StateSeats
    <3>4. CASE q # r
      BY <1>1, <1>6, <1>7, <3>1, <3>2, <3>4 DEF InRoom
    <3>5. CASE q = r /\ x = c
      BY <1>1, <1>2, <1>4, <1>6, <1>7, <3>3, <3>5, LobbyFacts
    <3>6. CASE q = r /\ x # c
      <4>1. x \in R.members /\ t.data[x] = s.data[x]
        BY <1>4, <1>6, <1>7, <3>1, <3>6
      <4>2. R.seatOf[SeatFor(R)] # x
        BY <1>2, <3>1, <4>1, LobbyFacts, <3>6
      <4>3. s.data[x].position # SeatFor(R)
        BY <1>1, <1>2, <4>1, <4>2 DEF Good, StateSeats
      <4> QED
        BY <1>4, <1>7, <3>2, <3>6, <4>1, <4>3
    <3> QED
      BY <3>4, <3>5, <3>6
  <2>3. ASSUME NEW q \in Rooms(s), NEW i \in Seats
        PROVE  t.rooms[q].seatOf[i] \in t.rooms[q].members \cup {Nobody}
    BY <1>4, <1>7 DEF Good, StateSeats
  <2>4. \A x \in Characters : ~InRoom(t, x) => t.data[x] = NoData
    BY <1>6, <1>7, <1>10 DEF Good, StateSeats
  <2>5. \A x \in Characters : InRoom(t, x) => t.data[x].position \in Seats
    BY <1>2, <1>6, <1>7, <1>10 DEF Good, StateSeats
  <2> QED
    BY <1>7, <2>1, <2>2, <2>3, <2>4, <2>5 DEF StateSeats
<1>12. StateNumbers(t)
  BY <1>7 DEF Good, StateNumbers
<1> QED
  BY <1>7, <1>9, <1>10, <1>11, <1>12 DEF Good, t

\* Somebody sits on the seat that takes over the banker.
LEMMA NextSeatTaken ==
    ASSUME NEW R \in Room, NEW pos \in Seats, NEW i \in Seats, R.seatOf[i] # Nobody
    PROVE  /\ findNextSeat(R, pos) \in Seats
           /\ R.seatOf[findNextSeat(R, pos)] # Nobody
<1> DEFINE K == {k \in 1 .. MaxPlayer : R.seatOf[(pos + k) % MaxPlayer] # Nobody}
           k0 == IF i > pos THEN i - pos ELSE i - pos + MaxPlayer
<1>1. MaxPlayer \in Nat \ {0}
  BY LobbyAssumption
<1>2. i \in 0 .. MaxPlayer - 1 /\ pos \in 0 .. MaxPlayer - 1
  BY DEF Seats
<1>3. k0 \in 1 .. MaxPlayer /\ pos + k0 \in {i, i + MaxPlayer}
  BY <1>1, <1>2
<1> HIDE DEF k0
<1>4. (pos + k0) % MaxPlayer = i
  BY <1>1, <1>2, <1>3, Remainder
<1>5. k0 \in K
  BY <1>3, <1>4
<1>6. K \subseteq Nat
  OBVIOUS
<1>7. Least(K) \in K
  <2> HIDE DEF K
  <2> QED
    BY <1>5, <1>6, LeastIsLeast
<1>8. findNextSeat(R, pos) = (pos + Least(K)) % MaxPlayer
  BY DEF findNextSeat
<1>9. Least(K) \in 1 .. MaxPlayer /\ R.seatOf[(pos + Least(K)) % MaxPlayer] # Nobody
  BY <1>7
<1> HIDE DEF K
<1>10. (pos + Least(K)) % MaxPlayer \in 0 .. MaxPlayer - 1
  BY <1>1, <1>2, <1>9
<1> QED
  BY <1>8, <1>9, <1>10 DEF Seats

\* Leaving a room: the seat is emptied, and a banker that leaves others hands over.
LeftRoom(R, pos, c) == [R EXCEPT !.members = @ \ {c}, !.seatOf[pos] = Nobody,
                                 !.torn = @ \/ R.state = "PLAYING"]
HeirSeat(s, c, L) == findNextSeat(L, s.data[c].position)
LeftData(s, c, L) ==
    [x \in Characters |->
        IF x = c THEN NoData
        ELSE IF handsOver(s, c, L) /\ x = L.seatOf[HeirSeat(s, c, L)]
        THEN [s.data[x] EXCEPT !.banker = TRUE]
        ELSE s.data[x]]
HandedOver(s, c, L) ==
    IF handsOver(s, c, L) THEN [L EXCEPT !.bankerPos = HeirSeat(s, c, L)] ELSE L
LeftState(s, c, r, L) ==
    IF L.members = {}
    THEN [s EXCEPT !.data = LeftData(s, c, L),
                   !.rooms = [q \in Rooms(s) \ {r} |-> s.rooms[q]]]
    ELSE [s EXCEPT !.data = LeftData(s, c, L), !.rooms[r] = HandedOver(s, c, L),
                   !.crashed = ~HasClient(L)]

LEMMA LeaveRoomIs ==
    ASSUME NEW s, Good(s), NEW c \in Characters, InRoom(s, c),
           NEW r, r = s.data[c].room, NEW L, L = LeftRoom(s.rooms[r], s.data[c].position, c)
    PROVE  playerLeaveRoom(s, c) = LeftState(s, c, r, L)
<1> DEFINE pos == s.data[c].position
           hand == handsOver(s, c, L)
           heir == IF hand THEN findNextSeat(L, pos) ELSE pos
           data == [x \in Characters |->
                       IF x = c THEN NoData
                       ELSE IF hand /\ x = L.seatOf[heir] THEN [s.data[x] EXCEPT !.banker = TRUE]
                       ELSE s.data[x]]
           left == IF hand THEN [L EXCEPT !.bankerPos = heir] ELSE L
<1>1. data = LeftData(s, c, L)
  <2>1. CASE hand
    <3>1. heir = HeirSeat(s, c, L)
      BY <2>1 DEF HeirSeat
    <3> HIDE DEF heir, hand
    <3> QED
      BY <2>1, <3>1 DEF LeftData, hand
  <2>2. CASE ~hand
    <3> HIDE DEF heir
    <3> QED
      BY <2>2 DEF LeftData
  <2> QED
    BY <2>1, <2>2
<1>2. left = HandedOver(s, c, L)
  BY DEF HandedOver, HeirSeat
<1>3. playerLeaveRoom(s, c) =
         IF L.members = {}
         THEN [s EXCEPT !.data = data, !.rooms = [q \in Rooms(s) \ {r} |-> s.rooms[q]]]
         ELSE [s EXCEPT !.data = data, !.rooms[r] = left, !.crashed = ~HasClient(L)]
  BY DEF playerLeaveRoom, LeftRoom
<1> HIDE DEF data, left
<1> QED
  BY <1>1, <1>2, <1>3 DEF LeftState

\* What is left of the room when a player leaves.
LEMMA LeftRoomIs ==
    ASSUME NEW R \in Room, NEW pos \in Seats, NEW c
    PROVE  /\ LeftRoom(R, pos, c) \in Room
           /\ LeftRoom(R, pos, c).members = R.members \ {c}
           /\ \A i \in Seats : LeftRoom(R, pos, c).seatOf[i] =
                                  IF i = pos THEN Nobody ELSE R.seatOf[i]
           /\ LeftRoom(R, pos, c).state = R.state
           /\ LeftRoom(R, pos, c).bankerPos = R.bankerPos
           /\ LeftRoom(R, pos, c).lost = R.lost
<1> DEFINE torn == R.torn \/ R.state = "PLAYING"
           L == [R EXCEPT !.members = @ \ {c}, !.seatOf[pos] = Nobody, !.torn = torn]
<1>1. torn \in BOOLEAN
  BY DEF Room
<1>2. LeftRoom(R, pos, c) = L
  BY DEF LeftRoom, Room
<1> HIDE DEF torn
<1>3. L \in Room /\ L.members = R.members \ {c}
  BY <1>1 DEF Room
<1>4. \A i \in Seats : L.seatOf[i] = IF i = pos THEN Nobody ELSE R.seatOf[i]
  BY DEF Room
<1>5. L.state = R.state /\ L.bankerPos = R.bankerPos /\ L.lost = R.lost
  BY DEF Room
<1> HIDE DEF L
<1> QED
  BY <1>2, <1>3, <1>4, <1>5

\* Where a player that leaves was, and the next banker if it was the banker.
Leaving(s, c, r, L) ==
    /\ r \in Rooms(s) /\ s.rooms[r] \in Room /\ c \in s.rooms[r].members
    /\ s.data[c].position \in Seats
    /\ L \in Room /\ L.members = s.rooms[r].members \ {c}
    /\ \A i \in Seats : L.seatOf[i] =
          IF i = s.data[c].position THEN Nobody ELSE s.rooms[r].seatOf[i]
    /\ \A i \in Seats : L.seatOf[i] \in L.members \cup {Nobody}
    /\ handsOver(s, c, L) => /\ HeirSeat(s, c, L) \in Seats
                             /\ L.seatOf[HeirSeat(s, c, L)] \in L.members

LEMMA LeavingFacts ==
    ASSUME NEW s, Good(s), NEW c \in Characters, InRoom(s, c),
           NEW r, r = s.data[c].room, NEW L, L = LeftRoom(s.rooms[r], s.data[c].position, c)
    PROVE  Leaving(s, c, r, L)
<1> DEFINE R == s.rooms[r]
           pos == s.data[c].position
<1>1. r \in Rooms(s) /\ R \in Room /\ pos \in Seats /\ c \in R.members
  BY DEF InRoom, Good, StateTypes, StateSeats
<1>2. /\ L \in Room /\ L.members = R.members \ {c}
      /\ \A i \in Seats : L.seatOf[i] = IF i = pos THEN Nobody ELSE R.seatOf[i]
  <2>1. L = LeftRoom(R, pos, c)
    OBVIOUS
  <2> HIDE DEF R, pos
  <2> QED
    BY <1>1, <2>1, LeftRoomIs
<1>3. \A x \in R.members, i \in Seats : R.seatOf[i] = x <=> s.data[x].position = i
  BY <1>1 DEF Good, StateSeats
<1>4. \A i \in Seats : R.seatOf[i] \in R.members \cup {Nobody}
  BY <1>1 DEF Good, StateSeats
<1> HIDE DEF R
<1>5. \A i \in Seats : L.seatOf[i] \in L.members \cup {Nobody}
  <2> SUFFICES ASSUME NEW i \in Seats, i # pos
               PROVE  R.seatOf[i] \in (R.members \ {c}) \cup {Nobody}
    BY <1>2
  <2>1. R.seatOf[i] # c
    BY <1>1, <1>3
  <2> QED
    BY <1>4, <2>1
<1>6. ASSUME handsOver(s, c, L)
      PROVE  HeirSeat(s, c, L) \in Seats /\ L.seatOf[HeirSeat(s, c, L)] \in L.members
  <2>1. PICK x \in L.members : TRUE
    BY <1>6 DEF handsOver
  <2>2. x \in R.members /\ x # c /\ x \in Characters
    BY <1>1, <1>2 DEF Room
  <2>3. InRoom(s, x) /\ s.data[x].position \in Seats
    BY <1>1, <2>2 DEF InRoom, Good, StateSeats, R
  <2>4. L.seatOf[s.data[x].position] # Nobody
    <3>1. R.seatOf[s.data[x].position] = x /\ R.seatOf[pos] = c
      BY <1>1, <1>3, <2>2, <2>3
    <3>2. s.data[x].position # pos
      BY <2>2, <3>1
    <3>3. L.seatOf[s.data[x].position] = x
      BY <1>2, <2>3, <3>1, <3>2
    <3> QED
      BY <2>2, <3>3, LobbyAssumption
  <2>5. /\ findNextSeat(L, pos) \in Seats
        /\ L.seatOf[findNextSeat(L, pos)] # Nobody
    <3> DEFINE k == s.data[x].position
    <3>1. k \in Seats /\ L.seatOf[k] # Nobody
      BY <2>3, <2>4
    <3> HIDE DEF pos, k
    <3> QED
      BY <1>1, <1>2, <3>1, NextSeatTaken
  <2> QED
    BY <1>5, <2>5 DEF HeirSeat
<1> QED
  BY <1>1, <1>2, <1>5, <1>6 DEF R, Leaving

\* Nobody else moves.
OthersStay(s, c, L) ==
    /\ LeftData(s, c, L) \in [Characters -> CharacterData]
    /\ LeftData(s, c, L)[c] = NoData
    /\ \A x \in Characters \ {c} :
          /\ LeftData(s, c, L)[x].room = s.data[x].room
          /\ LeftData(s, c, L)[x].position = s.data[x].position
          /\ LeftData(s, c, L)[x].banker <=>
                s.data[x].banker \/ (handsOver(s, c, L) /\ x = L.seatOf[HeirSeat(s, c, L)])
          /\ ~InRoom(s, x) => LeftData(s, c, L)[x] = s.data[x]

LEMMA LeftDataIs ==
    ASSUME NEW s, Good(s), NEW c \in Characters, InRoom(s, c),
           NEW r, r = s.data[c].room, NEW L, L = LeftRoom(s.rooms[r], s.data[c].position, c)
    PROVE  OthersStay(s, c, L)
<1> DEFINE H(x) == handsOver(s, c, L) /\ x = L.seatOf[HeirSeat(s, c, L)]
<1>1. s.data \in [Characters -> CharacterData] /\ NoData \in CharacterData
  BY DEF Good, StateTypes, NoData, CharacterData, INVALID_INT_ID
<1>2. \A x \in Characters :
         /\ [s.data[x] EXCEPT !.banker = TRUE] \in CharacterData
         /\ [s.data[x] EXCEPT !.banker = TRUE].room = s.data[x].room
         /\ [s.data[x] EXCEPT !.banker = TRUE].position = s.data[x].position
         /\ [s.data[x] EXCEPT !.banker = TRUE].banker
         /\ s.data[x].banker \in BOOLEAN
  BY <1>1, FlagSet
<1>3. \A x \in Characters : H(x) => InRoom(s, x)
  <2> Leaving(s, c, r, L)
    BY LeavingFacts
  <2>1. handsOver(s, c, L) => L.seatOf[HeirSeat(s, c, L)] \in L.members
    BY DEF Leaving
  <2>2. L.members \subseteq s.rooms[r].members /\ r \in Rooms(s)
    BY DEF Leaving
  <2>3. \A x \in s.rooms[r].members : InRoom(s, x)
    <3>1. s.rooms[r].members = {x \in Characters : s.data[x].room = r}
      BY <2>2 DEF Good, StateSeats
    <3> QED
      BY <2>2, <3>1 DEF InRoom
  <2> QED
    BY <2>1, <2>2, <2>3
<1> HIDE DEF H
<1>4. LeftData(s, c, L) = [x \in Characters |->
                              IF x = c THEN NoData
                              ELSE IF H(x) THEN [s.data[x] EXCEPT !.banker = TRUE]
                              ELSE s.data[x]]
  BY DEF LeftData, H
<1>5. LeftData(s, c, L) \in [Characters -> CharacterData] /\ LeftData(s, c, L)[c] = NoData
  BY <1>1, <1>2, <1>4
<1>6. ASSUME NEW x \in Characters \ {c}
      PROVE  /\ LeftData(s, c, L)[x].room = s.data[x].room
             /\ LeftData(s, c, L)[x].position = s.data[x].position
             /\ LeftData(s, c, L)[x].banker <=> s.data[x].banker \/ H(x)
             /\ ~InRoom(s, x) => LeftData(s, c, L)[x] = s.data[x]
  <2>1. LeftData(s, c, L)[x] = IF H(x) THEN [s.data[x] EXCEPT !.banker = TRUE] ELSE s.data[x]
    BY <1>4
  <2> QED
    BY <1>2, <1>3, <2>1
<1> QED
  BY <1>5, <1>6 DEF H, OthersStay

\* Leaving keeps the state good.
LEMMA LeaveRoomGood ==
    ASSUME NEW s, Good(s), NEW c \in Characters, InRoom(s, c)
    PROVE  /\ Good(playerLeaveRoom(s, c))
           /\ Rooms(playerLeaveRoom(s, c)) \subseteq Rooms(s)
           /\ \A x \in Characters :
                 InRoom(playerLeaveRoom(s, c), x) <=> InRoom(s, x) /\ x # c
<1> DEFINE t == playerLeaveRoom(s, c)
           r == s.data[c].room
           R == s.rooms[r]
           pos == s.data[c].position
           L == LeftRoom(R, pos, c)
           D == LeftData(s, c, L)
           X == HandedOver(s, c, L)
<1>0. /\ r = s.data[c].room /\ R = s.rooms[r] /\ pos = s.data[c].position
      /\ L = LeftRoom(R, pos, c) /\ L = LeftRoom(s.rooms[r], s.data[c].position, c)
  OBVIOUS
<1>1. /\ r \in Rooms(s) /\ R \in Room /\ c \in R.members /\ pos \in Seats
      /\ L \in Room /\ L.members = R.members \ {c}
      /\ \A i \in Seats : L.seatOf[i] = IF i = pos THEN Nobody ELSE R.seatOf[i]
      /\ \A i \in Seats : L.seatOf[i] \in L.members \cup {Nobody}
      /\ handsOver(s, c, L) => HeirSeat(s, c, L) \in Seats
  <2> HIDE DEF L, r
  <2>1. Leaving(s, c, r, L)
    BY <1>0, LeavingFacts
  <2> QED
    BY <2>1 DEF Leaving
<1>2. t = IF L.members = {}
          THEN [s EXCEPT !.data = D, !.rooms = [q \in Rooms(s) \ {r} |-> s.rooms[q]]]
          ELSE [s EXCEPT !.data = D, !.rooms[r] = X, !.crashed = ~HasClient(L)]
  <2> HIDE DEF L, r, t
  <2>1. playerLeaveRoom(s, c) = LeftState(s, c, r, L)
    BY <1>0, LeaveRoomIs
  <2> QED
    BY <2>1 DEF t, LeftState
<1>3. /\ D \in [Characters -> CharacterData]
      /\ D[c] = NoData
      /\ \A x \in Characters \ {c} : /\ D[x].room = s.data[x].room
                                     /\ D[x].position = s.data[x].position
                                     /\ ~InRoom(s, x) => D[x] = s.data[x]
  <2> HIDE DEF L, r
  <2>1. OthersStay(s, c, L)
    BY <1>0, LeftDataIs
  <2> QED
    BY <2>1 DEF OthersStay
<1>4. /\ X \in Room /\ X.members = R.members \ {c}
      /\ \A i \in Seats : X.seatOf[i] = IF i = pos THEN Nobody ELSE R.seatOf[i]
  <2> DEFINE Y == [L EXCEPT !.bankerPos = HeirSeat(s, c, L)]
  <2>1. X = IF handsOver(s, c, L) THEN Y ELSE L
    BY DEF HandedOver
  <2> HIDE DEF L, R, X
  <2>2. ASSUME handsOver(s, c, L)
        PROVE  Y \in Room /\ Y.members = L.members /\ Y.seatOf = L.seatOf
    BY <1>1, <2>2 DEF Room
  <2> HIDE DEF Y
  <2> QED
    BY <1>1, <2>1, <2>2
<1>5. (~HasClient(L)) \in BOOLEAN
  BY DEF HasClient
<1> HIDE DEF t, D, X
<1>6. /\ DOMAIN t = {"rooms", "data", "created", "crashed"}
      /\ t.data = D /\ t.created = s.created /\ t.crashed \in BOOLEAN
      /\ Rooms(t) = IF L.members = {} THEN Rooms(s) \ {r} ELSE Rooms(s)
      /\ \A q \in Rooms(t) : t.rooms[q] = IF q = r THEN X ELSE s.rooms[q]
  <2>1. DOMAIN s = {"rooms", "data", "created", "crashed"} /\ s.crashed \in BOOLEAN
    BY DEF Good, StateTypes
  <2> HIDE DEF L
  <2>2. CASE L.members = {}
    BY <1>2, <2>1, <2>2 DEF Rooms
  <2>3. CASE L.members # {}
    BY <1>1, <1>2, <1>5, <2>1, <2>3 DEF Rooms
  <2> QED
    BY <2>2, <2>3
<1> HIDE DEF L, R, pos, r
<1>7. StateTypes(t)
  <2>1. Cardinality(X.members) <= MaxPlayer
    <3>1. IsFiniteSet(R.members) /\ Cardinality(R.members) <= MaxPlayer
          /\ Cardinality(R.members) \in Nat
      BY <1>0, <1>1, MembersFinite DEF Good, StateTypes
    <3>2. IsFiniteSet(X.members) /\ Cardinality(X.members) <= Cardinality(R.members)
          /\ Cardinality(X.members) \in Nat
      BY <1>4, <3>1, FS_Subset, FS_CardinalityType
    <3> QED
      BY <3>1, <3>2, LobbyAssumption
  <2> QED
    BY <1>3, <1>4, <1>6, <2>1 DEF Good, StateTypes
<1>8. \A x \in Characters : InRoom(t, x) <=> InRoom(s, x) /\ x # c
  <2>1. INVALID_INT_ID \notin Rooms(s)
    BY LobbyFacts DEF Good, StateTypes
  <2>2. ~InRoom(t, c)
    BY <1>3, <1>6, <2>1 DEF InRoom, NoData
  <2>3. ASSUME NEW x \in Characters, x # c
        PROVE  InRoom(t, x) <=> InRoom(s, x)
    <3>1. t.data[x].room = s.data[x].room
      BY <1>3, <1>6, <2>3
    <3>2. x \in R.members => x \in L.members
      BY <1>1, <2>3
    <3>3. s.data[x].room = r => x \in R.members
      <4>1. R.members = {y \in Characters : s.data[y].room = r}
        BY <1>0, <1>1 DEF Good, StateSeats
      <4> QED
        BY <4>1
    <3> QED
      BY <1>1, <1>6, <3>1, <3>2, <3>3 DEF InRoom
  <2> QED
    BY <2>2, <2>3
<1>9. StateSeats(t)
  <2> USE DEF Good
  <2>1. ASSUME NEW q \in Rooms(t)
        PROVE  t.rooms[q].members = {x \in Characters : t.data[x].room = q}
    <3>1. s.rooms[q].members = {x \in Characters : s.data[x].room = q} /\ q \in Rooms(s)
      BY <1>6 DEF StateSeats
    <3>2. t.data[c].room # q
      <4>1. q # INVALID_INT_ID
        <5>1. Rooms(s) \subseteq RoomIds
          BY DEF StateTypes
        <5> QED
          BY <3>1, <5>1, LobbyFacts
      <4>2. t.data[c] = NoData /\ NoData.room = INVALID_INT_ID
        BY <1>3, <1>6 DEF NoData
      <4> QED
        BY <4>1, <4>2
    <3>3. t.rooms[q].members = s.rooms[q].members \ {c}
      <4>1. CASE q = r
        BY <1>0, <1>4, <1>6, <4>1
      <4>2. CASE q # r
        <5>1. t.rooms[q] = s.rooms[q] /\ c \notin s.rooms[q].members
          BY <1>0, <1>6, <3>1, <4>2
        <5> QED
          BY <5>1
      <4> QED
        BY <4>1, <4>2
    <3>4. \A x \in Characters \ {c} : t.data[x].room = s.data[x].room
      BY <1>3, <1>6
    <3> QED
      BY <3>1, <3>2, <3>3, <3>4
  <2>2. ASSUME NEW q \in Rooms(t), NEW x \in t.rooms[q].members, NEW i \in Seats
        PROVE  t.rooms[q].seatOf[i] = x <=> t.data[x].position = i
    <3>0. t.rooms[q] = IF q = r THEN X ELSE s.rooms[q]
      BY <1>6
    <3>1. q \in Rooms(s) /\ s.rooms[q].members = {y \in Characters : s.data[y].room = q}
      BY <1>6 DEF StateSeats
    <3>2. \A y \in s.rooms[q].members : s.rooms[q].seatOf[i] = y <=> s.data[y].position = i
      BY <3>1 DEF StateSeats
    <3>3. x \in Characters /\ x # c /\ x \in s.rooms[q].members
      <4>1. CASE q = r
        <5>1. t.rooms[q].members = s.rooms[q].members \ {c}
          BY <1>0, <1>4, <3>0, <4>1
        <5> QED
          BY <3>1, <5>1
      <4>2. CASE q # r
        <5>1. t.rooms[q].members = s.rooms[q].members /\ s.data[c].room # q
          BY <1>0, <3>0, <4>2
        <5> QED
          BY <3>1, <5>1
      <4> QED
        BY <4>1, <4>2
    <3>4. t.data[x].position = s.data[x].position
      BY <1>3, <1>6, <3>3
    <3>5. t.rooms[q].seatOf[i] = x <=> s.rooms[q].seatOf[i] = x
      <4>1. CASE q # r
        BY <3>0, <4>1
      <4>2. CASE q = r /\ i # pos
        <5>1. t.rooms[q] = X /\ s.rooms[q] = R
          BY <1>0, <3>0, <4>2
        <5>2. X.seatOf[i] = R.seatOf[i]
          BY <1>4, <4>2
        <5> QED
          BY <5>1, <5>2
      <4>3. CASE q = r /\ i = pos
        <5>1. R.seatOf[pos] = c
          <6>1. \A y \in s.rooms[q].members : s.rooms[q].seatOf[pos] = y <=> s.data[y].position = pos
            BY <1>1, <3>1 DEF StateSeats
          <6> QED
            BY <1>0, <1>1, <4>3, <6>1
        <5>2. t.rooms[q].seatOf[i] = Nobody
          BY <1>1, <1>4, <3>0, <4>3
        <5>3. x # Nobody
          BY <3>3, LobbyAssumption
        <5> QED
          BY <1>0, <3>3, <4>3, <5>1, <5>2, <5>3
      <4> QED
        BY <4>1, <4>2, <4>3
    <3> QED
      BY <3>2, <3>3, <3>4, <3>5
  <2>3. ASSUME NEW q \in Rooms(t), NEW i \in Seats
        PROVE  t.rooms[q].seatOf[i] \in t.rooms[q].members \cup {Nobody}
    <3>1. CASE q # r
      BY <1>6, <3>1 DEF StateSeats
    <3>2. CASE q = r
      BY <1>1, <1>4, <1>6, <3>2
    <3> QED
      BY <3>1, <3>2
  <2>4. \A x \in Characters : ~InRoom(t, x) => t.data[x] = NoData
    BY <1>3, <1>6, <1>8 DEF StateSeats
  <2>5. \A x \in Characters : InRoom(t, x) => t.data[x].position \in Seats
    BY <1>3, <1>6, <1>8 DEF StateSeats
  <2> QED
    BY <2>1, <2>2, <2>3, <2>4, <2>5 DEF StateSeats
<1>10. StateNumbers(t)
  BY <1>6 DEF Good, StateNumbers
<1> QED
  BY <1>6, <1>7, <1>8, <1>9, <1>10 DEF Good, t

\* A new room is empty, and no character is in it yet.
LEMMA CreateRoomGood ==
    ASSUME NEW s, Good(s), s.created < MaxRooms
    PROVE  /\ Good(createRoom(s))
           /\ Rooms(createRoom(s)) = Rooms(s) \cup {s.created}
           /\ createRoom(s).crashed = s.crashed
           /\ \A x \in Characters : InRoom(createRoom(s), x) <=> InRoom(s, x)
<1> DEFINE n == s.created
           t == createRoom(s)
<1>1. /\ DOMAIN s = {"rooms", "data", "created", "crashed"}
      /\ n \in Nat /\ n + 1 \in 0 .. MaxRooms /\ n \in RoomIds /\ n \notin Rooms(s)
      /\ s.crashed \in BOOLEAN
  BY LobbyAssumption DEF Good, StateTypes, StateNumbers, RoomIds
<1>2. /\ DOMAIN t = {"rooms", "data", "created", "crashed"}
      /\ Rooms(t) = Rooms(s) \cup {n}
      /\ \A q \in Rooms(s) : t.rooms[q] = s.rooms[q]
      /\ t.rooms[n] = NewRoom
      /\ t.data = s.data /\ t.created = n + 1 /\ t.crashed = s.crashed
  BY <1>1 DEF createRoom, Rooms
<1>3. /\ NewRoom \in Room /\ NewRoom.members = {}
      /\ \A i \in Seats : NewRoom.seatOf[i] = Nobody
  BY DEF NewRoom, Room, PlayStates
<1>4. Cardinality(NewRoom.members) <= MaxPlayer
  BY <1>3, FS_EmptySet, LobbyAssumption
<1>5. \A x \in Characters : s.data[x].room # n
  <2>1. \A x \in Characters : s.data[x].room = n => s.data[x] = NoData
    BY <1>1 DEF Good, StateSeats, InRoom
  <2>2. NoData.room # n
    BY <1>1, LobbyFacts DEF NoData
  <2> QED
    BY <2>1, <2>2
<1> HIDE DEF t, n
<1>6. \A x \in Characters : InRoom(t, x) <=> InRoom(s, x)
  BY <1>2, <1>5 DEF InRoom
<1>7. StateTypes(t)
  BY <1>1, <1>2, <1>3, <1>4 DEF Good, StateTypes
<1>8. StateSeats(t)
  <2>1. ASSUME NEW q \in Rooms(t)
        PROVE  /\ t.rooms[q].members = {x \in Characters : t.data[x].room = q}
               /\ \A x \in t.rooms[q].members, i \in Seats :
                     t.rooms[q].seatOf[i] = x <=> t.data[x].position = i
               /\ \A i \in Seats : t.rooms[q].seatOf[i] \in t.rooms[q].members \cup {Nobody}
    <3>1. CASE q = n
      BY <1>2, <1>3, <1>5, <3>1
    <3>2. CASE q # n
      <4>1. q \in Rooms(s) /\ t.rooms[q] = s.rooms[q] /\ t.data = s.data
        BY <1>2, <3>2
      <4> QED
        BY <4>1 DEF Good, StateSeats
    <3> QED
      BY <3>1, <3>2
  <2>2. \A x \in Characters : ~InRoom(t, x) => t.data[x] = NoData
    BY <1>2, <1>6 DEF Good, StateSeats
  <2>3. \A x \in Characters : InRoom(t, x) => t.data[x].position \in Seats
    BY <1>2, <1>6 DEF Good, StateSeats
  <2> QED
    BY <2>1, <2>2, <2>3 DEF StateSeats
<1>9. StateNumbers(t)
  <2>1. \A q \in Rooms(s) : q < n /\ q \in Nat
    BY LobbyFacts DEF Good, StateTypes, StateNumbers, n
  <2> QED
    BY <1>1, <1>2, <2>1 DEF StateNumbers
<1> QED
  BY <1>2, <1>6, <1>7, <1>8, <1>9 DEF Good, t, n

\* Operations that move nobody.
SamePeople(R, S) == S \in Room /\ S.members = R.members /\ S.seatOf = R.seatOf
Unmoved(s, t) ==
    /\ DOMAIN t = DOMAIN s /\ t.created = s.created /\ t.crashed \in BOOLEAN
    /\ Rooms(t) = Rooms(s)
    /\ \A r \in Rooms(s) : SamePeople(s.rooms[r], t.rooms[r])
    /\ t.data \in [Characters -> CharacterData]
    /\ \A x \in Characters : /\ t.data[x].room = s.data[x].room
                             /\ t.data[x].position = s.data[x].position
                             /\ ~InRoom(s, x) => t.data[x] = s.data[x]

LEMMA UnmovedGood ==
    ASSUME NEW s, Good(s), NEW t, Unmoved(s, t)
    PROVE  /\ Good(t)
           /\ \A x \in Characters : InRoom(t, x) <=> InRoom(s, x)
<1>1. \A x \in Characters : InRoom(t, x) <=> InRoom(s, x)
  BY DEF Unmoved, InRoom
<1>2. StateTypes(t)
  BY DEF Unmoved, SamePeople, Good, StateTypes
<1>3. StateSeats(t)
  <2>1. ASSUME NEW q \in Rooms(t)
        PROVE  /\ t.rooms[q].members = {x \in Characters : t.data[x].room = q}
               /\ \A x \in t.rooms[q].members, i \in Seats :
                     t.rooms[q].seatOf[i] = x <=> t.data[x].position = i
               /\ \A i \in Seats : t.rooms[q].seatOf[i] \in t.rooms[q].members \cup {Nobody}
    <3>1. /\ q \in Rooms(s)
          /\ t.rooms[q].members = s.rooms[q].members /\ t.rooms[q].seatOf = s.rooms[q].seatOf
          /\ \A x \in Characters : /\ t.data[x].room = s.data[x].room
                                   /\ t.data[x].position = s.data[x].position
      BY DEF Unmoved, SamePeople
    <3>2. s.rooms[q].members = {x \in Characters : s.data[x].room = q}
      BY <3>1 DEF Good, StateSeats
    <3>3. /\ \A x \in s.rooms[q].members, i \in Seats :
                s.rooms[q].seatOf[i] = x <=> s.data[x].position = i
          /\ \A i \in Seats : s.rooms[q].seatOf[i] \in s.rooms[q].members \cup {Nobody}
      BY <3>1 DEF Good, StateSeats
    <3> QED
      BY <3>1, <3>2, <3>3
  <2>2. \A x \in Characters : ~InRoom(t, x) => t.data[x] = NoData
    BY <1>1 DEF Unmoved, Good, StateSeats
  <2>3. \A x \in Characters : InRoom(t, x) => t.data[x].position \in Seats
    BY <1>1 DEF Unmoved, Good, StateSeats
  <2> QED
    BY <2>1, <2>2, <2>3 DEF StateSeats
<1>4. StateNumbers(t)
  BY DEF Unmoved, Good, StateNumbers
<1> QED
  BY <1>1, <1>2, <1>3, <1>4 DEF Good

\* The choices of a room's players, and its reset, move nobody.
LEMMA ChoicesKeepPeople ==
    ASSUME NEW R \in Room, NEW a \in Objects
    PROVE  /\ SamePeople(R, chosen(ChooseStay(R, a)))
           /\ SamePeople(R, chosen(ChooseGone(R, a)))
<1>1. ASSUME NEW S, SamePeople(R, S)
      PROVE  SamePeople(R, chosen(S))
  <2>1. SamePeople(R, reset(S))
    BY <1>1 DEF SamePeople, reset, Room, PlayStates
  <2> QED
    BY <1>1, <2>1 DEF chosen
<1>2. SamePeople(R, ChooseStay(R, a)) /\ SamePeople(R, ChooseGone(R, a))
  BY DEF SamePeople, ChooseStay, ChooseGone, Room
<1> QED
  BY <1>1, <1>2

\* A character gets ready, or is no longer: nobody moves.
LEMMA ReadyUnmoved ==
    ASSUME NEW s, Good(s), NEW c \in Characters, InRoom(s, c), NEW b \in BOOLEAN
    PROVE  Unmoved(s, [s EXCEPT !.data[c].ready = b])
<1> DEFINE d == [s.data[c] EXCEPT !.ready = b]
           D == [s.data EXCEPT ![c] = d]
           t == [s EXCEPT !.data = D]
<1>1. /\ DOMAIN s = {"rooms", "data", "created", "crashed"} /\ s.crashed \in BOOLEAN
      /\ s.data \in [Characters -> CharacterData]
      /\ \A r \in Rooms(s) : s.rooms[r] \in Room
  BY DEF Good, StateTypes
<1>2. d \in CharacterData /\ d.room = s.data[c].room /\ d.position = s.data[c].position
  BY <1>1 DEF CharacterData
<1>3. [s EXCEPT !.data[c].ready = b] = t
  BY <1>1
<1> HIDE DEF d
<1>4. /\ D \in [Characters -> CharacterData]
      /\ \A x \in Characters : /\ D[x].room = s.data[x].room
                               /\ D[x].position = s.data[x].position
                               /\ ~InRoom(s, x) => D[x] = s.data[x]
  BY <1>1, <1>2
<1> HIDE DEF D
<1>5. Unmoved(s, t)
  BY <1>1, <1>4 DEF Unmoved, SamePeople, Rooms
<1> QED
  BY <1>3, <1>5

\* A hand that starts moves nobody.
LEMMA StartUnmoved ==
    ASSUME NEW s, Good(s), NEW r \in Rooms(s)
    PROVE  Unmoved(s, startGame(s, r))
<1> DEFINE R == s.rooms[r]
           X == [R EXCEPT !.state = "PLAYING"]
           D == [c \in Characters |-> IF c \in R.members
                                      THEN [s.data[c] EXCEPT !.ready = FALSE]
                                      ELSE s.data[c]]
           t == [s EXCEPT !.rooms[r] = X, !.data = D]
<1>1. /\ DOMAIN s = {"rooms", "data", "created", "crashed"} /\ s.crashed \in BOOLEAN
      /\ s.data \in [Characters -> CharacterData]
      /\ \A q \in Rooms(s) : s.rooms[q] \in Room
      /\ R.members = {c \in Characters : s.data[c].room = r}
  BY DEF Good, StateTypes, StateSeats
<1>2. SamePeople(R, X)
  BY <1>1 DEF SamePeople, Room, PlayStates
<1>3. \A c \in Characters : /\ [s.data[c] EXCEPT !.ready = FALSE] \in CharacterData
                            /\ [s.data[c] EXCEPT !.ready = FALSE].room = s.data[c].room
                            /\ [s.data[c] EXCEPT !.ready = FALSE].position = s.data[c].position
  BY <1>1, FlagSet
<1>4. startGame(s, r) = t
  BY <1>1 DEF startGame
<1>5. /\ D \in [Characters -> CharacterData]
      /\ \A x \in Characters : /\ D[x].room = s.data[x].room
                               /\ D[x].position = s.data[x].position
                               /\ ~InRoom(s, x) => D[x] = s.data[x]
  BY <1>1, <1>3 DEF InRoom
<1> HIDE DEF X, D
<1>6. Unmoved(s, t)
  BY <1>1, <1>2, <1>5 DEF Unmoved, SamePeople, Rooms
<1> QED
  BY <1>4, <1>6

LEMMA PlayerReadyGood ==
    ASSUME NEW s, Good(s), NEW c \in Characters, InRoom(s, c), NEW b \in BOOLEAN
    PROVE  /\ Good(playerReady(s, c, b))
           /\ \A x \in Characters : InRoom(playerReady(s, c, b), x) <=> InRoom(s, x)
<1> DEFINE t == [s EXCEPT !.data[c].ready = b]
           r == s.data[c].room
<1>1. Unmoved(s, t)
  BY ReadyUnmoved
<1> HIDE DEF t
<1>2. Good(t) /\ (\A x \in Characters : InRoom(t, x) <=> InRoom(s, x)) /\ r \in Rooms(t)
  <2>1. r \in Rooms(t)
    BY <1>1 DEF Unmoved, InRoom
  <2> QED
    BY <1>1, <2>1, UnmovedGood
<1>3. /\ Good(startGame(t, r))
      /\ \A x \in Characters : InRoom(startGame(t, r), x) <=> InRoom(s, x)
  <2>1. Unmoved(t, startGame(t, r))
    BY <1>2, StartUnmoved
  <2>2. \A x \in Characters : InRoom(startGame(t, r), x) <=> InRoom(t, x)
    BY <1>2, <2>1, UnmovedGood
  <2>3. Good(startGame(t, r))
    BY <1>2, <2>1, UnmovedGood
  <2> QED
    BY <1>2, <2>2, <2>3
<1>4. playerReady(s, c, b) \in {t, startGame(t, r)}
  BY DEF playerReady, t
<1> QED
  BY <1>2, <1>3, <1>4

\* A robot that is added was in no room, and no player comes with it.
LEMMA AddRobotGood ==
    ASSUME NEW s, Good(s), NEW r \in Rooms(s), ~isFull(s.rooms[r]), IdleRobots(s) # {}
    PROVE  /\ Good(addRobot(s, r))
           /\ \A x \in Players : InRoom(addRobot(s, r), x) => InRoom(s, x)
<1> DEFINE b == Least(IdleRobots(s))
           t == joinRoom(s, b, r)
<1>1. b \in Robots /\ s.data[b].room = INVALID_INT_ID
  <2>1. IdleRobots(s) \subseteq Nat
    BY LobbyAssumption DEF IdleRobots
  <2>2. b \in IdleRobots(s)
    BY <2>1, LeastIsLeast
  <2> QED
    BY <2>2 DEF IdleRobots
<1> HIDE DEF b
<1>2. b \in Characters /\ b \notin Players
  BY <1>1, LobbyAssumption DEF Characters
<1>3. mayJoin(s, b, r)
  <2>1. INVALID_INT_ID \notin Rooms(s)
    BY LobbyFacts DEF Good, StateTypes
  <2>2. s.rooms[r].members = {c \in Characters : s.data[c].room = r}
    BY DEF Good, StateSeats
  <2> QED
    BY <1>1, <2>1, <2>2 DEF mayJoin, InRoom
<1>4. Good(t)
  BY <1>2, <1>3, JoinRoomGood
<1>5. \A x \in Characters : InRoom(t, x) <=> InRoom(s, x) \/ x = b
  BY <1>2, <1>3, JoinRoomGood
<1> HIDE DEF t
<1>6. Unmoved(t, [t EXCEPT !.data[b].ready = TRUE])
  BY <1>2, <1>4, <1>5, ReadyUnmoved
<1>7. addRobot(s, r) = [t EXCEPT !.data[b].ready = TRUE]
  BY DEF addRobot, t, b
<1>8. Good(addRobot(s, r))
  BY <1>4, <1>6, <1>7, UnmovedGood
<1>9. \A x \in Characters : InRoom(addRobot(s, r), x) <=> InRoom(t, x)
  BY <1>4, <1>6, <1>7, UnmovedGood
<1> QED
  BY <1>2, <1>5, <1>8, <1>9 DEF Characters

----------------------------------------------------------------------------
(* The invariant holds in every reachable state *)

LEMMA InvInit == Init => Inv
<1> SUFFICES ASSUME Init PROVE Inv
  OBVIOUS
<1>1. /\ DOMAIN server = {"rooms", "data", "created", "crashed"}
      /\ Rooms(server) = {} /\ server.data = [c \in Characters |-> NoData]
      /\ server.created = 0 /\ server.crashed = FALSE
  BY DEF Init, Rooms
<1>2. NoData \in CharacterData
  BY DEF NoData, CharacterData, INVALID_INT_ID
<1>3. 0 \in 0 .. MaxRooms
  BY LobbyAssumption
<1>4. Good(server)
  BY <1>1, <1>2, <1>3 DEF Good, StateTypes, StateSeats, StateNumbers, InRoom
<1> QED
  BY <1>1, <1>4 DEF Init, Inv, InRoom

\* A step that brings only players into rooms whose client is connected.
LEMMA ServerStep ==
    ASSUME Inv, Good(server'), UNCHANGED <<object, connected>>,
           \A p \in Players : InRoom(server', p) => InRoom(server, p) \/ p \in connected
    PROVE  Inv'
<1>1. \A p \in Players : InRoom(server', p) => LoggedIn(p)
  BY DEF Inv
<1> QED
  BY <1>1 DEF Inv, LoggedIn

\* ... and one that moves nobody at all.
LEMMA UnmovedStep ==
    ASSUME Inv, Unmoved(server, server'), UNCHANGED <<object, connected>>
    PROVE  Inv'
<1>1. Good(server) /\ Players \subseteq Characters
  BY DEF Inv, Characters
<1>2. Good(server')
  BY <1>1, UnmovedGood
<1>3. \A x \in Characters : InRoom(server', x) <=> InRoom(server, x)
  BY <1>1, UnmovedGood
<1> QED
  BY <1>1, <1>2, <1>3, ServerStep

LEMMA CrashStep ==
    ASSUME Inv, server' = [server EXCEPT !.crashed = TRUE], UNCHANGED <<object, connected>>
    PROVE  Inv'
<1>1. Unmoved(server, server')
  BY DEF Unmoved, SamePeople, Inv, Good, StateTypes, Rooms
<1> QED
  BY <1>1, UnmovedStep

LEMMA LoginStep ==
    ASSUME Inv, NEW p \in Players, Login(p)
    PROVE  Inv'
<1>1. PICK a \in Objects : object' = [object EXCEPT ![p] = a]
  BY DEF Login
<1>2. a # Freed
  BY LobbyAssumption
<1>3. object' \in [Players -> Objects \cup {Freed}] /\ connected' \subseteq Players
  BY <1>1 DEF Inv, Login
<1>4. \A q \in Players : LoggedIn(q) \/ q = p => object'[q] # Freed
  BY <1>1, <1>2 DEF Inv, LoggedIn
<1>5. Good(server') /\ \A q \in Players : InRoom(server', q) <=> InRoom(server, q)
  BY DEF Inv, Login
<1> QED
  BY <1>3, <1>4, <1>5 DEF Inv, Login, LoggedIn

LEMMA JoinStep ==
    ASSUME Inv, NEW p \in Players, NEW s, Good(s),
           \A q \in Characters : InRoom(s, q) <=> InRoom(server, q),
           NEW r, server' = joinRoom(s, p, r), p \in connected, UNCHANGED <<object, connected>>
    PROVE  Inv'
<1>1. p \in Characters /\ Players \subseteq Characters
  BY DEF Characters
<1>2. CASE mayJoin(s, p, r)
  <2>1. Good(server')
    BY <1>1, <1>2, JoinRoomGood
  <2>2. \A x \in Characters : InRoom(server', x) <=> InRoom(s, x) \/ x = p
    BY <1>1, <1>2, JoinRoomGood
  <2> QED
    BY <1>1, <2>1, <2>2, ServerStep
<1>3. CASE ~mayJoin(s, p, r)
  <2>1. server' = s
    BY <1>3 DEF joinRoom
  <2> QED
    BY <1>1, <2>1, ServerStep
<1> QED
  BY <1>2, <1>3

LEMMA CreateRoomStep ==
    ASSUME Inv, NEW p \in Players, CreateRoom(p)
    PROVE  Inv'
<1>1. /\ Good(server) /\ server.created < MaxRooms
      /\ server' = joinRoom(createRoom(server), p, server.created)
      /\ p \in connected /\ UNCHANGED <<object, connected>>
  BY DEF Inv, CreateRoom, Request
<1>2. Good(createRoom(server))
  BY <1>1, CreateRoomGood
<1>3. \A q \in Characters : InRoom(createRoom(server), q) <=> InRoom(server, q)
  BY <1>1, CreateRoomGood
<1> QED
  BY <1>1, <1>2, <1>3, JoinStep

LEMMA AddRobotStep ==
    ASSUME Inv, NEW p \in Players, AddMahjongRobot(p)
    PROVE  Inv'
<1> DEFINE r == server.data[p].room
<1>1. /\ Good(server) /\ r \in Rooms(server) /\ ~isFull(server.rooms[r])
      /\ IdleRobots(server) # {} /\ server' = addRobot(server, r)
      /\ UNCHANGED <<object, connected>>
  BY DEF Inv, AddMahjongRobot, InRoom, RoomOf
<1> HIDE DEF r
<1>2. Good(server')
  BY <1>1, AddRobotGood
<1>3. \A x \in Players : InRoom(server', x) => InRoom(server, x)
  BY <1>1, AddRobotGood
<1> QED
  BY <1>1, <1>2, <1>3, ServerStep

LEMMA ReadyStep ==
    ASSUME Inv, NEW p \in Players, NEW b \in BOOLEAN, Ready(p, b)
    PROVE  Inv'
<1>1. /\ Good(server) /\ InRoom(server, p) /\ p \in Characters
      /\ server' = playerReady(server, p, b) /\ UNCHANGED <<object, connected>>
  BY DEF Inv, Ready, Characters
<1>2. Good(server')
  BY <1>1, PlayerReadyGood
<1>3. \A x \in Characters : InRoom(server', x) <=> InRoom(server, x)
  BY <1>1, PlayerReadyGood
<1>4. Players \subseteq Characters
  BY DEF Characters
<1> QED
  BY <1>1, <1>2, <1>3, <1>4, ServerStep

LEMMA ContinueUnmoved ==
    ASSUME Inv, NEW p \in Players, NEW ub \in BOOLEAN, ContinueGame(p, ub)
    PROVE  Unmoved(server, server')
<1> DEFINE r == server.data[p].room
           R == server.rooms[r]
           a == object[p]
           X == chosen(ChooseStay(R, a))
           d == [server.data[p] EXCEPT !.ready = FALSE]
           D == [server.data EXCEPT ![p] = d]
           k == ub /\ ~(R.stay \subseteq Live)
<1>1. /\ DOMAIN server = {"rooms", "data", "created", "crashed"}
      /\ server.data \in [Characters -> CharacterData]
      /\ \A q \in Rooms(server) : server.rooms[q] \in Room
      /\ InRoom(server, p) /\ r \in Rooms(server) /\ p \in Characters
  BY DEF Inv, Good, StateTypes, ContinueGame, InRoom, Characters
<1>2. a \in Objects
  BY <1>1 DEF Inv, LoggedIn
<1>3. SamePeople(R, X)
  <2>1. R \in Room
    BY <1>1
  <2> HIDE DEF R, a
  <2> QED
    BY <1>2, <2>1, ChoicesKeepPeople
<1>4. d \in CharacterData /\ d.room = server.data[p].room
      /\ d.position = server.data[p].position
  BY <1>1 DEF CharacterData
<1> HIDE DEF d
<1>5. /\ D \in [Characters -> CharacterData]
      /\ \A x \in Characters : /\ D[x].room = server.data[x].room
                               /\ D[x].position = server.data[x].position
                               /\ ~InRoom(server, x) => D[x] = server.data[x]
  BY <1>1, <1>4
<1>6. server' = [server EXCEPT !.data = D, !.rooms[r] = X, !.crashed = k]
  <2>1. server' = [server EXCEPT !.data[p].ready = FALSE, !.rooms[r] = X, !.crashed = k]
    BY DEF ContinueGame
  <2> HIDE DEF X, k, r
  <2> QED
    BY <1>1, <2>1 DEF d
<1>7. k \in BOOLEAN
  OBVIOUS
<1> HIDE DEF D, X, k, R
<1> QED
  BY <1>1, <1>3, <1>5, <1>6, <1>7 DEF Unmoved, SamePeople, Rooms, R

LEMMA QuitStep ==
    ASSUME Inv, NEW p \in Players, NEW ub \in BOOLEAN, QuitGame(p, ub)
    PROVE  Inv'
<1> DEFINE r == server.data[p].room
           a == object[p]
           s == playerLeaveRoom(server, p)
           t == [s EXCEPT !.rooms[r] = chosen(ChooseGone(@, a))]
           u == [s EXCEPT !.crashed = ub]
<1>1. /\ Good(server) /\ InRoom(server, p) /\ p \in Characters /\ a \in Objects
      /\ UNCHANGED <<object, connected>>
  BY DEF Inv, QuitGame, Characters, LoggedIn
<1>2. /\ server' = IF s.crashed THEN s ELSE IF r \in Rooms(s) THEN t ELSE u
  BY DEF QuitGame
<1> HIDE DEF s, r, a
<1>3. Good(s)
  BY <1>1, LeaveRoomGood DEF s
<1>4. \A x \in Characters : InRoom(s, x) <=> InRoom(server, x) /\ x # p
  BY <1>1, LeaveRoomGood DEF s
<1>5. /\ DOMAIN s = {"rooms", "data", "created", "crashed"} /\ s.crashed \in BOOLEAN
      /\ s.data \in [Characters -> CharacterData]
      /\ \A q \in Rooms(s) : s.rooms[q] \in Room
  BY <1>3 DEF Good, StateTypes
<1>6. ASSUME r \in Rooms(s)
      PROVE  Unmoved(s, t)
  <2> DEFINE X == chosen(ChooseGone(s.rooms[r], a))
  <2>1. SamePeople(s.rooms[r], X)
    BY <1>1, <1>5, <1>6, ChoicesKeepPeople
  <2>2. t = [s EXCEPT !.rooms[r] = X]
    BY <1>5
  <2> HIDE DEF X, t
  <2> QED
    BY <1>5, <1>6, <2>1, <2>2 DEF Unmoved, SamePeople, Rooms
<1>7. Unmoved(s, u) /\ Unmoved(s, s)
  BY <1>5 DEF Unmoved, SamePeople, Rooms
<1>8. Unmoved(s, server')
  BY <1>2, <1>6, <1>7
<1>9. Good(server')
  BY <1>3, <1>8, UnmovedGood
<1>10. \A x \in Characters : InRoom(server', x) <=> InRoom(s, x)
  BY <1>3, <1>8, UnmovedGood
<1>11. Players \subseteq Characters
  BY DEF Characters
<1> QED
  BY <1>1, <1>4, <1>9, <1>10, <1>11, ServerStep

LEMMA OfflineStep ==
    ASSUME Inv, NEW p \in Players, NotifyPlayerOffline(p)
    PROVE  Inv'
<1>1. p \in Characters /\ Players \subseteq Characters /\ Good(server)
  BY DEF Inv, Characters
<1>2. /\ Good(server')
      /\ \A x \in Characters : InRoom(server', x) <=> InRoom(server, x) /\ x # p
  <2>1. CASE InRoom(server, p)
    <3>1. server' = playerLeaveRoom(server, p)
      BY <2>1 DEF NotifyPlayerOffline
    <3>2. Good(server')
      BY <1>1, <2>1, <3>1, LeaveRoomGood
    <3>3. \A x \in Characters : InRoom(server', x) <=> InRoom(server, x) /\ x # p
      BY <1>1, <2>1, <3>1, LeaveRoomGood
    <3> QED
      BY <3>2, <3>3
  <2>2. CASE ~InRoom(server, p)
    BY <1>1, <2>2 DEF NotifyPlayerOffline
  <2> QED
    BY <2>1, <2>2
<1>3. /\ object' = [object EXCEPT ![p] = Freed] /\ connected' = connected /\ p \notin connected
      /\ object \in [Players -> Objects \cup {Freed}]
  BY DEF NotifyPlayerOffline, Inv
<1>4. \A q \in Players \ {p} : object'[q] = object[q]
  BY <1>3
<1>5. object' \in [Players -> Objects \cup {Freed}]
  BY <1>3
<1>6. \A q \in connected : object'[q] # Freed
  BY <1>3, <1>4 DEF Inv, LoggedIn
<1>7. \A q \in Players : InRoom(server', q) => object'[q] # Freed
  BY <1>1, <1>2, <1>4 DEF Inv, LoggedIn
<1> QED
  BY <1>2, <1>3, <1>5, <1>6, <1>7 DEF Inv, LoggedIn

LEMMA EndGameStep ==
    ASSUME Inv, NEW r \in Rooms(server), EndGame(r)
    PROVE  Inv'
<1> DEFINE R == server.rooms[r]
           ended == [R EXCEPT !.state = "MPS_ENDING", !.torn = FALSE]
<1>1. /\ DOMAIN server = {"rooms", "data", "created", "crashed"}
      /\ server.crashed \in BOOLEAN
      /\ server.data \in [Characters -> CharacterData]
      /\ \A q \in Rooms(server) : server.rooms[q] \in Room
      /\ R.members = {c \in Characters : server.data[c].room = r}
      /\ UNCHANGED <<object, connected>>
  BY DEF Inv, Good, StateTypes, StateSeats, EndGame
<1>2. SamePeople(R, ended)
  <2>1. R \in Room
    BY <1>1
  <2> HIDE DEF R
  <2> QED
    BY <2>1 DEF SamePeople, Room, PlayStates
<1>3. CASE server' = [server EXCEPT !.rooms[r] = ended]
  <2> HIDE DEF ended
  <2>1. Unmoved(server, server')
    BY <1>1, <1>2, <1>3 DEF Unmoved, SamePeople, Rooms
  <2> QED
    BY <1>1, <2>1, UnmovedStep
<1>4. ASSUME NEW b,
             server' = [server EXCEPT
                    !.rooms[r] = [ended EXCEPT !.lost = (b = Nobody)],
                    !.data = [c \in Characters |-> IF c \in R.members
                                THEN [server.data[c] EXCEPT !.banker = (c = b)]
                                ELSE server.data[c]]]
      PROVE  Inv'
  <2> DEFINE lost == b = Nobody
             X == [ended EXCEPT !.lost = lost]
             d(c) == [server.data[c] EXCEPT !.banker = (c = b)]
             D == [c \in Characters |-> IF c \in R.members THEN d(c) ELSE server.data[c]]
  <2>1. SamePeople(R, X)
    <3> HIDE DEF ended, lost, R
    <3>1. lost \in BOOLEAN
      BY DEF lost
    <3> QED
      <4>1. ended \in Room /\ X = [ended EXCEPT !.lost = lost]
        BY <1>2 DEF SamePeople
      <4>2. X \in Room /\ X.members = ended.members /\ X.seatOf = ended.seatOf
        BY <3>1, <4>1 DEF Room
      <4> QED
        BY <1>2, <4>2 DEF SamePeople
  <2>2. \A c \in Characters : /\ d(c) \in CharacterData
                              /\ d(c).room = server.data[c].room
                              /\ d(c).position = server.data[c].position
    <3>1. \A c \in Characters : server.data[c] \in CharacterData
      BY <1>1
    <3>2. \A c \in Characters : (c = b) \in BOOLEAN
      OBVIOUS
    <3> SUFFICES ASSUME NEW c \in Characters
                 PROVE  /\ d(c) \in CharacterData
                        /\ d(c).room = server.data[c].room
                        /\ d(c).position = server.data[c].position
      OBVIOUS
    <3> DEFINE x == server.data[c]
               f == c = b
               y == d(c)
    <3>3. x \in CharacterData /\ f \in BOOLEAN /\ y = [x EXCEPT !.banker = f]
      BY <3>1, <3>2
    <3> HIDE DEF x, f
    <3>4. /\ [x EXCEPT !.banker = f] \in CharacterData
          /\ [x EXCEPT !.banker = f].room = x.room
          /\ [x EXCEPT !.banker = f].position = x.position
      <4> HIDE DEF y, d
      <4> QED
        BY <3>3 DEF CharacterData
    <3> HIDE DEF d
    <3>5. y \in CharacterData /\ y.room = x.room /\ y.position = x.position
      <4>1. y = [x EXCEPT !.banker = f]
        BY <3>3
      <4> HIDE DEF y
      <4> QED
        BY <3>4, <4>1
    <3> QED
      BY <3>5 DEF x, y
  <2>3. server' = [server EXCEPT !.rooms[r] = X, !.data = D]
    BY <1>4
  <2> HIDE DEF d, X
  <2>4. /\ D \in [Characters -> CharacterData]
        /\ \A x \in Characters : /\ D[x].room = server.data[x].room
                                 /\ D[x].position = server.data[x].position
                                 /\ ~InRoom(server, x) => D[x] = server.data[x]
    <3>1. \A x \in Characters : x \in R.members => InRoom(server, x)
      BY <1>1 DEF InRoom
    <3> HIDE DEF R
    <3>2. \A x \in Characters : D[x] = IF x \in R.members THEN d(x) ELSE server.data[x]
      OBVIOUS
    <3>3. \A x \in Characters : D[x] \in CharacterData
      BY <1>1, <2>2, <3>2
    <3>4. D = [x \in Characters |-> D[x]]
      OBVIOUS
    <3> HIDE DEF D
    <3>5. D \in [Characters -> CharacterData]
      BY <3>3, <3>4
    <3> QED
      BY <2>2, <3>1, <3>2, <3>5
  <2> HIDE DEF D
  <2>5. Unmoved(server, server')
    BY <1>1, <2>1, <2>3, <2>4 DEF Unmoved, SamePeople, Rooms
  <2> QED
    BY <1>1, <2>5, UnmovedStep
<1> DEFINE step(b) == [server EXCEPT
                    !.rooms[r] = [ended EXCEPT !.lost = (b = Nobody)],
                    !.data = [c \in Characters |-> IF c \in R.members
                                THEN [server.data[c] EXCEPT !.banker = (c = b)]
                                ELSE server.data[c]]]
<1>5. server' = [server EXCEPT !.rooms[r] = ended] \/ \E b \in NextBankers(R) : server' = step(b)
  BY DEF EndGame
<1>6. \A b : server' = step(b) => Inv'
  BY <1>4
<1> HIDE DEF step
<1> QED
  BY <1>3, <1>5, <1>6

LEMMA InvStep == Inv /\ [Next]_vars => Inv'
<1> SUFFICES ASSUME Inv, [Next]_vars PROVE Inv'
  OBVIOUS
<1>1. ASSUME NEW p \in Players, Login(p) PROVE Inv'
  BY <1>1, LoginStep
<1>2. ASSUME NEW p \in Players, CreateRoom(p) PROVE Inv'
  BY <1>2, CreateRoomStep
<1>3. ASSUME NEW p \in Players, AddMahjongRobot(p) PROVE Inv'
  BY <1>3, AddRobotStep
<1>4. ASSUME NEW p \in Players, LeaveRequest(p) PROVE Inv'
  BY <1>4, CrashStep DEF LeaveRequest
<1>5. ASSUME NEW p \in Players, Disconnect(p) PROVE Inv'
  BY <1>5 DEF Disconnect, Inv, LoggedIn, Request
<1>6. ASSUME NEW p \in Players, NEW r \in Rooms(server), JoinRoom(p, r) PROVE Inv'
  BY <1>6, JoinStep DEF JoinRoom, Request, Inv
<1>7. ASSUME NEW p \in Players, NEW b \in BOOLEAN, Ready(p, b) PROVE Inv'
  BY <1>7, ReadyStep
<1>8. ASSUME NEW p \in Players, NEW b \in BOOLEAN, ContinueGame(p, b) PROVE Inv'
  BY <1>8, ContinueUnmoved, UnmovedStep DEF ContinueGame
<1>9. ASSUME NEW p \in Players, NEW b \in BOOLEAN, QuitGame(p, b) PROVE Inv'
  BY <1>9, QuitStep
<1>10. ASSUME NEW r \in Rooms(server), EndGame(r) PROVE Inv'
  BY <1>10, EndGameStep
<1>11. ASSUME NEW r \in Rooms(server), PlayBreaks(r) PROVE Inv'
  BY <1>11, CrashStep DEF PlayBreaks
<1>12. ASSUME NEW p \in Players, NotifyPlayerOffline(p) PROVE Inv'
  BY <1>12, OfflineStep
<1>13. CASE UNCHANGED vars
  BY <1>13 DEF vars, Inv, LoggedIn
<1> QED
  BY <1>1, <1>2, <1>3, <1>4, <1>5, <1>6, <1>7, <1>8, <1>9, <1>10, <1>11, <1>12, <1>13
     DEF Next, Step

LEMMA Invariant == Spec => []Inv
<1> QED
  BY InvInit, InvStep, PTL DEF Spec

----------------------------------------------------------------------------
(* Theorems *)

\* However players log in, join, leave and go offline, rooms, characters and
\* connections keep their shape; no room holds more members than seats.
THEOREM LobbyTypes == Spec => []TypeOK
<1>1. Inv => TypeOK
  BY DEF Inv, Good, StateTypes, TypeOK
<1> QED
  BY <1>1, Invariant, PTL

\* What the invariant says of the rooms.
LEMMA InvAgrees ==
    ASSUME Inv
    PROVE  SeatsAgree
<1>1. ASSUME NEW r \in Rooms(server), NEW p \in server.rooms[r].members \cap Players
      PROVE  LoggedIn(p)
  BY <1>1 DEF Inv, Good, StateSeats, InRoom
<1>2. \A r \in Rooms(server) :
        /\ server.rooms[r].members = {c \in Characters : server.data[c].room = r}
        /\ \A c \in server.rooms[r].members, i \in Seats :
              server.rooms[r].seatOf[i] = c <=> server.data[c].position = i
        /\ \A i \in Seats : server.rooms[r].seatOf[i] \in server.rooms[r].members \cup {Nobody}
  BY DEF Inv, Good, StateSeats
<1>3. \A c \in Characters : ~InRoom(server, c) => server.data[c] = NoData
  BY DEF Inv, Good, StateSeats
<1> QED
  BY <1>1, <1>2, <1>3 DEF SeatsAgree

\* A room's list of players, its seats, and every character's own room and position
\* never disagree, and no room keeps a character that was freed.
THEOREM RoomsAgree == Spec => []SeatsAgree
<1> QED
  BY InvAgrees, Invariant, PTL

----------------------------------------------------------------------------
(* However players come and go, the banker of a room is handed on, and a room  *)
(* lives as long as it has a client.                                           *)

(* A room has one banker, whom its banker seat names while it waits for a hand; d is *)
(* the data of the characters.                                                        *)
BankedRoom(R, d) ==
    /\ R.members = {} => ~R.lost
    /\ R.lost => \A c \in R.members : ~d[c].banker
    /\ ~R.lost /\ R.members # {} =>
          \E x \in R.members : \A c \in R.members : d[c].banker <=> c = x
    /\ R.state = "MPS_WAITING" =>
          \/ R.bankerPos = -1
          \/ /\ R.bankerPos \in Seats
             /\ R.seatOf[R.bankerPos] \in R.members
             /\ d[R.seatOf[R.bankerPos]].banker

Banked(s) == \A r \in Rooms(s) : BankedRoom(s.rooms[r], s.data)

\* Nobody that is in a room leaves it.
Stays(s, t) == \A x \in Characters : InRoom(s, x) => t.data[x].room = s.data[x].room

----------------------------------------------------------------------------
(* Operations *)

\* A room nobody joined or left is unaffected by what happens to others.
LEMMA OtherRoom ==
    ASSUME NEW R, NEW d, NEW e, BankedRoom(R, d),
           \A c \in R.members : e[c].banker <=> d[c].banker
    PROVE  BankedRoom(R, e)
<1>1. R.lost => \A c \in R.members : ~e[c].banker
  BY DEF BankedRoom
<1>2. ~R.lost /\ R.members # {} =>
         \E x \in R.members : \A c \in R.members : e[c].banker <=> c = x
  BY DEF BankedRoom
<1>3. R.state = "MPS_WAITING" =>
          \/ R.bankerPos = -1
          \/ /\ R.bankerPos \in Seats
             /\ R.seatOf[R.bankerPos] \in R.members
             /\ e[R.seatOf[R.bankerPos]].banker
  BY DEF BankedRoom
<1> QED
  BY <1>1, <1>2, <1>3 DEF BankedRoom

\* The first character in a room becomes its banker, the next ones do not.
LEMMA JoinRoomBanks ==
    ASSUME NEW s, Good(s), NEW c \in Characters, NEW r, mayJoin(s, c, r)
    PROVE  /\ Stays(s, joinRoom(s, c, r))
           /\ Banked(s) => Banked(joinRoom(s, c, r))
<1> DEFINE t == joinRoom(s, c, r)
           R == s.rooms[r]
           X == JoinedRoom(R, c)
           D == [s.data EXCEPT ![c] = JoinedData(s.data[c], R, c, r)]
<1>1. /\ r \in Rooms(s) /\ ~isFull(R) /\ c \notin R.members /\ ~InRoom(s, c)
      /\ R \in Room
  BY MembersFinite DEF mayJoin, Good
<1>2. SeatFor(R) \in Seats /\ R.seatOf[SeatFor(R)] = Nobody
  BY <1>1, SeatForFree
<1>3. t = [s EXCEPT !.rooms[r] = X, !.data = D]
  <2>1. joinRoom(s, c, r) = JoinedState(s, c, r)
    BY JoinRoomIs
  <2>2. DOMAIN s = {"rooms", "data", "created", "crashed"}
    BY DEF Good, StateTypes
  <2>3. t = [s EXCEPT !.rooms[r] = X, !.data[c] = JoinedData(s.data[c], R, c, r)]
    BY <2>1 DEF JoinedState
  <2> HIDE DEF t, R, X
  <2> QED
    BY <2>2, <2>3
<1>4. /\ X.members = R.members \cup {c}
      /\ \A i \in Seats : X.seatOf[i] = IF i = SeatFor(R) THEN c ELSE R.seatOf[i]
  BY <1>1, <1>2, JoinedRoomIs
<1>5. /\ X.lost = R.lost
      /\ R.members = {} => X.bankerPos = SeatFor(R)
      /\ R.members # {} => X.bankerPos = R.bankerPos /\ X.state = R.state
  <2>1. OnlyOne(R, c) <=> R.members = {}
    BY <1>1 DEF OnlyOne
  <2> HIDE DEF R
  <2> QED
    BY <1>1, <2>1 DEF JoinedRoom, Seated, reset, Room
<1>6. /\ s.data \in [Characters -> CharacterData]
      /\ \A x \in Characters \ {c} : D[x] = s.data[x]
      /\ D[c].banker <=> R.members = {}
  <2>1. s.data \in [Characters -> CharacterData]
    BY DEF Good, StateTypes
  <2>2. OnlyOne(R, c) <=> R.members = {}
    BY <1>1 DEF OnlyOne
  <2>3. JoinedData(s.data[c], R, c, r).banker = OnlyOne(R, c)
    BY <2>1 DEF JoinedData, CharacterData
  <2> QED
    BY <2>1, <2>2, <2>3
<1> HIDE DEF X, D, t
<1>7. /\ Rooms(t) = Rooms(s)
      /\ \A q \in Rooms(s) : t.rooms[q] = IF q = r THEN X ELSE s.rooms[q]
      /\ t.data = D
  BY <1>1, <1>3 DEF Good, StateTypes, Rooms
<1>8. Stays(s, t)
  BY <1>1, <1>6, <1>7 DEF Stays
<1>9. ASSUME Banked(s), NEW q \in Rooms(t)
      PROVE  BankedRoom(t.rooms[q], t.data)
  <2>1. /\ q \in Rooms(s) /\ BankedRoom(s.rooms[q], s.data)
        /\ s.rooms[q].members = {x \in Characters : s.data[x].room = q}
    BY <1>7, <1>9 DEF Banked, Good, StateSeats
  <2>2. CASE q # r
    <3>1. t.rooms[q] = s.rooms[q]
      BY <1>7, <2>1, <2>2
    <3>2. \A x \in s.rooms[q].members : t.data[x].banker <=> s.data[x].banker
      BY <1>1, <1>6, <1>7, <2>1 DEF InRoom
    <3> QED
      BY <2>1, <3>1, <3>2, OtherRoom
  <2>3. CASE q = r /\ R.members = {}
    <3>1. t.rooms[q] = X /\ t.data[c].banker /\ X.members = {c}
      BY <1>4, <1>6, <1>7, <2>3
    <3>2. ~X.lost
      BY <1>5, <2>1, <2>3 DEF BankedRoom
    <3>3. X.bankerPos \in Seats /\ X.seatOf[X.bankerPos] = c
      BY <1>2, <1>4, <1>5, <2>3
    <3> QED
      BY <3>1, <3>2, <3>3 DEF BankedRoom
  <2>4. CASE q = r /\ R.members # {}
    <3>1. t.rooms[q] = X /\ ~t.data[c].banker
      BY <1>6, <1>7, <2>1, <2>4
    <3>2. \A x \in R.members : t.data[x].banker <=> s.data[x].banker
      BY <1>1, <1>6, <1>7, <2>1, <2>4
    <3>3. BankedRoom(R, s.data)
      BY <2>1, <2>4
    <3>4. X.lost => \A x \in X.members : ~t.data[x].banker
      BY <1>4, <1>5, <3>1, <3>2, <3>3 DEF BankedRoom
    <3>5. ~X.lost => \E y \in X.members : \A x \in X.members : t.data[x].banker <=> x = y
      <4> SUFFICES ASSUME ~X.lost
                   PROVE  \E y \in X.members : \A x \in X.members : t.data[x].banker <=> x = y
        OBVIOUS
      <4>1. PICK y \in R.members : \A x \in R.members : s.data[x].banker <=> x = y
        BY <1>5, <2>4, <3>3 DEF BankedRoom
      <4>2. \A x \in X.members : t.data[x].banker <=> x = y
        BY <1>1, <1>4, <3>1, <3>2, <4>1
      <4> QED
        BY <1>4, <4>1, <4>2
    <3>6. ASSUME X.state = "MPS_WAITING", X.bankerPos # -1
          PROVE  /\ X.bankerPos \in Seats
                 /\ X.seatOf[X.bankerPos] \in X.members
                 /\ t.data[X.seatOf[X.bankerPos]].banker
      <4>1. /\ X.bankerPos \in Seats
            /\ R.seatOf[X.bankerPos] \in R.members
            /\ s.data[R.seatOf[X.bankerPos]].banker
        BY <1>5, <2>4, <3>3, <3>6 DEF BankedRoom
      <4>2. X.bankerPos # SeatFor(R)
        BY <1>2, <2>1, <2>4, <4>1, LobbyAssumption
      <4>3. X.seatOf[X.bankerPos] = R.seatOf[X.bankerPos]
        BY <1>4, <4>1, <4>2
      <4> QED
        BY <1>4, <3>2, <4>1, <4>3
    <3>7. X.members # {}
      BY <1>4
    <3> QED
      BY <3>1, <3>4, <3>5, <3>6, <3>7 DEF BankedRoom
  <2> QED
    BY <2>2, <2>3, <2>4
<1> QED
  BY <1>8, <1>9 DEF Banked, t

\* A banker that leaves hands over to one of those that stay; if no client is left
\* the room is gone, or the server with it.
LEMMA LeaveRoomBanks ==
    ASSUME NEW s, Good(s), NEW c \in Characters, InRoom(s, c)
    PROVE  /\ \A x \in Characters \ {c} :
                 playerLeaveRoom(s, c).data[x].room = s.data[x].room
           /\ s.data[c].room \in Rooms(playerLeaveRoom(s, c)) =>
                 \/ playerLeaveRoom(s, c).crashed
                 \/ \E p \in Players : playerLeaveRoom(s, c).data[p].room = s.data[c].room
           /\ Banked(s) => Banked(playerLeaveRoom(s, c))
<1> DEFINE t == playerLeaveRoom(s, c)
           r == s.data[c].room
           R == s.rooms[r]
           pos == s.data[c].position
           L == LeftRoom(R, pos, c)
           D == LeftData(s, c, L)
           X == HandedOver(s, c, L)
           hand == handsOver(s, c, L)
           heir == HeirSeat(s, c, L)
<1>0. r = s.data[c].room /\ L = LeftRoom(s.rooms[r], s.data[c].position, c)
  OBVIOUS
<1>1. /\ r \in Rooms(s) /\ R \in Room /\ c \in R.members /\ pos \in Seats
      /\ L \in Room /\ L.members = R.members \ {c}
      /\ \A i \in Seats : L.seatOf[i] = IF i = pos THEN Nobody ELSE R.seatOf[i]
      /\ hand => heir \in Seats /\ L.seatOf[heir] \in L.members
  <2> HIDE DEF L, r
  <2>1. Leaving(s, c, r, L)
    BY <1>0, LeavingFacts
  <2> QED
    BY <2>1 DEF Leaving
<1>2. L.state = R.state /\ L.bankerPos = R.bankerPos /\ L.lost = R.lost
  <2>1. L = LeftRoom(R, pos, c)
    OBVIOUS
  <2> HIDE DEF L, R, pos
  <2> QED
    BY <1>1, <2>1, LeftRoomIs
<1>3. t = LeftState(s, c, r, L)
  <2> HIDE DEF L, r
  <2> QED
    BY <1>0, LeaveRoomIs
<1>4. /\ D \in [Characters -> CharacterData]
      /\ \A x \in Characters \ {c} : /\ D[x].room = s.data[x].room
                                     /\ D[x].banker <=> s.data[x].banker \/ (hand /\ x = L.seatOf[heir])
                                     /\ ~InRoom(s, x) => D[x] = s.data[x]
  <2> HIDE DEF L, r
  <2>1. OthersStay(s, c, L)
    BY <1>0, LeftDataIs
  <2> QED
    BY <2>1 DEF OthersStay
<1>5. /\ X.members = L.members /\ X.seatOf = L.seatOf /\ X.state = L.state /\ X.lost = L.lost
      /\ X.bankerPos = IF hand THEN heir ELSE L.bankerPos
  <2> DEFINE Y == [L EXCEPT !.bankerPos = heir]
  <2>1. X = IF hand THEN Y ELSE L
    BY DEF HandedOver
  <2>2. /\ Y.members = L.members /\ Y.seatOf = L.seatOf /\ Y.state = L.state
        /\ Y.lost = L.lost /\ Y.bankerPos = heir
    <3> HIDE DEF L, heir
    <3> QED
      BY <1>1 DEF Room
  <2> HIDE DEF L, X, Y, hand, heir
  <2> QED
    BY <2>1, <2>2
<1>6. hand <=> s.data[c].banker /\ L.members # {}
  BY DEF handsOver
<1>7. s.rooms[r].members = {x \in Characters : s.data[x].room = r}
  BY <1>1 DEF Good, StateSeats
<1> HIDE DEF t, D, X, hand, heir, L
<1>8. /\ t.data = D
      /\ Rooms(t) = IF L.members = {} THEN Rooms(s) \ {r} ELSE Rooms(s)
      /\ \A q \in Rooms(t) : t.rooms[q] = IF q = r THEN X ELSE s.rooms[q]
      /\ L.members # {} => (t.crashed <=> ~HasClient(L))
  <2>1. DOMAIN s = {"rooms", "data", "created", "crashed"} /\ s.crashed \in BOOLEAN
    BY DEF Good, StateTypes
  <2>2. CASE L.members = {}
    BY <1>3, <2>1, <2>2 DEF Rooms, LeftState, D
  <2>3. CASE L.members # {}
    <3> DEFINE k == ~HasClient(L)
    <3>1. t = [s EXCEPT !.data = D, !.rooms[r] = X, !.crashed = k]
      BY <1>3, <2>3 DEF LeftState, D, X
    <3> HIDE DEF r
    <3>2. /\ t.data = D /\ Rooms(t) = Rooms(s)
          /\ \A q \in Rooms(t) : t.rooms[q] = IF q = r THEN X ELSE s.rooms[q]
      BY <1>1, <2>1, <3>1 DEF Rooms
    <3>3. t.crashed = k
      <4> HIDE DEF k
      <4> QED
        BY <2>1, <3>1
    <3> QED
      BY <2>3, <3>2, <3>3
  <2> QED
    BY <2>2, <2>3
<1> HIDE DEF r, R
<1>9. \A x \in Characters \ {c} : t.data[x].room = s.data[x].room
  BY <1>4, <1>8
<1>10. ASSUME r \in Rooms(t), ~t.crashed
       PROVE  \E p \in Players : t.data[p].room = r
  <2>1. HasClient(L)
    BY <1>8, <1>10
  <2>2. PICK p \in Players : p \in L.members
    BY <2>1 DEF HasClient
  <2>3. p \in Characters \ {c} /\ s.data[p].room = r
    BY <1>1, <1>7, <2>2 DEF R
  <2> QED
    BY <1>9, <2>3
<1>11. ASSUME Banked(s), NEW q \in Rooms(t)
       PROVE  BankedRoom(t.rooms[q], t.data)
  <2>1. /\ q \in Rooms(s) /\ BankedRoom(s.rooms[q], s.data)
        /\ s.rooms[q].members = {x \in Characters : s.data[x].room = q}
    BY <1>8, <1>11 DEF Banked, Good, StateSeats
  <2>2. CASE q # r
    <3>1. t.rooms[q] = s.rooms[q]
      BY <1>8, <2>2
    <3>2. \A x \in s.rooms[q].members : x \in Characters \ {c} /\ x \notin L.members
      BY <1>1, <1>7, <2>1, <2>2 DEF R, r
    <3>3. \A x \in s.rooms[q].members : t.data[x].banker <=> s.data[x].banker
      BY <1>1, <1>4, <1>8, <3>2
    <3> QED
      BY <2>1, <3>1, <3>3, OtherRoom
  <2>3. CASE q = r
    <3>1. L.members # {} /\ t.rooms[q] = X /\ t.data = D /\ BankedRoom(R, s.data)
      BY <1>8, <2>1, <2>3 DEF R
    <3>2. L.members \subseteq Characters \ {c} /\ L.members \subseteq R.members
      BY <1>1, <1>7 DEF R
    <3>3. CASE s.data[c].banker
      <4>1. /\ hand /\ X.bankerPos \in Seats /\ X.seatOf[X.bankerPos] \in X.members
            /\ X.seatOf[X.bankerPos] = L.seatOf[heir]
        BY <1>1, <1>5, <1>6, <3>1, <3>3
      <4>2. ~R.lost
        BY <1>1, <3>1, <3>3 DEF BankedRoom
      <4>3. \A x \in L.members : ~s.data[x].banker
        <5>1. \E y \in R.members : \A x \in R.members : s.data[x].banker <=> x = y
          BY <1>1, <3>1, <4>2 DEF BankedRoom
        <5> QED
          BY <1>1, <3>2, <3>3, <5>1
      <4>4. \A x \in X.members : D[x].banker <=> x = X.seatOf[X.bankerPos]
        BY <1>4, <1>5, <3>2, <4>1, <4>3
      <4>5. ~X.lost /\ X.members # {}
        BY <1>2, <1>5, <3>1, <4>2
      <4> QED
        BY <3>1, <4>1, <4>4, <4>5 DEF BankedRoom
    <3>4. CASE ~s.data[c].banker
      <4>1. ~hand /\ X.bankerPos = R.bankerPos /\ X.state = R.state /\ X.lost = R.lost
            /\ X.members = L.members /\ X.members # {}
        BY <1>2, <1>5, <1>6, <3>1, <3>4
      <4>2. \A x \in L.members : D[x].banker <=> s.data[x].banker
        BY <1>4, <3>2, <4>1
      <4>3. X.lost => \A x \in X.members : ~D[x].banker
        BY <3>1, <3>2, <4>1, <4>2 DEF BankedRoom
      <4>4. ~X.lost => \E y \in X.members : \A x \in X.members : D[x].banker <=> x = y
        <5> SUFFICES ASSUME ~X.lost
                     PROVE  \E y \in X.members : \A x \in X.members : D[x].banker <=> x = y
          OBVIOUS
        <5>1. PICK y \in R.members : \A x \in R.members : s.data[x].banker <=> x = y
          BY <1>1, <3>1, <4>1 DEF BankedRoom
        <5>2. y \in L.members
          BY <1>1, <3>4, <5>1
        <5> QED
          BY <3>2, <4>1, <4>2, <5>1, <5>2
      <4>5. ASSUME X.state = "MPS_WAITING", X.bankerPos # -1
            PROVE  /\ X.bankerPos \in Seats
                   /\ X.seatOf[X.bankerPos] \in X.members
                   /\ D[X.seatOf[X.bankerPos]].banker
        <5>1. /\ X.bankerPos \in Seats
              /\ R.seatOf[X.bankerPos] \in R.members
              /\ s.data[R.seatOf[X.bankerPos]].banker
          BY <3>1, <4>1, <4>5 DEF BankedRoom
        <5>2. R.seatOf[pos] = c
          BY <1>1 DEF Good, StateSeats, R
        <5>3. X.bankerPos # pos
          BY <3>4, <5>1, <5>2
        <5>4. X.seatOf[X.bankerPos] = R.seatOf[X.bankerPos]
          BY <1>1, <1>5, <5>1, <5>3
        <5>5. R.seatOf[X.bankerPos] \in L.members
          BY <1>1, <3>4, <5>1
        <5> QED
          BY <4>1, <4>2, <5>1, <5>4, <5>5
      <4> QED
        BY <3>1, <4>1, <4>3, <4>4, <4>5 DEF BankedRoom
    <3> QED
      BY <3>3, <3>4
  <2> QED
    BY <2>2, <2>3
<1> QED
  BY <1>9, <1>10, <1>11 DEF Banked, t, r

\* A new room is empty and has no banker yet.
LEMMA CreateRoomBanks ==
    ASSUME NEW s, Good(s), s.created < MaxRooms
    PROVE  /\ createRoom(s).data = s.data
           /\ Banked(s) => Banked(createRoom(s))
<1> DEFINE n == s.created
           t == createRoom(s)
<1>1. DOMAIN s = {"rooms", "data", "created", "crashed"} /\ n \notin Rooms(s)
  BY LobbyFacts DEF Good, StateTypes, StateNumbers
<1>2. /\ Rooms(t) = Rooms(s) \cup {n}
      /\ \A q \in Rooms(s) : t.rooms[q] = s.rooms[q]
      /\ t.rooms[n] = NewRoom /\ t.data = s.data
  BY <1>1 DEF createRoom, Rooms
<1>3. BankedRoom(NewRoom, s.data)
  BY DEF BankedRoom, NewRoom
<1> HIDE DEF t, n
<1>4. Banked(s) => Banked(t)
  BY <1>2, <1>3 DEF Banked
<1> QED
  BY <1>2, <1>4 DEF t

\* Operations that move nobody and make nobody a banker.
SameBank(R, S) ==
    /\ S.lost = R.lost
    /\ S.state = "MPS_WAITING" =>
          S.bankerPos = -1 \/ (R.state = "MPS_WAITING" /\ S.bankerPos = R.bankerPos)
NoBankerChange(s, t) ==
    /\ Unmoved(s, t)
    /\ \A r \in Rooms(s) : SameBank(s.rooms[r], t.rooms[r])
    /\ \A x \in Characters : t.data[x].banker <=> s.data[x].banker

LEMMA UnmovedBanks ==
    ASSUME NEW s, Good(s), NEW t, NoBankerChange(s, t)
    PROVE  Stays(s, t) /\ (Banked(s) => Banked(t))
<1>1. Stays(s, t)
  BY DEF Stays, NoBankerChange, Unmoved
<1>2. ASSUME Banked(s), NEW r \in Rooms(t)
      PROVE  BankedRoom(t.rooms[r], t.data)
  <2> DEFINE R == s.rooms[r]
             S == t.rooms[r]
  <2>1. /\ r \in Rooms(s) /\ BankedRoom(R, s.data)
        /\ S.members = R.members /\ S.seatOf = R.seatOf
        /\ SameBank(R, S) /\ R.members \subseteq Characters
    BY <1>2, MembersFinite DEF Banked, NoBankerChange, Unmoved, SamePeople, Good
  <2>2. BankedRoom(R, t.data)
    <3>1. \A x \in R.members : t.data[x].banker <=> s.data[x].banker
      BY <2>1 DEF NoBankerChange
    <3> HIDE DEF R
    <3> QED
      BY <2>1, <3>1, OtherRoom
  <2> HIDE DEF R, S
  <2>3. BankedRoom(S, t.data)
    BY <2>1, <2>2 DEF BankedRoom, SameBank
  <2> QED
    BY <2>3 DEF S
<1> QED
  BY <1>1, <1>2 DEF Banked

LEMMA ChoicesKeepBank ==
    ASSUME NEW R \in Room, NEW a \in Objects
    PROVE  /\ SameBank(R, chosen(ChooseStay(R, a)))
           /\ SameBank(R, chosen(ChooseGone(R, a)))
<1>1. ASSUME NEW S \in Room, S.lost = R.lost, S.state = R.state, S.bankerPos = R.bankerPos
      PROVE  SameBank(R, chosen(S))
  <2>1. reset(S).lost = R.lost /\ reset(S).bankerPos = -1
    BY <1>1 DEF reset, Room
  <2> QED
    BY <1>1, <2>1 DEF SameBank, chosen
<1> DEFINE X == ChooseStay(R, a)
           Y == ChooseGone(R, a)
<1>2. /\ X \in Room /\ X.lost = R.lost /\ X.state = R.state /\ X.bankerPos = R.bankerPos
      /\ Y \in Room /\ Y.lost = R.lost /\ Y.state = R.state /\ Y.bankerPos = R.bankerPos
  BY DEF ChooseStay, ChooseGone, Room
<1> HIDE DEF X, Y
<1> QED
  BY <1>1, <1>2 DEF X, Y

LEMMA ReadyBanks ==
    ASSUME NEW s, Good(s), NEW c \in Characters, InRoom(s, c), NEW b \in BOOLEAN
    PROVE  NoBankerChange(s, [s EXCEPT !.data[c].ready = b])
<1> DEFINE t == [s EXCEPT !.data[c].ready = b]
<1>1. DOMAIN s = {"rooms", "data", "created", "crashed"}
      /\ s.data \in [Characters -> CharacterData]
  BY DEF Good, StateTypes
<1>2. t.rooms = s.rooms /\ \A x \in Characters : t.data[x].banker <=> s.data[x].banker
  BY <1>1 DEF CharacterData
<1>3. Unmoved(s, t)
  BY ReadyUnmoved
<1> HIDE DEF t
<1> QED
  BY <1>2, <1>3 DEF NoBankerChange, SameBank, t

LEMMA StartBanks ==
    ASSUME NEW s, Good(s), NEW r \in Rooms(s)
    PROVE  NoBankerChange(s, startGame(s, r))
<1> DEFINE t == startGame(s, r)
           X == [s.rooms[r] EXCEPT !.state = "PLAYING"]
           D == [c \in Characters |-> IF c \in s.rooms[r].members
                                      THEN [s.data[c] EXCEPT !.ready = FALSE]
                                      ELSE s.data[c]]
<1>1. DOMAIN s = {"rooms", "data", "created", "crashed"}
      /\ s.data \in [Characters -> CharacterData]
      /\ s.rooms[r] \in Room
  BY DEF Good, StateTypes
<1>2. t = [s EXCEPT !.rooms[r] = X, !.data = D]
  BY <1>1 DEF startGame
<1>3. \A x \in Characters : D[x].banker <=> s.data[x].banker
  BY <1>1 DEF CharacterData
<1>4. X.lost = s.rooms[r].lost /\ X.state = "PLAYING"
  BY <1>1 DEF Room
<1>5. Unmoved(s, t)
  BY StartUnmoved
<1> HIDE DEF t, X, D
<1>6. /\ t.data = D
      /\ \A q \in Rooms(s) : t.rooms[q] = IF q = r THEN X ELSE s.rooms[q]
  BY <1>1, <1>2 DEF Rooms
<1> QED
  BY <1>3, <1>4, <1>5, <1>6 DEF NoBankerChange, SameBank, t

LEMMA PlayerReadyBanks ==
    ASSUME NEW s, Good(s), NEW c \in Characters, InRoom(s, c), NEW b \in BOOLEAN
    PROVE  Stays(s, playerReady(s, c, b)) /\ (Banked(s) => Banked(playerReady(s, c, b)))
<1> DEFINE t == [s EXCEPT !.data[c].ready = b]
           r == s.data[c].room
<1>1. NoBankerChange(s, t)
  BY ReadyBanks
<1> HIDE DEF t
<1>2. Good(t) /\ r \in Rooms(t)
  <2>1. Unmoved(s, t) /\ r \in Rooms(t)
    BY <1>1 DEF NoBankerChange, Unmoved, InRoom
  <2> QED
    BY <2>1, UnmovedGood
<1>3. Stays(s, t) /\ (Banked(s) => Banked(t))
  BY <1>1, UnmovedBanks
<1>4. Stays(t, startGame(t, r)) /\ (Banked(t) => Banked(startGame(t, r)))
  BY <1>2, StartBanks, UnmovedBanks
<1>5. Stays(s, startGame(t, r))
  BY <1>1, <1>3, <1>4 DEF Stays, InRoom, NoBankerChange, Unmoved
<1>6. playerReady(s, c, b) \in {t, startGame(t, r)}
  BY DEF playerReady, t
<1> QED
  BY <1>3, <1>4, <1>5, <1>6

LEMMA AddRobotBanks ==
    ASSUME NEW s, Good(s), NEW r \in Rooms(s), ~isFull(s.rooms[r]), IdleRobots(s) # {}
    PROVE  Stays(s, addRobot(s, r)) /\ (Banked(s) => Banked(addRobot(s, r)))
<1> DEFINE b == Least(IdleRobots(s))
           t == joinRoom(s, b, r)
           u == [t EXCEPT !.data[b].ready = TRUE]
<1>1. b \in Characters /\ s.data[b].room = INVALID_INT_ID
  <2>1. IdleRobots(s) \subseteq Nat
    BY LobbyAssumption DEF IdleRobots
  <2>2. b \in IdleRobots(s)
    BY <2>1, LeastIsLeast
  <2> QED
    BY <2>2 DEF IdleRobots, Characters
<1> HIDE DEF b
<1>2. mayJoin(s, b, r)
  <2>1. INVALID_INT_ID \notin Rooms(s)
    BY LobbyFacts DEF Good, StateTypes
  <2>2. s.rooms[r].members = {c \in Characters : s.data[c].room = r}
    BY DEF Good, StateSeats
  <2> QED
    BY <1>1, <2>1, <2>2 DEF mayJoin, InRoom
<1>3. Good(t)
  BY <1>1, <1>2, JoinRoomGood
<1>4. (\A x \in Characters : InRoom(t, x) <=> InRoom(s, x) \/ x = b)
  BY <1>1, <1>2, JoinRoomGood
<1>5. Stays(s, t) /\ (Banked(s) => Banked(t))
  BY <1>1, <1>2, JoinRoomBanks
<1> HIDE DEF t
<1>6. NoBankerChange(t, u)
  BY <1>1, <1>3, <1>4, ReadyBanks
<1> HIDE DEF u
<1>7. Stays(t, u) /\ (Banked(t) => Banked(u))
  BY <1>3, <1>6, UnmovedBanks
<1>8. Stays(s, u)
  BY <1>4, <1>5, <1>7 DEF Stays
<1>9. addRobot(s, r) = u
  BY DEF addRobot, u, t, b
<1> QED
  BY <1>5, <1>7, <1>8, <1>9


----------------------------------------------------------------------------
(* Steps *)

\* A room that a client was in, and that is still there, has a client in it.
ClientStays ==
    \A r \in Rooms(server), p \in Players :
        server.data[p].room = r /\ r \in Rooms(server') /\ ~server'.crashed =>
            \E q \in Players : server'.data[q].room = r

Kept == ClientStays /\ (Banked(server) => Banked(server'))

LEMMA StaysKeeps ==
    ASSUME Stays(server, server')
    PROVE  ClientStays
BY DEF Stays, ClientStays, InRoom, Characters

LEMMA NoBankerStep ==
    ASSUME Inv, NoBankerChange(server, server')
    PROVE  Kept
<1>1. Stays(server, server') /\ (Banked(server) => Banked(server'))
  BY UnmovedBanks DEF Inv
<1> QED
  BY <1>1, StaysKeeps DEF Kept

LEMMA SameServerKept ==
    ASSUME Inv, server' = server \/ server' = [server EXCEPT !.crashed = TRUE]
    PROVE  Kept
<1>1. Rooms(server') = Rooms(server) /\ server'.rooms = server.rooms /\ server'.data = server.data
  BY DEF Inv, Good, StateTypes, Rooms
<1>2. Stays(server, server') /\ (Banked(server) => Banked(server'))
  BY <1>1 DEF Stays, Banked
<1> QED
  BY <1>2, StaysKeeps DEF Kept

LEMMA JoinKept ==
    ASSUME Inv, NEW p \in Players, NEW s, Good(s), s.data = server.data,
           \A q \in Characters : InRoom(server, q) => InRoom(s, q),
           Banked(server) => Banked(s),
           NEW r, server' = joinRoom(s, p, r)
    PROVE  Kept
<1>1. p \in Characters
  BY DEF Characters
<1>2. Stays(s, server') /\ (Banked(s) => Banked(server'))
  <2>1. CASE mayJoin(s, p, r)
    BY <1>1, <2>1, JoinRoomBanks
  <2>2. CASE ~mayJoin(s, p, r)
    BY <2>2 DEF joinRoom, Stays
  <2> QED
    BY <2>1, <2>2
<1>3. Stays(server, server')
  BY <1>2 DEF Stays
<1> QED
  BY <1>2, <1>3, StaysKeeps DEF Kept

LEMMA CreateRoomKept ==
    ASSUME Inv, NEW p \in Players, CreateRoom(p)
    PROVE  Kept
<1> DEFINE s == createRoom(server)
<1>1. /\ Good(server) /\ server.created < MaxRooms
      /\ server' = joinRoom(s, p, server.created)
  BY DEF Inv, CreateRoom
<1>2. Good(s) /\ \A q \in Characters : InRoom(s, q) <=> InRoom(server, q)
  <2>1. \A q \in Characters : InRoom(s, q) <=> InRoom(server, q)
    BY <1>1, CreateRoomGood
  <2> QED
    BY <1>1, <2>1, CreateRoomGood
<1>3. s.data = server.data /\ (Banked(server) => Banked(s))
  BY <1>1, CreateRoomBanks
<1> HIDE DEF s
<1> QED
  BY <1>1, <1>2, <1>3, JoinKept

LEMMA AddRobotKept ==
    ASSUME Inv, NEW p \in Players, AddMahjongRobot(p)
    PROVE  Kept
<1> DEFINE r == server.data[p].room
<1>1. /\ Good(server) /\ r \in Rooms(server) /\ ~isFull(server.rooms[r])
      /\ IdleRobots(server) # {} /\ server' = addRobot(server, r)
  BY DEF Inv, AddMahjongRobot, InRoom, RoomOf
<1> HIDE DEF r
<1>2. Stays(server, server') /\ (Banked(server) => Banked(server'))
  BY <1>1, AddRobotBanks
<1> QED
  BY <1>2, StaysKeeps DEF Kept

LEMMA ReadyKept ==
    ASSUME Inv, NEW p \in Players, NEW b \in BOOLEAN, Ready(p, b)
    PROVE  Kept
<1>1. /\ Good(server) /\ InRoom(server, p) /\ p \in Characters
      /\ server' = playerReady(server, p, b)
  BY DEF Inv, Ready, Characters
<1>2. Stays(server, server') /\ (Banked(server) => Banked(server'))
  BY <1>1, PlayerReadyBanks
<1> QED
  BY <1>2, StaysKeeps DEF Kept

\* A choice, with or without a character that gets unready, or a crash with it.
LEMMA RoomChange ==
    ASSUME NEW s, Good(s), NEW r \in Rooms(s), NEW X, SameBank(s.rooms[r], X),
           NEW d, \A x \in Characters : d[x].banker <=> s.data[x].banker,
           NEW k, NEW t, t = [s EXCEPT !.data = d, !.rooms[r] = X, !.crashed = k],
           Unmoved(s, t)
    PROVE  NoBankerChange(s, t)
<1>1. DOMAIN s = {"rooms", "data", "created", "crashed"}
  BY DEF Good, StateTypes
<1>2. /\ t.data = d
      /\ \A q \in Rooms(s) : t.rooms[q] = IF q = r THEN X ELSE s.rooms[q]
  BY <1>1 DEF Rooms
<1> QED
  BY <1>2 DEF NoBankerChange, SameBank

LEMMA OfflineKept ==
    ASSUME Inv, NEW p \in Players, NotifyPlayerOffline(p)
    PROVE  Kept
<1>1. CASE InRoom(server, p)
  <2>1. p \in Characters /\ Good(server) /\ server' = playerLeaveRoom(server, p)
    BY <1>1 DEF Inv, NotifyPlayerOffline, Characters
  <2>2. /\ \A x \in Characters \ {p} : server'.data[x].room = server.data[x].room
        /\ server.data[p].room \in Rooms(server') =>
              server'.crashed \/ \E q \in Players : server'.data[q].room = server.data[p].room
    BY <1>1, <2>1, LeaveRoomBanks
  <2>3. Banked(server) => Banked(server')
    BY <1>1, <2>1, LeaveRoomBanks
  <2>4. ClientStays
    BY <2>2 DEF ClientStays, Characters
  <2> QED
    BY <2>3, <2>4 DEF Kept
<1>2. CASE ~InRoom(server, p)
  BY <1>2, SameServerKept DEF NotifyPlayerOffline
<1> QED
  BY <1>1, <1>2

LEMMA ContinueKept ==
    ASSUME Inv, NEW p \in Players, NEW ub \in BOOLEAN, ContinueGame(p, ub)
    PROVE  Kept
<1> DEFINE r == server.data[p].room
           R == server.rooms[r]
           a == object[p]
           X == chosen(ChooseStay(R, a))
           D == [server.data EXCEPT ![p] = [server.data[p] EXCEPT !.ready = FALSE]]
           k == ub /\ ~(R.stay \subseteq Live)
<1>1. /\ Good(server) /\ r \in Rooms(server) /\ p \in Characters /\ a \in Objects
      /\ DOMAIN server = {"rooms", "data", "created", "crashed"}
      /\ server.data \in [Characters -> CharacterData]
      /\ R \in Room
  BY DEF Inv, Good, StateTypes, ContinueGame, InRoom, Characters, LoggedIn
<1>2. SameBank(R, X)
  <2> HIDE DEF R, a
  <2> QED
    BY <1>1, ChoicesKeepBank
<1>3. \A x \in Characters : D[x].banker <=> server.data[x].banker
  BY <1>1 DEF CharacterData
<1>4. server' = [server EXCEPT !.data = D, !.rooms[r] = X, !.crashed = k]
  <2>1. server' = [server EXCEPT !.data[p].ready = FALSE, !.rooms[r] = X, !.crashed = k]
    BY DEF ContinueGame
  <2> HIDE DEF X, k, r
  <2> QED
    BY <1>1, <2>1
<1>5. Unmoved(server, server')
  BY ContinueUnmoved
<1> HIDE DEF D, X, k
<1>6. NoBankerChange(server, server')
  <2> HIDE DEF r
  <2> QED
    BY <1>1, <1>2, <1>3, <1>4, <1>5, RoomChange
<1> QED
  BY <1>6, NoBankerStep

LEMMA QuitKept ==
    ASSUME Inv, NEW p \in Players, NEW ub \in BOOLEAN, QuitGame(p, ub)
    PROVE  Kept
<1> DEFINE r == server.data[p].room
           a == object[p]
           s == playerLeaveRoom(server, p)
           t == [s EXCEPT !.rooms[r] = chosen(ChooseGone(@, a))]
           u == [s EXCEPT !.crashed = ub]
<1>1. /\ Good(server) /\ InRoom(server, p) /\ p \in Characters /\ a \in Objects
  BY DEF Inv, QuitGame, Characters, LoggedIn
<1>2. server' = IF s.crashed THEN s ELSE IF r \in Rooms(s) THEN t ELSE u
  BY DEF QuitGame
<1>3. /\ \A x \in Characters \ {p} : s.data[x].room = server.data[x].room
      /\ r \in Rooms(s) => s.crashed \/ \E q \in Players : s.data[q].room = r
  BY <1>1, LeaveRoomBanks
<1>4. Banked(server) => Banked(s)
  BY <1>1, LeaveRoomBanks
<1> HIDE DEF s, r, a
<1>5. Good(s)
  BY <1>1, LeaveRoomGood DEF s
<1>6. /\ DOMAIN s = {"rooms", "data", "created", "crashed"}
      /\ \A q \in Rooms(s) : s.rooms[q] \in Room
  BY <1>5 DEF Good, StateTypes
<1>7. ASSUME r \in Rooms(s)
      PROVE  t.data = s.data /\ (Banked(s) => Banked(t)) /\ Rooms(t) = Rooms(s)
  <2> DEFINE X == chosen(ChooseGone(s.rooms[r], a))
  <2>1. SamePeople(s.rooms[r], X) /\ SameBank(s.rooms[r], X)
    <3>1. s.rooms[r] \in Room
      BY <1>6, <1>7
    <3> QED
      BY <1>1, <3>1, ChoicesKeepPeople, ChoicesKeepBank
  <2>2. t = [s EXCEPT !.rooms[r] = X]
    BY <1>6
  <2> HIDE DEF X, t
  <2>3. /\ DOMAIN t = {"rooms", "data", "created", "crashed"}
        /\ t.created = s.created /\ t.crashed = s.crashed
        /\ t.data = s.data /\ Rooms(t) = Rooms(s)
        /\ \A q \in Rooms(s) : t.rooms[q] = IF q = r THEN X ELSE s.rooms[q]
    BY <1>6, <1>7, <2>2 DEF Rooms
  <2>4. NoBankerChange(s, t)
    <3>1. s.crashed \in BOOLEAN /\ s.data \in [Characters -> CharacterData]
      BY <1>5 DEF Good, StateTypes
    <3>2. Unmoved(s, t)
      BY <1>6, <2>1, <2>3, <3>1 DEF Unmoved, SamePeople
    <3> QED
      BY <2>1, <2>3, <3>2 DEF NoBankerChange, SameBank
  <2>5. Banked(s) => Banked(t)
    BY <1>5, <2>4, UnmovedBanks
  <2> QED
    BY <2>3, <2>5
<1>8. u.data = s.data /\ u.rooms = s.rooms
  BY <1>6
<1>9. server'.data = s.data /\ (Banked(s) => Banked(server'))
  BY <1>2, <1>7, <1>8 DEF Banked, Rooms
<1>10. ASSUME NEW q \in Rooms(server), NEW x \in Players, server.data[x].room = q,
              q \in Rooms(server'), ~server'.crashed
       PROVE  \E y \in Players : server'.data[y].room = q
  <2>1. CASE x # p
    BY <1>3, <1>9, <1>10, <2>1 DEF Characters
  <2>2. CASE x = p
    <3>1. q = r
      BY <1>10, <2>2 DEF r
    <3>2. r \in Rooms(s)
      BY <1>2, <1>7, <1>8, <1>10, <3>1 DEF Rooms
    <3>3. server' = t /\ ~s.crashed
      <4>1. ~s.crashed
        BY <1>2, <1>10
      <4> QED
        BY <1>2, <3>2, <4>1
    <3> QED
      BY <1>3, <1>9, <3>1, <3>2, <3>3
  <2> QED
    BY <2>1, <2>2
<1> QED
  BY <1>4, <1>9, <1>10 DEF Kept, ClientStays

\* A hand that ends may make another player the banker, or nobody.
LEMMA EndGameKept ==
    ASSUME Inv, NEW r \in Rooms(server), EndGame(r)
    PROVE  Kept
<1> DEFINE R == server.rooms[r]
           ended == [R EXCEPT !.state = "MPS_ENDING", !.torn = FALSE]
           step(b) == [server EXCEPT
                    !.rooms[r] = [ended EXCEPT !.lost = (b = Nobody)],
                    !.data = [c \in Characters |-> IF c \in R.members
                                THEN [server.data[c] EXCEPT !.banker = (c = b)]
                                ELSE server.data[c]]]
<1>1. /\ DOMAIN server = {"rooms", "data", "created", "crashed"}
      /\ server.data \in [Characters -> CharacterData]
      /\ R \in Room /\ Good(server)
      /\ R.members = {c \in Characters : server.data[c].room = r}
  BY DEF Inv, Good, StateTypes, StateSeats
<1>2. /\ ended.members = R.members /\ ended.state = "MPS_ENDING" /\ ended.lost = R.lost
      /\ ended \in Room
  BY <1>1 DEF Room, PlayStates
<1>3. ASSUME server' = [server EXCEPT !.rooms[r] = ended]
      PROVE  Kept
  <2> HIDE DEF ended
  <2>1. /\ server'.data = server.data
        /\ \A q \in Rooms(server') : server'.rooms[q] = IF q = r THEN ended ELSE server.rooms[q]
        /\ Rooms(server') = Rooms(server)
    BY <1>1, <1>3 DEF Rooms
  <2>2. BankedRoom(R, server.data) => BankedRoom(ended, server.data)
    BY <1>2 DEF BankedRoom
  <2>3. Banked(server) => Banked(server')
    BY <2>1, <2>2 DEF Banked
  <2>4. Stays(server, server')
    BY <2>1 DEF Stays
  <2> QED
    BY <2>3, <2>4, StaysKeeps DEF Kept
<1>4. ASSUME NEW b \in NextBankers(R), isFull(R), server' = step(b)
      PROVE  Kept
  <2> DEFINE lost == b = Nobody
             X == [ended EXCEPT !.lost = lost]
             d(c) == [server.data[c] EXCEPT !.banker = (c = b)]
             D == [c \in Characters |-> IF c \in R.members THEN d(c) ELSE server.data[c]]
  <2>1. X.members = R.members /\ X.state = "MPS_ENDING" /\ (X.lost <=> b = Nobody)
    <3> HIDE DEF ended
    <3> QED
      BY <1>2 DEF Room
  <2>2. \A c \in Characters : /\ (d(c).banker <=> c = b)
                              /\ d(c).room = server.data[c].room
    BY <1>1 DEF CharacterData
  <2>3. server' = [server EXCEPT !.rooms[r] = X, !.data = D]
    BY <1>4
  <2> HIDE DEF d, X, ended
  <2>4. /\ \A x \in Characters : D[x].room = server.data[x].room
        /\ \A x \in R.members : D[x].banker <=> x = b
        /\ \A x \in Characters \ R.members : D[x] = server.data[x]
    BY <1>1, <2>2
  <2> HIDE DEF D
  <2>5. /\ server'.data = D
        /\ \A q \in Rooms(server') : server'.rooms[q] = IF q = r THEN X ELSE server.rooms[q]
        /\ Rooms(server') = Rooms(server)
    BY <1>1, <2>3 DEF Rooms
  <2>6. ASSUME BankedRoom(R, server.data)
        PROVE  BankedRoom(X, D)
    <3>1. R.members # {}
      <4>1. MaxPlayer > 0 /\ Cardinality(R.members) >= MaxPlayer /\ MaxPlayer \in Nat
        BY <1>4, LobbyAssumption DEF isFull
      <4>2. Cardinality({}) = 0
        BY FS_EmptySet
      <4> HIDE DEF R
      <4> QED
        BY <4>1, <4>2
    <3>2. b \in R.members \/ b = Nobody
      BY DEF NextBankers
    <3>3. Nobody \notin R.members
      BY <1>1, LobbyAssumption
    <3> QED
      BY <2>1, <2>4, <3>1, <3>2, <3>3 DEF BankedRoom
  <2>7. ASSUME NEW q \in Rooms(server), q # r, BankedRoom(server.rooms[q], server.data)
        PROVE  BankedRoom(server.rooms[q], D)
    <3>1. server.rooms[q].members = {c \in Characters : server.data[c].room = q}
      BY <1>1 DEF Good, StateSeats
    <3>2. \A x \in server.rooms[q].members : D[x].banker <=> server.data[x].banker
      BY <1>1, <2>4, <2>7, <3>1
    <3> QED
      BY <2>7, <3>2, OtherRoom
  <2>8. Banked(server) => Banked(server')
    BY <2>5, <2>6, <2>7 DEF Banked
  <2>9. Stays(server, server')
    BY <2>4, <2>5 DEF Stays
  <2> QED
    BY <2>8, <2>9, StaysKeeps DEF Kept
<1>5. \/ server' = [server EXCEPT !.rooms[r] = ended]
      \/ isFull(R) /\ \E b \in NextBankers(R) : server' = step(b)
  BY DEF EndGame
<1> HIDE DEF step, ended, R
<1> QED
  BY <1>3, <1>4, <1>5

LEMMA NextKept ==
    ASSUME Inv, [Next]_vars
    PROVE  Kept
<1>1. ASSUME NEW p \in Players, Login(p) PROVE Kept
  BY <1>1, SameServerKept DEF Login
<1>2. ASSUME NEW p \in Players, CreateRoom(p) PROVE Kept
  BY <1>2, CreateRoomKept
<1>3. ASSUME NEW p \in Players, AddMahjongRobot(p) PROVE Kept
  BY <1>3, AddRobotKept
<1>4. ASSUME NEW p \in Players, LeaveRequest(p) PROVE Kept
  BY <1>4, SameServerKept DEF LeaveRequest
<1>5. ASSUME NEW p \in Players, Disconnect(p) PROVE Kept
  BY <1>5, SameServerKept DEF Disconnect
<1>6. ASSUME NEW p \in Players, NEW r \in Rooms(server), JoinRoom(p, r) PROVE Kept
  BY <1>6, JoinKept DEF JoinRoom, Inv
<1>7. ASSUME NEW p \in Players, NEW b \in BOOLEAN, Ready(p, b) PROVE Kept
  BY <1>7, ReadyKept
<1>8. ASSUME NEW p \in Players, NEW b \in BOOLEAN, ContinueGame(p, b) PROVE Kept
  BY <1>8, ContinueKept
<1>9. ASSUME NEW p \in Players, NEW b \in BOOLEAN, QuitGame(p, b) PROVE Kept
  BY <1>9, QuitKept
<1>10. ASSUME NEW r \in Rooms(server), EndGame(r) PROVE Kept
  BY <1>10, EndGameKept
<1>11. ASSUME NEW r \in Rooms(server), PlayBreaks(r) PROVE Kept
  BY <1>11, SameServerKept DEF PlayBreaks
<1>12. ASSUME NEW p \in Players, NotifyPlayerOffline(p) PROVE Kept
  BY <1>12, OfflineKept
<1>13. CASE UNCHANGED vars
  BY <1>13, SameServerKept DEF vars
<1> QED
  BY <1>1, <1>2, <1>3, <1>4, <1>5, <1>6, <1>7, <1>8, <1>9, <1>10, <1>11, <1>12, <1>13
     DEF Next, Step

----------------------------------------------------------------------------
(* Theorems *)

\* The banker that a room has is the only one.
LEMMA BankedSits ==
    ASSUME Banked(server)
    PROVE  BankerSits
<1> SUFFICES ASSUME NEW r \in Rooms(server), server.rooms[r].members # {}
             PROVE  LET R == server.rooms[r]
                        bankers == {c \in R.members : server.data[c].banker}
                    IN  /\ Cardinality(bankers) = IF R.lost THEN 0 ELSE 1
                        /\ R.state = "MPS_WAITING" =>
                              R.bankerPos = -1 \/ R.seatOf[R.bankerPos] \in bankers
  BY DEF BankerSits
<1> DEFINE R == server.rooms[r]
           B == {c \in R.members : server.data[c].banker}
<1>1. BankedRoom(R, server.data)
  BY DEF Banked
<1>2. CASE R.lost
  <2>1. B = {}
    BY <1>1, <1>2 DEF BankedRoom
  <2> QED
    BY <1>1, <1>2, <2>1, FS_EmptySet DEF BankedRoom
<1>3. CASE ~R.lost
  <2>1. PICK x \in R.members : \A c \in R.members : server.data[c].banker <=> c = x
    BY <1>1, <1>3 DEF BankedRoom
  <2>2. B = {x}
    BY <2>1
  <2>3. Cardinality(B) = 1
    BY <2>2, FS_Singleton
  <2> QED
    BY <1>1, <1>3, <2>3 DEF BankedRoom
<1> QED
  BY <1>2, <1>3

\* However its players come and go, a room with players has exactly one banker, or
\* none after a hand that left it without; while it waits for a hand, its banker seat
\* is unset or the banker's.
THEOREM OneBankerSits == Spec => []BankerSits
<1>1. Init => Banked(server)
  BY DEF Init, Banked, Rooms
<1>2. Inv /\ Banked(server) /\ [Next]_vars => Banked(server)'
  BY NextKept DEF Kept
<1> QED
  BY <1>1, <1>2, BankedSits, Invariant, PTL DEF Spec

\* A room lives on exactly if a client of it stays.
LEMMA ClientsKept ==
    ASSUME Inv, Inv', ClientStays,
           NEW r \in Rooms(server), Clients(server.rooms[r]) # {}, ~server'.crashed
    PROVE  r \in Rooms(server') <=> \E p \in Players : server'.data[p].room = r
<1>1. ASSUME r \in Rooms(server') PROVE \E p \in Players : server'.data[p].room = r
  <2>1. PICK p \in Players : p \in server.rooms[r].members
    BY DEF Clients
  <2>2. server.data[p].room = r
    BY <2>1 DEF Inv, Good, StateSeats
  <2> QED
    BY <1>1, <2>2 DEF ClientStays
<1>2. ASSUME NEW p \in Players, server'.data[p].room = r PROVE r \in Rooms(server')
  <2>1. Good(server') /\ p \in Characters
    BY DEF Inv, Characters
  <2>2. ~InRoom(server', p) => server'.data[p] = NoData
    BY <2>1 DEF Good, StateSeats
  <2>3. r # INVALID_INT_ID
    BY LobbyFacts DEF Inv, Good, StateTypes
  <2> QED
    BY <1>2, <2>2, <2>3 DEF NoData, InRoom
<1> QED
  BY <1>1, <1>2

\* A room with a client in it is destroyed in the step in which its last client
\* leaves, and in no other.
THEOREM RoomsKeptByClients == Spec => ClientsKeepRoom
<1>1. Inv /\ Inv' /\ [Next]_vars =>
        [\A r \in Rooms(server) :
            Clients(server.rooms[r]) # {} /\ ~server'.crashed =>
              (r \in Rooms(server') <=> \E p \in Players : server'.data[p].room = r)]_vars
  BY NextKept, ClientsKept DEF Kept
<1> QED
  BY <1>1, Invariant, PTL DEF Spec, ClientsKeepRoom
=============================================================================
