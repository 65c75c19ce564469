--------------------------- MODULE FreeMatch_proofs ---------------------------
(***************************************************************************)
(* For any players, robots, seats, rooms and waiting time: the list and    *)
(* the map of the pool agree, a match moves nobody out of its room or      *)
(* seat, and the rooms it fills keep the invariants of the lobby.          *)
(*                                                                         *)
(* The loops of an update are recursive functions on the number of turns;  *)
(* what a turn keeps, a loop keeps, by induction up to its length.         *)
(***************************************************************************)
EXTENDS FreeMatch, RoomLobby_proofs, SequenceTheorems

----------------------------------------------------------------------------
(* The loops, turn by turn *)

\* A request after the other is sent to its room.
LEMMA SendingTurns ==
    ASSUME NEW s, NEW q, NEW room, Len(q) \in Nat
    PROVE  \E sent : /\ sendToRooms(s, q, room) = sent[Len(q)]
                     /\ sent[0] = s
                     /\ \A n \in 1 .. Len(q) :
                           sent[n] = joinRoom(sent[n - 1], q[n].player, room[n])
<1> DEFINE next(x, n) == joinRoom(x, q[n].player, room[n])
           To(f, n) == [i \in 0 .. n |-> IF i = 0 THEN s ELSE next(f[i - 1], i)]
           Some == {n \in 0 .. Len(q) : \E f : f = To(f, n)}
           sent == CHOOSE f : f = To(f, Len(q))
<1>1. sendToRooms(s, q, room) = sent[Len(q)]
  BY DEF sendToRooms
<1> HIDE DEF next
<1>2. 0 \in Some
  <2> DEFINE g == [i \in 0 .. 0 |-> s]
  <2>1. g = [i \in 0 .. 0 |-> g[i]] /\ g[0] = s
    OBVIOUS
  <2> HIDE DEF g
  <2>2. g = To(g, 0)
    BY <2>1
  <2> QED
    BY <2>2
<1>3. ASSUME NEW n \in 0 .. Len(q) - 1, n \in Some
      PROVE  n + 1 \in Some
  <2>1. PICK f : f = To(f, n)
    BY <1>3
  <2> DEFINE g == [i \in 0 .. n + 1 |-> IF i = n + 1 THEN next(f[n], n + 1) ELSE f[i]]
  <2>2. ASSUME NEW i \in 0 .. n + 1
        PROVE  g[i] = IF i = 0 THEN s ELSE next(g[i - 1], i)
    <3>1. CASE i = n + 1
      <4>1. g[i] = next(f[n], n + 1) /\ g[i - 1] = f[n] /\ i # 0
        BY <3>1
      <4> QED
        BY <3>1, <4>1
    <3>2. CASE i # n + 1
      <4>1. i \in 0 .. n /\ g[i] = f[i] /\ (i # 0 => i - 1 \in 0 .. n + 1 /\ i - 1 # n + 1)
        BY <3>2
      <4>2. i # 0 => g[i - 1] = f[i - 1]
        BY <4>1
      <4>3. f[i] = To(f, n)[i]
        BY <2>1
      <4>4. f[i] = IF i = 0 THEN s ELSE next(f[i - 1], i)
        BY <4>1, <4>3
      <4> QED
        BY <4>1, <4>2, <4>4
    <3> QED
      BY <3>1, <3>2
  <2>3. g = [i \in 0 .. n + 1 |-> g[i]]
    OBVIOUS
  <2> HIDE DEF g
  <2>4. g = To(g, n + 1)
    BY <2>2, <2>3
  <2> QED
    BY <2>4
<1>4. Len(q) \in Some
  <2>1. \A n \in 0 .. Len(q) - 1 : n \in Some => n + 1 \in Some
    BY <1>3
  <2> HIDE DEF Some
  <2>2. \A n \in 0 .. Len(q) : n \in Some
    BY <1>2, <2>1, SetInduction
  <2> QED
    BY <2>2
<1>5. sent = To(sent, Len(q))
  BY <1>4
<1>6. /\ sent[0] = s
      /\ \A n \in 1 .. Len(q) : sent[n] = next(sent[n - 1], n)
  <2> HIDE DEF sent
  <2>1. \A n \in 0 .. Len(q) : sent[n] = IF n = 0 THEN s ELSE next(sent[n - 1], n)
    BY <1>5
  <2> QED
    BY <2>1
<1> QED
  BY <1>1, <1>6 DEF next

\* A robot after the other is added, until the room is full.
FillTurn(x, r) == IF isFull(x.rooms[r]) THEN x ELSE addRobot(x, r)
LEMMA FillingTurns ==
    ASSUME NEW s, NEW r
    PROVE  \E filled : /\ fillWithRobots(s, r) = filled[MaxPlayer]
                       /\ filled[0] = s
                       /\ \A n \in 1 .. MaxPlayer : filled[n] = FillTurn(filled[n - 1], r)
<1> DEFINE next(x, n) == IF isFull(x.rooms[r]) THEN x ELSE addRobot(x, r)
           To(f, n) == [i \in 0 .. n |-> IF i = 0 THEN s ELSE next(f[i - 1], i)]
           Some == {n \in 0 .. MaxPlayer : \E f : f = To(f, n)}
           filled == CHOOSE f : f = To(f, MaxPlayer)
<1>1. fillWithRobots(s, r) = filled[MaxPlayer]
  BY DEF fillWithRobots
<1> HIDE DEF next, FillTurn
<1>0. MaxPlayer \in Nat
  BY LobbyAssumption
<1>2. 0 \in Some
  <2> DEFINE g == [i \in 0 .. 0 |-> s]
  <2>1. g = [i \in 0 .. 0 |-> g[i]] /\ g[0] = s
    OBVIOUS
  <2> HIDE DEF g
  <2>2. g = To(g, 0)
    BY <2>1
  <2> QED
    BY <1>0, <2>2
<1>3. ASSUME NEW n \in 0 .. MaxPlayer - 1, n \in Some
      PROVE  n + 1 \in Some
  <2>1. PICK f : f = To(f, n)
    BY <1>3
  <2> DEFINE g == [i \in 0 .. n + 1 |-> IF i = n + 1 THEN next(f[n], n + 1) ELSE f[i]]
  <2>2. ASSUME NEW i \in 0 .. n + 1
        PROVE  g[i] = IF i = 0 THEN s ELSE next(g[i - 1], i)
    <3>1. CASE i = n + 1
      <4>1. g[i] = next(f[n], n + 1) /\ g[i - 1] = f[n] /\ i # 0
        BY <3>1
      <4> QED
        BY <3>1, <4>1
    <3>2. CASE i # n + 1
      <4>1. i \in 0 .. n /\ g[i] = f[i] /\ (i # 0 => i - 1 \in 0 .. n + 1 /\ i - 1 # n + 1)
        BY <3>2
      <4>2. i # 0 => g[i - 1] = f[i - 1]
        BY <4>1
      <4>3. f[i] = To(f, n)[i]
        BY <2>1
      <4>4. f[i] = IF i = 0 THEN s ELSE next(f[i - 1], i)
        BY <4>1, <4>3
      <4> QED
        BY <4>1, <4>2, <4>4
    <3> QED
      BY <3>1, <3>2
  <2>3. g = [i \in 0 .. n + 1 |-> g[i]]
    OBVIOUS
  <2> HIDE DEF g
  <2>4. g = To(g, n + 1)
    BY <2>2, <2>3
  <2> QED
    BY <1>0, <2>4
<1>4. MaxPlayer \in Some
  <2>1. \A n \in 0 .. MaxPlayer - 1 : n \in Some => n + 1 \in Some
    BY <1>3
  <2> HIDE DEF Some
  <2>2. \A n \in 0 .. MaxPlayer : n \in Some
    BY <1>0, <1>2, <2>1, SetInduction
  <2> QED
    BY <1>0, <2>2
<1>5. filled = To(filled, MaxPlayer)
  BY <1>4
<1>6. /\ filled[0] = s
      /\ \A n \in 1 .. MaxPlayer : filled[n] = next(filled[n - 1], n)
  <2> HIDE DEF filled
  <2>1. \A n \in 0 .. MaxPlayer : filled[n] = IF n = 0 THEN s ELSE next(filled[n - 1], n)
    BY <1>0, <1>5
  <2> QED
    BY <1>0, <2>1
<1> QED
  BY <1>1, <1>6 DEF next, FillTurn

\* A request after the other is matched with robots or waits on.
LEMMA VisitingTurns ==
    ASSUME NEW s, NEW q, Len(q) \in Nat
    PROVE  \E visited : /\ visitAll(s, q) = visited[Len(q)]
                        /\ visited[0] = [lobby |-> s, waiting |-> <<>>]
                        /\ \A n \in 1 .. Len(q) : visited[n] = turn(visited[n - 1], q[n])
<1> DEFINE next(x, n) == turn(x, q[n])
           To(f, n) == [i \in 0 .. n |-> IF i = 0 THEN [lobby |-> s, waiting |-> <<>>] ELSE next(f[i - 1], i)]
           Some == {n \in 0 .. Len(q) : \E f : f = To(f, n)}
           visited == CHOOSE f : f = To(f, Len(q))
<1>1. visitAll(s, q) = visited[Len(q)]
  BY DEF visitAll
<1> HIDE DEF next
<1>2. 0 \in Some
  <2> DEFINE g == [i \in 0 .. 0 |-> [lobby |-> s, waiting |-> <<>>]]
  <2>1. g = [i \in 0 .. 0 |-> g[i]] /\ g[0] = [lobby |-> s, waiting |-> <<>>]
    OBVIOUS
  <2> HIDE DEF g
  <2>2. g = To(g, 0)
    BY <2>1
  <2> QED
    BY <2>2
<1>3. ASSUME NEW n \in 0 .. Len(q) - 1, n \in Some
      PROVE  n + 1 \in Some
  <2>1. PICK f : f = To(f, n)
    BY <1>3
  <2> DEFINE g == [i \in 0 .. n + 1 |-> IF i = n + 1 THEN next(f[n], n + 1) ELSE f[i]]
  <2>2. ASSUME NEW i \in 0 .. n + 1
        PROVE  g[i] = IF i = 0 THEN [lobby |-> s, waiting |-> <<>>] ELSE next(g[i - 1], i)
    <3>1. CASE i = n + 1
      <4>1. g[i] = next(f[n], n + 1) /\ g[i - 1] = f[n] /\ i # 0
        BY <3>1
      <4> QED
        BY <3>1, <4>1
    <3>2. CASE i # n + 1
      <4>1. i \in 0 .. n /\ g[i] = f[i] /\ (i # 0 => i - 1 \in 0 .. n + 1 /\ i - 1 # n + 1)
        BY <3>2
      <4>2. i # 0 => g[i - 1] = f[i - 1]
        BY <4>1
      <4>3. f[i] = To(f, n)[i]
        BY <2>1
      <4>4. f[i] = IF i = 0 THEN [lobby |-> s, waiting |-> <<>>] ELSE next(f[i - 1], i)
        BY <4>1, <4>3
      <4> QED
        BY <4>1, <4>2, <4>4
    <3> QED
      BY <3>1, <3>2
  <2>3. g = [i \in 0 .. n + 1 |-> g[i]]
    OBVIOUS
  <2> HIDE DEF g
  <2>4. g = To(g, n + 1)
    BY <2>2, <2>3
  <2> QED
    BY <2>4
<1>4. Len(q) \in Some
  <2>1. \A n \in 0 .. Len(q) - 1 : n \in Some => n + 1 \in Some
    BY <1>3
  <2> HIDE DEF Some
  <2>2. \A n \in 0 .. Len(q) : n \in Some
    BY <1>2, <2>1, SetInduction
  <2> QED
    BY <2>2
<1>5. visited = To(visited, Len(q))
  BY <1>4
<1>6. /\ visited[0] = [lobby |-> s, waiting |-> <<>>]
      /\ \A n \in 1 .. Len(q) : visited[n] = next(visited[n - 1], n)
  <2> HIDE DEF visited
  <2>1. \A n \in 0 .. Len(q) : visited[n] = IF n = 0 THEN [lobby |-> s, waiting |-> <<>>] ELSE next(visited[n - 1], n)
    BY <1>5
  <2> QED
    BY <2>1
<1> QED
  BY <1>1, <1>6 DEF next

----------------------------------------------------------------------------
(* What a turn keeps *)

\* Rooms are opened and characters brought into them, of the players only those of
\* the set A; nobody that is in a room already moves.
Enters(s, t, A) ==
    /\ Good(t)
    /\ t.crashed = s.crashed
    /\ Rooms(s) \subseteq Rooms(t)
    /\ \A x \in Characters : InRoom(s, x) =>
          t.data[x].room = s.data[x].room /\ t.data[x].position = s.data[x].position
    /\ \A x \in Players : InRoom(t, x) => InRoom(s, x) \/ x \in A
    /\ Banked(s) => Banked(t)

\* Characters are brought into the rooms there are.  The robots that leave the idle
\* ones are in room r then.
Supply(s, r) == Cardinality(IdleRobots(s)) + Cardinality(s.rooms[r].members)
Fills(s, t, r, A) ==
    /\ Enters(s, t, A)
    /\ Rooms(t) = Rooms(s)
    /\ t.created = s.created
    /\ Supply(t, r) >= Supply(s, r)

LEMMA EntersMore ==
    ASSUME NEW s, NEW t, NEW u, NEW A, Enters(s, t, A), Enters(t, u, A)
    PROVE  Enters(s, u, A)
<1>1. \A x \in Characters : InRoom(s, x) => InRoom(t, x)
  BY DEF Enters, InRoom
<1> QED
  BY <1>1 DEF Enters, Characters

LEMMA IdleFinite ==
    ASSUME NEW s
    PROVE  IsFiniteSet(IdleRobots(s)) /\ Cardinality(IdleRobots(s)) \in Nat
<1>1. IsFiniteSet(Robots) /\ IdleRobots(s) \subseteq Robots
  BY LobbyAssumption DEF IdleRobots
<1>2. IsFiniteSet(IdleRobots(s))
  BY <1>1, FS_Subset
<1> QED
  BY <1>2, FS_CardinalityType

LEMMA SupplyType ==
    ASSUME NEW s, Good(s), NEW r \in Rooms(s)
    PROVE  Supply(s, r) \in Nat
BY IdleFinite, MembersFinite DEF Supply, Good

LEMMA FillsMore ==
    ASSUME NEW s, NEW t, NEW u, NEW r \in Rooms(s), NEW A,
           Good(s), Fills(s, t, r, A), Fills(t, u, r, A)
    PROVE  Fills(s, u, r, A)
<1>1. Good(t) /\ Good(u) /\ r \in Rooms(t) /\ r \in Rooms(u)
  BY DEF Fills, Enters
<1>2. Supply(s, r) \in Nat /\ Supply(t, r) \in Nat /\ Supply(u, r) \in Nat
  BY <1>1, SupplyType
<1>3. Enters(s, u, A)
  BY EntersMore DEF Fills
<1> QED
  BY <1>2, <1>3 DEF Fills

LEMMA FillsNothing ==
    ASSUME NEW s, Good(s), NEW r \in Rooms(s), NEW A
    PROVE  Fills(s, s, r, A)
<1>1. Supply(s, r) \in Nat
  BY SupplyType
<1> QED
  BY <1>1 DEF Fills, Enters

\* A character that may join a room is counted among its members, and no longer
\* among the idle robots.
LEMMA JoinCounts ==
    ASSUME NEW s, Good(s), NEW c \in Characters, NEW r, mayJoin(s, c, r)
    PROVE  /\ joinRoom(s, c, r).created = s.created
           /\ joinRoom(s, c, r).rooms[r].members = s.rooms[r].members \cup {c}
           /\ \A x \in Characters \ {c} : joinRoom(s, c, r).data[x] = s.data[x]
           /\ IdleRobots(joinRoom(s, c, r)) = IdleRobots(s) \ {c}
           /\ Cardinality(joinRoom(s, c, r).rooms[r].members) =
                 Cardinality(s.rooms[r].members) + 1
<1> DEFINE t == joinRoom(s, c, r)
           R == s.rooms[r]
           X == JoinedRoom(R, c)
           d == JoinedData(s.data[c], R, c, r)
<1>1. /\ r \in Rooms(s) /\ ~isFull(R) /\ c \notin R.members
      /\ R \in Room /\ IsFiniteSet(R.members) /\ Cardinality(R.members) \in Nat
  BY MembersFinite DEF mayJoin, Good
<1>2. SeatFor(R) \in Seats
  BY <1>1, SeatForFree
<1>3. t = [s EXCEPT !.rooms[r] = X, !.data[c] = d]
  <2>1. joinRoom(s, c, r) = JoinedState(s, c, r)
    BY JoinRoomIs
  <2> QED
    BY <2>1, Zenon DEF JoinedState
<1>4. X.members = R.members \cup {c}
  BY <1>1, <1>2, JoinedRoomIs
<1>5. /\ DOMAIN s = {"rooms", "data", "created", "crashed"}
      /\ s.data \in [Characters -> CharacterData]
      /\ r \in RoomIds
  BY <1>1 DEF Good, StateTypes
<1>6. d.room = r
  BY <1>5 DEF JoinedData, CharacterData
<1> HIDE DEF X, d, t, R
<1>7. /\ t.created = s.created /\ t.rooms[r] = X
      /\ t.data = [s.data EXCEPT ![c] = d]
  BY <1>1, <1>3, <1>5 DEF Rooms
<1>8. \A x \in Characters \ {c} : t.data[x] = s.data[x]
  BY <1>5, <1>7
<1>9. t.data[c].room # INVALID_INT_ID
  BY <1>5, <1>6, <1>7, LobbyFacts
<1>10. IdleRobots(t) = IdleRobots(s) \ {c}
  BY <1>8, <1>9 DEF IdleRobots, Characters
<1>11. Cardinality(R.members \cup {c}) = Cardinality(R.members) + 1
  BY <1>1, FS_AddElement
<1> QED
  BY <1>4, <1>7, <1>8, <1>10, <1>11 DEF t, R

\* A player that is sent to a room, whether it gets in or not.
LEMMA JoinFills ==
    ASSUME NEW s, Good(s), NEW c \in Players, NEW r, NEW A, c \in A
    PROVE  /\ Enters(s, joinRoom(s, c, r), A)
           /\ r \in Rooms(s) => Fills(s, joinRoom(s, c, r), r, A)
<1> DEFINE t == joinRoom(s, c, r)
<1>1. CASE ~mayJoin(s, c, r)
  <2>1. t = s
    BY <1>1 DEF joinRoom
  <2>2. r \in Rooms(s) => Fills(s, s, r, A)
    BY FillsNothing
  <2> QED
    BY <2>1, <2>2 DEF Enters
<1>2. CASE mayJoin(s, c, r)
  <2>1. c \in Characters /\ ~InRoom(s, c) /\ r \in Rooms(s)
    BY <1>2 DEF Characters, mayJoin
  <2>2. /\ Good(t) /\ t.crashed = s.crashed /\ Rooms(t) = Rooms(s)
        /\ \A x \in Characters : InRoom(t, x) <=> InRoom(s, x) \/ x = c
    BY <1>2, <2>1, JoinRoomGood
  <2>3. /\ t.created = s.created
        /\ \A x \in Characters \ {c} : t.data[x] = s.data[x]
        /\ IdleRobots(t) = IdleRobots(s) \ {c}
        /\ Cardinality(t.rooms[r].members) = Cardinality(s.rooms[r].members) + 1
    BY <1>2, <2>1, JoinCounts
  <2>4. Banked(s) => Banked(t)
    BY <1>2, <2>1, JoinRoomBanks
  <2> HIDE DEF t
  <2>5. Enters(s, t, A)
    BY <2>1, <2>2, <2>3, <2>4 DEF Enters, Characters
  <2>6. IdleRobots(t) = IdleRobots(s)
    BY <2>3, LobbyAssumption DEF IdleRobots
  <2>7. Cardinality(IdleRobots(s)) \in Nat /\ Cardinality(s.rooms[r].members) \in Nat
    BY <2>1, IdleFinite, MembersFinite DEF Good
  <2>8. Supply(t, r) >= Supply(s, r)
    <3>1. Supply(t, r) = Cardinality(IdleRobots(s)) + (Cardinality(s.rooms[r].members) + 1)
      BY <2>3, <2>6 DEF Supply
    <3>2. \A i, m \in Nat : i + (m + 1) >= i + m
      OBVIOUS
    <3> QED
      BY <2>7, <3>1, <3>2 DEF Supply
  <2> QED
    BY <2>2, <2>3, <2>5, <2>8 DEF Fills, t
<1> QED
  BY <1>1, <1>2

\* An idle robot that is added.
LEMMA AddRobotFills ==
    ASSUME NEW s, Good(s), NEW r \in Rooms(s), ~isFull(s.rooms[r]), IdleRobots(s) # {}, NEW A
    PROVE  Fills(s, addRobot(s, r), r, A)
<1> DEFINE b == Least(IdleRobots(s))
           t == joinRoom(s, b, r)
           u == [t EXCEPT !.data[b].ready = TRUE]
<1>1. b \in IdleRobots(s)
  <2>1. IdleRobots(s) \subseteq Nat
    BY LobbyAssumption DEF IdleRobots
  <2> QED
    BY <2>1, LeastIsLeast
<1>2. addRobot(s, r) = u
  BY DEF addRobot
<1> HIDE DEF b
<1>3. b \in Characters /\ b \notin Players /\ s.data[b].room = INVALID_INT_ID
  BY <1>1, LobbyAssumption DEF Characters, IdleRobots
<1>4. mayJoin(s, b, r)
  <2>1. INVALID_INT_ID \notin Rooms(s)
    BY LobbyFacts DEF Good, StateTypes
  <2>2. s.rooms[r].members = {c \in Characters : s.data[c].room = r}
    BY DEF Good, StateSeats
  <2> QED
    BY <1>3, <2>1, <2>2 DEF mayJoin, InRoom
<1>5. /\ Good(t) /\ t.crashed = s.crashed /\ Rooms(t) = Rooms(s)
      /\ \A x \in Characters : InRoom(t, x) <=> InRoom(s, x) \/ x = b
  BY <1>3, <1>4, JoinRoomGood
<1>6. /\ t.created = s.created
      /\ \A x \in Characters \ {b} : t.data[x] = s.data[x]
      /\ IdleRobots(t) = IdleRobots(s) \ {b}
      /\ Cardinality(t.rooms[r].members) = Cardinality(s.rooms[r].members) + 1
  BY <1>3, <1>4, JoinCounts
<1> HIDE DEF t
<1>7. Unmoved(t, u)
  BY <1>3, <1>5, ReadyUnmoved
<1>8. /\ Good(u)
      /\ \A x \in Characters : InRoom(u, x) <=> InRoom(t, x)
  BY <1>5, <1>7, UnmovedGood
<1>9. u.crashed = t.crashed
  BY <1>5 DEF Good, StateTypes
<1> HIDE DEF u
<1>10. /\ Rooms(u) = Rooms(t) /\ u.created = t.created
       /\ u.rooms[r].members = t.rooms[r].members
       /\ \A x \in Characters : /\ u.data[x].room = t.data[x].room
                                /\ u.data[x].position = t.data[x].position
  BY <1>5, <1>7 DEF Unmoved, SamePeople
<1>11. Banked(s) => Banked(u)
  BY <1>2, AddRobotBanks
<1>12. Enters(s, u, A)
  <2>1. \A x \in Characters : InRoom(s, x) => x # b
    BY <1>4 DEF mayJoin
  <2>2. \A x \in Characters : InRoom(s, x) =>
           u.data[x].room = s.data[x].room /\ u.data[x].position = s.data[x].position
    BY <1>6, <1>10, <2>1
  <2>3. \A x \in Players : InRoom(u, x) => InRoom(s, x)
    BY <1>3, <1>5, <1>8 DEF Characters
  <2> QED
    BY <1>5, <1>8, <1>9, <1>10, <1>11, <2>2, <2>3 DEF Enters
<1>13. Supply(u, r) = Supply(s, r)
  <2>1. IdleRobots(u) = IdleRobots(s) \ {b}
    BY <1>6, <1>10 DEF IdleRobots, Characters
  <2>2. Cardinality(IdleRobots(u)) = Cardinality(IdleRobots(s)) - 1
    BY <1>1, <2>1, IdleFinite, FS_RemoveElement
  <2>3. Cardinality(IdleRobots(s)) \in Nat /\ Cardinality(s.rooms[r].members) \in Nat
    BY IdleFinite, MembersFinite DEF Good
  <2>4. Supply(u, r) = (Cardinality(IdleRobots(s)) - 1) + (Cardinality(s.rooms[r].members) + 1)
    BY <1>6, <1>10, <2>2 DEF Supply
  <2>5. \A i, m \in Nat : (i - 1) + (m + 1) = i + m
    OBVIOUS
  <2> QED
    BY <2>3, <2>4, <2>5 DEF Supply
<1>14. Supply(s, r) \in Nat
  BY SupplyType
<1> QED
  BY <1>2, <1>5, <1>6, <1>10, <1>12, <1>13, <1>14 DEF Fills

\* A hand that starts brings nobody in.
LEMMA StartFills ==
    ASSUME NEW s, Good(s), NEW r \in Rooms(s), NEW A
    PROVE  Fills(s, startGame(s, r), r, A)
<1> DEFINE t == startGame(s, r)
<1>1. NoBankerChange(s, t) /\ Unmoved(s, t)
  BY StartBanks, StartUnmoved
<1>2. t.crashed = s.crashed
  BY DEF startGame, Good, StateTypes
<1> HIDE DEF t
<1>3. /\ Good(t)
      /\ \A x \in Characters : InRoom(t, x) <=> InRoom(s, x)
  BY <1>1, UnmovedGood
<1>4. Banked(s) => Banked(t)
  BY <1>1, UnmovedBanks
<1>5. Enters(s, t, A)
  BY <1>1, <1>2, <1>3, <1>4 DEF Enters, Unmoved, Characters
<1>6. IdleRobots(t) = IdleRobots(s) /\ t.rooms[r].members = s.rooms[r].members
  BY <1>1 DEF IdleRobots, Unmoved, SamePeople, Characters
<1>7. Supply(t, r) = Supply(s, r) /\ Supply(s, r) \in Nat
  BY <1>6, SupplyType DEF Supply
<1> QED
  BY <1>1, <1>5, <1>7 DEF Fills, Unmoved, t

----------------------------------------------------------------------------
(* What the loops keep *)

\* The players of the requests are sent to rooms.
LEMMA SendEnters ==
    ASSUME NEW s, Good(s), NEW q \in Seq(MatchInfo), NEW room
    PROVE  Enters(s, sendToRooms(s, q, room), Waiters(q))
<1>1. Len(q) \in Nat
  BY LenProperties
<1>2. PICK sent : /\ sendToRooms(s, q, room) = sent[Len(q)]
                  /\ sent[0] = s
                  /\ \A n \in 1 .. Len(q) :
                        sent[n] = joinRoom(sent[n - 1], q[n].player, room[n])
  BY <1>1, SendingTurns
<1> DEFINE Sent == {n \in 0 .. Len(q) : Enters(s, sent[n], Waiters(q))}
<1>3. 0 \in Sent
  BY <1>1, <1>2 DEF Enters
<1>4. ASSUME NEW n \in 0 .. Len(q) - 1, n \in Sent
      PROVE  n + 1 \in Sent
  <2>1. n + 1 \in 1 .. Len(q) /\ (n + 1) - 1 = n
    BY <1>1
  <2>2. q[n + 1] \in MatchInfo /\ n + 1 \in DOMAIN q
    BY <2>1, ElementOfSeq, LenProperties
  <2>3. q[n + 1].player \in Players /\ q[n + 1].player \in Waiters(q)
    BY <2>2 DEF MatchInfo, Waiters
  <2>4. Enters(s, sent[n], Waiters(q)) /\ Good(sent[n])
    BY <1>4 DEF Enters
  <2>5. sent[n + 1] = joinRoom(sent[n], q[n + 1].player, room[n + 1])
    BY <1>2, <2>1
  <2>6. Enters(sent[n], sent[n + 1], Waiters(q))
    BY <2>3, <2>4, <2>5, JoinFills
  <2>7. Enters(s, sent[n + 1], Waiters(q))
    BY <2>4, <2>6, EntersMore
  <2> QED
    BY <1>1, <2>7
<1>5. \A n \in 0 .. Len(q) - 1 : n \in Sent => n + 1 \in Sent
  BY <1>4
<1> HIDE DEF Sent
<1>6. \A n \in 0 .. Len(q) : n \in Sent
  BY <1>1, <1>3, <1>5, SetInduction
<1>7. Len(q) \in Sent
  BY <1>1, <1>6
<1> QED
  BY <1>2, <1>7 DEF Sent

\* Robots are added while the room is not full: there are idle ones enough.
LEMMA FillFills ==
    ASSUME NEW s, Good(s), NEW r \in Rooms(s), Supply(s, r) >= MaxPlayer, NEW A
    PROVE  Fills(s, fillWithRobots(s, r), r, A)
<1>1. MaxPlayer \in Nat
  BY LobbyAssumption
<1>2. PICK filled : /\ fillWithRobots(s, r) = filled[MaxPlayer]
                    /\ filled[0] = s
                    /\ \A n \in 1 .. MaxPlayer : filled[n] = FillTurn(filled[n - 1], r)
  BY FillingTurns
<1> DEFINE Filled == {n \in 0 .. MaxPlayer : Fills(s, filled[n], r, A)}
<1>3. 0 \in Filled
  BY <1>1, <1>2, FillsNothing
<1>4. ASSUME NEW n \in 0 .. MaxPlayer - 1, n \in Filled
      PROVE  n + 1 \in Filled
  <2>1. n + 1 \in 1 .. MaxPlayer /\ (n + 1) - 1 = n
    BY <1>1
  <2>2. PICK x : x = filled[n]
    OBVIOUS
  <2>3. Fills(s, x, r, A) /\ Good(x) /\ r \in Rooms(x)
    BY <1>4, <2>2 DEF Fills, Enters
  <2>4. filled[n + 1] = FillTurn(x, r)
    BY <1>2, <2>1, <2>2
  <2>5. CASE isFull(x.rooms[r])
    BY <1>1, <2>1, <2>3, <2>4, <2>5 DEF FillTurn
  <2>6. CASE ~isFull(x.rooms[r])
    <3>1. Supply(s, r) \in Nat /\ Supply(x, r) \in Nat
      BY <2>3, SupplyType
    <3>2. Supply(x, r) >= MaxPlayer
      BY <1>1, <2>3, <3>1 DEF Fills
    <3>3. Cardinality(x.rooms[r].members) \in Nat /\ Cardinality(IdleRobots(x)) \in Nat
      BY <2>3, IdleFinite, MembersFinite DEF Good
    <3>4. Cardinality(x.rooms[r].members) < MaxPlayer
      BY <1>1, <2>6, <3>3 DEF isFull
    <3>5. Cardinality(IdleRobots(x)) # 0
      BY <1>1, <3>2, <3>3, <3>4 DEF Supply
    <3>6. IdleRobots(x) # {}
      BY <3>5, FS_EmptySet
    <3>7. filled[n + 1] = addRobot(x, r)
      BY <2>4, <2>6 DEF FillTurn
    <3>8. Fills(x, filled[n + 1], r, A)
      BY <2>3, <2>6, <3>6, <3>7, AddRobotFills
    <3>9. Fills(s, filled[n + 1], r, A)
      BY <2>3, <3>8, FillsMore
    <3> QED
      BY <1>1, <2>1, <3>9
  <2> QED
    BY <2>5, <2>6
<1>5. \A n \in 0 .. MaxPlayer - 1 : n \in Filled => n + 1 \in Filled
  BY <1>4
<1> HIDE DEF Filled
<1>6. \A n \in 0 .. MaxPlayer : n \in Filled
  BY <1>1, <1>3, <1>5, SetInduction
<1>7. MaxPlayer \in Filled
  BY <1>1, <1>6
<1> QED
  BY <1>2, <1>7 DEF Filled

\* A player gets a room of robots.  It takes a new room and no more robots than a
\* room has seats.
LEMMA MatchEnters ==
    ASSUME NEW s, Good(s), s.created < MaxRooms, Cardinality(IdleRobots(s)) >= MaxPlayer,
           NEW A, NEW p \in Players, p \in A
    PROVE  /\ Enters(s, matchWithRobots(s, p), A)
           /\ matchWithRobots(s, p).created = s.created + 1
           /\ Cardinality(IdleRobots(matchWithRobots(s, p))) >=
                 Cardinality(IdleRobots(s)) - MaxPlayer
<1> DEFINE r == s.created
           made == createRoom(s)
           owned == addRobot(made, r)
           joined == joinRoom(owned, p, r)
           full == fillWithRobots(joined, r)
           begun == startGame(full, r)
           t == matchWithRobots(s, p)
<1>1. MaxPlayer \in Nat /\ MaxPlayer >= 1
  BY LobbyAssumption
<1>2. t \in {full, begun}
  BY DEF matchWithRobots
<1>3. /\ Good(made) /\ Rooms(made) = Rooms(s) \cup {r} /\ made.crashed = s.crashed
      /\ \A x \in Characters : InRoom(made, x) <=> InRoom(s, x)
  BY CreateRoomGood
<1>4. made.data = s.data /\ (Banked(s) => Banked(made))
  BY CreateRoomBanks
<1>5. made.created = s.created + 1 /\ made.rooms[r].members = {}
  <2>1. DOMAIN s = {"rooms", "data", "created", "crashed"} /\ s.created \in Int
    BY LobbyAssumption DEF Good, StateTypes
  <2> QED
    BY <2>1 DEF createRoom, NewRoom
<1> HIDE DEF made, r
<1>6. Enters(s, made, A)
  BY <1>3, <1>4 DEF Enters, Characters
<1>7. Cardinality(made.rooms[r].members) = 0
  BY <1>5, FS_EmptySet
<1>8. ~isFull(made.rooms[r])
  BY <1>1, <1>7 DEF isFull
<1>9. IdleRobots(made) = IdleRobots(s)
  BY <1>4 DEF IdleRobots
<1>10. IdleRobots(made) # {}
  BY <1>1, <1>9, FS_EmptySet
<1>11. Fills(made, owned, r, A)
  BY <1>3, <1>8, <1>10, AddRobotFills
<1>12. Good(owned) /\ r \in Rooms(owned)
  BY <1>3, <1>11 DEF Fills, Enters
<1> HIDE DEF owned
<1>13. Fills(made, joined, r, A)
  <2>1. Fills(owned, joined, r, A)
    BY <1>12, JoinFills
  <2> QED
    BY <1>3, <1>11, <2>1, FillsMore
<1>14. Good(joined) /\ r \in Rooms(joined)
  BY <1>3, <1>13 DEF Fills, Enters
<1> HIDE DEF joined
<1>15. Cardinality(IdleRobots(s)) \in Nat
  BY IdleFinite
<1>16. Supply(made, r) = Cardinality(IdleRobots(s))
  BY <1>7, <1>9, <1>15 DEF Supply
<1>17. Fills(made, full, r, A)
  <2>1. Supply(joined, r) \in Nat
    BY <1>14, SupplyType
  <2>2. Supply(joined, r) >= MaxPlayer
    BY <1>1, <1>13, <1>15, <1>16, <2>1 DEF Fills
  <2>3. Fills(joined, full, r, A)
    BY <1>14, <2>2, FillFills
  <2> QED
    BY <1>3, <1>13, <2>3, FillsMore
<1>18. Good(full) /\ r \in Rooms(full)
  BY <1>3, <1>17 DEF Fills, Enters
<1> HIDE DEF full
<1>19. Fills(made, begun, r, A)
  <2>1. Fills(full, begun, r, A)
    BY <1>18, StartFills
  <2> QED
    BY <1>3, <1>17, <2>1, FillsMore
<1>20. Fills(made, t, r, A)
  BY <1>2, <1>17, <1>19
<1> HIDE DEF t, begun
<1>21. Enters(s, t, A) /\ t.created = s.created + 1
  BY <1>5, <1>6, <1>20, EntersMore DEF Fills
<1>22. Cardinality(IdleRobots(t)) >= Cardinality(IdleRobots(s)) - MaxPlayer
  <2>1. Good(t) /\ r \in Rooms(t)
    BY <1>3, <1>20 DEF Fills, Enters
  <2>2. Cardinality(t.rooms[r].members) \in Nat /\ Cardinality(IdleRobots(t)) \in Nat
    BY <2>1, IdleFinite, MembersFinite DEF Good
  <2>3. Cardinality(t.rooms[r].members) <= MaxPlayer
    BY <2>1 DEF Good, StateTypes
  <2>4. Cardinality(IdleRobots(t)) + Cardinality(t.rooms[r].members) >=
           Cardinality(IdleRobots(s))
    BY <1>16, <1>20 DEF Fills, Supply
  <2>5. \A i, m, j, k \in Nat : m <= k /\ i + m >= j => i >= j - k
    OBVIOUS
  <2> QED
    BY <1>1, <1>15, <2>2, <2>3, <2>4, <2>5
<1> QED
  BY <1>21, <1>22 DEF t

----------------------------------------------------------------------------
(* The pool *)

\* Nobody waits twice.
Once(q) == \A i, j \in DOMAIN q : q[i].player = q[j].player => i = j

LEMMA WaitersCounted ==
    ASSUME NEW q \in Seq(MatchInfo), Once(q)
    PROVE  Cardinality(Waiters(q)) = Len(q)
<1> DEFINE f == [i \in 1 .. Len(q) |-> q[i].player]
<1>1. Len(q) \in Nat /\ DOMAIN q = 1 .. Len(q)
  BY LenProperties
<1>2. f \in Injection(1 .. Len(q), Waiters(q)) /\ f \in Surjection(1 .. Len(q), Waiters(q))
  BY <1>1 DEF Once, Waiters, Injection, Surjection, IsInjective
<1>3. ExistsBijection(1 .. Len(q), Waiters(q))
  BY <1>2 DEF ExistsBijection, Bijection
<1> QED
  BY <1>1, <1>3, FS_CountingElements

\* One more request.
LEMMA WaitersAppend ==
    ASSUME NEW q \in Seq(MatchInfo), NEW info \in MatchInfo
    PROVE  /\ Append(q, info) \in Seq(MatchInfo)
           /\ Waiters(Append(q, info)) = Waiters(q) \cup {info.player}
           /\ Once(q) /\ info.player \notin Waiters(q) => Once(Append(q, info))
<1>1. PICK n, v : n = Len(q) /\ v = Append(q, info)
  OBVIOUS
<1>2. /\ n \in Nat /\ DOMAIN q = 1 .. n
      /\ v \in Seq(MatchInfo) /\ DOMAIN v = 1 .. n + 1
      /\ v[n + 1] = info /\ \A i \in 1 .. n : v[i] = q[i]
  BY <1>1, LenProperties, AppendProperties
<1>3. \A i \in 1 .. n + 1 : i \in 1 .. n \/ i = n + 1
  BY <1>2
<1>4. 1 .. n \subseteq 1 .. n + 1 /\ n + 1 \in 1 .. n + 1
  BY <1>2
<1>5. Waiters(v) = Waiters(q) \cup {info.player}
  <2>1. ASSUME NEW i \in 1 .. n + 1
        PROVE  v[i].player \in Waiters(q) \cup {info.player}
    BY <1>2, <1>3 DEF Waiters
  <2>2. Waiters(v) \subseteq Waiters(q) \cup {info.player}
    BY <1>2, <2>1 DEF Waiters
  <2>3. Waiters(q) \subseteq Waiters(v)
    BY <1>2, <1>4 DEF Waiters
  <2>4. info.player \in Waiters(v)
    BY <1>2, <1>4 DEF Waiters
  <2> QED
    BY <2>2, <2>3, <2>4
<1>6. ASSUME Once(q), info.player \notin Waiters(q)
      PROVE  Once(v)
  <2>1. \A i \in 1 .. n : q[i].player # info.player
    BY <1>2, <1>6 DEF Waiters
  <2> QED
    BY <1>2, <1>3, <1>6, <2>1 DEF Once
<1> QED
  BY <1>1, <1>2, <1>5, <1>6

\* The requests that are not late wait on.
LEMMA WaitsOnIs ==
    ASSUME NEW info \in MatchInfo, ~isLate(info)
    PROVE  waitsOn(info) \in MatchInfo /\ waitsOn(info).player = info.player
BY MatchAssumption DEF MatchInfo, isLate, waitsOn

LEMMA TurnIs ==
    ASSUME NEW lobby, NEW waiting, NEW info
    PROVE  turn([lobby |-> lobby, waiting |-> waiting], info) =
              IF isLate(info)
              THEN [lobby |-> matchWithRobots(lobby, info.player), waiting |-> waiting]
              ELSE [lobby |-> lobby, waiting |-> Append(waiting, waitsOn(info))]
BY DEF turn

\* An update in which everybody waits on or gets a room of robots: there are rooms
\* and robots enough for the late ones, and the others wait in their order.
LEMMA VisitEnters ==
    ASSUME NEW s, Good(s), NEW q \in Seq(MatchInfo), Once(q),
           NEW K, K = Cardinality({i \in DOMAIN q : isLate(q[i])}),
           s.created + K <= MaxRooms, Cardinality(IdleRobots(s)) >= MaxPlayer * K
    PROVE  /\ Enters(s, visitAll(s, q).lobby, Waiters(q))
           /\ visitAll(s, q).waiting \in Seq(MatchInfo)
           /\ Once(visitAll(s, q).waiting)
           /\ Waiters(visitAll(s, q).waiting) =
                 {q[i].player : i \in {j \in DOMAIN q : ~isLate(q[j])}}
<1>1. PICK N \in Nat : N = Len(q) /\ DOMAIN q = 1 .. N
  BY LenProperties
<1>2. PICK visited : /\ visitAll(s, q) = visited[N]
                     /\ visited[0] = [lobby |-> s, waiting |-> <<>>]
                     /\ \A n \in 1 .. N : visited[n] = turn(visited[n - 1], q[n])
  <2>1. Len(q) \in Nat
    BY <1>1
  <2>2. \E visited : /\ visitAll(s, q) = visited[Len(q)]
                     /\ visited[0] = [lobby |-> s, waiting |-> <<>>]
                     /\ \A n \in 1 .. Len(q) : visited[n] = turn(visited[n - 1], q[n])
    BY <2>1, VisitingTurns
  <2> QED
    BY <1>1, <2>2, Zenon
<1> DEFINE LateTo(n) == {i \in 1 .. n : isLate(q[i])}
           WaitTo(n) == {q[i].player : i \in {j \in 1 .. n : ~isLate(q[j])}}
           Lobby(l, n) == /\ Enters(s, l, Waiters(q))
                          /\ l.created = s.created + Cardinality(LateTo(n))
                          /\ Cardinality(IdleRobots(l)) >= MaxPlayer * (K - Cardinality(LateTo(n)))
           Waiting(v, n) == /\ v \in Seq(MatchInfo)
                            /\ Once(v)
                            /\ Waiters(v) = WaitTo(n)
           Visited == {n \in 0 .. N : \E l, v :
                          visited[n] = [lobby |-> l, waiting |-> v] /\ Lobby(l, n) /\ Waiting(v, n)}
<1>3. /\ MaxPlayer \in Nat /\ MaxRooms \in Nat /\ s.created \in Nat
      /\ K \in Nat /\ K = Cardinality(LateTo(N))
      /\ \A n \in 0 .. N : IsFiniteSet(LateTo(n)) /\ Cardinality(LateTo(n)) \in Nat
  <2>1. ASSUME NEW n \in 0 .. N
        PROVE  IsFiniteSet(LateTo(n)) /\ Cardinality(LateTo(n)) \in Nat
    <3>1. IsFiniteSet(1 .. n) /\ LateTo(n) \subseteq 1 .. n
      BY FS_Interval
    <3>2. IsFiniteSet(LateTo(n))
      BY <3>1, FS_Subset
    <3> QED
      BY <3>2, FS_CardinalityType
  <2>2. N \in 0 .. N /\ K = Cardinality(LateTo(N))
    BY <1>1
  <2>3. K \in Nat
    BY <2>1, <2>2
  <2>4. MaxPlayer \in Nat /\ MaxRooms \in Nat /\ s.created \in Nat
    BY LobbyAssumption DEF Good, StateTypes
  <2> QED
    BY <2>1, <2>2, <2>3, <2>4
<1>4. 0 \in Visited
  <2>1. Enters(s, s, Waiters(q))
    BY DEF Enters
  <2>2. LateTo(0) = {} /\ WaitTo(0) = {}
    OBVIOUS
  <2>3. Cardinality(LateTo(0)) = 0
    BY <2>2, FS_EmptySet
  <2>4. s.created = s.created + 0 /\ K - 0 = K
    BY <1>3
  <2>5. Lobby(s, 0)
    BY <2>1, <2>3, <2>4
  <2>6. PICK v : v = <<>>
    OBVIOUS
  <2>7. v \in Seq(MatchInfo) /\ DOMAIN v = {}
    BY <2>6
  <2>8. Waiting(v, 0)
    BY <2>2, <2>7 DEF Once, Waiters
  <2>9. visited[0] = [lobby |-> s, waiting |-> v]
    BY <1>2, <2>6
  <2> HIDE DEF Lobby, Waiting
  <2>10. \E l, w : visited[0] = [lobby |-> l, waiting |-> w] /\ Lobby(l, 0) /\ Waiting(w, 0)
    BY <2>5, <2>8, <2>9
  <2>11. 0 \in 0 .. N
    BY <1>1
  <2> QED
    BY <2>10, <2>11
<1>5. ASSUME NEW n \in 0 .. N - 1, n \in Visited
      PROVE  n + 1 \in Visited
  <2>1. n \in 0 .. N /\ n + 1 \in 0 .. N /\ n + 1 \in 1 .. N /\ (n + 1) - 1 = n
    BY <1>1
  <2>2. PICK l, v : visited[n] = [lobby |-> l, waiting |-> v] /\ Lobby(l, n) /\ Waiting(v, n)
    BY <1>5
  <2>3. PICK info : info = q[n + 1]
    OBVIOUS
  <2>4. info \in MatchInfo /\ info.player \in Players /\ info.player \in Waiters(q)
    <3>1. info \in MatchInfo
      BY <1>1, <2>1, <2>3, ElementOfSeq
    <3> QED
      BY <1>1, <2>1, <2>3, <3>1 DEF MatchInfo, Waiters
  <2>5. visited[n + 1] = turn([lobby |-> l, waiting |-> v], info)
    BY <1>2, <2>1, <2>2, <2>3
  <2>6. \A i \in 1 .. n + 1 : i \in 1 .. n \/ i = n + 1
    BY <2>1
  <2>7. 1 .. n \subseteq 1 .. n + 1 /\ n + 1 \in 1 .. n + 1 /\ n + 1 \notin 1 .. n
    BY <2>1
  <2>8. CASE isLate(info)
    <3>1. PICK m : m = matchWithRobots(l, info.player)
      OBVIOUS
    <3>2. visited[n + 1] = [lobby |-> m, waiting |-> v]
      BY <2>5, <2>8, <3>1, TurnIs
    <3>3. LateTo(n + 1) = LateTo(n) \cup {n + 1}
      BY <2>3, <2>6, <2>7, <2>8
    <3>4. WaitTo(n + 1) = WaitTo(n)
      <4>1. {j \in 1 .. n + 1 : ~isLate(q[j])} = {j \in 1 .. n : ~isLate(q[j])}
        BY <2>3, <2>6, <2>7, <2>8
      <4> QED
        BY <4>1
    <3>5. Cardinality(LateTo(n + 1)) = Cardinality(LateTo(n)) + 1
      <4>1. n + 1 \notin LateTo(n) /\ IsFiniteSet(LateTo(n))
        BY <1>3, <2>1, <2>7
      <4> HIDE DEF LateTo
      <4> QED
        BY <3>3, <4>1, FS_AddElement
    <3>6. Cardinality(LateTo(n + 1)) <= K
      <4>1. LateTo(n + 1) \subseteq LateTo(N) /\ IsFiniteSet(LateTo(N))
        BY <1>1, <1>3, <2>1
      <4> HIDE DEF LateTo
      <4> QED
        BY <1>3, <4>1, FS_Subset
    <3> HIDE DEF LateTo
    <3>7. PICK c \in Nat : c = Cardinality(LateTo(n))
      BY <1>3, <2>1
    <3>8. c + 1 <= K /\ l.created = s.created + c
          /\ Cardinality(IdleRobots(l)) >= MaxPlayer * (K - c)
      BY <2>2, <3>5, <3>6, <3>7
    <3>9. PICK k \in Nat : K - c = k + 1 /\ K - (c + 1) = k
      <4>1. \A a, b \in Nat : b + 1 <= a =>
               \E k \in Nat : a - b = k + 1 /\ a - (b + 1) = k
        <5> SUFFICES ASSUME NEW a \in Nat, NEW b \in Nat, b + 1 <= a
                     PROVE  a - (b + 1) \in Nat /\ a - b = a - (b + 1) + 1
          OBVIOUS
        <5> QED
          OBVIOUS
      <4>2. K \in Nat /\ c + 1 <= K
        BY <1>3, <3>8
      <4> QED
        BY <4>1, <4>2
    <3>10. MaxPlayer * (k + 1) = MaxPlayer * k + MaxPlayer /\ MaxPlayer * k \in Nat
      BY <1>3, <3>9
    <3>11. Cardinality(IdleRobots(l)) \in Nat
      BY IdleFinite
    <3>12. Cardinality(IdleRobots(l)) >= MaxPlayer * k + MaxPlayer
           /\ Cardinality(IdleRobots(l)) >= MaxPlayer /\ l.created < MaxRooms
      <4>1. Cardinality(IdleRobots(l)) >= MaxPlayer * k + MaxPlayer
        BY <3>8, <3>9, <3>10
      <4>2. \A i, a, j \in Nat : i >= j + a => i >= a
        OBVIOUS
      <4>3. MaxPlayer \in Nat
        BY <1>3
      <4>4. \A i, j, a, b \in Nat : i + a <= b /\ j + 1 <= a => i + j < b
        OBVIOUS
      <4>5. s.created \in Nat /\ K \in Nat /\ MaxRooms \in Nat
        BY <1>3
      <4>6. s.created + c < MaxRooms
        BY <3>8, <4>4, <4>5
      <4> QED
        BY <3>8, <3>10, <3>11, <4>1, <4>2, <4>3, <4>6
    <3>13. Good(l)
      BY <2>2 DEF Enters
    <3>14. /\ Enters(l, m, Waiters(q))
           /\ m.created = l.created + 1
           /\ Cardinality(IdleRobots(m)) >= Cardinality(IdleRobots(l)) - MaxPlayer
      BY <2>4, <3>1, <3>12, <3>13, MatchEnters
    <3>15. Enters(s, m, Waiters(q))
      BY <2>2, <3>14, EntersMore
    <3>16. m.created = s.created + Cardinality(LateTo(n + 1))
      <4>1. s.created \in Nat
        BY <1>3
      <4>2. m.created = (s.created + c) + 1
        BY <3>8, <3>14
      <4>3. \A a, b \in Nat : (a + b) + 1 = a + (b + 1)
        OBVIOUS
      <4> QED
        BY <3>5, <3>7, <4>1, <4>2, <4>3
    <3>17. Cardinality(IdleRobots(m)) >= MaxPlayer * (K - Cardinality(LateTo(n + 1)))
      <4>1. Cardinality(IdleRobots(m)) \in Nat
        BY IdleFinite
      <4>2. Cardinality(IdleRobots(m)) >= MaxPlayer * k
        <5>1. \A i, j, a, b \in Nat : i >= j - b /\ j >= a + b => i >= a
          OBVIOUS
        <5>2. MaxPlayer \in Nat
          BY <1>3
        <5> QED
          BY <3>10, <3>11, <3>12, <3>14, <4>1, <5>1, <5>2
      <4>3. K - Cardinality(LateTo(n + 1)) = k
        BY <3>5, <3>7, <3>9
      <4> QED
        BY <4>2, <4>3
    <3>18. Lobby(m, n + 1)
      BY <3>15, <3>16, <3>17
    <3>19. Waiting(v, n + 1)
      BY <2>2, <3>4
    <3> HIDE DEF Lobby, Waiting
    <3> QED
      BY <2>1, <3>2, <3>18, <3>19
  <2>9. CASE ~isLate(info)
    <3>1. PICK w : w = Append(v, waitsOn(info))
      OBVIOUS
    <3>2. visited[n + 1] = [lobby |-> l, waiting |-> w]
      BY <2>5, <2>9, <3>1, TurnIs
    <3>3. LateTo(n + 1) = LateTo(n)
      BY <2>3, <2>6, <2>7, <2>9
    <3>4. WaitTo(n + 1) = WaitTo(n) \cup {info.player}
      <4>1. {j \in 1 .. n + 1 : ~isLate(q[j])} = {j \in 1 .. n : ~isLate(q[j])} \cup {n + 1}
        BY <2>3, <2>6, <2>7, <2>9
      <4> QED
        BY <2>3, <4>1
    <3>5. info.player \notin WaitTo(n)
      BY <1>1, <2>1, <2>3, <2>7 DEF Once
    <3>6. waitsOn(info) \in MatchInfo /\ waitsOn(info).player = info.player
      BY <2>4, <2>9, WaitsOnIs
    <3>7. Waiting(w, n + 1)
      <4> HIDE DEF WaitTo
      <4>1. v \in Seq(MatchInfo) /\ Once(v) /\ Waiters(v) = WaitTo(n)
        BY <2>2
      <4>2. w \in Seq(MatchInfo) /\ Waiters(w) = Waiters(v) \cup {info.player} /\ Once(w)
        BY <3>1, <3>5, <3>6, <4>1, WaitersAppend
      <4> QED
        BY <3>4, <4>1, <4>2
    <3>8. Lobby(l, n + 1)
      BY <2>2, <3>3
    <3> HIDE DEF Lobby, Waiting
    <3> QED
      BY <2>1, <3>2, <3>7, <3>8
  <2> QED
    BY <2>8, <2>9
<1>6. \A n \in 0 .. N - 1 : n \in Visited => n + 1 \in Visited
  BY <1>5
<1>7. N \in Visited
  <2> HIDE DEF Visited
  <2>1. \A n \in 0 .. N : n \in Visited
    BY <1>4, <1>6, SetInduction
  <2> QED
    BY <1>1, <2>1
<1>8. PICK l, v : visited[N] = [lobby |-> l, waiting |-> v] /\ Lobby(l, N) /\ Waiting(v, N)
  BY <1>7
<1>9. visitAll(s, q).lobby = l /\ visitAll(s, q).waiting = v
  BY <1>2, <1>8
<1> QED
  BY <1>1, <1>8, <1>9

\* The request of a player is taken out of the list.
Without(q, k) == SubSeq(q, 1, k - 1) \o SubSeq(q, k + 1, Len(q))

LEMMA WithoutIs ==
    ASSUME NEW q \in Seq(MatchInfo), NEW k \in 1 .. Len(q)
    PROVE  /\ Without(q, k) \in Seq(MatchInfo)
           /\ DOMAIN Without(q, k) = 1 .. Len(q) - 1
           /\ \A i \in 1 .. Len(q) - 1 : Without(q, k)[i] = IF i < k THEN q[i] ELSE q[i + 1]
<1>1. PICK n, a, b : n = Len(q) /\ a = SubSeq(q, 1, k - 1) /\ b = SubSeq(q, k + 1, Len(q))
  OBVIOUS
<1>2. n \in Nat /\ k \in 1 .. n /\ \A i \in 1 .. n : q[i] \in MatchInfo
  BY <1>1, LenProperties, ElementOfSeq
<1>3. /\ a \in Seq(MatchInfo) /\ Len(a) = k - 1
      /\ \A i \in 1 .. k - 1 : a[i] = q[i]
  <2>1. k - 1 \in Int /\ 1 \in Int /\ \A i \in 1 .. k - 1 : q[i] \in MatchInfo
    BY <1>2
  <2>2. /\ SubSeq(q, 1, k - 1) \in Seq(MatchInfo)
        /\ Len(SubSeq(q, 1, k - 1)) = IF 1 <= k - 1 THEN k - 1 - 1 + 1 ELSE 0
        /\ \A i \in 1 .. k - 1 - 1 + 1 : SubSeq(q, 1, k - 1)[i] = q[1 + i - 1]
    BY <2>1, SubSeqProperties
  <2>3. a \in Seq(MatchInfo) /\ Len(a) = k - 1
    BY <1>1, <1>2, <2>2
  <2>4. ASSUME NEW i \in 1 .. k - 1 PROVE a[i] = q[i]
    BY <1>1, <1>2, <2>2
  <2> QED
    BY <2>3, <2>4
<1>4. /\ b \in Seq(MatchInfo) /\ Len(b) = n - k
      /\ \A i \in 1 .. n - k : b[i] = q[k + i]
  <2>1. k + 1 \in Int /\ n \in Int /\ \A i \in k + 1 .. n : q[i] \in MatchInfo
    BY <1>2
  <2>2. /\ SubSeq(q, k + 1, n) \in Seq(MatchInfo)
        /\ Len(SubSeq(q, k + 1, n)) = IF k + 1 <= n THEN n - (k + 1) + 1 ELSE 0
        /\ \A i \in 1 .. n - (k + 1) + 1 : SubSeq(q, k + 1, n)[i] = q[k + 1 + i - 1]
    BY <2>1, SubSeqProperties
  <2>3. b \in Seq(MatchInfo) /\ Len(b) = n - k
    BY <1>1, <1>2, <2>2
  <2>4. ASSUME NEW i \in 1 .. n - k PROVE b[i] = q[k + i]
    BY <1>1, <1>2, <2>2
  <2> QED
    BY <2>3, <2>4
<1>5. PICK v : v = a \o b
  OBVIOUS
<1>6. /\ v \in Seq(MatchInfo) /\ Len(v) = Len(a) + Len(b)
      /\ \A i \in 1 .. Len(a) + Len(b) : v[i] = IF i <= Len(a) THEN a[i] ELSE b[i - Len(a)]
  BY <1>3, <1>4, <1>5, ConcatProperties
<1>7. DOMAIN v = 1 .. n - 1
  <2>1. DOMAIN v = 1 .. Len(v) /\ Len(v) = (k - 1) + (n - k)
    BY <1>3, <1>4, <1>6, LenProperties
  <2> QED
    BY <1>2, <2>1
<1>8. ASSUME NEW i \in 1 .. n - 1
      PROVE  v[i] = IF i < k THEN q[i] ELSE q[i + 1]
  <2>1. v[i] = IF i <= k - 1 THEN a[i] ELSE b[i - (k - 1)]
    BY <1>2, <1>3, <1>4, <1>6
  <2>2. CASE i < k
    BY <1>2, <1>3, <2>1, <2>2
  <2>3. CASE ~(i < k)
    <3>1. i - (k - 1) \in 1 .. n - k /\ k + (i - (k - 1)) = i + 1 /\ ~(i <= k - 1)
      BY <1>2, <2>3
    <3> QED
      BY <1>4, <2>1, <2>3, <3>1
  <2> QED
    BY <2>2, <2>3
<1>9. Without(q, k) = v
  BY <1>1, <1>5 DEF Without
<1> QED
  BY <1>1, <1>6, <1>7, <1>8, <1>9

LEMMA WaitersWithout ==
    ASSUME NEW q \in Seq(MatchInfo), Once(q), NEW k \in 1 .. Len(q)
    PROVE  /\ Without(q, k) \in Seq(MatchInfo)
           /\ Once(Without(q, k))
           /\ Waiters(Without(q, k)) = Waiters(q) \ {q[k].player}
<1>1. PICK n, v : n = Len(q) /\ v = Without(q, k)
  OBVIOUS
<1>2. /\ n \in Nat /\ k \in 1 .. n /\ DOMAIN q = 1 .. n
      /\ v \in Seq(MatchInfo) /\ DOMAIN v = 1 .. n - 1
      /\ \A i \in 1 .. n - 1 : v[i] = IF i < k THEN q[i] ELSE q[i + 1]
  BY <1>1, WithoutIs, LenProperties
<1>3. ASSUME NEW i \in 1 .. n - 1
      PROVE  \E j \in 1 .. n : j # k /\ v[i] = q[j] /\ j = IF i < k THEN i ELSE i + 1
  <2>1. CASE i < k
    BY <1>2, <2>1
  <2>2. CASE ~(i < k)
    <3>1. i + 1 \in 1 .. n /\ i + 1 # k
      BY <1>2, <2>2
    <3> QED
      BY <1>2, <2>2, <3>1
  <2> QED
    BY <2>1, <2>2
<1>4. ASSUME NEW j \in 1 .. n, j # k
      PROVE  \E i \in 1 .. n - 1 : v[i] = q[j]
  <2>1. CASE j < k
    <3>1. j \in 1 .. n - 1
      BY <1>2, <2>1
    <3> QED
      BY <1>2, <2>1, <3>1
  <2>2. CASE ~(j < k)
    <3>1. j - 1 \in 1 .. n - 1 /\ ~(j - 1 < k) /\ (j - 1) + 1 = j
      BY <1>2, <1>4, <2>2
    <3> QED
      BY <1>2, <3>1
  <2> QED
    BY <2>1, <2>2
<1>5. \A i, j \in 1 .. n : q[i].player = q[j].player => i = j
  BY <1>2 DEF Once
<1>6. Once(v)
  <2> SUFFICES ASSUME NEW i \in 1 .. n - 1, NEW j \in 1 .. n - 1, v[i].player = v[j].player
               PROVE  i = j
    BY <1>2 DEF Once
  <2>1. PICK x \in 1 .. n : v[i] = q[x] /\ x = IF i < k THEN i ELSE i + 1
    BY <1>3
  <2>2. PICK y \in 1 .. n : v[j] = q[y] /\ y = IF j < k THEN j ELSE j + 1
    BY <1>3
  <2>3. x = y
    BY <1>5, <2>1, <2>2
  <2> QED
    BY <1>2, <2>1, <2>2, <2>3
<1>7. Waiters(v) = Waiters(q) \ {q[k].player}
  <2>1. ASSUME NEW i \in 1 .. n - 1
        PROVE  v[i].player \in Waiters(q) /\ v[i].player # q[k].player
    <3>1. PICK j \in 1 .. n : j # k /\ v[i] = q[j]
      BY <1>3
    <3> QED
      BY <1>2, <1>5, <3>1 DEF Waiters
  <2>2. ASSUME NEW p \in Waiters(q), p # q[k].player
        PROVE  p \in Waiters(v)
    <3>1. PICK j \in 1 .. n : p = q[j].player
      BY <1>2 DEF Waiters
    <3>2. PICK i \in 1 .. n - 1 : v[i] = q[j]
      BY <1>4, <2>2, <3>1
    <3> QED
      BY <1>2, <3>1, <3>2 DEF Waiters
  <2>3. Waiters(v) \subseteq Waiters(q) \ {q[k].player}
    BY <1>2, <2>1 DEF Waiters
  <2> QED
    BY <2>2, <2>3
<1> QED
  BY <1>1, <1>2, <1>6, <1>7

\* A player that goes offline while it waits is taken out of the list: the first
\* request of its, which is the only one.
LEMMA OfflineForgets ==
    ASSUME NEW p \in inPool, pool \in Seq(MatchInfo), inPool = Waiters(pool)
    PROVE  \E k \in 1 .. Len(pool) :
              pool[k].player = p /\ notifyPlayerOffline(p) = Without(pool, k)
<1> DEFINE I == {i \in 1 .. Len(pool) : pool[i].player = p}
           k == CHOOSE i \in I : \A j \in I : i <= j
<1>1. DOMAIN pool = 1 .. Len(pool) /\ Len(pool) \in Nat
  BY LenProperties
<1>2. I # {} /\ I \subseteq Nat
  BY <1>1 DEF Waiters
<1>3. \E i \in I : \A j \in I : i <= j
  <2> HIDE DEF I
  <2> QED
    BY <1>2, LeastNumber
<1>4. k \in I
  <2> HIDE DEF I
  <2> QED
    BY <1>3
<1>5. \E i \in 1 .. Len(pool) : pool[i].player = p
  BY <1>2
<1>6. SelectInSeq(pool, LAMBDA info : info.player = p) = k
  BY <1>2 DEF SelectInSeq, Min
<1>7. RemoveFirstMatch(pool, LAMBDA info : info.player = p) =
         RemoveAt(pool, SelectInSeq(pool, LAMBDA info : info.player = p))
  BY <1>5 DEF RemoveFirstMatch
<1> HIDE DEF k
<1>8. notifyPlayerOffline(p) = Without(pool, k)
  BY <1>6, <1>7 DEF notifyPlayerOffline, RemoveAt, Without
<1> QED
  BY <1>4, <1>8

----------------------------------------------------------------------------
(* The invariant holds in every reachable state *)

(* The list names a player once, the map the same ones, and all are logged in. *)
PoolInv ==
    /\ pool \in Seq(MatchInfo)
    /\ Once(pool)
    /\ inPool = Waiters(pool)
    /\ \A p \in inPool : LoggedIn(p)

MatchInv == Inv /\ Banked(server) /\ PoolInv

\* Only players wait.
LEMMA WaitersArePlayers ==
    ASSUME PoolInv
    PROVE  inPool \subseteq Players
<1>1. \A i \in DOMAIN pool : pool[i] \in MatchInfo
  BY LenProperties, ElementOfSeq DEF PoolInv
<1> QED
  BY <1>1 DEF PoolInv, Waiters, MatchInfo

LEMMA MatchInvInit == MatchInit => MatchInv
<1> SUFFICES ASSUME MatchInit PROVE MatchInv
  OBVIOUS
<1>1. Inv
  BY InvInit DEF MatchInit
<1>2. Banked(server)
  BY DEF MatchInit, Init, Banked, Rooms
<1>3. PoolInv
  BY DEF MatchInit, PoolInv, Once, Waiters
<1> QED
  BY <1>1, <1>2, <1>3 DEF MatchInv

\* A step of the lobby logs no waiting player out.
LEMMA LobbyStep ==
    ASSUME MatchInv, Step, UNCHANGED <<pool, inPool>>
    PROVE  MatchInv'
<1>1. [Next]_vars
  BY DEF Next
<1>2. Inv' /\ Banked(server)'
  BY <1>1, InvStep, NextKept DEF MatchInv, Kept
<1>3. object' = object \/ \E p \in Players : Login(p)
  BY DEF Step, CreateRoom, AddMahjongRobot, LeaveRequest, Disconnect, JoinRoom, Ready,
         ContinueGame, QuitGame, EndGame, PlayBreaks
<1>4. \A p \in inPool : LoggedIn(p)'
  <2>1. CASE object' = object
    BY <2>1 DEF MatchInv, PoolInv, LoggedIn
  <2>2. ASSUME NEW q \in Players, Login(q)
        PROVE  \A p \in inPool : LoggedIn(p)'
    <3>1. PICK a \in Objects : object' = [object EXCEPT ![q] = a]
      BY <2>2 DEF Login
    <3>2. a # Freed /\ object \in [Players -> Objects \cup {Freed}]
      BY <3>1, LobbyAssumption DEF MatchInv, Inv
    <3>3. inPool \subseteq Players /\ \A p \in inPool : LoggedIn(p)
      BY WaitersArePlayers DEF MatchInv, PoolInv
    <3> QED
      BY <3>1, <3>2, <3>3 DEF LoggedIn
  <2> QED
    BY <1>3, <2>1, <2>2
<1>5. PoolInv'
  BY <1>4 DEF MatchInv, PoolInv
<1> QED
  BY <1>2, <1>5 DEF MatchInv

LEMMA RequestStep ==
    ASSUME MatchInv, NEW p \in Players, requestFreeMatch(p)
    PROVE  MatchInv'
<1> DEFINE info == [player |-> p, waitTime |-> 0]
<1>1. info \in MatchInfo /\ info.player = p
  BY MatchAssumption DEF MatchInfo
<1>2. UNCHANGED vars
  BY DEF requestFreeMatch, vars
<1>3. Inv' /\ Banked(server)'
  BY <1>2, InvStep, NextKept DEF MatchInv, Kept
<1>4. pool' = Append(pool, info) /\ inPool' = inPool \cup {p} /\ p \notin inPool /\ object' = object
  BY DEF requestFreeMatch
<1>5. LoggedIn(p)
  BY DEF MatchInv, Inv, requestFreeMatch, Request
<1> HIDE DEF info
<1>6. pool' \in Seq(MatchInfo) /\ Once(pool') /\ inPool' = Waiters(pool')
  BY <1>1, <1>4, WaitersAppend DEF MatchInv, PoolInv
<1>7. \A q \in inPool' : LoggedIn(q)'
  BY <1>4, <1>5 DEF MatchInv, PoolInv, LoggedIn
<1>8. PoolInv'
  BY <1>6, <1>7 DEF PoolInv, Once, Waiters
<1> QED
  BY <1>3, <1>8 DEF MatchInv

LEMMA OfflineMatchStep ==
    ASSUME MatchInv, NEW p \in Players, Offline(p)
    PROVE  MatchInv'
<1>1. [Next]_vars
  BY DEF Next, Offline
<1>2. Inv' /\ Banked(server)'
  BY <1>1, InvStep, NextKept DEF MatchInv, Kept
<1>3. /\ pool' = notifyPlayerOffline(p) /\ inPool' = inPool \ {p}
      /\ object' = [object EXCEPT ![p] = Freed]
  BY DEF Offline, NotifyPlayerOffline
<1>4. pool \in Seq(MatchInfo) /\ Once(pool) /\ inPool = Waiters(pool)
  BY DEF MatchInv, PoolInv
<1>5. pool' \in Seq(MatchInfo) /\ Once(pool') /\ inPool' = Waiters(pool')
  <2>1. CASE p \in inPool
    <3>1. PICK k \in 1 .. Len(pool) : pool[k].player = p /\ pool' = Without(pool, k)
      BY <1>3, <1>4, <2>1, OfflineForgets
    <3> QED
      BY <1>3, <1>4, <3>1, WaitersWithout
  <2>2. CASE p \notin inPool
    <3>1. pool' = pool /\ inPool' = inPool
      BY <1>3, <2>2 DEF notifyPlayerOffline
    <3> QED
      BY <1>4, <3>1
  <2> QED
    BY <2>1, <2>2
<1>6. \A q \in inPool' : LoggedIn(q)'
  <2>1. inPool \subseteq Players /\ \A q \in inPool : LoggedIn(q)
    BY WaitersArePlayers DEF MatchInv, PoolInv
  <2> QED
    BY <1>3, <2>1 DEF MatchInv, Inv, LoggedIn
<1>7. PoolInv'
  BY <1>5, <1>6 DEF PoolInv, Once, Waiters
<1> QED
  BY <1>2, <1>7 DEF MatchInv

\* An update brings only players of the pool into rooms; those that stay in the pool
\* are still there once.
LEMMA UpdateKeeps ==
    ASSUME MatchInv, update
    PROVE  /\ Enters(server, server', inPool)
           /\ UNCHANGED <<object, connected>>
           /\ PoolInv'
<1>1. /\ Good(server)
      /\ pool \in Seq(MatchInfo) /\ Once(pool) /\ inPool = Waiters(pool)
      /\ \A p \in inPool : LoggedIn(p)
  BY DEF MatchInv, Inv, PoolInv
<1>2. CASE MatchIntoRooms
  <2>1. PICK room : server' = sendToRooms(server, pool, room)
    BY <1>2 DEF MatchIntoRooms
  <2>2. Enters(server, server', inPool)
    BY <1>1, <2>1, SendEnters
  <2>3. UNCHANGED <<object, connected>> /\ pool' = <<>> /\ inPool' = {}
    BY <1>2 DEF MatchIntoRooms
  <2>4. PoolInv'
    BY <2>3 DEF PoolInv, Once, Waiters
  <2> QED
    BY <2>2, <2>3, <2>4
<1>3. CASE WaitForRoom
  <2>1. /\ server.created + Cardinality(Late) <= MaxRooms
        /\ Cardinality(IdleRobots(server)) >= MaxPlayer * Cardinality(Late)
        /\ server' = visitAll(server, pool).lobby
        /\ pool' = visitAll(server, pool).waiting
        /\ inPool' = inPool \ {pool[i].player : i \in Late}
        /\ UNCHANGED <<object, connected>>
    BY <1>3 DEF WaitForRoom
  <2>2. Late = {i \in DOMAIN pool : isLate(pool[i])}
    BY DEF Late
  <2>3. /\ Enters(server, server', Waiters(pool))
        /\ pool' \in Seq(MatchInfo) /\ Once(pool')
        /\ Waiters(pool') = {pool[i].player : i \in {j \in DOMAIN pool : ~isLate(pool[j])}}
    BY <1>1, <2>1, <2>2, VisitEnters
  <2>4. inPool' = Waiters(pool')
    <3>1. \A i, j \in DOMAIN pool : pool[i].player = pool[j].player => i = j
      BY <1>1 DEF Once
    <3>2. inPool = {pool[i].player : i \in DOMAIN pool}
      BY <1>1 DEF Waiters
    <3> QED
      BY <2>1, <2>2, <2>3, <3>1, <3>2
  <2>5. \A p \in inPool' : LoggedIn(p)'
    BY <1>1, <2>1 DEF LoggedIn
  <2>6. PoolInv'
    BY <2>3, <2>4, <2>5 DEF PoolInv, Once, Waiters
  <2> QED
    BY <1>1, <2>1, <2>3, <2>6
<1> QED
  BY <1>2, <1>3 DEF update

LEMMA UpdateStep ==
    ASSUME MatchInv, update
    PROVE  MatchInv' /\ ClientStays
<1>1. Enters(server, server', inPool) /\ UNCHANGED <<object, connected>> /\ PoolInv'
  BY UpdateKeeps
<1>2. \A p \in inPool : LoggedIn(p)
  BY DEF MatchInv, PoolInv
<1>3. Inv'
  <2>1. \A p \in Players : InRoom(server', p) => LoggedIn(p)
    BY <1>1, <1>2 DEF Enters, MatchInv, Inv
  <2> QED
    BY <1>1, <2>1 DEF Enters, MatchInv, Inv, LoggedIn
<1>4. Banked(server)'
  BY <1>1 DEF Enters, MatchInv
<1>5. Stays(server, server')
  BY <1>1 DEF Enters, Stays
<1> QED
  BY <1>1, <1>3, <1>4, <1>5, StaysKeeps DEF MatchInv

LEMMA MatchInvStep == MatchInv /\ [MatchNext]_matchVars => MatchInv'
<1> SUFFICES ASSUME MatchInv, [MatchNext]_matchVars PROVE MatchInv'
  OBVIOUS
<1>1. CASE Step /\ UNCHANGED <<pool, inPool>>
  BY <1>1, LobbyStep
<1>2. ASSUME NEW p \in Players, requestFreeMatch(p) PROVE MatchInv'
  BY <1>2, RequestStep
<1>3. ASSUME NEW p \in Players, Offline(p) PROVE MatchInv'
  BY <1>3, OfflineMatchStep
<1>4. CASE update
  BY <1>4, UpdateStep
<1>5. CASE UNCHANGED matchVars
  <2>1. UNCHANGED vars /\ pool' = pool /\ inPool' = inPool /\ object' = object
    BY <1>5 DEF matchVars, vars
  <2>2. Inv' /\ Banked(server)'
    BY <2>1, InvStep, NextKept DEF MatchInv, Kept
  <2>3. PoolInv'
    BY <2>1 DEF MatchInv, PoolInv, LoggedIn
  <2> QED
    BY <2>2, <2>3 DEF MatchInv
<1> QED
  BY <1>1, <1>2, <1>3, <1>4, <1>5 DEF MatchNext

LEMMA MatchInvariant == MatchSpec => []MatchInv
<1> QED
  BY MatchInvInit, MatchInvStep, PTL DEF MatchSpec

----------------------------------------------------------------------------
(* Theorems *)

\* The list of the pool and the map beside it name the same players, each once, with
\* a waiting time below the limit, and none that has been freed.
THEOREM PoolHolds == MatchSpec => []PoolAgrees
<1>1. ASSUME MatchInv PROVE PoolAgrees
  <2>1. pool \in Seq(MatchInfo) /\ Once(pool) /\ inPool = Waiters(pool)
    BY <1>1 DEF MatchInv, PoolInv
  <2>2. \A i \in DOMAIN pool : pool[i] \in MatchInfo
    BY <2>1, LenProperties, ElementOfSeq
  <2>3. Cardinality(inPool) = Len(pool)
    BY <2>1, WaitersCounted
  <2> QED
    BY <1>1, <2>2, <2>3 DEF PoolAgrees, MatchInv, PoolInv
<1> QED
  BY <1>1, MatchInvariant, PTL

\* An update moves nobody that is in a room, however long it has been waiting.
THEOREM MatchMovesNobody == MatchSpec => MatchKeepsSeats
<1>1. MatchInv /\ [MatchNext]_matchVars =>
        [update => \A c \in Characters :
            InRoom(server, c) =>
                server'.data[c].room = server.data[c].room
                /\ server'.data[c].position = server.data[c].position]_matchVars
  BY UpdateKeeps DEF Enters
<1> QED
  BY <1>1, MatchInvariant, PTL DEF MatchSpec, MatchKeepsSeats

\* The lobby keeps its invariants under the match system: their operations are used
\* in sequences that no request of a player makes.
THEOREM MatchKeepsRooms == MatchSpec => [](TypeOK /\ SeatsAgree /\ BankerSits)
<1>1. MatchInv => TypeOK /\ SeatsAgree /\ BankerSits
  BY InvAgrees, BankedSits DEF MatchInv, Inv, Good, StateTypes, TypeOK
<1> QED
  BY <1>1, MatchInvariant, PTL

\* With the match system too a room with a client is destroyed in the step in which
\* its last client leaves, and in no other.
THEOREM MatchKeepsClients == MatchSpec => ClientsKeepRoom
<1>1. ASSUME MatchInv, [MatchNext]_matchVars PROVE ClientStays
  <2>1. CASE Step \/ \E p \in Players : Offline(p)
    <3>1. [Next]_vars
      BY <2>1 DEF Next, Offline
    <3> QED
      BY <1>1, <3>1, NextKept DEF MatchInv, Kept
  <2>2. CASE UNCHANGED vars
    BY <1>1, <2>2, NextKept DEF MatchInv, Kept
  <2>3. CASE update
    BY <1>1, <2>3, UpdateStep
  <2>4. ASSUME NEW p \in Players, requestFreeMatch(p) PROVE UNCHANGED vars
    BY <2>4 DEF requestFreeMatch, vars
  <2> QED
    BY <1>1, <2>1, <2>2, <2>3, <2>4 DEF MatchNext, matchVars, vars
<1>2. MatchInv /\ MatchInv' /\ [MatchNext]_matchVars =>
        [\A r \in Rooms(server) :
            Clients(server.rooms[r]) # {} /\ ~server'.crashed =>
              (r \in Rooms(server') <=> \E p \in Players : server'.data[p].room = r)]_vars
  BY <1>1, ClientsKept DEF MatchInv
<1> QED
  BY <1>2, MatchInvariant, PTL DEF MatchSpec, ClientsKeepRoom
=============================================================================
