----------------------------- MODULE FreeMatch -----------------------------
(***************************************************************************)
(* The match system on top of the lobby: players wait in a pool until an   *)
(* update finds a room with an empty seat, or has them wait so long that   *)
(* it makes a room of robots for them.                                     *)
(*                                                                         *)
(* In the code an update also adds the time since the last one.  Here time *)
(* is the number of updates, and MaxWait of them is too long.              *)
(***************************************************************************)
EXTENDS RoomLobby, SequencesExt

CONSTANT MaxWait    \* MAX_FREE_MATCH_WAIT_TIME, in updates

ASSUME MatchAssumption == MaxWait \in Nat \ {0}

VARIABLES
    pool,       \* mFreeMatchPool, the oldest request first
    inPool      \* the keys of mFreeMatchPoolMap

matchVars == <<server, object, connected, pool, inPool>>

MatchInfo == [player: Players, waitTime: 0 .. MaxWait - 1]
Waiters(q) == {q[i].player : i \in DOMAIN q}

MatchInit == Init /\ pool = <<>> /\ inPool = {}

\* Requests of players that wait already are ignored.
requestFreeMatch(p) ==
    /\ Request(p)
    /\ p \notin inPool
    /\ pool' = Append(pool, [player |-> p, waitTime |-> 0])
    /\ inPool' = inPool \cup {p}
    /\ UNCHANGED <<server, object, connected>>

NotFullRooms == {r \in Rooms(server) : ~isFull(server.rooms[r])}

\* The players of the requests q are sent to the rooms chosen for them.
sendToRooms(s, q, room) ==
    LET sent[n \in 0 .. Len(q)] ==
            IF n = 0 THEN s ELSE joinRoom(sent[n - 1], q[n].player, room[n])
    IN  sent[Len(q)]

\* Some room had an empty seat when the update began: every player of the pool
\* is sent to one of those rooms, and leaves the pool whether it gets in or not.
MatchIntoRooms ==
    /\ ~server.crashed
    /\ pool # <<>> /\ NotFullRooms # {}
    /\ \E room \in [DOMAIN pool -> NotFullRooms] : server' = sendToRooms(server, pool, room)
    /\ pool' = <<>>
    /\ inPool' = {}
    /\ UNCHANGED <<object, connected>>

\* A room of robots for player p, with a robot as owner.  The seats that p does
\* not take are the robots'.  The room is told of each robot that is ready: with
\* the last one it starts, if p is not there.
fillWithRobots(s, r) ==
    LET filled[n \in 0 .. MaxPlayer] ==
            IF n = 0 THEN s
            ELSE IF isFull(filled[n - 1].rooms[r]) THEN filled[n - 1]
            ELSE addRobot(filled[n - 1], r)
    IN  filled[MaxPlayer]
matchWithRobots(s, p) ==
    LET r == s.created
        full == fillWithRobots(joinRoom(addRobot(createRoom(s), r), p, r), r)
    IN  IF isAllPlayerReady(full, full.rooms[r]) THEN startGame(full, r) ELSE full

isLate(info) == info.waitTime + 1 >= MaxWait
Late == {i \in DOMAIN pool : isLate(pool[i])}

\* A player that waits on, one update later.  (Variant: its time stands still.)
waitsInVain(info) == info
waitsOn(info) == [info EXCEPT !.waitTime = @ + 1]

\* A turn of the loop over the pool: those that have waited too long get a room of
\* robots, the others wait on.
turn(w, info) ==
    IF isLate(info) THEN [w EXCEPT !.lobby = matchWithRobots(@, info.player)]
    ELSE [w EXCEPT !.waiting = Append(@, waitsOn(info))]
visitAll(s, q) ==
    LET visited[n \in 0 .. Len(q)] ==
            IF n = 0 THEN [lobby |-> s, waiting |-> <<>>] ELSE turn(visited[n - 1], q[n])
    IN  visited[Len(q)]

\* No room had an empty seat.  The code registers more robots when none is idle and
\* has no limit of rooms: the guards on both bound the model.
WaitForRoom ==
    /\ ~server.crashed
    /\ pool # <<>> /\ NotFullRooms = {}
    /\ server.created + Cardinality(Late) <= MaxRooms
    /\ Cardinality(IdleRobots(server)) >= MaxPlayer * Cardinality(Late)
    /\ server' = visitAll(server, pool).lobby
    /\ pool' = visitAll(server, pool).waiting
    /\ inPool' = inPool \ {pool[i].player : i \in Late}
    /\ UNCHANGED <<object, connected>>

update == MatchIntoRooms \/ WaitForRoom

\* A player that goes offline leaves its room, and then the pool.  (Variant: only
\* the map forgets it.)
forgottenInMap(p) == pool
notifyPlayerOffline(p) ==
    IF p \in inPool THEN RemoveFirstMatch(pool, LAMBDA info : info.player = p) ELSE pool

Offline(p) ==
    /\ NotifyPlayerOffline(p)
    /\ pool' = notifyPlayerOffline(p)
    /\ inPool' = inPool \ {p}

MatchNext ==
    \/ Step /\ UNCHANGED <<pool, inPool>>
    \/ \E p \in Players : requestFreeMatch(p) \/ Offline(p)
    \/ update

MatchSpec == MatchInit /\ [][MatchNext]_matchVars

\* The main loop updates the match system again and again.
FairMatchSpec == MatchSpec /\ WF_matchVars(update)

----------------------------------------------------------------------------
(* Properties *)

\* The list and the map of the pool name the same players, each once, with a
\* waiting time below the limit.  All of them are logged in: the list points to no
\* freed character.
PoolAgrees ==
    /\ \A i \in DOMAIN pool : pool[i] \in MatchInfo
    /\ inPool = Waiters(pool)
    /\ Cardinality(inPool) = Len(pool)
    /\ \A p \in inPool : LoggedIn(p)

\* A player in the pool may have joined a room in another way by the time it is
\* matched.  Nobody that is in a room is moved to another room or seat by an update.
MatchKeepsSeats ==
    [][update => \A c \in Characters :
          InRoom(server, c) =>
              server'.data[c].room = server.data[c].room
              /\ server'.data[c].position = server.data[c].position]_matchVars

\* The bounds of the model, not of the code: no room or too few robots left.
AtBound ==
    \/ server.created + Cardinality(Late) > MaxRooms
    \/ Cardinality(IdleRobots(server)) < MaxPlayer * Cardinality(Late)

\* Nobody waits for a match for ever: the time-out ends every wait.
EveryWaitEnds ==
    \A p \in Players : p \in inPool ~> (p \notin inPool \/ server.crashed \/ AtBound)
=============================================================================
