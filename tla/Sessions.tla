------------------------------ MODULE Sessions ------------------------------
(***************************************************************************)
(* Accounts, characters and the connections that use them: registration    *)
(* and login of players and of robots, over the two tables of the data     *)
(* base, which outlive the process.  A query may fail at any time, and the *)
(* process may be killed and started again.                                *)
(*                                                                         *)
(* All of it runs in the main thread, so a handler is one action; only the *)
(* registration of robots, a loop of tries, is taken apart.  A process     *)
(* killed between two inserts leaves the tables as a failing second insert *)
(* does.  Passwords are right; a login that is refused changes nothing.    *)
(***************************************************************************)
EXTENDS Integers, FiniteSets

CONSTANTS
    Accounts,       \* the names accounts may have
    Names,          \* the names characters may have
    MaxGuid,        \* bound: with this many accounts the table takes no more
    RobotCount,     \* the robots registered at the start (128)
    BatchSize,      \* the robots registered when there is none left (32)
    MaxTries,       \* the tries made to register a robot (16)
    MaxClients,     \* bound: connections accepted by one process
    MaxKills        \* bound: times the process is killed

ASSUME SessionConstants ==
    /\ "" \notin Names
    /\ MaxGuid \in Nat /\ RobotCount \in Nat /\ BatchSize \in Nat
    /\ MaxTries \in Nat \ {0} /\ MaxClients \in Nat /\ MaxKills \in Nat

Guids == 1 .. MaxGuid
Clients == 1 .. MaxClients
NoGuid == 0
NoClient == 0       \* of a robot

AccountTable == [account: Accounts, guid: Guids, robot: BOOLEAN]
CharacterDataTable == [guid: Guids, name: Names]
Character == [guid: Guids, name: Names \cup {""}, client: Clients \cup {NoClient}]

VARIABLES
    account,        \* the rows of the account table
    character,      \* the rows of the character table
    process,        \* what the main thread is doing
    robotAccounts,  \* mRobotAccountList
    robots,         \* mRobotList
    busy,           \* the robots that are in a room
    adding,         \* a player waits for a robot
    remaining,      \* robots still to be registered
    tries,          \* tries made to register the next one
    online,         \* the character lists
    connected,      \* mClientList
    seed,           \* connections accepted so far
    characterOf,    \* mCharacterGUID of every client
    leaving,        \* characters whose NotifyPlayerOffline command waits
    failed,         \* a query has failed
    nullCharacter,  \* the process has died of a character that was not created
    kills           \* times it was killed

tables == <<account, character>>
registering == <<robotAccounts, remaining, tries>>
robotState == <<robots, busy, adding>>
clientState == <<connected, seed, characterOf, leaving>>
deaths == <<nullCharacter, kills>>
vars == <<tables, process, registering, robotState, online, clientState, failed, deaths>>

\* The lists are ordered by guid.
IsFirst(g, S) == g \in S /\ \A h \in S : g <= h

----------------------------------------------------------------------------
(* MySQLDataBase *)

\* getMaxGUID: the greatest guid of the account table, 0 if that is empty.
IsMaxGUID(g) == /\ \A r \in account : r.guid <= g
                /\ g = 0 \/ \E r \in account : r.guid = g

isAccountExist(a) == \E r \in account : r.account = a
\* (Variant: names are not looked up.)
NoNameExists(n) == FALSE
isNameExist(n) == \E r \in character : r.name = n

\* The second insert fails.  (Variant: the inserts are made in the other order.)
CharacterInserted(acc, char) == character' = character \cup {char} /\ UNCHANGED account
AccountInserted(acc, char) == account' = account \cup {acc} /\ UNCHANGED character

\* registerAccount, with the guid it gives the account and its result.  A query for a
\* row that fails has found none: only so is an existing account or name passed by.
registerAccount(a, n, isRobot, guid, ret) ==
    LET acc == [account |-> a, guid |-> guid, robot |-> isRobot]
        char == [guid |-> guid, name |-> n]
    IN  /\ IsMaxGUID(guid - 1)
        /\ \/ /\ ret = -1 /\ isAccountExist(a)
              /\ UNCHANGED <<tables, failed>>
           \/ /\ ret = -2 /\ isNameExist(n)
              /\ failed' = (failed \/ isAccountExist(a))
              /\ UNCHANGED tables
           \/ /\ ret \in {-3, -4}
              /\ failed' = TRUE
              /\ UNCHANGED tables
           \/ /\ ret = -5 /\ guid <= MaxGuid
              /\ failed' = TRUE
              /\ AccountInserted(acc, char)
           \/ /\ ret = 0 /\ guid <= MaxGuid
              /\ failed' = (failed \/ isAccountExist(a) \/ isNameExist(n))
              /\ account' = account \cup {acc}
              /\ character' = character \cup {char}

\* queryCharacterData, whose result nobody looks at: without a row, the name is empty.
NamesOf(g) == {r.name : r \in {s \in character : s.guid = g}}
queryCharacterData(g, name) ==
    \/ /\ name \in NamesOf(g) \cup (IF NamesOf(g) = {} THEN {""} ELSE {})
       /\ UNCHANGED failed
    \/ name = "" /\ NamesOf(g) # {} /\ failed' = TRUE

----------------------------------------------------------------------------
(* CharacterManager *)

\* (Variant: a player is online if a connection is using the character.)
HasConnection(g) == \E c \in connected : characterOf[c] = g
isCharacterLogin(g) == \E p \in online : p.guid = g

CanBeCreated(name) == \A p \in online : p.name # name
createCharacter(g, name, c) ==
    online' = IF CanBeCreated(name)
              THEN online \cup {[guid |-> g, name |-> name, client |-> c]} ELSE online

\* After createCharacter has failed, getCharacter finds nobody, and that is not tested.
FindsNobody(g, name) == ~CanBeCreated(name) /\ ~isCharacterLogin(g)
Ends ==
    /\ process' = "down"
    /\ robotAccounts' = {} /\ remaining' = 0 /\ tries' = 0
    /\ robots' = {} /\ busy' = {} /\ adding' = FALSE
    /\ online' = {}
    /\ connected' = {} /\ seed' = 0 /\ leaving' = {}
    /\ characterOf' = [c \in Clients |-> NoGuid]
Dies == nullCharacter' = TRUE /\ Ends

\* (Variant: the character is deleted but stays in the lists.)
StaysListed(g) == online
destroyCharacter(g) == {p \in online : p.guid # g}

----------------------------------------------------------------------------
(* The process and MahjongRobotManager *)

\* How many robots are missing.  (Variant: as a difference that may be negative.)
Difference(count) == RobotCount - count
Missing(count) == IF count < RobotCount THEN RobotCount - count ELSE 0

\* The robot accounts are read; of a failing query there are none.
Start ==
    /\ process = "down"
    /\ process' = "registering"
    /\ \/ /\ robotAccounts' = {r.guid : r \in {s \in account : s.robot}}
          /\ UNCHANGED failed
       \/ /\ robotAccounts' = {}
          /\ failed' = TRUE
    /\ remaining' = Missing(Cardinality(robotAccounts'))
    /\ UNCHANGED <<tables, tries, robotState, online, clientState, deaths>>

\* One try to register a robot, under a name and an account picked at random.
\* (Variant: it is tried until it succeeds.)
NeverGivesUp == FALSE
GivesUp == tries + 1 = MaxTries
registeRobot(a, n) ==
    /\ process = "registering" /\ remaining > 0
    /\ \E ret \in -5 .. 0, guid \in 1 .. MaxGuid + 1 :
         /\ registerAccount(a, n, TRUE, guid, ret)
         /\ robotAccounts' = IF ret = 0 THEN robotAccounts \cup {guid} ELSE robotAccounts
         /\ remaining' = IF ret = 0 \/ GivesUp THEN remaining - 1 ELSE remaining
         /\ tries' = IF ret = 0 THEN 0 ELSE (tries + 1) % MaxTries
    /\ UNCHANGED <<process, robotState, online, clientState, deaths>>

RegisterEnds ==
    /\ process = "registering" /\ remaining = 0
    /\ process' = "logging"
    /\ UNCHANGED <<tables, registering, robotState, online, clientState, failed, deaths>>

\* The next of the robots that are not in the list yet is logged in.
loginRobot(g, name) ==
    /\ process = "logging" /\ IsFirst(g, robotAccounts \ robots)
    /\ queryCharacterData(g, name)
    /\ IF FindsNobody(g, name) THEN Dies
       ELSE /\ createCharacter(g, name, NoClient)
            /\ robots' = robots \cup {g}
            /\ UNCHANGED <<process, registering, busy, adding, clientState, nullCharacter>>
    /\ UNCHANGED <<tables, kills>>

\* A robot that was added for a player goes to the player's room.
LoginEnds ==
    /\ process = "logging" /\ robotAccounts \subseteq robots
    /\ process' = "running"
    /\ adding' = FALSE
    /\ IF adding /\ robots # busy
       THEN \E g \in robots : IsFirst(g, robots \ busy) /\ busy' = busy \cup {g}
       ELSE UNCHANGED busy
    /\ UNCHANGED <<tables, registering, robots, online, clientState, failed, deaths>>

\* createRobot for a player: a robot that is in no room, or else some new ones.
createRobot ==
    /\ process = "running"
    /\ \E c \in connected : characterOf[c] # NoGuid
    /\ IF robots # busy
       THEN /\ \E g \in robots : IsFirst(g, robots \ busy) /\ busy' = busy \cup {g}
            /\ UNCHANGED <<process, adding, remaining>>
       ELSE /\ process' = "registering"
            /\ adding' = TRUE
            /\ remaining' = BatchSize
            /\ UNCHANGED busy
    /\ UNCHANGED <<tables, robotAccounts, tries, robots, online, clientState, failed, deaths>>

RobotLeaves(g) ==
    /\ process = "running" /\ g \in busy
    /\ busy' = busy \ {g}
    /\ UNCHANGED <<tables, process, registering, robots, adding, online, clientState,
                   failed, deaths>>

\* The process is killed, in the middle of anything.
Kill ==
    /\ process # "down" /\ kills < MaxKills
    /\ kills' = kills + 1
    /\ Ends
    /\ UNCHANGED <<tables, failed, nullCharacter>>

----------------------------------------------------------------------------
(* Connections *)

notifyAcceptClient ==
    /\ process = "running" /\ seed < MaxClients
    /\ seed' = seed + 1
    /\ connected' = connected \cup {seed'}
    /\ UNCHANGED <<tables, process, registering, robotState, online, characterOf, leaving,
                   failed, deaths>>

\* CSRegister.
Register(a, n) ==
    /\ process = "running" /\ connected # {}
    /\ \E ret \in -5 .. 0, guid \in 1 .. MaxGuid + 1 : registerAccount(a, n, FALSE, guid, ret)
    /\ UNCHANGED <<process, registering, robotState, online, clientState, deaths>>

\* CSLogin and the command it pushes, for the account row that the query found.
Login(c, r, name) ==
    /\ process = "running" /\ c \in connected
    /\ ~r.robot /\ ~isCharacterLogin(r.guid)
    /\ queryCharacterData(r.guid, name)
    /\ IF FindsNobody(r.guid, name) THEN Dies
       ELSE /\ createCharacter(r.guid, name, c)
            /\ characterOf' = [characterOf EXCEPT ![c] = r.guid]
            /\ UNCHANGED <<process, registering, robotState, connected, seed, leaving,
                           nullCharacter>>
    /\ UNCHANGED <<tables, kills>>

\* disconnectSocket: the command for the character is pushed to run in the next frame.
disconnectSocket(c) ==
    /\ process = "running" /\ c \in connected
    /\ connected' = connected \ {c}
    /\ leaving' = leaving \cup ({characterOf[c]} \ {NoGuid})
    /\ characterOf' = [characterOf EXCEPT ![c] = NoGuid]
    /\ UNCHANGED <<tables, process, registering, robotState, online, seed, failed, deaths>>

NotifyPlayerOffline(g) ==
    /\ process = "running" /\ g \in leaving
    /\ leaving' = leaving \ {g}
    /\ online' = destroyCharacter(g)
    /\ UNCHANGED <<tables, process, registering, robotState, connected, seed, characterOf,
                   failed, deaths>>

----------------------------------------------------------------------------
Init ==
    /\ account = {} /\ character = {}
    /\ process = "down"
    /\ robotAccounts = {} /\ remaining = 0 /\ tries = 0
    /\ robots = {} /\ busy = {} /\ adding = FALSE
    /\ online = {}
    /\ connected = {} /\ seed = 0 /\ leaving = {}
    /\ characterOf = [c \in Clients |-> NoGuid]
    /\ failed = FALSE /\ nullCharacter = FALSE /\ kills = 0

Starting ==
    \/ Start \/ RegisterEnds \/ LoginEnds
    \/ \E g \in Guids, name \in Names \cup {""} : loginRobot(g, name)
    \/ \E a \in Accounts, n \in Names : registeRobot(a, n)
Next ==
    \/ Starting \/ Kill \/ createRobot \/ notifyAcceptClient
    \/ \E g \in Guids : RobotLeaves(g) \/ NotifyPlayerOffline(g)
    \/ \E a \in Accounts, n \in Names : Register(a, n)
    \/ \E c \in Clients : disconnectSocket(c)
    \/ \E c \in Clients, r \in account, name \in Names \cup {""} : Login(c, r, name)

Spec == Init /\ [][Next]_vars

(***************************************************************************)
(* The process is started whenever it is down and goes on; in every frame  *)
(* the commands that wait are executed, between the packets that may start *)
(* a registration of robots.  Nobody need connect, register or log in.     *)
(***************************************************************************)
FairSpec ==
    Spec /\ WF_vars(Starting) /\ \A g \in Guids : SF_vars(NotifyPlayerOffline(g))

----------------------------------------------------------------------------
(* Properties *)

TypeOK ==
    /\ account \subseteq AccountTable
    /\ character \subseteq CharacterDataTable
    /\ process \in {"down", "registering", "logging", "running"}
    /\ robotAccounts \subseteq Guids /\ robots \subseteq robotAccounts /\ busy \subseteq robots
    /\ adding \in BOOLEAN
    /\ remaining \in Nat /\ tries \in 0 .. MaxTries - 1
    /\ online \subseteq Character
    /\ connected \subseteq 1 .. seed /\ seed \in 0 .. MaxClients
    /\ characterOf \in [Clients -> Guids \cup {NoGuid}]
    /\ leaving \subseteq Guids
    /\ failed \in BOOLEAN /\ nullCharacter \in BOOLEAN /\ kills \in 0 .. MaxKills

\* Whatever query fails and whenever the process is killed, every account has a guid
\* of its own, and a character belongs to one account (MySQLDataBase.cpp:105).
RowsBelong ==
    /\ \A r, s \in account : r.guid = s.guid => r = s
    /\ \A r, s \in character : r.guid = s.guid => r = s
    /\ \A r \in character : \E s \in account : s.guid = r.guid

\* A connection that has logged in has its character online, and is the one that the
\* character talks to; a robot in the list of its manager is online as well.
ClientHasCharacter ==
    /\ \A c \in connected :
          characterOf[c] # NoGuid =>
              \E p \in online : p.guid = characterOf[c] /\ p.client = c
    /\ \A g \in robots : \E p \in online : p.guid = g /\ p.client = NoClient

\* No login dereferences a character that was not created, unless a query has failed
\* before (CommandCharacterManagerPlayerLogin.cpp:19).
NoNullCharacter == nullCharacter => failed

\* The character of a connection that is gone can be logged in again some time.
LeavingEnds == \A g \in Guids : (g \in leaving) ~> ~isCharacterLogin(g)

\* The main thread gets to its loop: it ends the start of the server and the
\* registration of robots for a player (MahjongRobotManager.cpp:153), whatever names
\* are taken, unless a query has failed.
MainLoopGoesOn == (process # "running") ~> (process = "running" \/ failed)
=============================================================================
