--------------------------- MODULE Sessions_proofs ---------------------------
(***************************************************************************)
(* For any accounts, names, connections, failing queries and restarts:     *)
(* the tables stay consistent, a connection keeps the character it logged  *)
(* in, and without a failing query no login looks for a character in vain. *)
(***************************************************************************)
EXTENDS Sessions, FiniteSetTheorems, TLAPS

(* What the three invariants need beside one another *)

\* A character is in the lists once.
OnlineOnce == \A p, q \in online : p.guid = q.guid => p = q

\* It has an account, a robot's if and only if no connection uses it.
OnlineRows ==
    \A p \in online : \E r \in account : r.guid = p.guid /\ (r.robot <=> p.client = NoClient)

\* mRobotAccountList holds accounts of robots, and mRobotList the robots online.
RobotRows == \A g \in robotAccounts : \E r \in account : r.guid = g /\ r.robot
RobotsListed == \A p \in online : p.client = NoClient => p.guid \in robots
NoRobotsDown == process = "down" => robots = {}

\* A character that is about to leave is a player's that no connection uses.
LeavingApart ==
    \A g \in leaving :
        /\ \A c \in connected : characterOf[c] # g
        /\ \E p \in online : p.guid = g /\ p.client # NoClient

\* Connections to come have no character.
NoneForgotten == \A c \in Clients \ connected : characterOf[c] = NoGuid

\* Names tell characters apart, in the table and online.
NamesTell ==
    /\ \A r, s \in character : r.name = s.name => r = s
    /\ \A r \in account : \E s \in character : s.guid = r.guid
    /\ \A p \in online : \E r \in character : r.guid = p.guid /\ r.name = p.name
NamesSound == ~failed => NamesTell

OnlineInv == OnlineOnce /\ OnlineRows /\ RobotRows /\ RobotsListed /\ NoRobotsDown
ClientInv == ClientHasCharacter /\ LeavingApart /\ NoneForgotten
Inv == TypeOK /\ RowsBelong /\ OnlineInv /\ ClientInv /\ NamesSound /\ NoNullCharacter

----------------------------------------------------------------------------
(* What the operators do *)

\* A registration adds rows, of a new guid, and keeps the tables consistent.
LEMMA RegisterTables ==
    ASSUME TypeOK, RowsBelong, NEW a \in Accounts, NEW n \in Names, NEW b \in BOOLEAN,
           NEW guid \in 1 .. MaxGuid + 1, NEW ret \in -5 .. 0,
           registerAccount(a, n, b, guid, ret)
    PROVE  /\ account \subseteq account' /\ account' \subseteq AccountTable
           /\ character' \subseteq CharacterDataTable
           /\ RowsBelong'
           /\ failed' \in BOOLEAN /\ (failed => failed')
           /\ ret = 0 => /\ guid \in Guids
                         /\ \E r \in account' : r.guid = guid /\ r.robot = b
<1> DEFINE acc == [account |-> a, guid |-> guid, robot |-> b]
           char == [guid |-> guid, name |-> n]
<1>0. MaxGuid \in Nat
  BY SessionConstants
<1>1. \A r \in account : r.guid \in Nat /\ r.guid < guid
  <2>1. \A r \in account : r.guid <= guid - 1
    BY DEF registerAccount, IsMaxGUID
  <2>2. \A r \in account : r.guid \in 1 .. MaxGuid
    BY DEF TypeOK, AccountTable, Guids
  <2> QED
    BY <1>0, <2>1, <2>2
<1>2. \A r \in character : r.guid \in Nat /\ r.guid < guid
  BY <1>1 DEF RowsBelong
<1>3. failed' \in BOOLEAN /\ (failed => failed')
  <2>1. failed' \in {failed, TRUE, failed \/ isAccountExist(a),
                    failed \/ isAccountExist(a) \/ isNameExist(n)}
    BY Zenon DEF registerAccount
  <2>2. failed \in BOOLEAN
    BY DEF TypeOK
  <2> QED
    BY <2>1, <2>2, Zenon
<1>4. \/ account' = account /\ character' = character /\ ret # 0
      \/ /\ guid <= MaxGuid /\ account' = account \cup {acc} /\ character' = character
         /\ ret # 0
      \/ guid <= MaxGuid /\ account' = account \cup {acc} /\ character' = character \cup {char}
  BY DEF registerAccount, AccountInserted, tables
<1>5. CASE account' = account /\ character' = character /\ ret # 0
  BY <1>3, <1>5 DEF TypeOK, RowsBelong
<1> HIDE DEF acc, char
<1>6. ASSUME guid <= MaxGuid
      PROVE  guid \in Guids /\ acc \in AccountTable /\ char \in CharacterDataTable
  BY <1>0, <1>6 DEF acc, char, AccountTable, CharacterDataTable, Guids
<1>7. acc.guid = guid /\ acc.robot = b /\ char.guid = guid
  BY DEF acc, char
<1>8. ASSUME account' = account \cup {acc}
      PROVE  \A r, s \in account' : r.guid = s.guid => r = s
  BY <1>1, <1>7, <1>8 DEF RowsBelong
<1>9. CASE /\ guid <= MaxGuid /\ account' = account \cup {acc} /\ character' = character
           /\ ret # 0
  <2>1. \A r \in character' : \E s \in account' : s.guid = r.guid
    BY <1>9 DEF RowsBelong
  <2>2. RowsBelong'
    BY <1>8, <1>9, <2>1 DEF RowsBelong
  <2> QED
    BY <1>3, <1>6, <1>9, <2>2 DEF TypeOK
<1>10. CASE /\ guid <= MaxGuid /\ account' = account \cup {acc}
            /\ character' = character \cup {char}
  <2>1. \A r, s \in character' : r.guid = s.guid => r = s
    BY <1>2, <1>7, <1>10 DEF RowsBelong
  <2>2. \A r \in character' : \E s \in account' : s.guid = r.guid
    BY <1>7, <1>10 DEF RowsBelong
  <2>3. RowsBelong'
    BY <1>8, <1>10, <2>1, <2>2 DEF RowsBelong
  <2> QED
    BY <1>3, <1>6, <1>7, <1>10, <2>3 DEF TypeOK
<1> QED
  BY <1>4, <1>5, <1>9, <1>10

\* As long as no query fails, it also keeps the names apart.
LEMMA RegisterNames ==
    ASSUME TypeOK, NamesSound, NEW a \in Accounts, NEW n \in Names, NEW b \in BOOLEAN,
           NEW guid \in 1 .. MaxGuid + 1, NEW ret \in -5 .. 0,
           registerAccount(a, n, b, guid, ret), online' = online
    PROVE  NamesSound'
<1> SUFFICES ASSUME ~failed' PROVE NamesTell'
  BY DEF NamesSound
<1> DEFINE acc == [account |-> a, guid |-> guid, robot |-> b]
           char == [guid |-> guid, name |-> n]
<1>1. ~failed /\ NamesTell
  BY DEF registerAccount, TypeOK, NamesSound
<1>2. \/ account' = account /\ character' = character
      \/ /\ account' = account \cup {acc} /\ character' = character \cup {char}
         /\ ~isNameExist(n)
  BY DEF registerAccount, TypeOK, tables
<1>3. CASE account' = account /\ character' = character
  BY <1>1, <1>3 DEF NamesTell
<1>4. CASE /\ account' = account \cup {acc} /\ character' = character \cup {char}
           /\ ~isNameExist(n)
  <2>1. acc.guid = guid /\ char.guid = guid /\ char.name = n
    OBVIOUS
  <2> HIDE DEF acc, char
  <2>2. \A r, s \in character' : r.name = s.name => r = s
    BY <1>1, <1>4, <2>1 DEF NamesTell, isNameExist
  <2>3. \A r \in account' : \E s \in character' : s.guid = r.guid
    BY <1>1, <1>4, <2>1 DEF NamesTell
  <2>4. \A p \in online' : \E r \in character' : r.guid = p.guid /\ r.name = p.name
    BY <1>1, <1>4 DEF NamesTell
  <2> QED
    BY <2>2, <2>3, <2>4 DEF NamesTell
<1> QED
  BY <1>2, <1>3, <1>4

----------------------------------------------------------------------------
(* The invariant *)

LEMMA Initially == Init => Inv
<1> SUFFICES ASSUME Init PROVE Inv
  OBVIOUS
<1>1. MaxTries \in Nat \ {0} /\ MaxClients \in Nat /\ MaxKills \in Nat
  BY SessionConstants
<1>2. TypeOK
  <2>1. tries \in 0 .. MaxTries - 1 /\ seed \in 0 .. MaxClients /\ kills \in 0 .. MaxKills
    BY <1>1 DEF Init
  <2>2. characterOf \in [Clients -> Guids \cup {NoGuid}]
    BY DEF Init
  <2> QED
    BY <2>1, <2>2 DEF Init, TypeOK
<1>3. RowsBelong /\ OnlineInv /\ NamesSound /\ NoNullCharacter
  BY DEF Init, RowsBelong, OnlineInv, OnlineOnce, OnlineRows, RobotRows, RobotsListed,
     NoRobotsDown, NamesSound, NamesTell, NoNullCharacter
<1>4. ClientInv
  BY DEF Init, ClientInv, ClientHasCharacter, LeavingApart, NoneForgotten
<1> QED
  BY <1>2, <1>3, <1>4 DEF Inv

\* A step that touches neither the tables nor the characters and connections.
LEMMA Elsewhere ==
    ASSUME Inv, UNCHANGED <<tables, robotAccounts, robots, online, clientState, failed,
                            nullCharacter>>,
           process' = "down" => robots = {}
    PROVE  RowsBelong' /\ OnlineInv' /\ ClientInv' /\ NamesSound' /\ NoNullCharacter'
<1>1. RowsBelong' /\ NamesSound' /\ NoNullCharacter'
  BY DEF Inv, tables, RowsBelong, NamesSound, NamesTell, NoNullCharacter
<1>2. OnlineInv'
  BY DEF Inv, tables, OnlineInv, OnlineOnce, OnlineRows, RobotRows, RobotsListed, NoRobotsDown
<1>3. ClientInv'
  BY DEF Inv, clientState, ClientInv, ClientHasCharacter, LeavingApart, NoneForgotten
<1> QED
  BY <1>1, <1>2, <1>3

\* The process ends, and with it all that is not in the tables.
LEMMA Ending ==
    ASSUME Inv, Ends, UNCHANGED tables, kills' \in 0 .. MaxKills,
           failed' \in BOOLEAN, failed => failed',
           nullCharacter' \in BOOLEAN, nullCharacter' => failed'
    PROVE  Inv'
<1>1. MaxTries \in Nat \ {0} /\ MaxClients \in Nat
  BY SessionConstants
<1>2. TypeOK'
  <2>1. tries' \in 0 .. MaxTries - 1 /\ seed' \in 0 .. MaxClients
    BY <1>1 DEF Ends
  <2>2. characterOf' \in [Clients -> Guids \cup {NoGuid}]
    BY DEF Ends
  <2> QED
    BY <2>1, <2>2 DEF Inv, Ends, tables, TypeOK
<1>3. RowsBelong' /\ NoNullCharacter'
  BY DEF Inv, tables, RowsBelong, NoNullCharacter
<1>4. OnlineInv'
  BY DEF Ends, OnlineInv, OnlineOnce, OnlineRows, RobotRows, RobotsListed, NoRobotsDown
<1>5. ClientInv'
  BY DEF Ends, ClientInv, ClientHasCharacter, LeavingApart, NoneForgotten
<1>6. NamesSound'
  BY DEF Inv, Ends, tables, NamesSound, NamesTell
<1> QED
  BY <1>2, <1>3, <1>4, <1>5, <1>6 DEF Inv

\* New rows leave the characters and connections as they are.
LEMMA RowsAdded ==
    ASSUME Inv, UNCHANGED <<robots, online, clientState, process>>,
           account \subseteq account',
           \A g \in robotAccounts' \ robotAccounts :
               \E r \in account' : r.guid = g /\ r.robot
    PROVE  OnlineInv' /\ ClientInv'
<1>1. OnlineInv'
  BY DEF Inv, OnlineInv, OnlineOnce, OnlineRows, RobotRows, RobotsListed, NoRobotsDown
<1>2. ClientInv'
  BY DEF Inv, clientState, ClientInv, ClientHasCharacter, LeavingApart, NoneForgotten
<1> QED
  BY <1>1, <1>2

\* The name that a query has found is that of a row, unless a query has failed.
LEMMA NameFound ==
    ASSUME Inv, NEW g, NEW name, queryCharacterData(g, name),
           \E r \in account : r.guid = g
    PROVE  /\ failed' \in BOOLEAN /\ (failed => failed')
           /\ ~failed' => \E r \in character : r.guid = g /\ r.name = name
<1>1. failed \in BOOLEAN
  BY DEF Inv, TypeOK
<1>2. CASE /\ name \in NamesOf(g) \cup (IF NamesOf(g) = {} THEN {""} ELSE {})
           /\ UNCHANGED failed
  <2>1. ASSUME ~failed PROVE NamesOf(g) # {}
    BY <2>1 DEF Inv, NamesSound, NamesTell, NamesOf
  <2>2. ASSUME name \in NamesOf(g) PROVE \E r \in character : r.guid = g /\ r.name = name
    BY <2>2 DEF NamesOf
  <2> QED
    BY <1>1, <1>2, <2>1, <2>2
<1>3. CASE failed' = TRUE
  BY <1>1, <1>3
<1> QED
  BY <1>2, <1>3 DEF queryCharacterData

\* A login that finds nobody after all comes after a query that failed.
LEMMA NobodyFound ==
    ASSUME Inv, NEW g, NEW name, queryCharacterData(g, name),
           \E r \in account : r.guid = g, FindsNobody(g, name)
    PROVE  failed'
<1> SUFFICES ASSUME ~failed' PROVE FALSE
  OBVIOUS
<1>1. ~failed /\ \E r \in character : r.guid = g /\ r.name = name
  BY NameFound
<1>2. PICK p \in online : p.name = name /\ p.guid # g
  BY DEF FindsNobody, CanBeCreated, isCharacterLogin
<1>3. PICK r \in character : r.guid = p.guid /\ r.name = p.name
  BY <1>1 DEF Inv, NamesSound, NamesTell
<1> QED
  BY <1>1, <1>2, <1>3 DEF Inv, NamesSound, NamesTell

\* A character that is created joins the lists.
LEMMA Created ==
    ASSUME Inv, NEW g \in Guids, NEW name \in Names \cup {""}, NEW c \in Clients \cup {NoClient},
           queryCharacterData(g, name), createCharacter(g, name, c),
           ~isCharacterLogin(g), CanBeCreated(name),
           \E r \in account : r.guid = g /\ (r.robot <=> c = NoClient),
           UNCHANGED <<tables, robotAccounts>>,
           robots \subseteq robots', c = NoClient => g \in robots', process' # "down"
    PROVE  /\ failed' \in BOOLEAN /\ (failed => failed')
           /\ online' \subseteq Character /\ online \subseteq online'
           /\ [guid |-> g, name |-> name, client |-> c] \in online'
           /\ OnlineInv' /\ NamesSound'
<1> DEFINE new == [guid |-> g, name |-> name, client |-> c]
<1>1. online' = online \cup {new}
  BY DEF createCharacter
<1>2. new \in Character /\ new.guid = g /\ new.client = c /\ new.name = name
  BY DEF Character
<1> HIDE DEF new
<1>3. /\ failed' \in BOOLEAN /\ (failed => failed')
      /\ ~failed' => \E r \in character : r.guid = g /\ r.name = name
  <2>1. \E r \in account : r.guid = g
    OBVIOUS
  <2>2. Inv /\ queryCharacterData(g, name)
    OBVIOUS
  <2> HIDE DEF new
  <2>3. failed' \in BOOLEAN /\ (failed => failed')
    BY <2>1, <2>2, NameFound
  <2>4. ~failed' => \E r \in character : r.guid = g /\ r.name = name
    BY <2>1, <2>2, NameFound, ZenonT(30)
  <2> QED
    BY <2>3, <2>4
<1>4. OnlineOnce'
  BY <1>1, <1>2 DEF Inv, OnlineInv, OnlineOnce, isCharacterLogin
<1>5. OnlineRows'
  BY <1>1, <1>2 DEF Inv, OnlineInv, OnlineRows, tables
<1>6. RobotRows' /\ RobotsListed' /\ NoRobotsDown'
  BY <1>1, <1>2 DEF Inv, OnlineInv, RobotRows, RobotsListed, NoRobotsDown, tables
<1>7. NamesSound'
  <2> SUFFICES ASSUME ~failed' PROVE NamesTell'
    BY DEF NamesSound
  <2>1. \E r \in character : r.guid = g /\ r.name = name
    BY <1>3
  <2>2. NamesTell
    <3>1. ~failed
      BY <1>3
    <3> QED
      BY <3>1 DEF Inv, NamesSound
  <2>4. character' = character /\ account' = account
    BY DEF tables
  <2>3. \A p \in online' : \E r \in character : r.guid = p.guid /\ r.name = p.name
    BY <1>1, <1>2, <2>1, <2>2 DEF NamesTell
  <2> QED
    BY <2>2, <2>3, <2>4 DEF NamesTell
<1>8. online' \subseteq Character
  BY <1>1, <1>2 DEF Inv, TypeOK
<1> QED
  BY <1>1, <1>3, <1>4, <1>5, <1>6, <1>7, <1>8 DEF OnlineInv, new

----------------------------------------------------------------------------
(* One lemma for every action that touches what the invariant speaks of *)

LEMMA StartKeepsInv == ASSUME Inv, Start PROVE Inv'
<1>1. failed' \in BOOLEAN /\ (failed => failed')
  BY DEF Inv, TypeOK, Start
<1>2. robots = {}
  BY DEF Inv, OnlineInv, NoRobotsDown, Start
<1>3. robotAccounts' \subseteq Guids
  BY DEF Inv, TypeOK, Start, AccountTable
<1>4. remaining' \in Nat
  <2>1. MaxGuid \in Nat /\ RobotCount \in Nat
    BY SessionConstants
  <2>2. IsFiniteSet(Guids)
    BY <2>1, FS_Interval DEF Guids
  <2>3. Cardinality(robotAccounts') \in Nat
    BY <1>3, <2>2, FS_Subset, FS_CardinalityType
  <2> QED
    BY <2>1, <2>3 DEF Start, Missing
<1>5. TypeOK'
  BY <1>1, <1>2, <1>3, <1>4
     DEF Inv, TypeOK, Start, tables, robotState, clientState, deaths
<1>6. RowsBelong' /\ NamesSound' /\ NoNullCharacter'
  BY <1>1 DEF Inv, Start, tables, deaths, RowsBelong, NamesSound, NamesTell, NoNullCharacter
<1>7. OnlineInv'
  BY DEF Inv, Start, tables, robotState, OnlineInv, OnlineOnce, OnlineRows, RobotRows,
     RobotsListed, NoRobotsDown
<1>8. ClientInv'
  BY DEF Inv, Start, robotState, clientState, ClientInv, ClientHasCharacter, LeavingApart,
     NoneForgotten
<1> QED
  BY <1>5, <1>6, <1>7, <1>8 DEF Inv

LEMMA registeRobotKeepsInv ==
    ASSUME Inv, NEW a \in Accounts, NEW n \in Names, registeRobot(a, n) PROVE Inv'
<1>1. PICK ret \in -5 .. 0, guid \in 1 .. MaxGuid + 1 :
        /\ registerAccount(a, n, TRUE, guid, ret)
        /\ robotAccounts' = IF ret = 0 THEN robotAccounts \cup {guid} ELSE robotAccounts
        /\ remaining' = IF ret = 0 \/ GivesUp THEN remaining - 1 ELSE remaining
        /\ tries' = IF ret = 0 THEN 0 ELSE (tries + 1) % MaxTries
  BY DEF registeRobot
<1>2. /\ account \subseteq account' /\ account' \subseteq AccountTable
      /\ character' \subseteq CharacterDataTable
      /\ RowsBelong'
      /\ failed' \in BOOLEAN /\ (failed => failed')
      /\ ret = 0 => guid \in Guids /\ \E r \in account' : r.guid = guid /\ r.robot = TRUE
  <2>1. TypeOK /\ RowsBelong
    BY DEF Inv
  <2>2. ASSUME NEW b \in BOOLEAN, registerAccount(a, n, b, guid, ret)
        PROVE  /\ account \subseteq account' /\ account' \subseteq AccountTable
               /\ character' \subseteq CharacterDataTable
               /\ RowsBelong'
               /\ failed' \in BOOLEAN /\ (failed => failed')
               /\ ret = 0 => guid \in Guids /\ \E r \in account' : r.guid = guid /\ r.robot = b
    BY <2>1, <2>2, RegisterTables
  <2> QED
    BY <1>1, <2>2, Zenon
<1>3. NamesSound'
  BY <1>1, RegisterNames DEF Inv, registeRobot
<1>4. remaining' \in Nat /\ tries' \in 0 .. MaxTries - 1
  <2>1. remaining \in Nat /\ remaining > 0 /\ tries \in 0 .. MaxTries - 1
    BY DEF Inv, TypeOK, registeRobot
  <2>2. MaxTries \in Nat \ {0}
    BY SessionConstants
  <2>3. remaining' \in Nat
    BY <1>1, <2>1
  <2>4. (tries + 1) % MaxTries \in 0 .. MaxTries - 1
    BY <2>1, <2>2
  <2> QED
    BY <1>1, <2>2, <2>3, <2>4
<1>5. TypeOK'
  BY <1>1, <1>2, <1>4
     DEF Inv, TypeOK, registeRobot, robotState, clientState, deaths
<1>6. NoNullCharacter'
  BY <1>2 DEF Inv, registeRobot, deaths, NoNullCharacter
<1>7. OnlineInv' /\ ClientInv'
  BY <1>1, <1>2, RowsAdded DEF registeRobot, robotState
<1> QED
  BY <1>2, <1>3, <1>5, <1>6, <1>7 DEF Inv

LEMMA RegisterKeepsInv ==
    ASSUME Inv, NEW a \in Accounts, NEW n \in Names, Register(a, n) PROVE Inv'
<1>1. PICK ret \in -5 .. 0, guid \in 1 .. MaxGuid + 1 :
        registerAccount(a, n, FALSE, guid, ret)
  BY DEF Register
<1>2. /\ account \subseteq account' /\ account' \subseteq AccountTable
      /\ character' \subseteq CharacterDataTable
      /\ RowsBelong'
      /\ failed' \in BOOLEAN /\ (failed => failed')
  BY <1>1, RegisterTables DEF Inv
<1>3. NamesSound'
  BY <1>1, RegisterNames DEF Inv, Register
<1>4. TypeOK'
  BY <1>2 DEF Inv, TypeOK, Register, registering, robotState, clientState, deaths
<1>5. NoNullCharacter'
  BY <1>2 DEF Inv, Register, deaths, NoNullCharacter
<1>6. OnlineInv' /\ ClientInv'
  BY <1>2, RowsAdded DEF Register, registering, robotState
<1> QED
  BY <1>2, <1>3, <1>4, <1>5, <1>6 DEF Inv

\* Connections have numbers that the process has given.
LEMMA ConnectedClients ==
    ASSUME TypeOK PROVE connected \subseteq Clients /\ seed \in Nat
<1>1. MaxClients \in Nat
  BY SessionConstants
<1>2. seed \in 0 .. MaxClients /\ connected \subseteq 1 .. seed
  BY DEF TypeOK
<1>3. 1 .. seed \subseteq 1 .. MaxClients
  BY <1>1, <1>2
<1> QED
  BY <1>1, <1>2, <1>3 DEF Clients

LEMMA ClientNumbers == \A c \in Clients : c # NoClient
<1> SUFFICES ASSUME NEW c \in 1 .. MaxClients PROVE c # 0
  BY DEF Clients, NoClient
<1>1. MaxClients \in Nat
  BY SessionConstants
<1> QED
  BY <1>1

LEMMA loginRobotKeepsInv ==
    ASSUME Inv, NEW g \in Guids, NEW name \in Names \cup {""}, loginRobot(g, name) PROVE Inv'
<1>1. g \in robotAccounts /\ g \notin robots /\ queryCharacterData(g, name)
  BY DEF loginRobot, IsFirst
<1>2. PICK r \in account : r.guid = g /\ r.robot
  BY <1>1 DEF Inv, OnlineInv, RobotRows
<1>3. ~isCharacterLogin(g)
  <2> SUFFICES ASSUME NEW p \in online, p.guid = g PROVE FALSE
    BY DEF isCharacterLogin
  <2>1. PICK s \in account : s.guid = g /\ (s.robot <=> p.client = NoClient)
    BY DEF Inv, OnlineInv, OnlineRows
  <2>2. s = r
    <3>1. \A t, u \in account : t.guid = u.guid => t = u
      BY DEF Inv, RowsBelong
    <3> QED
      BY <1>2, <2>1, <3>1
  <2>3. p.client = NoClient
    BY <1>2, <2>1, <2>2
  <2> QED
    BY <1>1, <2>3 DEF Inv, OnlineInv, RobotsListed
<1>4. failed' \in BOOLEAN /\ (failed => failed')
  BY <1>1, <1>2, NameFound
<1>5. CASE FindsNobody(g, name)
  <2>1. Ends /\ nullCharacter' = TRUE /\ UNCHANGED <<tables, kills>>
    BY <1>5 DEF loginRobot, Dies
  <2>2. failed'
    BY <1>1, <1>2, <1>5, NobodyFound
  <2>3. kills' \in 0 .. MaxKills
    BY <2>1 DEF Inv, TypeOK
  <2> QED
    BY <1>4, <2>1, <2>2, <2>3, Ending
<1>6. CASE ~FindsNobody(g, name)
  <2>1. /\ CanBeCreated(name)
        /\ createCharacter(g, name, NoClient)
        /\ robots' = robots \cup {g}
        /\ UNCHANGED <<process, registering, busy, adding, clientState, nullCharacter>>
        /\ UNCHANGED <<tables, kills>>
    BY <1>3, <1>6 DEF loginRobot, FindsNobody
  <2>2. process' # "down" /\ robotAccounts' = robotAccounts
    BY <2>1 DEF loginRobot, registering
  <2>3. \E s \in account : s.guid = g /\ (s.robot <=> NoClient = NoClient)
    BY <1>2
  <2>4. /\ online' \subseteq Character /\ online \subseteq online'
        /\ [guid |-> g, name |-> name, client |-> NoClient] \in online'
        /\ OnlineInv' /\ NamesSound'
    BY <1>1, <1>3, <2>1, <2>2, <2>3, Created
  <2>5. TypeOK'
    BY <1>1, <1>4, <2>1, <2>4 DEF Inv, TypeOK, registering, clientState, tables
  <2>6. RowsBelong' /\ NoNullCharacter'
    BY <1>4, <2>1 DEF Inv, RowsBelong, NoNullCharacter, tables
  <2>7. ClientInv'
    <3>1. ClientHasCharacter'
      BY <2>1, <2>4 DEF Inv, ClientInv, ClientHasCharacter, clientState
    <3>2. LeavingApart' /\ NoneForgotten'
      BY <2>1, <2>4 DEF Inv, ClientInv, LeavingApart, NoneForgotten, clientState
    <3> QED
      BY <3>1, <3>2 DEF ClientInv
  <2> QED
    BY <2>4, <2>5, <2>6, <2>7 DEF Inv
<1> QED
  BY <1>5, <1>6

LEMMA LoginKeepsInv ==
    ASSUME Inv, NEW c \in Clients, NEW r \in account, NEW name \in Names \cup {""},
           Login(c, r, name)
    PROVE  Inv'
<1> DEFINE g == r.guid
<1>1. /\ g \in Guids /\ ~r.robot /\ c \in connected /\ ~isCharacterLogin(g)
      /\ queryCharacterData(g, name)
  BY DEF Login, Inv, TypeOK, AccountTable
<1>2. \E s \in account : s.guid = g
  OBVIOUS
<1>3. c # NoClient
  BY ClientNumbers
<1>4. failed' \in BOOLEAN /\ (failed => failed')
  BY <1>1, <1>2, NameFound
<1>5. /\ ~r.robot
      /\ IF FindsNobody(g, name) THEN Dies
         ELSE /\ createCharacter(g, name, c)
              /\ characterOf' = [characterOf EXCEPT ![c] = g]
              /\ UNCHANGED <<process, registering, robotState, connected, seed, leaving,
                             nullCharacter>>
      /\ UNCHANGED <<tables, kills>> /\ process = "running"
  BY DEF Login
<1>6. \E s \in account : s.guid = g /\ ~s.robot
  BY <1>5
<1> HIDE DEF g
<1>7. CASE FindsNobody(g, name)
  <2>1. Ends /\ nullCharacter' = TRUE /\ UNCHANGED <<tables, kills>>
    BY <1>7, <1>5 DEF Dies
  <2>2. failed'
    BY <1>1, <1>2, <1>7, NobodyFound
  <2>3. kills' \in 0 .. MaxKills
    BY <2>1 DEF Inv, TypeOK
  <2> QED
    BY <1>4, <2>1, <2>2, <2>3, Ending
<1>8. CASE ~FindsNobody(g, name)
  <2>1. /\ CanBeCreated(name)
        /\ createCharacter(g, name, c)
        /\ characterOf' = [characterOf EXCEPT ![c] = g]
        /\ UNCHANGED <<process, registering, robotState, connected, seed, leaving,
                       nullCharacter>>
        /\ UNCHANGED <<tables, kills>>
    BY <1>1, <1>8, <1>5 DEF FindsNobody
  <2>2. process' # "down" /\ robotAccounts' = robotAccounts /\ robots' = robots
    BY <1>5, <2>1 DEF registering, robotState
  <2>3. \E s \in account : s.guid = g /\ (s.robot <=> c = NoClient)
    BY <1>3, <1>6
  <2>4. /\ online' \subseteq Character /\ online \subseteq online'
        /\ [guid |-> g, name |-> name, client |-> c] \in online'
        /\ OnlineInv' /\ NamesSound'
    <3>1. c \in Clients \cup {NoClient} /\ robots \subseteq robots' /\ (c = NoClient => g \in robots')
      BY <1>3, <2>2
    <3>2. UNCHANGED <<tables, robotAccounts>>
      BY <2>1, <2>2
    <3> QED
      BY <1>1, <2>1, <2>2, <2>3, <3>1, <3>2, Created
  <2>5. TypeOK'
    BY <1>1, <1>4, <2>1, <2>4 DEF Inv, TypeOK, registering, robotState, tables
  <2>6. RowsBelong' /\ NoNullCharacter'
    BY <1>4, <2>1 DEF Inv, RowsBelong, NoNullCharacter, tables
  <2>7. ClientInv'
    <3>1. characterOf' \in [Clients -> Guids \cup {NoGuid}] /\ characterOf'[c] = g
      BY <1>1, <2>1 DEF Inv, TypeOK
    <3>2. \A d \in Clients \ {c} : characterOf'[d] = characterOf[d]
      BY <2>1 DEF Inv, TypeOK
    <3>3. connected' = connected /\ connected \subseteq Clients
      BY <2>1, ConnectedClients DEF Inv
    <3>4. ClientHasCharacter'
      <4> DEFINE new == [guid |-> g, name |-> name, client |-> c]
      <4>1. new.guid = g /\ new.client = c /\ new \in online'
        BY <2>4
      <4> HIDE DEF new
      <4>2. ASSUME NEW d \in connected', characterOf'[d] # NoGuid
            PROVE  \E p \in online' : p.guid = characterOf'[d] /\ p.client = d
        <5>1. CASE d = c
          BY <3>1, <4>1, <5>1
        <5>2. CASE d # c
          BY <2>4, <3>2, <3>3, <4>2, <5>2 DEF Inv, ClientInv, ClientHasCharacter
        <5> QED
          BY <5>1, <5>2
      <4>3. \A h \in robots' : \E p \in online' : p.guid = h /\ p.client = NoClient
        BY <2>2, <2>4 DEF Inv, ClientInv, ClientHasCharacter
      <4> QED
        BY <4>2, <4>3 DEF ClientHasCharacter
    <3>5. g \notin leaving
      BY <1>1 DEF Inv, ClientInv, LeavingApart, isCharacterLogin
    <3>6. LeavingApart'
      BY <2>1, <2>4, <3>1, <3>2, <3>3, <3>5 DEF Inv, ClientInv, LeavingApart
    <3>7. NoneForgotten'
      BY <1>1, <3>2, <3>3 DEF Inv, ClientInv, NoneForgotten
    <3> QED
      BY <3>4, <3>6, <3>7 DEF ClientInv
  <2> QED
    BY <2>4, <2>5, <2>6, <2>7 DEF Inv
<1> QED
  BY <1>7, <1>8

LEMMA KillKeepsInv == ASSUME Inv, Kill PROVE Inv'
<1>1. kills' \in 0 .. MaxKills
  <2>1. MaxKills \in Nat /\ kills \in 0 .. MaxKills
    BY SessionConstants DEF Inv, TypeOK
  <2> QED
    BY <2>1 DEF Kill
<1>2. /\ Ends /\ UNCHANGED tables
      /\ failed' \in BOOLEAN /\ (failed => failed')
      /\ nullCharacter' \in BOOLEAN /\ (nullCharacter' => failed')
  BY DEF Kill, Inv, TypeOK, NoNullCharacter
<1> QED
  BY <1>1, <1>2, Ending

LEMMA AcceptKeepsInv == ASSUME Inv, notifyAcceptClient PROVE Inv'
<1>1. seed' \in 1 .. MaxClients /\ 1 .. seed \subseteq 1 .. seed'
      /\ seed' \in 1 .. seed' /\ connected \subseteq 1 .. seed
  <2>1. MaxClients \in Nat /\ seed \in 0 .. MaxClients /\ connected \subseteq 1 .. seed
    BY SessionConstants DEF Inv, TypeOK
  <2> QED
    BY <2>1 DEF notifyAcceptClient
<1>2. seed' \in Clients \ connected
  <2>1. seed \in Nat /\ seed' = seed + 1 /\ connected \subseteq 1 .. seed
    BY ConnectedClients DEF Inv, TypeOK, notifyAcceptClient
  <2>2. seed' \in Clients
    BY <1>1 DEF Clients
  <2>3. seed' \notin 1 .. seed
    BY <2>1
  <2> QED
    BY <2>1, <2>2, <2>3
<1>3. connected' \subseteq 1 .. seed' /\ seed' \in 0 .. MaxClients
  <2>1. MaxClients \in Nat
    BY SessionConstants
  <2>2. connected' = connected \cup {seed'}
    BY DEF notifyAcceptClient
  <2>3. connected' \subseteq 1 .. seed'
    BY <1>1, <2>2
  <2> QED
    BY <1>1, <2>1, <2>3
<1>4. TypeOK'
  BY <1>3 DEF Inv, TypeOK, notifyAcceptClient, tables, registering, robotState, deaths
<1>5. RowsBelong' /\ NamesSound' /\ NoNullCharacter'
  BY DEF Inv, notifyAcceptClient, tables, deaths, RowsBelong, NamesSound, NamesTell,
     NoNullCharacter
<1>6. OnlineInv'
  BY DEF Inv, notifyAcceptClient, tables, registering, robotState, OnlineInv, OnlineOnce,
     OnlineRows, RobotRows, RobotsListed, NoRobotsDown
<1>7. /\ connected' = connected \cup {seed'} /\ characterOf' = characterOf
      /\ online' = online /\ leaving' = leaving /\ robots' = robots
  BY DEF notifyAcceptClient, robotState
<1>8. characterOf[seed'] = NoGuid
  BY <1>2 DEF Inv, ClientInv, NoneForgotten
<1>9. ClientHasCharacter' /\ NoneForgotten'
  BY <1>7, <1>8 DEF Inv, ClientInv, ClientHasCharacter, NoneForgotten
<1>10. LeavingApart'
  <2>1. \A g \in leaving : g # NoGuid
    BY DEF Inv, TypeOK, Guids, NoGuid
  <2> QED
    BY <1>7, <1>8, <2>1 DEF Inv, ClientInv, LeavingApart
<1> QED
  BY <1>4, <1>5, <1>6, <1>9, <1>10 DEF Inv, ClientInv

LEMMA DisconnectKeepsInv ==
    ASSUME Inv, NEW c \in Clients, disconnectSocket(c) PROVE Inv'
<1>1. /\ c \in connected /\ connected' = connected \ {c}
      /\ leaving' = leaving \cup ({characterOf[c]} \ {NoGuid})
      /\ online' = online /\ robots' = robots
  BY DEF disconnectSocket, robotState
<1>2. /\ characterOf' \in [Clients -> Guids \cup {NoGuid}] /\ characterOf'[c] = NoGuid
      /\ \A d \in Clients \ {c} : characterOf'[d] = characterOf[d]
      /\ characterOf[c] \in Guids \cup {NoGuid}
  BY DEF disconnectSocket, Inv, TypeOK
<1>3. connected \subseteq Clients
  BY ConnectedClients DEF Inv
<1>4. TypeOK'
  BY <1>1, <1>2 DEF Inv, TypeOK, disconnectSocket, tables, registering, robotState, deaths
<1>5. RowsBelong' /\ NamesSound' /\ NoNullCharacter'
  BY DEF Inv, disconnectSocket, tables, deaths, RowsBelong, NamesSound, NamesTell,
     NoNullCharacter
<1>6. OnlineInv'
  BY DEF Inv, disconnectSocket, tables, registering, robotState, OnlineInv, OnlineOnce,
     OnlineRows, RobotRows, RobotsListed, NoRobotsDown
<1>7. ClientHasCharacter'
  BY <1>1, <1>2, <1>3 DEF Inv, ClientInv, ClientHasCharacter
<1>8. NoneForgotten'
  BY <1>1, <1>2, <1>3 DEF Inv, ClientInv, NoneForgotten
<1>9. LeavingApart'
  <2> SUFFICES ASSUME NEW g \in leaving'
               PROVE  /\ \A d \in connected' : characterOf'[d] # g
                      /\ \E p \in online' : p.guid = g /\ p.client # NoClient
    BY DEF LeavingApart
  <2>1. CASE g \in leaving
    BY <1>1, <1>2, <1>3, <2>1 DEF Inv, ClientInv, LeavingApart
  <2>2. CASE g = characterOf[c] /\ g # NoGuid
    <3>1. PICK p \in online : p.guid = g /\ p.client = c
      BY <1>1, <2>2 DEF Inv, ClientInv, ClientHasCharacter
    <3>2. p.client # NoClient
      BY <3>1, ClientNumbers
    <3>3. ASSUME NEW d \in connected', characterOf'[d] = g PROVE FALSE
      <4>1. d \in connected /\ d # c /\ characterOf[d] = g
        BY <1>1, <1>2, <1>3, <3>3
      <4>2. PICK q \in online : q.guid = g /\ q.client = d
        BY <4>1, <2>2 DEF Inv, ClientInv, ClientHasCharacter
      <4>3. p = q
        BY <3>1, <4>2 DEF Inv, OnlineInv, OnlineOnce
      <4> QED
        BY <3>1, <4>1, <4>2, <4>3
    <3> QED
      BY <1>1, <3>1, <3>2, <3>3
  <2> QED
    BY <1>1, <2>1, <2>2
<1> QED
  BY <1>4, <1>5, <1>6, <1>7, <1>8, <1>9 DEF Inv, ClientInv

LEMMA OfflineKeepsInv ==
    ASSUME Inv, NEW g \in Guids, NotifyPlayerOffline(g) PROVE Inv'
<1>1. /\ g \in leaving /\ leaving' = leaving \ {g}
      /\ online' = {p \in online : p.guid # g}
      /\ robots' = robots /\ connected' = connected /\ characterOf' = characterOf
  BY DEF NotifyPlayerOffline, destroyCharacter, robotState
<1>2. TypeOK'
  BY <1>1 DEF Inv, TypeOK, NotifyPlayerOffline, tables, registering, robotState, deaths
<1>3. RowsBelong' /\ NamesSound' /\ NoNullCharacter'
  BY <1>1 DEF Inv, NotifyPlayerOffline, tables, deaths, RowsBelong, NamesSound, NamesTell,
     NoNullCharacter
<1>4. OnlineInv'
  BY <1>1 DEF Inv, NotifyPlayerOffline, tables, registering, OnlineInv, OnlineOnce,
     OnlineRows, RobotRows, RobotsListed, NoRobotsDown
<1>5. \A c \in connected : characterOf[c] # g
  BY <1>1 DEF Inv, ClientInv, LeavingApart
<1>6. \A p \in online : p.client = NoClient => p.guid # g
  BY <1>1 DEF Inv, ClientInv, LeavingApart, OnlineInv, OnlineOnce
<1>7. ClientHasCharacter'
  BY <1>1, <1>5, <1>6 DEF Inv, ClientInv, ClientHasCharacter
<1>8. LeavingApart' /\ NoneForgotten'
  BY <1>1 DEF Inv, ClientInv, LeavingApart, NoneForgotten
<1> QED
  BY <1>2, <1>3, <1>4, <1>7, <1>8 DEF Inv, ClientInv

LEMMA RegisterEndsKeepsInv == ASSUME Inv, RegisterEnds PROVE Inv'
<1>1. TypeOK'
  BY DEF Inv, TypeOK, RegisterEnds, tables, registering, robotState, clientState, deaths
<1>2. RowsBelong' /\ OnlineInv' /\ ClientInv' /\ NamesSound' /\ NoNullCharacter'
  BY Elsewhere DEF RegisterEnds, registering, robotState, deaths
<1> QED
  BY <1>1, <1>2 DEF Inv

LEMMA LoginEndsKeepsInv == ASSUME Inv, LoginEnds PROVE Inv'
<1>1. busy' \subseteq robots
  BY DEF Inv, TypeOK, LoginEnds, IsFirst
<1>2. TypeOK'
  BY <1>1 DEF Inv, TypeOK, LoginEnds, tables, registering, clientState, deaths
<1>3. RowsBelong' /\ OnlineInv' /\ ClientInv' /\ NamesSound' /\ NoNullCharacter'
  BY Elsewhere DEF LoginEnds, registering, deaths
<1> QED
  BY <1>2, <1>3 DEF Inv

LEMMA createRobotKeepsInv == ASSUME Inv, createRobot PROVE Inv'
<1>1. busy' \subseteq robots
  BY DEF Inv, TypeOK, createRobot, IsFirst
<1>2. remaining' \in Nat
  <2>1. BatchSize \in Nat
    BY SessionConstants
  <2> QED
    BY <2>1 DEF Inv, TypeOK, createRobot
<1>3. /\ process' \in {"down", "registering", "logging", "running"} /\ process' # "down"
      /\ adding' \in BOOLEAN
  BY DEF Inv, TypeOK, createRobot
<1>4. TypeOK'
  BY <1>1, <1>2, <1>3 DEF Inv, TypeOK, createRobot, tables, clientState, deaths
<1>5. RowsBelong' /\ OnlineInv' /\ ClientInv' /\ NamesSound' /\ NoNullCharacter'
  BY <1>3, Elsewhere DEF createRobot, deaths
<1> QED
  BY <1>4, <1>5 DEF Inv

LEMMA RobotLeavesKeepsInv == ASSUME Inv, NEW g \in Guids, RobotLeaves(g) PROVE Inv'
<1>1. TypeOK'
  BY DEF Inv, TypeOK, RobotLeaves, tables, registering, clientState, deaths
<1>2. RowsBelong' /\ OnlineInv' /\ ClientInv' /\ NamesSound' /\ NoNullCharacter'
  BY Elsewhere DEF RobotLeaves, registering, deaths
<1> QED
  BY <1>1, <1>2 DEF Inv

LEMMA StutterKeepsInv == ASSUME Inv, UNCHANGED vars PROVE Inv'
<1>1. TypeOK'
  BY DEF Inv, TypeOK, vars, tables, registering, robotState, clientState, deaths
<1>2. RowsBelong' /\ OnlineInv' /\ ClientInv' /\ NamesSound' /\ NoNullCharacter'
  BY Elsewhere DEF vars, registering, robotState, deaths, Inv, OnlineInv, NoRobotsDown
<1> QED
  BY <1>1, <1>2 DEF Inv

----------------------------------------------------------------------------
(* The theorems *)

LEMMA Inductive == Inv /\ [Next]_vars => Inv'
<1> SUFFICES ASSUME Inv, [Next]_vars PROVE Inv'
  OBVIOUS
<1>1. CASE UNCHANGED vars
  BY <1>1, StutterKeepsInv
<1>2. CASE Starting
  BY <1>2, StartKeepsInv, RegisterEndsKeepsInv, LoginEndsKeepsInv, loginRobotKeepsInv,
     registeRobotKeepsInv DEF Starting
<1>3. CASE Kill \/ createRobot \/ notifyAcceptClient
  BY <1>3, KillKeepsInv, createRobotKeepsInv, AcceptKeepsInv
<1>4. CASE \E g \in Guids : RobotLeaves(g) \/ NotifyPlayerOffline(g)
  BY <1>4, RobotLeavesKeepsInv, OfflineKeepsInv
<1>5. CASE \E a \in Accounts, n \in Names : Register(a, n)
  BY <1>5, RegisterKeepsInv
<1>6. CASE \E c \in Clients : disconnectSocket(c)
  BY <1>6, DisconnectKeepsInv
<1>7. CASE \E c \in Clients, r \in account, name \in Names \cup {""} : Login(c, r, name)
  BY <1>7, LoginKeepsInv
<1> QED
  BY <1>1, <1>2, <1>3, <1>4, <1>5, <1>6, <1>7 DEF Next

LEMMA InvAlways == Spec => []Inv
<1> QED
  BY Initially, Inductive, PTL DEF Spec

\* The tables, the lists of characters and the connections have their types.
THEOREM SessionTypes == Spec => []TypeOK
<1>1. Inv => TypeOK
  BY DEF Inv
<1> QED
  BY <1>1, InvAlways, PTL

\* Whichever query fails and whenever the process is killed, an account keeps a guid of
\* its own and every character its account (MySQLDataBase::registerAccount).
THEOREM RowsAlwaysBelong == Spec => []RowsBelong
<1>1. Inv => RowsBelong
  BY DEF Inv
<1> QED
  BY <1>1, InvAlways, PTL

\* A connection that has logged in finds its character online and connected to it, and
\* so does the list of robots (CharacterManager, CommandCharacterManagerPlayerLogin).
THEOREM ClientsKeepCharacters == Spec => []ClientHasCharacter
<1>1. Inv => ClientHasCharacter
  BY DEF Inv, ClientInv
<1> QED
  BY <1>1, InvAlways, PTL

\* No login uses the character that createCharacter has refused to create, before some
\* query has failed (CommandCharacterManagerPlayerLogin, RobotLogin).
THEOREM NullNeedsFailure == Spec => []NoNullCharacter
<1>1. Inv => NoNullCharacter
  BY DEF Inv
<1> QED
  BY <1>1, InvAlways, PTL
=============================================================================
