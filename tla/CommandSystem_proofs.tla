------------------------- MODULE CommandSystem_proofs -------------------------
(***************************************************************************)
(* For any rooms, robots, delays, frames and bounds: delayed commands run  *)
(* at most once, never on a dead receiver and never after they were        *)
(* interrupted, in the order they were pushed; the pool never hands out a  *)
(* command in use; and no robot waits for an answer that nobody will give. *)
(***************************************************************************)
EXTENDS CommandSystem, NumberLemmas, FiniteSetTheorems, SequenceTheorems, TLAPS

(* What the invariants need beside one another *)

Held == Queued \cup current

\* Ids are given out once, and an entry is in one list.
IdsApart ==
    /\ \A e \in Held : e.id < assigned
    /\ \A e, f \in Held : e.id = f.id => e = f
    /\ \A e \in input \cup process, f \in execute : e.id # f.id
    /\ \A e \in current, f \in Queued : e.id # f.id

\* Between two updates nothing is being executed.
IdleBetween == ~updating => execute = {} /\ current = {}

\* A command that waits has a receiver that exists, or none.
ReceiversLive ==
    /\ \A e \in input \cup process : e.recv \in Alive
    /\ \A e \in execute : e.recv \in Alive \cup {Null}

\* The id in the hand of the accepting thread is nobody else's.
HoldingApart ==
    /\ accept.pc = "holding" =>
          accept.id \in Ids /\ accept.id < assigned /\ \A e \in Held : e.id # accept.id
    /\ accept.pc # "holding" => accept.id = NoId
    /\ accept.pc = "looking" => assigned < MaxAssign

QueueInv == IdsApart /\ IdleBetween /\ ReceiversLive /\ HoldingApart

\* No two questions are answered by one command.
AnswersApart ==
    /\ \A b \in Robots, q \in Questions : cmdID[b][q] < assigned
    /\ \A b, c \in Robots, q, p \in Questions :
          cmdID[b][q] # NoId /\ cmdID[b][q] = cmdID[c][p] => b = c /\ q = p

\* The command that was pushed first has waited at least as long; what is about
\* to be executed has overtaken only longer delays.
Elapsed(e) == e.delay - e.left
WaitedLonger ==
    /\ \A e \in Held : e.n < pushes
    /\ \A e \in input \cup process : Elapsed(e) >= 0
    /\ \A e, f \in input \cup process : f.n < e.n => Elapsed(f) >= Elapsed(e)
    /\ \A e \in execute, f \in input \cup process : f.n < e.n => f.delay > e.delay

\* The commands in use, and those that may be taken.
HeldCmds == {e.cmd : e \in Held}
NestedCmds == ToSet(nested)
TakenCmds == IF accept.pc = "holding" THEN accept.cmd ELSE {}
FreeCmds == unused[Accepted] \cup unused[Confirm]

\* Numbers are given out once, and the lists of unused commands are sorted by type.
NumsKnown ==
    /\ \A c \in HeldCmds \cup NestedCmds \cup TakenCmds \cup FreeCmds : c.num < created
    /\ \A t \in Types : \A c \in unused[t] : c.type = t
    /\ accept.pc = "looking" => accept.cmd \subseteq unused[Accepted]

Inv ==
    /\ TypeOK /\ QueueInv
    /\ AnswersApart /\ RobotCanAnswer
    /\ WaitedLonger
    /\ NumsKnown /\ CommandHeldOnce

----------------------------------------------------------------------------
(* Facts about the operators *)

\* The entry executed next is the one of the list that was pushed first.
LEMMA FirstIsFirst ==
    ASSUME NEW S, S # {}, \A e \in S : e.n \in Nat
    PROVE  First(S) \in S /\ \A f \in S : First(S).n <= f.n
<1>1. PICK x \in {e.n : e \in S} : \A y \in {e.n : e \in S} : x <= y
  <2> DEFINE N == {e.n : e \in S}
  <2>1. N \subseteq Nat /\ N # {}
    OBVIOUS
  <2> HIDE DEF N
  <2>2. \E x \in N : \A y \in N : x <= y
    BY <2>1, LeastNumber
  <2> QED
    BY <2>2 DEF N
<1>2. \E e \in S : \A f \in S : e.n <= f.n
  BY <1>1
<1> QED
  BY <1>2 DEF First

\* What newCmd gives is a command, and it is on no list afterwards.
LEMMA NewCmdGives ==
    ASSUME TypeOK, NEW t \in Types, NewCmd(t), NEW c \in Candidates(t)
    PROVE  /\ c \in Command
           /\ created' \in Nat /\ created <= created'
           /\ unused' \in [Types -> SUBSET Command]
           /\ unused'[t] = {}
           /\ \A u \in Types \ {t} : unused'[u] = unused[u]
           /\ \/ c \in unused[t]
              \/ c = [type |-> t, num |-> created] /\ created' = created + 1
<1>1. created \in Nat /\ unused \in [Types -> SUBSET Command]
  BY DEF TypeOK
<1>2. c \in Command
  BY <1>1 DEF Candidates, Command
<1>3. created' \in Nat /\ created <= created'
  BY <1>1 DEF NewCmd
<1>4. unused' = [unused EXCEPT ![t] = {}]
  BY DEF NewCmd, RemoveUnuse
<1>5. \/ c \in unused[t]
      \/ c = [type |-> t, num |-> created] /\ created' = created + 1
  BY DEF NewCmd, Candidates
<1> QED
  BY <1>1, <1>2, <1>3, <1>4, <1>5

\* The commands that are destroyed are on the lists of their types afterwards.
LEMMA DestroyCmdsGives ==
    ASSUME TypeOK, NEW cs, cs \subseteq Command, DestroyCmds(cs)
    PROVE  /\ unused' \in [Types -> SUBSET Command]
           /\ crashed' \in BOOLEAN
           /\ \A t \in Types : unused'[t] = unused[t] \cup {c \in cs : c.type = t}
<1>1. crashed \in BOOLEAN /\ unused \in [Types -> SUBSET Command]
  BY DEF TypeOK
<1>2. unused' = [t \in Types |-> unused[t] \cup {c \in cs : c.type = t}]
  BY DEF DestroyCmds
<1>3. crashed' \in BOOLEAN
  BY <1>1, Zenon DEF DestroyCmds
<1> QED
  BY <1>1, <1>2, <1>3

----------------------------------------------------------------------------
(* Types *)

\* What every action leaves of the right type.
QueueTypes ==
    /\ input \subseteq DelayCommand
    /\ process \subseteq DelayCommand
    /\ execute \subseteq DelayCommand
    /\ current \subseteq DelayCommand
    /\ deleted \in BOOLEAN
    /\ updating \in BOOLEAN
PoolTypes ==
    /\ nested \in Seq(Command)
    /\ unused \in [Types -> SUBSET Command]
    /\ created \in Nat
    /\ assigned \in 0 .. MaxAssign
    /\ pushes \in Nat
WorldTypes ==
    /\ rooms \subseteq Rooms
    /\ roomOf \in [Robots -> Rooms \cup {Null}]
    /\ cmdID \in [Robots -> [Questions -> Ids \cup {NoId}]]
AcceptTypes ==
    /\ accept \in [pc: {"accepting", "looking", "holding"}, cmd: SUBSET Command,
                   id: Ids \cup {NoId}]
    /\ down \in BOOLEAN
    /\ crashed \in BOOLEAN

LEMMA TypesSplit == TypeOK <=> QueueTypes /\ PoolTypes /\ WorldTypes /\ AcceptTypes
BY DEF TypeOK, QueueTypes, PoolTypes, WorldTypes, AcceptTypes

\* A command is pushed: its entry has the types of an entry.
LEMMA EntryTypes ==
    ASSUME NEW n \in Nat, NEW i \in Ids, NEW c \in Command,
           NEW r \in Receivers \cup {Null}, NEW l \in Int, NEW d \in Delays
    PROVE  [n |-> n, id |-> i, cmd |-> c, recv |-> r, left |-> l, delay |-> d]
              \in DelayCommand
BY DEF DelayCommand

LEMMA RobotAskTypes ==
    ASSUME TypeOK, NEW b \in Robots, NEW q \in Questions, NEW d \in Delays,
           RobotAsk(b, q, d)
    PROVE  TypeOK'
<1>1. assigned \in Ids /\ assigned' \in 0 .. MaxAssign /\ pushes \in Nat /\ pushes' \in Nat
  <2>1. MaxAssign \in Nat /\ assigned \in 0 .. MaxAssign /\ assigned < MaxAssign
        /\ pushes \in Nat
    BY CommandConstants DEF TypeOK, RobotAsk
  <2>2. assigned' = assigned + 1 /\ pushes' = pushes + 1
    BY DEF RobotAsk
  <2> QED
    BY <2>1, <2>2 DEF Ids
<1>2. PICK c \in Candidates(Confirm) :
        input' = input \cup {[n |-> pushes, id |-> assigned, cmd |-> c,
                              recv |-> roomOf[b], left |-> d, delay |-> d]}
  BY DEF RobotAsk
<1>3. /\ c \in Command
      /\ created' \in Nat
      /\ unused' \in [Types -> SUBSET Command]
  BY NewCmdGives DEF RobotAsk, Types
<1>4. roomOf[b] \in Receivers \cup {Null} /\ d \in Int
  BY CommandConstants DEF RobotAsk, TypeOK, Receivers
<1>5. QueueTypes'
  <2>1. [n |-> pushes, id |-> assigned, cmd |-> c, recv |-> roomOf[b],
         left |-> d, delay |-> d] \in DelayCommand
    BY <1>1, <1>3, <1>4, EntryTypes
  <2> QED
    BY <1>2, <2>1 DEF RobotAsk, TypeOK, QueueTypes
<1>6. PoolTypes'
  BY <1>1, <1>3 DEF RobotAsk, TypeOK, PoolTypes
<1>7. WorldTypes'
  <2>1. cmdID' = [cmdID EXCEPT ![b][q] = assigned]
    BY DEF RobotAsk
  <2>2. cmdID' \in [Robots -> [Questions -> Ids \cup {NoId}]]
    BY <1>1, <2>1 DEF TypeOK
  <2> QED
    BY <2>2 DEF RobotAsk, TypeOK, WorldTypes
<1>8. AcceptTypes'
  BY DEF RobotAsk, TypeOK, AcceptTypes
<1> QED
  BY <1>5, <1>6, <1>7, <1>8, TypesSplit DEF TypeOK, QueueTypes, PoolTypes, WorldTypes, AcceptTypes

LEMMA LeaveRoomTypes ==
    ASSUME TypeOK, NEW b \in Robots, LeaveRoom(b)
    PROVE  TypeOK'
<1> DEFINE ids == {cmdID[b][q] : q \in Questions} \ {NoId}
           found == {e \in input \cup process : e.id \in ids}
           cs == {e.cmd : e \in found}
<1>1. cs \subseteq Command
  BY DEF TypeOK, DelayCommand
<1>2. \/ unused' = unused /\ crashed' \in {crashed, TRUE}
      \/ DestroyCmds(cs)
  BY DEF LeaveRoom
<1>3. input' \in {input, {}} /\ process' \in {process, (input \cup process) \ found}
  BY DEF LeaveRoom
<1> HIDE DEF cs
<1>4. unused' \in [Types -> SUBSET Command] /\ crashed' \in BOOLEAN
  BY <1>1, <1>2, DestroyCmdsGives DEF TypeOK
<1>5. input' \subseteq DelayCommand /\ process' \subseteq DelayCommand
  BY <1>3 DEF TypeOK
<1>6. /\ roomOf' = [roomOf EXCEPT ![b] = Null]
      /\ cmdID' = [cmdID EXCEPT ![b] = [q \in Questions |-> NoId]]
      /\ UNCHANGED <<execute, current, deleted, updating, nested, created, assigned,
                     pushes, rooms, accept, down>>
  BY DEF LeaveRoom
<1>7. roomOf' \in [Robots -> Rooms \cup {Null}]
  BY <1>6 DEF TypeOK
<1>8. cmdID' \in [Robots -> [Questions -> Ids \cup {NoId}]]
  BY <1>6 DEF TypeOK
<1> QED
  BY <1>4, <1>5, <1>6, <1>7, <1>8 DEF TypeOK

LEMMA DestroyRoomTypes ==
    ASSUME TypeOK, NEW r \in Rooms, DestroyRoom(r)
    PROVE  TypeOK'
<1> DEFINE mine == {e \in input \cup process : e.recv = r}
           cs == {e.cmd : e \in mine}
<1>1. cs \subseteq Command
  BY DEF TypeOK, DelayCommand
<1>2. DestroyCmds(cs)
  BY DEF DestroyRoom
<1>3. input' = {} /\ process' \subseteq input \cup process /\ execute' = Orphaned(r)
      /\ rooms' \subseteq rooms
      /\ UNCHANGED <<current, deleted, updating, nested, created, assigned, pushes,
                     roomOf, cmdID, accept, down>>
  BY DEF DestroyRoom
<1> HIDE DEF cs
<1>4. unused' \in [Types -> SUBSET Command] /\ crashed' \in BOOLEAN
  BY <1>1, <1>2, DestroyCmdsGives
<1>5. ASSUME NEW e \in execute
      PROVE  [e EXCEPT !.recv = Null] \in DelayCommand
  BY DEF TypeOK, DelayCommand
<1>6. execute' \subseteq DelayCommand
  BY <1>3, <1>5 DEF TypeOK, Orphaned
<1> QED
  BY <1>3, <1>4, <1>6 DEF TypeOK

LEMMA PushCommandTypes ==
    ASSUME TypeOK, PushCommand
    PROVE  TypeOK'
<1>1. PICK c \in Candidates(Confirm) : nested' = Append(nested, c)
  BY DEF PushCommand
<1>2. /\ c \in Command
      /\ created' \in Nat
      /\ unused' \in [Types -> SUBSET Command]
  BY NewCmdGives DEF PushCommand, Types
<1>3. nested' \in Seq(Command)
  BY <1>1, <1>2 DEF TypeOK
<1>4. UNCHANGED <<queue, assigned, pushes, world, accept, down, crashed>>
  BY DEF PushCommand
<1> QED
  BY <1>2, <1>3, <1>4 DEF TypeOK, queue, world

\* The innermost immediate command ends: the outer ones are left.
LEMMA FrontOfNested ==
    ASSUME NEW S, NEW s \in Seq(S), s # <<>>
    PROVE  /\ Last(s) \in S
           /\ Front(s) \in Seq(S)
           /\ Len(Front(s)) = Len(s) - 1
           /\ \A i \in 1 .. Len(s) - 1 : Front(s)[i] = s[i]
<1>1. Len(s) \in Nat /\ Len(s) > 0 /\ 1 \in 1 .. Len(s) + 1
  BY EmptySeq, LenProperties
<1>2. Last(s) \in S
  BY <1>1 DEF Last
<1>3. Len(s) - 1 \in 0 .. Len(s)
  BY <1>1
<1>4. \A i \in 1 .. Len(s) - 1 : s[i] \in S
  BY <1>1
<1>5. Front(s) = SubSeq(s, 1, Len(s) - 1)
  BY DEF Front
<1>6. /\ Front(s) \in Seq(S)
      /\ Len(Front(s)) = IF 1 <= Len(s) - 1 THEN Len(s) - 1 - 1 + 1 ELSE 0
      /\ \A i \in 1 .. Len(s) - 1 - 1 + 1 : Front(s)[i] = s[1 + i - 1]
  BY <1>1, <1>4, <1>5, SubSeqProperties
<1>7. Len(Front(s)) = Len(s) - 1
  <2> DEFINE n == Len(s)
             m == Len(Front(s))
  <2>1. n \in Nat /\ n > 0 /\ m = IF 1 <= n - 1 THEN n - 1 - 1 + 1 ELSE 0
    BY <1>1, <1>6
  <2> HIDE DEF n, m
  <2>2. m = n - 1
    BY <2>1
  <2> QED
    BY <2>2 DEF n, m
<1>8. \A i \in 1 .. Len(s) - 1 : Front(s)[i] = s[i]
  BY <1>1, <1>6
<1> QED
  BY <1>2, <1>6, <1>7, <1>8

LEMMA FinishNestedTypes ==
    ASSUME TypeOK, FinishNested
    PROVE  TypeOK'
<1>1. nested \in Seq(Command) /\ nested # <<>>
  BY DEF TypeOK, FinishNested
<1>2. Last(nested) \in Command /\ Front(nested) \in Seq(Command)
  BY <1>1, FrontOfNested
<1>3. DestroyCmds({Last(nested)}) /\ nested' = Front(nested)
      /\ UNCHANGED <<queue, created, assigned, pushes, world, accept, down>>
  BY DEF FinishNested
<1>4. unused' \in [Types -> SUBSET Command] /\ crashed' \in BOOLEAN
  BY <1>2, <1>3, DestroyCmdsGives
<1> QED
  BY <1>2, <1>3, <1>4 DEF TypeOK, queue, world

LEMMA BeginUpdateTypes ==
    ASSUME TypeOK, NEW t \in Frames, BeginUpdate(t)
    PROVE  TypeOK'
<1> DEFINE later == {[e EXCEPT !.left = @ - t] : e \in input \cup process}
<1>1. ASSUME NEW e \in input \cup process
      PROVE  [e EXCEPT !.left = @ - t] \in DelayCommand
  <2>1. t \in Int /\ e \in DelayCommand /\ e.left \in Int
    BY CommandConstants DEF TypeOK, DelayCommand
  <2> QED
    BY <2>1 DEF DelayCommand
<1>2. later \subseteq DelayCommand
  BY <1>1
<1>3. /\ input' = {}
      /\ \/ process' = input \cup process /\ UNCHANGED <<execute, updating>>
         \/ process' \subseteq later /\ execute' \subseteq later /\ updating' = TRUE
      /\ UNCHANGED <<current, deleted, nested, commandPool, pushes, world, accept, down, crashed>>
  BY DEF BeginUpdate, Due
<1> HIDE DEF later
<1> QED
  BY <1>2, <1>3 DEF TypeOK, commandPool, world

LEMMA StartCommandTypes ==
    ASSUME TypeOK, StartCommand
    PROVE  TypeOK'
<1> DEFINE e == NextEntry(execute)
<1>1. e \in execute
  <2>1. execute # {} /\ \A f \in execute : f.n \in Nat
    BY DEF TypeOK, StartCommand, DelayCommand
  <2> QED
    BY <2>1, FirstIsFirst DEF NextEntry
<1>2. /\ current' = {e} /\ execute' = execute \ {e}
      /\ cmdID' = ForgetId(e)
      /\ UNCHANGED <<input, process, deleted, updating, nested, commandPool, pushes,
                     rooms, roomOf, accept, down, crashed>>
  BY DEF StartCommand
<1> HIDE DEF e
<1>3. cmdID' \in [Robots -> [Questions -> Ids \cup {NoId}]]
  BY <1>2 DEF TypeOK, ForgetId
<1> QED
  BY <1>1, <1>2, <1>3 DEF TypeOK, commandPool

LEMMA FinishCommandTypes ==
    ASSUME TypeOK, FinishCommand
    PROVE  TypeOK'
<1> DEFINE cs == {e.cmd : e \in current}
<1>1. cs \subseteq Command
  BY DEF TypeOK, DelayCommand
<1>2. DestroyCmds(cs) /\ current' = {} /\ deleted' = TRUE
      /\ UNCHANGED <<input, process, execute, updating, nested, created, assigned, pushes,
                     world, accept, down>>
  BY DEF FinishCommand
<1> HIDE DEF cs
<1>3. unused' \in [Types -> SUBSET Command] /\ crashed' \in BOOLEAN
  BY <1>1, <1>2, DestroyCmdsGives
<1> QED
  BY <1>2, <1>3 DEF TypeOK, world

LEMMA AcceptTakeTypes ==
    ASSUME TypeOK, HoldingApart, AcceptTake
    PROVE  TypeOK'
<1>1. assigned \in Ids /\ assigned' \in 0 .. MaxAssign
  <2>1. MaxAssign \in Nat /\ assigned \in 0 .. MaxAssign /\ assigned < MaxAssign
    BY CommandConstants DEF TypeOK, HoldingApart, AcceptTake
  <2> QED
    BY <2>1 DEF AcceptTake, Ids
<1>2. created \in Nat /\ accept.cmd \subseteq Command
  BY DEF TypeOK
<1>3. created' \in Nat /\ unused' \in [Types -> SUBSET Command]
  <2>1. created' \in {created, created + 1}
    BY DEF AcceptTake
  <2>2. unused' \in {unused, [unused EXCEPT ![Accepted] = {}]}
    BY DEF AcceptTake, RemoveUnuse
  <2>3. [unused EXCEPT ![Accepted] = {}] \in [Types -> SUBSET Command]
    BY DEF TypeOK
  <2> QED
    BY <1>2, <2>1, <2>2, <2>3 DEF TypeOK
<1>4. [type |-> Accepted, num |-> created] \in Command
  BY <1>2 DEF Command, Types
<1> DEFINE taken == IF accept.cmd # {} THEN accept.cmd
                    ELSE {[type |-> Accepted, num |-> created]}
<1>5. taken \subseteq Command
  BY <1>2, <1>4
<1>6. accept' = [pc |-> "holding", id |-> assigned, cmd |-> taken]
  BY DEF AcceptTake
<1> HIDE DEF taken
<1>7. accept' \in [pc: {"accepting", "looking", "holding"}, cmd: SUBSET Command,
                   id: Ids \cup {NoId}]
  BY <1>1, <1>5, <1>6
<1>8. UNCHANGED <<queue, nested, pushes, world, down, crashed>>
  BY DEF AcceptTake
<1> QED
  BY <1>1, <1>3, <1>7, <1>8 DEF TypeOK, queue, world

LEMMA AcceptPushTypes ==
    ASSUME TypeOK, HoldingApart, AcceptPush
    PROVE  TypeOK'
<1>1. PICK c \in accept.cmd, d \in Delays :
        input' = input \cup {[n |-> pushes, id |-> accept.id, cmd |-> c,
                              recv |-> NetServer, left |-> d, delay |-> d]}
  BY DEF AcceptPush
<1>2. pushes \in Nat /\ accept.id \in Ids /\ c \in Command /\ d \in Int
      /\ NetServer \in Receivers
  BY CommandConstants DEF TypeOK, HoldingApart, AcceptPush, Receivers
<1>3. [n |-> pushes, id |-> accept.id, cmd |-> c, recv |-> NetServer,
       left |-> d, delay |-> d] \in DelayCommand
  BY <1>2, EntryTypes
<1>4. input' \subseteq DelayCommand
  BY <1>1, <1>3 DEF TypeOK
<1>5. /\ pushes' = pushes + 1
      /\ accept' = [pc |-> "accepting", cmd |-> {}, id |-> NoId]
      /\ UNCHANGED <<process, execute, current, deleted, updating, nested, commandPool,
                     world, down, crashed>>
  BY DEF AcceptPush
<1>6. accept' \in [pc: {"accepting", "looking", "holding"}, cmd: SUBSET Command,
                   id: Ids \cup {NoId}]
  BY <1>5
<1> QED
  BY <1>2, <1>4, <1>5, <1>6 DEF TypeOK, commandPool, world

\* Every step leaves the variables of the right types.
LEMMA TypeStep == TypeOK /\ HoldingApart /\ [Next]_vars => TypeOK'
<1> SUFFICES ASSUME TypeOK, HoldingApart, [Next]_vars
             PROVE  TypeOK'
  OBVIOUS
<1>1. ASSUME NEW b \in Robots, NEW r \in Rooms, EnterRoom(b, r)
      PROVE  TypeOK'
  <2>1. roomOf' = [roomOf EXCEPT ![b] = r]
        /\ UNCHANGED <<queue, nested, commandPool, pushes, rooms, cmdID, accept, down, crashed>>
    BY <1>1 DEF EnterRoom
  <2> QED
    BY <2>1 DEF TypeOK, queue, commandPool
<1>2. ASSUME NEW r \in Rooms, CreateRoom(r)
      PROVE  TypeOK'
  BY <1>2 DEF CreateRoom, TypeOK, queue, commandPool
<1>3. CASE SkipCommand
  BY <1>3 DEF SkipCommand, TypeOK, commandPool, world
<1>4. CASE EndUpdate
  BY <1>4 DEF EndUpdate, TypeOK, commandPool, world
<1>5. CASE Shutdown
  <2>1. unused' \in [Types -> SUBSET Command]
    BY <1>5 DEF Shutdown
  <2> QED
    BY <1>5, <2>1 DEF Shutdown, TypeOK, world
<1>6. CASE AcceptLook
  <2>1. PICK found \in SUBSET unused[Accepted] :
          accept' = [pc |-> "looking", cmd |-> found, id |-> NoId]
    BY <1>6 DEF AcceptLook
  <2>2. unused[Accepted] \subseteq Command
    BY DEF TypeOK, Types
  <2>3. accept' \in [pc: {"accepting", "looking", "holding"}, cmd: SUBSET Command,
                     id: Ids \cup {NoId}]
    BY <2>1, <2>2
  <2> QED
    BY <1>6, <2>3 DEF AcceptLook, TypeOK, queue, commandPool, world
<1>7. CASE UNCHANGED vars
  BY <1>7 DEF TypeOK, vars, queue, commandPool, world
<1> QED
  BY <1>1, <1>2, <1>3, <1>4, <1>5, <1>6, <1>7, RobotAskTypes, LeaveRoomTypes,
     DestroyRoomTypes, PushCommandTypes, FinishNestedTypes, BeginUpdateTypes,
     StartCommandTypes, FinishCommandTypes, AcceptTakeTypes, AcceptPushTypes DEF Next

----------------------------------------------------------------------------
(* Where the entries are *)

\* A step that only takes entries away.
LEMMA FewerEntries ==
    ASSUME QueueInv,
           input' \cup process' \subseteq input \cup process,
           execute' \subseteq execute, current' \subseteq current,
           assigned' = assigned, accept' = accept, Alive \subseteq Alive',
           IdleBetween'
    PROVE  QueueInv'
<1>1. Queued' \subseteq Queued /\ Held' \subseteq Held
  BY DEF Queued, Held
<1>2. IdsApart'
  BY <1>1 DEF QueueInv, IdsApart
<1>3. ReceiversLive'
  BY DEF QueueInv, ReceiversLive
<1>4. HoldingApart'
  BY <1>1 DEF QueueInv, HoldingApart
<1> QED
  BY <1>2, <1>3, <1>4 DEF QueueInv

\* A step that adds an entry, with an id that no entry has.
LEMMA OneMoreEntry ==
    ASSUME TypeOK, QueueInv, NEW e,
           e.recv \in Alive, e.id < assigned', assigned <= assigned', assigned' \in Nat,
           \A f \in Held : f.id # e.id,
           input' = input \cup {e}, UNCHANGED <<process, execute, current, updating, rooms>>
    PROVE  IdsApart' /\ IdleBetween' /\ ReceiversLive'
<1>1. Queued' = Queued \cup {e} /\ Held' = Held \cup {e}
  BY DEF Queued, Held
<1>2. \A f \in Held' : f.id < assigned'
  <2>1. assigned \in Int /\ \A f \in Held : f.id \in Int /\ f.id < assigned
    BY CommandConstants DEF QueueInv, IdsApart, TypeOK, DelayCommand, Ids, Held, Queued
  <2> QED
    BY <1>1, <2>1
<1>3. \A f, g \in Held' : f.id = g.id => f = g
  BY <1>1 DEF QueueInv, IdsApart
<1>4. \A f \in input' \cup process', g \in execute' : f.id # g.id
  BY DEF QueueInv, IdsApart, Held, Queued
<1>5. \A f \in current', g \in Queued' : f.id # g.id
  BY <1>1 DEF QueueInv, IdsApart, Held
<1>6. ReceiversLive'
  BY DEF QueueInv, ReceiversLive, Alive
<1> QED
  BY <1>2, <1>3, <1>4, <1>5, <1>6 DEF QueueInv, IdsApart, IdleBetween

LEMMA RobotAskQueue ==
    ASSUME TypeOK, QueueInv, NEW b \in Robots, NEW q \in Questions, NEW d \in Delays,
           RobotAsk(b, q, d)
    PROVE  QueueInv'
<1>1. PICK c \in Candidates(Confirm) :
        input' = input \cup {[n |-> pushes, id |-> assigned, cmd |-> c,
                              recv |-> roomOf[b], left |-> d, delay |-> d]}
  BY DEF RobotAsk
<1> DEFINE e == [n |-> pushes, id |-> assigned, cmd |-> c,
                 recv |-> roomOf[b], left |-> d, delay |-> d]
<1>2. e.id = assigned /\ e.recv = roomOf[b]
  OBVIOUS
<1>3. /\ roomOf[b] \in Alive
      /\ assigned' = assigned + 1
      /\ UNCHANGED <<process, execute, current, updating, rooms, accept>>
  BY DEF RobotAsk, Alive
<1> HIDE DEF e
<1>4. assigned \in Nat
  BY CommandConstants DEF TypeOK
<1>5. \A f \in Held : f.id # e.id
  BY <1>2, <1>4 DEF QueueInv, IdsApart
<1>6. input' = input \cup {e}
  BY <1>1 DEF e
<1>7. IdsApart' /\ IdleBetween' /\ ReceiversLive'
  BY <1>2, <1>3, <1>4, <1>5, <1>6, OneMoreEntry
<1>8. accept.pc # "looking"
  BY DEF RobotAsk, NewCmdUnlocked
<1>9. HoldingApart'
  <2>1. Held' = Held \cup {e}
    BY <1>3, <1>6 DEF Held, Queued
  <2>2. accept.pc = "holding" =>
           /\ accept.id \in Ids /\ accept.id < assigned
           /\ \A f \in Held' : f.id # accept.id
    BY <1>2, <1>4, <2>1 DEF QueueInv, HoldingApart, Ids
  <2>3. accept.id \in Ids /\ accept.id < assigned => accept.id < assigned + 1
    BY <1>4 DEF Ids
  <2> QED
    BY <1>3, <1>8, <2>2, <2>3 DEF QueueInv, HoldingApart
<1> QED
  BY <1>7, <1>9 DEF QueueInv

LEMMA AcceptTakeQueue ==
    ASSUME TypeOK, QueueInv, AcceptTake
    PROVE  QueueInv'
<1>1. /\ accept'.pc = "holding" /\ accept'.id = assigned
      /\ assigned' = assigned + 1
      /\ UNCHANGED <<queue, rooms>>
  BY DEF AcceptTake, world
<1>2. assigned \in Nat /\ assigned \in Ids
  BY CommandConstants DEF TypeOK, QueueInv, HoldingApart, AcceptTake, Ids
<1>3. Held' = Held /\ Queued' = Queued
  BY <1>1 DEF Held, Queued, queue
<1>4. \A e \in Held : e.id < assigned /\ e.id \in Int
  BY CommandConstants DEF QueueInv, IdsApart, TypeOK, DelayCommand, Ids, Held, Queued
<1>5. HoldingApart'
  BY <1>1, <1>2, <1>3, <1>4 DEF HoldingApart
<1>6. \A e \in Held : e.id < assigned + 1
  BY <1>2, <1>4
<1>7. IdsApart'
  BY <1>1, <1>3, <1>6 DEF QueueInv, IdsApart, queue
<1> QED
  BY <1>1, <1>5, <1>7 DEF QueueInv, IdleBetween, ReceiversLive, Alive, queue

LEMMA AcceptPushQueue ==
    ASSUME TypeOK, QueueInv, AcceptPush
    PROVE  QueueInv'
<1>1. PICK c \in accept.cmd, d \in Delays :
        input' = input \cup {[n |-> pushes, id |-> accept.id, cmd |-> c,
                              recv |-> NetServer, left |-> d, delay |-> d]}
  BY DEF AcceptPush
<1> DEFINE e == [n |-> pushes, id |-> accept.id, cmd |-> c,
                 recv |-> NetServer, left |-> d, delay |-> d]
<1>2. e.id = accept.id /\ e.recv = NetServer
  OBVIOUS
<1>3. /\ accept.pc = "holding"
      /\ accept' = [pc |-> "accepting", cmd |-> {}, id |-> NoId]
      /\ UNCHANGED <<process, execute, current, updating, rooms, assigned>>
  BY DEF AcceptPush, commandPool, world
<1> HIDE DEF e
<1>4. input' = input \cup {e}
  BY <1>1 DEF e
<1>5. e.id < assigned /\ assigned \in Nat /\ \A f \in Held : f.id # e.id
  BY <1>2, <1>3, CommandConstants DEF QueueInv, HoldingApart, TypeOK
<1>6. IdsApart' /\ IdleBetween' /\ ReceiversLive'
  BY <1>2, <1>3, <1>4, <1>5, OneMoreEntry DEF Alive
<1>7. HoldingApart'
  BY <1>3 DEF HoldingApart
<1> QED
  BY <1>6, <1>7 DEF QueueInv

\* What a frame does to an entry.
Aged(e, t) == [e EXCEPT !.left = @ - t]

LEMMA AgedEntry ==
    ASSUME NEW e \in DelayCommand, NEW t \in Frames
    PROVE  /\ Aged(e, t).n = e.n /\ Aged(e, t).id = e.id /\ Aged(e, t).cmd = e.cmd
           /\ Aged(e, t).recv = e.recv /\ Aged(e, t).delay = e.delay
           /\ Aged(e, t).left = e.left - t
BY DEF Aged, DelayCommand

\* A frame ages all the entries that wait or, when it is too long, none of them.
LEMMA BeginUpdateAges ==
    ASSUME TypeOK, QueueInv, NEW t \in Frames, BeginUpdate(t)
    PROVE  /\ execute = {} /\ current = {} /\ current' = {} /\ input' = {}
           /\ \/ /\ process' = input \cup process /\ execute' = {}
                 /\ updating' = updating
              \/ /\ Queued' = {Aged(e, t) : e \in input \cup process}
                 /\ process' = {f \in Queued' : f.left > 0}
                 /\ execute' = {f \in Queued' : f.left <= 0}
                 /\ updating' = TRUE
           /\ UNCHANGED <<assigned, pushes, rooms, accept, nested, unused, created, cmdID,
                          roomOf, down, crashed>>
<1> DEFINE later == {[e EXCEPT !.left = @ - t] : e \in input \cup process}
<1>1. execute = {} /\ current = {}
  BY DEF BeginUpdate, QueueInv, IdleBetween
<1>2. later = {Aged(e, t) : e \in input \cup process}
  BY DEF Aged
<1>3. \A f \in later : f.left \in Int
  <2>1. \A e \in input \cup process : e \in DelayCommand /\ e.left \in Int
    BY DEF TypeOK, DelayCommand
  <2>2. t \in Int
    BY CommandConstants
  <2>3. \A e \in input \cup process : Aged(e, t).left \in Int
    BY <2>1, <2>2, AgedEntry
  <2> QED
    BY <1>2, <2>3
<1>4. /\ input' = {}
      /\ \/ process' = input \cup process /\ UNCHANGED <<execute, updating>>
         \/ process' = later \ Due(later) /\ execute' = Due(later) /\ updating' = TRUE
      /\ UNCHANGED <<current, deleted, nested, commandPool, pushes, world, accept, down, crashed>>
  BY DEF BeginUpdate
<1> HIDE DEF later
<1>5. CASE process' = later \ Due(later) /\ execute' = Due(later) /\ updating' = TRUE
  <2>1. Queued' = later
    BY <1>4, <1>5 DEF Queued, Due
  <2>2. process' = {f \in later : f.left > 0}
    BY <1>3, <1>5 DEF Due
  <2> QED
    BY <1>1, <1>2, <1>4, <1>5, <2>1, <2>2 DEF Due, commandPool, world
<1> QED
  BY <1>1, <1>4, <1>5 DEF commandPool, world

LEMMA BeginUpdateQueue ==
    ASSUME TypeOK, QueueInv, NEW t \in Frames, BeginUpdate(t)
    PROVE  QueueInv'
<1> DEFINE all == input \cup process
<1>1. /\ execute = {} /\ current = {} /\ current' = {} /\ input' = {}
      /\ UNCHANGED <<assigned, rooms, accept>>
  BY BeginUpdateAges
<1>2. Held = all /\ Queued = all
  BY <1>1 DEF Held, Queued
<1>3. CASE process' = all /\ execute' = {} /\ updating' = updating
  BY <1>1, <1>3, FewerEntries DEF IdleBetween, Alive
<1>4. CASE /\ Queued' = {Aged(e, t) : e \in all}
           /\ process' = {f \in Queued' : f.left > 0}
           /\ execute' = {f \in Queued' : f.left <= 0}
           /\ updating' = TRUE
  <2>1. \A e \in all : e \in DelayCommand
    BY DEF TypeOK
  <2>2. \A e \in all : Aged(e, t).id = e.id /\ Aged(e, t).recv = e.recv
    BY <2>1, AgedEntry
  <2> HIDE DEF all
  <2>3. Held' = {Aged(e, t) : e \in all}
    BY <1>1, <1>4 DEF Held
  <2>4. \A f \in Held' : \E e \in all : f.id = e.id /\ f.recv = e.recv
    BY <2>2, <2>3
  <2>5. \A f, g \in Held' : f.id = g.id => f = g
    BY <1>2, <2>2, <2>3 DEF QueueInv, IdsApart
  <2>6. \A f \in Held' : f.id < assigned'
    BY <1>1, <1>2, <2>4 DEF QueueInv, IdsApart
  <2>7. \A f \in input' \cup process', g \in execute' : f.id # g.id
    <3>1. \A f \in process', g \in execute' :
             f \in Held' /\ g \in Held' /\ f.left > 0 /\ g.left <= 0
      BY <1>4 DEF Held
    <3>2. \A f \in Held' : f.left \in Int
      <4>1. \A e \in all : Aged(e, t).left = e.left - t /\ e.left \in Int
        BY <2>1, AgedEntry DEF DelayCommand
      <4>2. t \in Int
        BY CommandConstants
      <4> QED
        BY <2>3, <4>1, <4>2
    <3> SUFFICES ASSUME NEW f \in process', NEW g \in execute', f.id = g.id PROVE FALSE
      BY <1>1
    <3>3. f = g /\ f.left \in Int
      BY <2>5, <3>1, <3>2
    <3> QED
      BY <3>1, <3>3
  <2>8. IdsApart'
    BY <1>1, <2>5, <2>6, <2>7 DEF IdsApart
  <2>9. ReceiversLive'
    <3>1. \A f \in input' \cup process' \cup execute' : f \in Held'
      BY DEF Held, Queued
    <3>2. \A e \in all : e.recv \in Alive
      BY <1>1 DEF QueueInv, ReceiversLive, all
    <3>3. Alive' = Alive
      BY <1>1 DEF Alive
    <3> QED
      BY <2>4, <3>1, <3>2, <3>3 DEF ReceiversLive
  <2>10. HoldingApart'
    BY <1>1, <1>2, <2>4 DEF QueueInv, HoldingApart
  <2> QED
    BY <1>4, <2>8, <2>9, <2>10 DEF QueueInv, IdleBetween
<1> QED
  BY <1>3, <1>4, BeginUpdateAges

\* What the entry executed next is.
LEMMA NextEntryWaits ==
    ASSUME TypeOK, execute # {}
    PROVE  /\ NextEntry(execute) \in execute
           /\ \A f \in execute : NextEntry(execute).n <= f.n
<1>1. \A f \in execute : f.n \in Nat
  BY DEF TypeOK, DelayCommand
<1> QED
  BY <1>1, FirstIsFirst DEF NextEntry

LEMMA StartCommandQueue ==
    ASSUME TypeOK, QueueInv, StartCommand
    PROVE  QueueInv'
<1> DEFINE e == NextEntry(execute)
<1>1. e \in execute
  BY NextEntryWaits DEF StartCommand
<1>2. /\ updating /\ current = {} /\ current' = {e} /\ execute' = execute \ {e}
      /\ UNCHANGED <<input, process, updating, assigned, rooms, accept>>
  BY DEF StartCommand, commandPool
<1> HIDE DEF e
<1>3. Held' = Held /\ Queued' = Queued \ {e}
  <2>1. e \notin input \cup process
    BY <1>1 DEF QueueInv, IdsApart
  <2> QED
    BY <1>1, <1>2, <2>1 DEF Held, Queued
<1>4. \A f \in Queued' : f.id # e.id
  BY <1>1, <1>3 DEF QueueInv, IdsApart, Held, Queued
<1>5. IdsApart'
  <2>1. \A f \in current', g \in Queued' : f.id # g.id
    BY <1>2, <1>4
  <2>2. \A f \in input' \cup process', g \in execute' : f.id # g.id
    BY <1>2 DEF QueueInv, IdsApart
  <2> QED
    BY <1>2, <1>3, <2>1, <2>2 DEF QueueInv, IdsApart
<1>6. ReceiversLive'
  BY <1>2 DEF QueueInv, ReceiversLive, Alive
<1>7. HoldingApart'
  BY <1>2, <1>3 DEF QueueInv, HoldingApart
<1> QED
  BY <1>2, <1>5, <1>6, <1>7 DEF QueueInv, IdleBetween

\* An entry of the execute list when a room dies.
Orphan(e, r) == IF e.recv = r THEN [e EXCEPT !.recv = Null] ELSE e

LEMMA OrphanEntry ==
    ASSUME NEW e \in DelayCommand, NEW r
    PROVE  /\ Orphan(e, r).n = e.n /\ Orphan(e, r).id = e.id /\ Orphan(e, r).cmd = e.cmd
           /\ Orphan(e, r).delay = e.delay /\ Orphan(e, r).left = e.left
           /\ Orphan(e, r).recv = IF e.recv = r THEN Null ELSE e.recv
BY DEF Orphan, DelayCommand

LEMMA DestroyRoomQueue ==
    ASSUME TypeOK, QueueInv, NEW r \in Rooms, DestroyRoom(r)
    PROVE  QueueInv'
<1>1. /\ execute' = {Orphan(e, r) : e \in execute}
      /\ input' = {} /\ process' = {e \in input \cup process : e.recv # r}
      /\ rooms' = rooms \ {r}
      /\ UNCHANGED <<current, updating, assigned, accept>>
  BY DEF DestroyRoom, Orphaned, Orphan
<1>2. \A e \in Held : e \in DelayCommand
  BY DEF TypeOK, Held, Queued
<1>3. \A e \in execute : /\ Orphan(e, r).id = e.id
                         /\ Orphan(e, r).recv = IF e.recv = r THEN Null ELSE e.recv
  BY <1>2, OrphanEntry DEF Held, Queued
<1>4. \A f \in execute' : \E e \in execute : f = Orphan(e, r) /\ f.id = e.id
  BY <1>1, <1>3
<1>5. \A f \in Held' : \E e \in Held : f.id = e.id
  BY <1>1, <1>4 DEF Held, Queued
<1>6. IdsApart'
  <2>1. \A f \in Held' : f.id < assigned'
    BY <1>1, <1>5 DEF QueueInv, IdsApart
  <2>2. \A f \in input' \cup process', g \in execute' : f.id # g.id
    BY <1>1, <1>4 DEF QueueInv, IdsApart
  <2>3. \A f \in current', g \in Queued' : f.id # g.id
    BY <1>1, <1>4 DEF QueueInv, IdsApart, Queued
  <2>4. \A f, g \in input' \cup process' \cup current' : f.id = g.id => f = g
    BY <1>1 DEF QueueInv, IdsApart, Held, Queued
  <2>5. \A f, g \in execute' : f.id = g.id => f = g
    BY <1>4 DEF QueueInv, IdsApart, Held, Queued
  <2>6. \A f, g \in Held' : f.id = g.id => f = g
    BY <2>2, <2>3, <2>4, <2>5 DEF Held, Queued
  <2> QED
    BY <2>1, <2>2, <2>3, <2>6 DEF IdsApart
<1>7. ReceiversLive'
  <2>1. Alive' = Alive \ {r}
    BY <1>1, CommandConstants DEF Alive
  <2>2. \A e \in execute' : e.recv \in Alive' \cup {Null}
    BY <1>1, <1>3, <2>1 DEF QueueInv, ReceiversLive
  <2> QED
    BY <1>1, <2>1, <2>2 DEF QueueInv, ReceiversLive
<1>8. HoldingApart'
  BY <1>1, <1>5 DEF QueueInv, HoldingApart
<1>9. IdleBetween'
  BY <1>1 DEF QueueInv, IdleBetween
<1> QED
  BY <1>6, <1>7, <1>8, <1>9 DEF QueueInv

\* What a robot that leaves takes out of the lists.
Answers(b) == {cmdID[b][q] : q \in Questions} \ {NoId}
FoundOf(b) == {e \in input \cup process : e.id \in Answers(b)}

LEMMA LeaveRoomTakes ==
    ASSUME NEW b \in Robots, LeaveRoom(b)
    PROVE  /\ input' \cup process' = (input \cup process) \ FoundOf(b)
           /\ \/ unused' = unused
              \/ DestroyCmds({e.cmd : e \in FoundOf(b)})
           /\ roomOf' = [roomOf EXCEPT ![b] = Null]
           /\ cmdID' = [cmdID EXCEPT ![b] = [q \in Questions |-> NoId]]
           /\ UNCHANGED <<execute, current, deleted, updating, nested, created, assigned,
                          pushes, rooms, accept, down>>
BY DEF LeaveRoom, Answers, FoundOf

\* Every step keeps the entries apart and their receivers alive.
LEMMA QueueStep == TypeOK /\ QueueInv /\ [Next]_vars => QueueInv'
<1> SUFFICES ASSUME TypeOK, QueueInv, [Next]_vars
             PROVE  QueueInv'
  OBVIOUS
<1>1. ASSUME UNCHANGED queue, UNCHANGED <<assigned, accept>>, Alive \subseteq Alive'
      PROVE  QueueInv'
  <2>1. IdleBetween'
    BY <1>1 DEF queue, QueueInv, IdleBetween
  <2> QED
    BY <1>1, <2>1, FewerEntries DEF queue
<1>2. ASSUME NEW b \in Robots, NEW r \in Rooms, EnterRoom(b, r)
      PROVE  QueueInv'
  BY <1>1, <1>2 DEF EnterRoom, commandPool, Alive
<1>3. ASSUME NEW b \in Robots, LeaveRoom(b)
      PROVE  QueueInv'
  <2>1. /\ input' \cup process' = (input \cup process) \ FoundOf(b)
        /\ UNCHANGED <<execute, current, updating, assigned, rooms, accept>>
    BY <1>3, LeaveRoomTakes
  <2>2. IdleBetween'
    BY <2>1 DEF QueueInv, IdleBetween
  <2> QED
    BY <2>1, <2>2, FewerEntries DEF Alive
<1>4. ASSUME NEW r \in Rooms, CreateRoom(r)
      PROVE  QueueInv'
  BY <1>1, <1>4 DEF CreateRoom, commandPool, Alive
<1>5. CASE PushCommand
  BY <1>1, <1>5 DEF PushCommand, Alive, world
<1>6. CASE FinishNested
  BY <1>1, <1>6 DEF FinishNested, Alive, world
<1>7. CASE SkipCommand
  <2>1. /\ updating /\ execute' \subseteq execute
        /\ UNCHANGED <<input, process, current, updating, assigned, rooms, accept>>
    BY <1>7 DEF SkipCommand, commandPool, world
  <2>2. IdleBetween'
    BY <2>1 DEF IdleBetween
  <2> QED
    BY <2>1, <2>2, FewerEntries DEF Alive
<1>8. CASE FinishCommand
  <2>1. /\ current' = {}
        /\ UNCHANGED <<input, process, execute, updating, assigned, rooms, accept>>
    BY <1>8 DEF FinishCommand, world
  <2>2. IdleBetween'
    BY <2>1 DEF QueueInv, IdleBetween
  <2> QED
    BY <2>1, <2>2, FewerEntries DEF Alive
<1>9. CASE EndUpdate
  <2>1. /\ current = {} /\ execute = {}
        /\ UNCHANGED <<input, process, execute, current, assigned, rooms, accept>>
    BY <1>9 DEF EndUpdate, commandPool, world
  <2>2. IdleBetween'
    BY <2>1 DEF IdleBetween
  <2> QED
    BY <2>1, <2>2, FewerEntries DEF Alive
<1>10. CASE Shutdown
  <2>1. /\ input' = {} /\ process' = {}
        /\ UNCHANGED <<execute, current, updating, assigned, rooms, accept>>
    BY <1>10 DEF Shutdown, world
  <2>2. IdleBetween'
    BY <2>1 DEF QueueInv, IdleBetween
  <2> QED
    BY <2>1, <2>2, FewerEntries DEF Alive
<1>11. CASE AcceptLook
  <2>1. /\ accept'.pc = "looking" /\ accept'.id = NoId /\ assigned < MaxAssign
        /\ UNCHANGED <<input, process, execute, current, updating, assigned, rooms>>
    BY <1>11 DEF AcceptLook, commandPool, world, queue
  <2>2. HoldingApart'
    BY <2>1 DEF HoldingApart
  <2> QED
    BY <2>1, <2>2 DEF QueueInv, IdsApart, IdleBetween, ReceiversLive, Held, Queued, Alive
<1>12. CASE UNCHANGED vars
  BY <1>1, <1>12 DEF vars, commandPool, world, Alive
<1> QED
  BY <1>2, <1>3, <1>4, <1>5, <1>6, <1>7, <1>8, <1>9, <1>10, <1>11, <1>12, RobotAskQueue,
     BeginUpdateQueue, StartCommandQueue, DestroyRoomQueue, AcceptTakeQueue,
     AcceptPushQueue DEF Next

----------------------------------------------------------------------------
(* Robots that wait for their own answer *)

\* A step after which every remembered command that waited still does.
LEMMA StillWaits ==
    ASSUME AnswersApart, RobotCanAnswer,
           UNCHANGED <<cmdID, roomOf>>, assigned \in Nat, assigned' \in Nat,
           assigned <= assigned',
           crashed => crashed', down => down',
           cmdID \in [Robots -> [Questions -> Ids \cup {NoId}]],
           \A b \in Robots, q \in Questions :
              \A e \in Waiting : e.id = cmdID[b][q] /\ e.recv = roomOf[b] =>
                 \E f \in Waiting' : f.id = cmdID[b][q] /\ f.recv = roomOf[b]
    PROVE  AnswersApart' /\ RobotCanAnswer'
<1>1. \A b \in Robots, q \in Questions : cmdID[b][q] \in Int
  BY CommandConstants DEF Ids, NoId
<1>2. \A b \in Robots, q \in Questions : cmdID'[b][q] < assigned'
  BY <1>1 DEF AnswersApart
<1>3. AnswersApart'
  BY <1>2 DEF AnswersApart
<1>4. RobotCanAnswer'
  BY DEF RobotCanAnswer
<1> QED
  BY <1>3, <1>4

LEMMA RobotAskAnswers ==
    ASSUME TypeOK, QueueInv, AnswersApart, RobotCanAnswer,
           NEW b \in Robots, NEW q \in Questions, NEW d \in Delays, RobotAsk(b, q, d)
    PROVE  AnswersApart' /\ RobotCanAnswer'
<1>1. PICK c \in Candidates(Confirm) :
        input' = input \cup {[n |-> pushes, id |-> assigned, cmd |-> c,
                              recv |-> roomOf[b], left |-> d, delay |-> d]}
  BY DEF RobotAsk
<1> DEFINE e == [n |-> pushes, id |-> assigned, cmd |-> c,
                 recv |-> roomOf[b], left |-> d, delay |-> d]
<1>2. e.id = assigned /\ e.recv = roomOf[b]
  OBVIOUS
<1>3. /\ roomOf[b] \in rooms
      /\ assigned' = assigned + 1
      /\ cmdID' = [cmdID EXCEPT ![b][q] = assigned]
      /\ UNCHANGED <<process, execute, roomOf, down, crashed>>
  BY DEF RobotAsk
<1> HIDE DEF e
<1>4. input' = input \cup {e}
  BY <1>1 DEF e
<1>5. assigned \in Nat /\ cmdID \in [Robots -> [Questions -> Ids \cup {NoId}]]
  BY CommandConstants DEF TypeOK
<1>6. e.recv # Null
  BY <1>2, <1>3, CommandConstants DEF TypeOK
<1>7. e \in Waiting' /\ Waiting \subseteq Waiting'
  BY <1>3, <1>4, <1>6 DEF Waiting, Queued
<1>8. \A a \in Robots, p \in Questions :
         cmdID'[a][p] = IF a = b /\ p = q THEN assigned ELSE cmdID[a][p]
  BY <1>3, <1>5
<1>9. \A a \in Robots, p \in Questions :
         cmdID[a][p] \in Int /\ cmdID[a][p] < assigned
  BY <1>5, CommandConstants DEF AnswersApart, Ids, NoId
<1>10. AnswersApart'
  <2>1. \A a \in Robots, p \in Questions : cmdID'[a][p] < assigned'
    BY <1>3, <1>5, <1>8, <1>9
  <2>2. \A a, z \in Robots, p, u \in Questions :
           cmdID'[a][p] # NoId /\ cmdID'[a][p] = cmdID'[z][u] => a = z /\ p = u
    <3> SUFFICES ASSUME NEW a \in Robots, NEW z \in Robots, NEW p \in Questions,
                        NEW u \in Questions, cmdID'[a][p] # NoId,
                        cmdID'[a][p] = cmdID'[z][u]
                 PROVE  a = z /\ p = u
      OBVIOUS
    <3>1. CASE a = b /\ p = q
      BY <1>5, <1>8, <1>9, <3>1
    <3>2. CASE z = b /\ u = q
      BY <1>5, <1>8, <1>9, <3>2
    <3>3. CASE ~(a = b /\ p = q) /\ ~(z = b /\ u = q)
      BY <1>8, <3>3 DEF AnswersApart
    <3> QED
      BY <3>1, <3>2, <3>3
  <2> QED
    BY <2>1, <2>2 DEF AnswersApart
<1>11. RobotCanAnswer'
  <2> SUFFICES ASSUME NEW a \in Robots, NEW p \in Questions, cmdID'[a][p] # NoId,
                      ~crashed', ~down'
               PROVE  \E f \in Waiting' : f.id = cmdID'[a][p] /\ f.recv = roomOf'[a]
    BY DEF RobotCanAnswer
  <2>1. CASE a = b /\ p = q
    BY <1>2, <1>3, <1>7, <1>8, <2>1
  <2>2. CASE ~(a = b /\ p = q)
    BY <1>3, <1>7, <1>8, <2>2 DEF RobotCanAnswer
  <2> QED
    BY <2>1, <2>2
<1> QED
  BY <1>10, <1>11

LEMMA EnterRoomAnswers ==
    ASSUME TypeOK, AnswersApart, RobotCanAnswer,
           NEW b \in Robots, NEW r \in Rooms, EnterRoom(b, r)
    PROVE  AnswersApart' /\ RobotCanAnswer'
<1>1. /\ roomOf[b] = Null /\ roomOf' = [roomOf EXCEPT ![b] = r]
      /\ UNCHANGED <<input, process, execute, cmdID, assigned, down, crashed>>
  BY DEF EnterRoom, queue, commandPool
<1>2. Waiting' = Waiting /\ \A e \in Waiting : e.recv # Null
  BY <1>1 DEF Waiting, Queued
<1>3. \A a \in Robots : a # b => roomOf'[a] = roomOf[a]
  BY <1>1 DEF TypeOK
<1>4. RobotCanAnswer'
  <2> SUFFICES ASSUME NEW a \in Robots, NEW p \in Questions, cmdID'[a][p] # NoId,
                      ~crashed', ~down'
               PROVE  \E f \in Waiting' : f.id = cmdID'[a][p] /\ f.recv = roomOf'[a]
    BY DEF RobotCanAnswer
  <2>1. PICK f \in Waiting : f.id = cmdID[a][p] /\ f.recv = roomOf[a]
    BY <1>1 DEF RobotCanAnswer
  <2>2. a # b
    BY <1>1, <1>2, <2>1
  <2> QED
    BY <1>1, <1>2, <1>3, <2>1, <2>2
<1> QED
  BY <1>1, <1>4 DEF AnswersApart

LEMMA LeaveRoomAnswers ==
    ASSUME TypeOK, AnswersApart, RobotCanAnswer, NEW b \in Robots, LeaveRoom(b)
    PROVE  AnswersApart' /\ RobotCanAnswer'
<1>1. /\ input' \cup process' = (input \cup process) \ FoundOf(b)
      /\ roomOf' = [roomOf EXCEPT ![b] = Null]
      /\ cmdID' = [cmdID EXCEPT ![b] = [q \in Questions |-> NoId]]
      /\ UNCHANGED <<execute, assigned, down>>
  BY LeaveRoomTakes
<1>2. ~crashed
  BY DEF LeaveRoom, MainRuns
<1>3. \A a \in Robots, p \in Questions :
         /\ cmdID'[a][p] = IF a = b THEN NoId ELSE cmdID[a][p]
         /\ a # b => roomOf'[a] = roomOf[a]
  BY <1>1 DEF TypeOK
<1>4. AnswersApart'
  <2>1. assigned \in Nat
    BY CommandConstants DEF TypeOK
  <2>2. \A a \in Robots, p \in Questions : cmdID'[a][p] < assigned'
    BY <1>1, <1>3, <2>1 DEF AnswersApart, NoId
  <2>3. \A a, z \in Robots, p, u \in Questions :
           cmdID'[a][p] # NoId /\ cmdID'[a][p] = cmdID'[z][u] => a = z /\ p = u
    BY <1>3 DEF AnswersApart
  <2> QED
    BY <2>2, <2>3 DEF AnswersApart
<1>5. RobotCanAnswer'
  <2> SUFFICES ASSUME NEW a \in Robots, NEW p \in Questions, cmdID'[a][p] # NoId,
                      ~crashed', ~down'
               PROVE  \E f \in Waiting' : f.id = cmdID'[a][p] /\ f.recv = roomOf'[a]
    BY DEF RobotCanAnswer
  <2>1. a # b /\ cmdID'[a][p] = cmdID[a][p] /\ roomOf'[a] = roomOf[a]
    BY <1>3
  <2>2. PICK f \in Waiting : f.id = cmdID[a][p] /\ f.recv = roomOf[a]
    BY <1>1, <1>2, <2>1 DEF RobotCanAnswer
  <2>3. f.id \notin Answers(b)
    BY <2>1, <2>2 DEF Answers, AnswersApart
  <2>4. f \in Waiting'
    BY <1>1, <2>3 DEF Waiting, Queued, FoundOf
  <2> QED
    BY <2>1, <2>2, <2>4
<1> QED
  BY <1>4, <1>5

LEMMA StartCommandAnswers ==
    ASSUME TypeOK, AnswersApart, RobotCanAnswer, StartCommand
    PROVE  AnswersApart' /\ RobotCanAnswer'
<1> DEFINE e == NextEntry(execute)
<1>1. /\ execute' = execute \ {e} /\ cmdID' = ForgetId(e)
      /\ UNCHANGED <<input, process, assigned, roomOf, down, crashed>>
  BY DEF StartCommand, commandPool
<1> HIDE DEF e
<1>2. \A a \in Robots, p \in Questions :
         cmdID'[a][p] = IF cmdID[a][p] = e.id THEN NoId ELSE cmdID[a][p]
  BY <1>1 DEF ForgetId
<1>3. AnswersApart'
  <2>1. assigned \in Nat
    BY CommandConstants DEF TypeOK
  <2>2. \A a \in Robots, p \in Questions : cmdID'[a][p] < assigned'
    BY <1>1, <1>2, <2>1 DEF AnswersApart, NoId
  <2>3. \A a, z \in Robots, p, u \in Questions :
           cmdID'[a][p] # NoId /\ cmdID'[a][p] = cmdID'[z][u] => a = z /\ p = u
    BY <1>2 DEF AnswersApart
  <2> QED
    BY <2>2, <2>3 DEF AnswersApart
<1>4. RobotCanAnswer'
  <2> SUFFICES ASSUME NEW a \in Robots, NEW p \in Questions, cmdID'[a][p] # NoId,
                      ~crashed', ~down'
               PROVE  \E f \in Waiting' : f.id = cmdID'[a][p] /\ f.recv = roomOf'[a]
    BY DEF RobotCanAnswer
  <2>1. cmdID'[a][p] = cmdID[a][p] /\ cmdID[a][p] # e.id
    BY <1>2
  <2>2. PICK f \in Waiting : f.id = cmdID[a][p] /\ f.recv = roomOf[a]
    BY <1>1, <2>1 DEF RobotCanAnswer
  <2>3. f \in Waiting'
    BY <1>1, <2>1, <2>2 DEF Waiting, Queued
  <2> QED
    BY <1>1, <2>1, <2>2, <2>3
<1> QED
  BY <1>3, <1>4

LEMMA DestroyRoomAnswers ==
    ASSUME TypeOK, QueueInv, AnswersApart, RobotCanAnswer, NEW r \in Rooms, DestroyRoom(r)
    PROVE  AnswersApart' /\ RobotCanAnswer'
<1>1. /\ execute' = {Orphan(e, r) : e \in execute}
      /\ process' = {e \in input \cup process : e.recv # r}
      /\ \A b \in Robots : roomOf[b] # r
      /\ UNCHANGED <<roomOf, cmdID, assigned, down>>
      /\ ~crashed
  BY DEF DestroyRoom, Orphaned, Orphan, MainRuns
<1>2. \A b \in Robots, e \in Waiting : e.recv = roomOf[b] => e \in Waiting'
  <2> SUFFICES ASSUME NEW b \in Robots, NEW e \in Waiting, e.recv # r
               PROVE  e \in Waiting'
    BY <1>1
  <2>1. e \in execute => e \in execute'
    BY <1>1 DEF Orphan
  <2> QED
    BY <1>1, <2>1 DEF Waiting, Queued
<1>3. assigned \in Nat /\ cmdID \in [Robots -> [Questions -> Ids \cup {NoId}]]
  BY CommandConstants DEF TypeOK
<1> QED
  BY <1>1, <1>2, <1>3, StillWaits

LEMMA BeginUpdateAnswers ==
    ASSUME TypeOK, QueueInv, AnswersApart, RobotCanAnswer,
           NEW t \in Frames, BeginUpdate(t)
    PROVE  AnswersApart' /\ RobotCanAnswer'
<1>1. /\ execute = {}
      /\ \/ process' = input \cup process
         \/ Queued' = {Aged(e, t) : e \in input \cup process}
      /\ UNCHANGED <<assigned, cmdID, roomOf, down, crashed>>
  BY BeginUpdateAges
<1>2. \A e \in Waiting : \E f \in Waiting' : f.id = e.id /\ f.recv = e.recv
  <2>1. \A e \in Waiting : e \in input \cup process /\ e \in DelayCommand /\ e.recv # Null
    BY <1>1 DEF Waiting, Queued, TypeOK
  <2>2. CASE process' = input \cup process
    BY <2>1, <2>2 DEF Waiting, Queued
  <2>3. CASE Queued' = {Aged(e, t) : e \in input \cup process}
    <3> SUFFICES ASSUME NEW e \in Waiting
                 PROVE  \E f \in Waiting' : f.id = e.id /\ f.recv = e.recv
      OBVIOUS
    <3>1. Aged(e, t).id = e.id /\ Aged(e, t).recv = e.recv
      BY <2>1, AgedEntry
    <3>2. Aged(e, t) \in Waiting'
      BY <2>1, <2>3, <3>1 DEF Waiting
    <3> QED
      BY <3>1, <3>2
  <2> QED
    BY <1>1, <2>2, <2>3
<1>3. assigned \in Nat /\ cmdID \in [Robots -> [Questions -> Ids \cup {NoId}]]
  BY CommandConstants DEF TypeOK
<1> QED
  BY <1>1, <1>2, <1>3, StillWaits

\* No step makes a robot wait for an answer that is lost.
LEMMA AnswersStep ==
    TypeOK /\ QueueInv /\ AnswersApart /\ RobotCanAnswer /\ [Next]_vars
      => AnswersApart' /\ RobotCanAnswer'
<1> SUFFICES ASSUME TypeOK, QueueInv, AnswersApart, RobotCanAnswer, [Next]_vars
             PROVE  AnswersApart' /\ RobotCanAnswer'
  OBVIOUS
<1>1. ASSUME UNCHANGED <<cmdID, roomOf, down>>, assigned' \in {assigned, assigned + 1},
             crashed => crashed', Waiting \subseteq Waiting'
      PROVE  AnswersApart' /\ RobotCanAnswer'
  <2>1. assigned \in Nat /\ cmdID \in [Robots -> [Questions -> Ids \cup {NoId}]]
    BY CommandConstants DEF TypeOK
  <2> QED
    BY <1>1, <2>1, StillWaits
<1>2. ASSUME NEW r \in Rooms, CreateRoom(r)
      PROVE  AnswersApart' /\ RobotCanAnswer'
  BY <1>1, <1>2 DEF CreateRoom, queue, commandPool, Waiting, Queued
<1>3. CASE PushCommand
  BY <1>1, <1>3 DEF PushCommand, queue, world, Waiting, Queued
<1>4. CASE FinishNested
  BY <1>1, <1>4 DEF FinishNested, queue, world, Waiting, Queued
<1>5. CASE SkipCommand
  BY <1>1, <1>5 DEF SkipCommand, commandPool, world, Waiting, Queued
<1>6. CASE FinishCommand
  BY <1>1, <1>6 DEF FinishCommand, world, Waiting, Queued
<1>7. CASE EndUpdate
  BY <1>1, <1>7 DEF EndUpdate, commandPool, world, Waiting, Queued
<1>8. CASE Shutdown
  BY <1>8 DEF Shutdown, world, AnswersApart, RobotCanAnswer
<1>9. CASE AcceptLook
  BY <1>1, <1>9 DEF AcceptLook, queue, commandPool, world, Waiting, Queued
<1>10. CASE AcceptTake
  BY <1>1, <1>10 DEF AcceptTake, queue, world, Waiting, Queued
<1>11. CASE AcceptPush
  BY <1>1, <1>11 DEF AcceptPush, commandPool, world, Waiting, Queued
<1>12. CASE UNCHANGED vars
  BY <1>1, <1>12 DEF vars, queue, commandPool, world, Waiting, Queued
<1> QED
  BY <1>2, <1>3, <1>4, <1>5, <1>6, <1>7, <1>8, <1>9, <1>10, <1>11, <1>12,
     RobotAskAnswers, EnterRoomAnswers, LeaveRoomAnswers, StartCommandAnswers,
     DestroyRoomAnswers, BeginUpdateAnswers DEF Next

----------------------------------------------------------------------------
(* The order of execution *)

\* What the order depends on has the types of numbers.
LEMMA EntryNumbers ==
    ASSUME TypeOK
    PROVE  /\ pushes \in Nat
           /\ \A e \in Held : /\ e \in DelayCommand /\ e.n \in Nat
                              /\ e.left \in Int /\ e.delay \in Int
<1>1. \A e \in Held : e \in DelayCommand
  BY DEF TypeOK, Held, Queued
<1>2. \A d \in Delays : d \in Int
  BY CommandConstants
<1>3. \A e \in Held : e.n \in Nat /\ e.left \in Int /\ e.delay \in Int
  BY <1>1, <1>2 DEF DelayCommand
<1> QED
  BY <1>1, <1>3 DEF TypeOK

LEMMA FewerWaited ==
    ASSUME WaitedLonger,
           input' \cup process' \subseteq input \cup process,
           execute' \subseteq execute, current' \subseteq current, pushes' = pushes
    PROVE  WaitedLonger'
<1>1. Held' \subseteq Held
  BY DEF Held, Queued
<1> QED
  BY <1>1 DEF WaitedLonger, Elapsed

LEMMA OneMoreWaited ==
    ASSUME TypeOK, WaitedLonger, NEW e,
           e.n = pushes, e.left = e.delay, e.delay \in Int, pushes' = pushes + 1,
           input' = input \cup {e}, UNCHANGED <<process, execute, current>>
    PROVE  WaitedLonger'
<1>1. Held' = Held \cup {e} /\ input' \cup process' = (input \cup process) \cup {e}
  BY DEF Held, Queued
<1>2. pushes \in Nat /\ \A f \in Held : f.n \in Nat /\ f.n < pushes
  BY EntryNumbers DEF WaitedLonger
<1>3. \A f \in Held' : f.n < pushes'
  BY <1>1, <1>2
<1>4. Elapsed(e) = 0
  BY DEF Elapsed
<1>5. \A f \in input' \cup process' : Elapsed(f) >= 0
  BY <1>1, <1>4 DEF WaitedLonger
<1>6. \A f, g \in input' \cup process' : g.n < f.n => Elapsed(g) >= Elapsed(f)
  <2> SUFFICES ASSUME NEW f \in input' \cup process', NEW g \in input' \cup process',
                      g.n < f.n
               PROVE  Elapsed(g) >= Elapsed(f)
    OBVIOUS
  <2>1. CASE f = e
    BY <1>4, <1>5, <2>1
  <2>2. CASE f # e
    <3>1. f \in Held /\ g # e
      BY <1>1, <1>2, <2>2 DEF Held, Queued
    <3> QED
      BY <1>1, <2>2, <3>1 DEF WaitedLonger
  <2> QED
    BY <2>1, <2>2
<1>7. \A f \in execute', g \in input' \cup process' : g.n < f.n => g.delay > f.delay
  <2> SUFFICES ASSUME NEW f \in execute, NEW g \in input' \cup process', g.n < f.n
               PROVE  g.delay > f.delay
    OBVIOUS
  <2>1. g # e
    BY <1>2 DEF Held, Queued
  <2> QED
    BY <1>1, <2>1 DEF WaitedLonger
<1> QED
  BY <1>3, <1>5, <1>6, <1>7 DEF WaitedLonger

LEMMA BeginUpdateWaited ==
    ASSUME TypeOK, QueueInv, WaitedLonger, NEW t \in Frames, BeginUpdate(t)
    PROVE  WaitedLonger'
<1> DEFINE all == input \cup process
<1>1. /\ execute = {} /\ current = {} /\ current' = {} /\ input' = {} /\ pushes' = pushes
  BY BeginUpdateAges
<1>2. CASE process' = all /\ execute' = {}
  BY <1>1, <1>2, FewerWaited
<1>3. CASE /\ Queued' = {Aged(e, t) : e \in all}
           /\ process' = {f \in Queued' : f.left > 0}
           /\ execute' = {f \in Queued' : f.left <= 0}
  <2>1. t \in Nat
    BY CommandConstants
  <2>2. \A e \in all : /\ e \in DelayCommand /\ e.n \in Nat /\ e.left \in Int
                       /\ e.delay \in Int /\ e.n < pushes
    BY EntryNumbers DEF Held, Queued, WaitedLonger
  <2>3. \A e \in all : /\ Aged(e, t).n = e.n /\ Aged(e, t).delay = e.delay
                       /\ Aged(e, t).left = e.left - t
    BY <2>2, AgedEntry
  <2> HIDE DEF all
  <2>4. Held' = Queued'
    BY <1>1 DEF Held
  <2>5. \A f \in Held' : f.n < pushes'
    BY <1>1, <1>3, <2>2, <2>3, <2>4
  <2>6. \A e \in all : Elapsed(Aged(e, t)) = Elapsed(e) + t /\ Elapsed(e) \in Int
    BY <2>1, <2>2, <2>3 DEF Elapsed
  <2>7. \A e \in all : Elapsed(Aged(e, t)) >= 0
    <3>1. \A e \in all : Elapsed(e) >= 0
      BY DEF WaitedLonger, all
    <3> QED
      BY <2>1, <2>6, <3>1
  <2>8. \A e, f \in all : f.n < e.n => Elapsed(Aged(f, t)) >= Elapsed(Aged(e, t))
    <3>1. \A e, f \in all : f.n < e.n => Elapsed(f) >= Elapsed(e)
      BY DEF WaitedLonger, all
    <3> QED
      BY <2>1, <2>6, <3>1
  <2>9. input' \cup process' \subseteq Queued'
    BY <1>1, <1>3
  <2>10. \A f \in input' \cup process' : Elapsed(f) >= 0
    BY <1>3, <2>7, <2>9
  <2>11. \A f, g \in Queued' : g.n < f.n => Elapsed(g) >= Elapsed(f)
    BY <1>3, <2>3, <2>8
  <2>12. \A f, g \in input' \cup process' : g.n < f.n => Elapsed(g) >= Elapsed(f)
    BY <2>9, <2>11
  <2>13. \A f \in execute', g \in input' \cup process' : g.n < f.n => g.delay > f.delay
    <3> SUFFICES ASSUME NEW f \in execute', NEW g \in process', g.n < f.n
                 PROVE  g.delay > f.delay
      BY <1>1
    <3>1. f \in Queued' /\ g \in Queued' /\ f.left <= 0 /\ g.left > 0
      BY <1>3
    <3>2. g.delay - g.left >= f.delay - f.left
      BY <2>11, <3>1 DEF Elapsed
    <3>3. \A h \in Queued' : h.left \in Int /\ h.delay \in Int
      BY <1>3, <2>1, <2>2, <2>3
    <3>4. f.left \in Int /\ f.delay \in Int /\ g.left \in Int /\ g.delay \in Int
      BY <3>1, <3>3
    <3> QED
      BY <3>1, <3>2, <3>4
  <2> QED
    BY <2>5, <2>10, <2>12, <2>13 DEF WaitedLonger
<1> QED
  BY <1>2, <1>3, BeginUpdateAges

LEMMA DestroyRoomWaited ==
    ASSUME TypeOK, WaitedLonger, NEW r \in Rooms, DestroyRoom(r)
    PROVE  WaitedLonger'
<1>1. /\ execute' = {Orphan(e, r) : e \in execute}
      /\ input' = {} /\ process' = {e \in input \cup process : e.recv # r}
      /\ UNCHANGED <<current, pushes>>
  BY DEF DestroyRoom, Orphaned, Orphan
<1>2. \A e \in execute : Orphan(e, r).n = e.n /\ Orphan(e, r).delay = e.delay
  BY OrphanEntry DEF TypeOK
<1>3. \A f \in execute' : \E e \in execute : f.n = e.n /\ f.delay = e.delay
  BY <1>1, <1>2
<1>4. \A f \in Held' : f.n < pushes'
  BY <1>1, <1>3 DEF WaitedLonger, Held, Queued
<1>5. \A f \in execute', g \in input' \cup process' : g.n < f.n => g.delay > f.delay
  BY <1>1, <1>3 DEF WaitedLonger
<1> QED
  BY <1>1, <1>4, <1>5 DEF WaitedLonger, Elapsed

LEMMA WaitedStep == TypeOK /\ QueueInv /\ WaitedLonger /\ [Next]_vars => WaitedLonger'
<1> SUFFICES ASSUME TypeOK, QueueInv, WaitedLonger, [Next]_vars
             PROVE  WaitedLonger'
  OBVIOUS
<1>1. ASSUME input' \cup process' \subseteq input \cup process,
             execute' \subseteq execute, current' \subseteq current, pushes' = pushes
      PROVE  WaitedLonger'
  BY <1>1, FewerWaited
<1>2. ASSUME NEW b \in Robots, NEW q \in Questions, NEW d \in Delays, RobotAsk(b, q, d)
      PROVE  WaitedLonger'
  <2>1. PICK c \in Candidates(Confirm) :
          input' = input \cup {[n |-> pushes, id |-> assigned, cmd |-> c,
                                recv |-> roomOf[b], left |-> d, delay |-> d]}
    BY <1>2 DEF RobotAsk
  <2> DEFINE e == [n |-> pushes, id |-> assigned, cmd |-> c,
                   recv |-> roomOf[b], left |-> d, delay |-> d]
  <2>2. e.n = pushes /\ e.left = e.delay /\ e.delay \in Int
    BY CommandConstants
  <2>3. pushes' = pushes + 1 /\ UNCHANGED <<process, execute, current>>
    BY <1>2 DEF RobotAsk
  <2> HIDE DEF e
  <2>4. input' = input \cup {e}
    BY <2>1 DEF e
  <2> QED
    BY <2>2, <2>3, <2>4, OneMoreWaited
<1>3. CASE AcceptPush
  <2>1. PICK c \in accept.cmd, d \in Delays :
          input' = input \cup {[n |-> pushes, id |-> accept.id, cmd |-> c,
                                recv |-> NetServer, left |-> d, delay |-> d]}
    BY <1>3 DEF AcceptPush
  <2> DEFINE e == [n |-> pushes, id |-> accept.id, cmd |-> c,
                   recv |-> NetServer, left |-> d, delay |-> d]
  <2>2. e.n = pushes /\ e.left = e.delay /\ e.delay \in Int
    BY CommandConstants
  <2>3. pushes' = pushes + 1 /\ UNCHANGED <<process, execute, current>>
    BY <1>3 DEF AcceptPush
  <2> HIDE DEF e
  <2>4. input' = input \cup {e}
    BY <2>1 DEF e
  <2> QED
    BY <2>2, <2>3, <2>4, OneMoreWaited
<1>4. ASSUME NEW b \in Robots, NEW r \in Rooms, EnterRoom(b, r)
      PROVE  WaitedLonger'
  BY <1>1, <1>4 DEF EnterRoom, queue
<1>5. ASSUME NEW b \in Robots, LeaveRoom(b)
      PROVE  WaitedLonger'
  BY <1>1, <1>5, LeaveRoomTakes
<1>6. ASSUME NEW r \in Rooms, CreateRoom(r)
      PROVE  WaitedLonger'
  BY <1>1, <1>6 DEF CreateRoom, queue
<1>7. CASE PushCommand
  BY <1>1, <1>7 DEF PushCommand, queue
<1>8. CASE FinishNested
  BY <1>1, <1>8 DEF FinishNested, queue
<1>9. CASE StartCommand
  <2> DEFINE e == NextEntry(execute)
  <2>1. e \in execute
    BY <1>9, NextEntryWaits DEF StartCommand
  <2>2. /\ current = {} /\ current' = {e} /\ execute' = execute \ {e}
        /\ UNCHANGED <<input, process, pushes>>
    BY <1>9 DEF StartCommand
  <2> HIDE DEF e
  <2>3. Held' = Held
    BY <2>1, <2>2 DEF Held, Queued
  <2> QED
    BY <2>2, <2>3 DEF WaitedLonger, Elapsed
<1>10. CASE SkipCommand
  BY <1>1, <1>10 DEF SkipCommand
<1>11. CASE FinishCommand
  BY <1>1, <1>11 DEF FinishCommand
<1>12. CASE EndUpdate
  BY <1>1, <1>12 DEF EndUpdate
<1>13. CASE Shutdown
  BY <1>1, <1>13 DEF Shutdown
<1>14. CASE AcceptLook
  BY <1>1, <1>14 DEF AcceptLook, queue
<1>15. CASE AcceptTake
  BY <1>1, <1>15 DEF AcceptTake, queue
<1>16. CASE UNCHANGED vars
  BY <1>1, <1>16 DEF vars, queue
<1> QED
  BY <1>2, <1>3, <1>4, <1>5, <1>6, <1>7, <1>8, <1>9, <1>10, <1>11, <1>12, <1>13, <1>14,
     <1>15, <1>16, BeginUpdateWaited, DestroyRoomWaited DEF Next

\* No command is overtaken but by one with a shorter delay.
LEMMA OrderStep ==
    TypeOK /\ WaitedLonger /\ [Next]_vars =>
       \A e \in current' \ current : \A f \in Waiting : f.n < e.n => f.delay > e.delay
<1> SUFFICES ASSUME TypeOK, WaitedLonger, [Next]_vars,
                    NEW e \in current' \ current, NEW f \in Waiting, f.n < e.n
             PROVE  f.delay > e.delay
  OBVIOUS
<1>1. CASE StartCommand
  <2>1. current' = {NextEntry(execute)} /\ execute # {}
    BY <1>1 DEF StartCommand
  <2>2. e \in execute /\ \A g \in execute : e.n <= g.n
    BY <2>1, NextEntryWaits
  <2>3. e.n \in Nat /\ f.n \in Nat
    BY <2>2, EntryNumbers DEF Held, Queued, Waiting
  <2>4. f \notin execute
    BY <2>2, <2>3
  <2>5. f \in input \cup process
    BY <2>4 DEF Waiting, Queued
  <2> QED
    BY <2>2, <2>5 DEF WaitedLonger
<1>2. CASE current' \subseteq current
  BY <1>2
<1>3. ASSUME ~StartCommand
      PROVE  current' \subseteq current
  BY <1>3 DEF Next, vars, queue, RobotAsk, EnterRoom, LeaveRoom, CreateRoom, DestroyRoom,
     PushCommand, FinishNested, BeginUpdate, SkipCommand, FinishCommand, EndUpdate,
     Shutdown, AcceptLook, AcceptTake, AcceptPush
<1> QED
  BY <1>1, <1>2, <1>3

----------------------------------------------------------------------------
(* The pool of commands *)

HeldApart == \A e, f \in Held : e.cmd = f.cmd => e = f
PoolApart ==
    /\ (HeldCmds \cup NestedCmds) \cap (FreeCmds \cup TakenCmds) = {}
    /\ HeldCmds \cap NestedCmds = {}
    /\ TakenCmds \cap FreeCmds = {}

LEMMA HeldOnceSplit ==
    /\ CommandHeldOnce <=> HeldApart /\ IsInjective(nested) /\ PoolApart
    /\ CommandHeldOnce' <=> HeldApart' /\ IsInjective(nested)' /\ PoolApart'
BY DEF CommandHeldOnce, HeldApart, PoolApart, Held, HeldCmds, NestedCmds, FreeCmds, TakenCmds

\* All these are commands, with numbers.
LEMMA CommandsTyped ==
    ASSUME TypeOK
    PROVE  /\ HeldCmds \subseteq Command /\ NestedCmds \subseteq Command
           /\ TakenCmds \subseteq Command /\ FreeCmds \subseteq Command
           /\ \A c \in Command : c.num \in Nat /\ c.type \in Types
           /\ created \in Nat
<1>1. HeldCmds \subseteq Command
  BY DEF HeldCmds, Held, Queued, TypeOK, DelayCommand
<1>2. NestedCmds \subseteq Command
  <2>1. nested \in [1 .. Len(nested) -> Command] /\ DOMAIN nested = 1 .. Len(nested)
    BY LenProperties DEF TypeOK
  <2> QED
    BY <2>1 DEF NestedCmds, ToSet
<1>3. TakenCmds \subseteq Command /\ FreeCmds \subseteq Command
  BY DEF TypeOK, TakenCmds, FreeCmds, Types
<1>4. \A c \in Command : c.num \in Nat /\ c.type \in Types
  BY DEF Command
<1> QED
  BY <1>1, <1>2, <1>3, <1>4 DEF TypeOK

\* newCmd gives a command that nobody has.
LEMMA NewCmdApart ==
    ASSUME TypeOK, NumsKnown, CommandHeldOnce, NewCmd(Confirm), NEW c \in Candidates(Confirm),
           accept' = accept, accept.pc # "looking"
    PROVE  /\ c \notin HeldCmds \cup NestedCmds \cup TakenCmds \cup FreeCmds'
           /\ c.num < created' /\ created <= created'
           /\ FreeCmds' \subseteq FreeCmds
           /\ \A t \in Types : \A f \in unused'[t] : f.type = t
<1> USE DEF Types
<1>1. /\ c \in Command
      /\ created' \in Nat /\ created <= created'
      /\ unused'[Confirm] = {}
      /\ unused'[Accepted] = unused[Accepted]
      /\ \/ c \in unused[Confirm]
         \/ c = [type |-> Confirm, num |-> created] /\ created' = created + 1
  BY NewCmdGives DEF Accepted, Confirm
<1>2. FreeCmds' = unused[Accepted]
  BY <1>1 DEF FreeCmds
<1>3. \A f \in unused[Accepted] : f.type = Accepted
  BY DEF NumsKnown
<1>4. \A t \in Types : \A f \in unused'[t] : f.type = t
  BY <1>1 DEF NumsKnown
<1>5. CASE c \in unused[Confirm]
  <2>1. c.type = Confirm /\ c \in FreeCmds /\ c.num < created
    BY <1>5 DEF NumsKnown, FreeCmds
  <2>2. c \notin HeldCmds \cup NestedCmds \cup TakenCmds
    BY <2>1, HeldOnceSplit DEF PoolApart
  <2>3. c \notin FreeCmds'
    BY <1>2, <1>3, <2>1 DEF Accepted, Confirm
  <2>4. c.num < created'
    BY <1>1, <2>1, CommandsTyped
  <2> QED
    BY <1>1, <1>2, <1>4, <2>2, <2>3, <2>4 DEF FreeCmds
<1>6. CASE c = [type |-> Confirm, num |-> created] /\ created' = created + 1
  <2>1. c.num = created /\ c.num < created'
    BY <1>6, CommandsTyped
  <2>2. \A f \in HeldCmds \cup NestedCmds \cup TakenCmds \cup FreeCmds : f.num # created
    BY CommandsTyped DEF NumsKnown
  <2>3. FreeCmds' \subseteq FreeCmds
    BY <1>2 DEF FreeCmds
  <2> QED
    BY <1>1, <1>4, <2>1, <2>2, <2>3
<1> QED
  BY <1>1, <1>5, <1>6

\* Entries are taken out of the lists, and their commands destroyed or lost.
LEMMA CommandsReleased ==
    ASSUME TypeOK, NumsKnown, CommandHeldOnce, NEW cs, cs \subseteq HeldCmds,
           HeldCmds' \subseteq HeldCmds \ cs, HeldApart',
           UNCHANGED <<nested, accept, created>>,
           unused' = unused \/ DestroyCmds(cs)
    PROVE  NumsKnown' /\ CommandHeldOnce'
<1> USE DEF Types
<1>1. cs \subseteq Command
  BY CommandsTyped
<1>2. \A t \in Types : \/ unused'[t] = unused[t]
                       \/ unused'[t] = unused[t] \cup {c \in cs : c.type = t}
  BY <1>1, DestroyCmdsGives
<1>3. FreeCmds \subseteq FreeCmds \cup cs /\ FreeCmds' \subseteq FreeCmds \cup cs
  BY <1>2 DEF FreeCmds
<1>4. NestedCmds' = NestedCmds /\ TakenCmds' = TakenCmds
  BY DEF NestedCmds, TakenCmds
<1>5. PoolApart'
  BY <1>3, <1>4, HeldOnceSplit DEF PoolApart
<1>6. NumsKnown'
  <2>1. \A c \in HeldCmds' \cup NestedCmds' \cup TakenCmds' \cup FreeCmds' : c.num < created'
    BY <1>3, <1>4 DEF NumsKnown
  <2>2. \A t \in Types : \A c \in unused'[t] : c.type = t
    BY <1>2 DEF NumsKnown
  <2>3. accept'.pc = "looking" => accept'.cmd \subseteq unused'[Accepted]
    BY <1>2 DEF NumsKnown
  <2> QED
    BY <2>1, <2>2, <2>3 DEF NumsKnown
<1>7. IsInjective(nested)'
  BY HeldOnceSplit
<1> QED
  BY <1>5, <1>6, <1>7, HeldOnceSplit

LEMMA RobotAskPool ==
    ASSUME TypeOK, NumsKnown, CommandHeldOnce,
           NEW b \in Robots, NEW q \in Questions, NEW d \in Delays, RobotAsk(b, q, d)
    PROVE  NumsKnown' /\ CommandHeldOnce'
<1>1. PICK c \in Candidates(Confirm) :
        input' = input \cup {[n |-> pushes, id |-> assigned, cmd |-> c,
                              recv |-> roomOf[b], left |-> d, delay |-> d]}
  BY DEF RobotAsk
<1> DEFINE e == [n |-> pushes, id |-> assigned, cmd |-> c,
                 recv |-> roomOf[b], left |-> d, delay |-> d]
<1>2. e.cmd = c
  OBVIOUS
<1>3. /\ accept.pc # "looking" /\ NewCmd(Confirm)
      /\ UNCHANGED <<process, execute, current, nested, accept>>
  BY DEF RobotAsk, NewCmdUnlocked
<1> HIDE DEF e
<1>4. Held' = Held \cup {e}
  BY <1>1, <1>3 DEF Held, Queued, e
<1>5. HeldCmds' = HeldCmds \cup {c} /\ NestedCmds' = NestedCmds /\ TakenCmds' = TakenCmds
  BY <1>2, <1>3, <1>4 DEF HeldCmds, NestedCmds, TakenCmds
<1>6. /\ c \notin HeldCmds \cup NestedCmds \cup TakenCmds \cup FreeCmds'
      /\ c.num < created' /\ created <= created'
      /\ FreeCmds' \subseteq FreeCmds
      /\ \A t \in Types : \A f \in unused'[t] : f.type = t
  BY <1>3, NewCmdApart
<1>7. HeldApart'
  BY <1>2, <1>4, <1>6, HeldOnceSplit DEF HeldApart, HeldCmds
<1>8. PoolApart'
  BY <1>5, <1>6, HeldOnceSplit DEF PoolApart
<1>9. NumsKnown'
  <2>1. \A f \in HeldCmds \cup NestedCmds \cup TakenCmds \cup FreeCmds : f.num < created'
    <3>1. created' \in Nat
      BY <1>3, NewCmdGives DEF Types
    <3> QED
      BY <1>6, <3>1, CommandsTyped DEF NumsKnown
  <2> QED
    BY <1>3, <1>5, <1>6, <2>1 DEF NumsKnown
<1>10. IsInjective(nested)'
  BY <1>3, HeldOnceSplit
<1> QED
  BY <1>7, <1>8, <1>9, <1>10, HeldOnceSplit

LEMMA PushCommandPool ==
    ASSUME TypeOK, NumsKnown, CommandHeldOnce, PushCommand
    PROVE  NumsKnown' /\ CommandHeldOnce'
<1>1. PICK c \in Candidates(Confirm) : nested' = Append(nested, c)
  BY DEF PushCommand
<1>2. /\ accept.pc # "looking" /\ NewCmd(Confirm)
      /\ UNCHANGED <<input, process, execute, current, accept>>
  BY DEF PushCommand, NewCmdUnlocked, queue
<1>3. c \in Command /\ nested \in Seq(Command) /\ created' \in Nat
  BY <1>2, NewCmdGives DEF TypeOK, Types
<1>4. /\ DOMAIN nested = 1 .. Len(nested) /\ Len(nested) \in Nat
      /\ DOMAIN nested' = 1 .. Len(nested) + 1
      /\ \A i \in 1 .. Len(nested) : nested'[i] = nested[i]
      /\ nested'[Len(nested) + 1] = c
  <2>1. /\ nested' \in Seq(Command) /\ Len(nested') = Len(nested) + 1
        /\ \A i \in 1 .. Len(nested) : nested'[i] = nested[i]
        /\ nested'[Len(nested) + 1] = c
    BY <1>1, <1>3, AppendProperties
  <2>2. DOMAIN nested = 1 .. Len(nested) /\ Len(nested) \in Nat
    BY <1>3, LenProperties
  <2>3. DOMAIN nested' = 1 .. Len(nested')
    BY <2>1, LenProperties
  <2>4. DOMAIN nested' = 1 .. Len(nested) + 1
    BY <2>1, <2>3
  <2> QED
    BY <2>1, <2>2, <2>4
<1>5. NestedCmds' = NestedCmds \cup {c}
  <2>1. ASSUME NEW x \in NestedCmds' PROVE x \in NestedCmds \cup {c}
    BY <1>4, <2>1 DEF NestedCmds, ToSet
  <2>2. ASSUME NEW x \in NestedCmds PROVE x \in NestedCmds'
    <3>1. PICK i \in 1 .. Len(nested) : x = nested[i]
      BY <1>4, <2>2 DEF NestedCmds, ToSet
    <3>2. i \in 1 .. Len(nested) + 1 /\ nested'[i] = x
      BY <1>4, <3>1
    <3> QED
      BY <1>4, <3>2 DEF NestedCmds, ToSet
  <2>3. c \in NestedCmds'
    <3>1. Len(nested) + 1 \in 1 .. Len(nested) + 1
      BY <1>4
    <3> QED
      BY <1>4, <3>1 DEF NestedCmds, ToSet
  <2> QED
    BY <2>1, <2>2, <2>3
<1>6. HeldCmds' = HeldCmds /\ TakenCmds' = TakenCmds /\ Held' = Held
  BY <1>2 DEF HeldCmds, Held, Queued, TakenCmds
<1>7. /\ c \notin HeldCmds \cup NestedCmds \cup TakenCmds \cup FreeCmds'
      /\ c.num < created' /\ created <= created'
      /\ FreeCmds' \subseteq FreeCmds
      /\ \A t \in Types : \A f \in unused'[t] : f.type = t
  BY <1>2, NewCmdApart
<1>8. IsInjective(nested')
  <2>1. IsInjective(nested)
    BY HeldOnceSplit
  <2>2. \A i \in 1 .. Len(nested) : nested[i] \in NestedCmds
    BY <1>4 DEF NestedCmds, ToSet
  <2> SUFFICES ASSUME NEW i \in 1 .. Len(nested) + 1, NEW j \in 1 .. Len(nested) + 1,
                      nested'[i] = nested'[j]
               PROVE  i = j
    BY <1>4 DEF IsInjective
  <2>3. CASE i \in 1 .. Len(nested) /\ j \in 1 .. Len(nested)
    BY <1>4, <2>1, <2>3 DEF IsInjective
  <2>4. CASE i = Len(nested) + 1 /\ j \in 1 .. Len(nested)
    BY <1>4, <1>7, <2>2, <2>4
  <2>5. CASE j = Len(nested) + 1 /\ i \in 1 .. Len(nested)
    BY <1>4, <1>7, <2>2, <2>5
  <2>6. CASE i = Len(nested) + 1 /\ j = Len(nested) + 1
    BY <2>6
  <2>7. \A k \in 1 .. Len(nested) + 1 : k \in 1 .. Len(nested) \/ k = Len(nested) + 1
    BY <1>4
  <2> QED
    BY <2>3, <2>4, <2>5, <2>6, <2>7
<1>9. PoolApart'
  BY <1>5, <1>6, <1>7, HeldOnceSplit DEF PoolApart
<1>10. NumsKnown'
  <2>1. \A f \in HeldCmds \cup NestedCmds \cup TakenCmds \cup FreeCmds : f.num < created'
    BY <1>3, <1>7, CommandsTyped DEF NumsKnown
  <2> QED
    BY <1>2, <1>5, <1>6, <1>7, <2>1 DEF NumsKnown
<1>11. HeldApart'
  BY <1>6, HeldOnceSplit DEF HeldApart
<1> QED
  BY <1>8, <1>9, <1>10, <1>11, HeldOnceSplit

LEMMA FinishNestedPool ==
    ASSUME TypeOK, NumsKnown, CommandHeldOnce, FinishNested
    PROVE  NumsKnown' /\ CommandHeldOnce'
<1> USE DEF Types
<1> DEFINE l == Last(nested)
<1>1. /\ nested # <<>> /\ nested' = Front(nested) /\ DestroyCmds({l})
      /\ UNCHANGED <<input, process, execute, current, accept, created>>
  BY DEF FinishNested, queue
<1>2. nested \in Seq(Command) /\ IsInjective(nested)
  BY HeldOnceSplit DEF TypeOK
<1>3. /\ l \in Command /\ nested' \in Seq(Command)
      /\ Len(nested') = Len(nested) - 1
      /\ \A i \in 1 .. Len(nested) - 1 : nested'[i] = nested[i]
  BY <1>1, <1>2, FrontOfNested
<1>4. /\ DOMAIN nested = 1 .. Len(nested) /\ Len(nested) \in Nat
      /\ DOMAIN nested' = 1 .. Len(nested) - 1
  BY <1>2, <1>3, LenProperties
<1>5. Len(nested) > 0
  BY <1>1, <1>2, <1>4, EmptySeq
<1>6. l = nested[Len(nested)]
  BY DEF Last
<1> HIDE DEF l
<1>7. NestedCmds' \subseteq NestedCmds \ {l}
  <2> SUFFICES ASSUME NEW i \in 1 .. Len(nested) - 1
               PROVE  nested'[i] \in NestedCmds /\ nested'[i] # l
    BY <1>4 DEF NestedCmds, ToSet
  <2>1. i \in 1 .. Len(nested) /\ Len(nested) \in 1 .. Len(nested) /\ i # Len(nested)
    <3> DEFINE n == Len(nested)
    <3>1. n \in Nat /\ n > 0 /\ i \in 1 .. n - 1
      BY <1>4, <1>5
    <3> HIDE DEF n
    <3>2. i \in 1 .. n /\ n \in 1 .. n /\ i # n
      BY <3>1
    <3> QED
      BY <3>2 DEF n
  <2>2. nested[i] \in NestedCmds
    BY <1>4, <2>1 DEF NestedCmds, ToSet
  <2> QED
    BY <1>2, <1>3, <1>4, <1>6, <2>1, <2>2 DEF IsInjective
<1>8. l \in NestedCmds
  <2>1. Len(nested) \in 1 .. Len(nested)
    BY <1>4, <1>5
  <2> QED
    BY <1>4, <1>6, <2>1 DEF NestedCmds, ToSet
<1>9. IsInjective(nested')
  <2> SUFFICES ASSUME NEW i \in 1 .. Len(nested) - 1, NEW j \in 1 .. Len(nested) - 1,
                      nested'[i] = nested'[j]
               PROVE  i = j
    BY <1>4 DEF IsInjective
  <2>1. i \in 1 .. Len(nested) /\ j \in 1 .. Len(nested)
    BY <1>4
  <2> QED
    BY <1>2, <1>3, <1>4, <2>1 DEF IsInjective
<1>10. \A t \in Types : unused'[t] = unused[t] \cup {c \in {l} : c.type = t}
  BY <1>1, <1>3, DestroyCmdsGives
<1>11. FreeCmds' \subseteq FreeCmds \cup {l}
  BY <1>10 DEF FreeCmds
<1>12. HeldCmds' = HeldCmds /\ TakenCmds' = TakenCmds /\ Held' = Held
  BY <1>1 DEF HeldCmds, Held, Queued, TakenCmds
<1>13. PoolApart'
  BY <1>7, <1>8, <1>11, <1>12, HeldOnceSplit DEF PoolApart
<1>14. NumsKnown'
  <2>1. \A c \in HeldCmds' \cup NestedCmds' \cup TakenCmds' \cup FreeCmds' : c.num < created'
    BY <1>1, <1>7, <1>8, <1>11, <1>12 DEF NumsKnown
  <2>2. \A t \in Types : \A c \in unused'[t] : c.type = t
    BY <1>10 DEF NumsKnown
  <2>3. accept'.pc = "looking" => accept'.cmd \subseteq unused'[Accepted]
    BY <1>1, <1>10 DEF NumsKnown
  <2> QED
    BY <2>1, <2>2, <2>3 DEF NumsKnown
<1>15. HeldApart'
  BY <1>12, HeldOnceSplit DEF HeldApart
<1> QED
  BY <1>9, <1>13, <1>14, <1>15, HeldOnceSplit

LEMMA LeaveRoomPool ==
    ASSUME TypeOK, QueueInv, NumsKnown, CommandHeldOnce, NEW b \in Robots, LeaveRoom(b)
    PROVE  NumsKnown' /\ CommandHeldOnce'
<1> DEFINE cs == {e.cmd : e \in FoundOf(b)}
<1>1. /\ input' \cup process' = (input \cup process) \ FoundOf(b)
      /\ unused' = unused \/ DestroyCmds(cs)
      /\ UNCHANGED <<execute, current, nested, created, accept>>
  BY LeaveRoomTakes
<1>2. FoundOf(b) \subseteq Held
  BY DEF FoundOf, Held, Queued
<1>3. Held' = Held \ FoundOf(b)
  <2>1. \A e \in FoundOf(b) : e \notin execute /\ e \notin current
    BY DEF FoundOf, QueueInv, IdsApart, Queued
  <2> QED
    BY <1>1, <2>1 DEF Held, Queued
<1>4. HeldApart /\ HeldApart'
  BY <1>3, HeldOnceSplit DEF HeldApart
<1>5. cs \subseteq HeldCmds /\ HeldCmds' \subseteq HeldCmds \ cs
  BY <1>2, <1>3, <1>4 DEF HeldApart, HeldCmds
<1> HIDE DEF cs
<1> QED
  BY <1>1, <1>4, <1>5, CommandsReleased

LEMMA DestroyRoomPool ==
    ASSUME TypeOK, QueueInv, NumsKnown, CommandHeldOnce, NEW r \in Rooms, DestroyRoom(r)
    PROVE  NumsKnown' /\ CommandHeldOnce'
<1> DEFINE mine == {e \in input \cup process : e.recv = r}
           cs == {e.cmd : e \in mine}
<1>1. /\ execute' = {Orphan(e, r) : e \in execute}
      /\ input' = {} /\ process' = (input \cup process) \ mine
      /\ DestroyCmds(cs)
      /\ UNCHANGED <<current, nested, created, accept>>
  BY DEF DestroyRoom, Orphaned, Orphan
<1>2. \A e \in execute : Orphan(e, r).cmd = e.cmd
  BY OrphanEntry DEF TypeOK
<1>3. HeldApart
  BY HeldOnceSplit
<1>4. \A e \in mine : e \in Held /\ e \notin execute /\ e \notin current
  BY DEF QueueInv, IdsApart, Held, Queued
<1> HIDE DEF mine
<1>5. \A f \in Held' : \/ f \in Held \ (mine \cup execute)
                       \/ \E e \in execute : f = Orphan(e, r) /\ f.cmd = e.cmd
  <2>1. \A f \in current : f \notin execute
    BY DEF QueueInv, IdsApart, Queued
  <2>2. \A f \in input \cup process : f \notin execute
    BY DEF QueueInv, IdsApart
  <2> QED
    BY <1>1, <1>2, <1>4, <2>1, <2>2 DEF Held, Queued
<1>6. execute \subseteq Held
  BY DEF Held, Queued
<1>7. HeldApart'
  <2> SUFFICES ASSUME NEW f \in Held', NEW g \in Held', f.cmd = g.cmd PROVE f = g
    BY DEF HeldApart
  <2>1. CASE f \in Held \ (mine \cup execute) /\ g \in Held \ (mine \cup execute)
    BY <1>3, <2>1 DEF HeldApart
  <2>2. CASE \E e \in execute : f = Orphan(e, r) /\ f.cmd = e.cmd
    BY <1>3, <1>5, <1>6, <2>2 DEF HeldApart
  <2>3. CASE \E e \in execute : g = Orphan(e, r) /\ g.cmd = e.cmd
    BY <1>3, <1>5, <1>6, <2>3 DEF HeldApart
  <2> QED
    BY <1>5, <2>1, <2>2, <2>3
<1>8. cs \subseteq HeldCmds
  BY <1>4 DEF HeldCmds
<1>9. HeldCmds' \subseteq HeldCmds \ cs
  <2> SUFFICES ASSUME NEW f \in Held' PROVE f.cmd \in HeldCmds /\ f.cmd \notin cs
    BY DEF HeldCmds
  <2>1. PICK e \in Held : e \notin mine /\ f.cmd = e.cmd
    BY <1>4, <1>5, <1>6
  <2> QED
    BY <1>3, <1>4, <2>1 DEF HeldApart, HeldCmds
<1> HIDE DEF cs
<1> QED
  BY <1>1, <1>7, <1>8, <1>9, CommandsReleased

LEMMA FinishCommandPool ==
    ASSUME TypeOK, QueueInv, NumsKnown, CommandHeldOnce, FinishCommand
    PROVE  NumsKnown' /\ CommandHeldOnce'
<1> DEFINE cs == {e.cmd : e \in current}
<1>1. /\ current' = {} /\ DestroyCmds(cs)
      /\ UNCHANGED <<input, process, execute, nested, created, accept>>
  BY DEF FinishCommand
<1>2. Held' = Held \ current
  BY <1>1 DEF Held, Queued, QueueInv, IdsApart
<1>3. HeldApart /\ HeldApart'
  BY <1>2, HeldOnceSplit DEF HeldApart
<1>4. cs \subseteq HeldCmds /\ HeldCmds' \subseteq HeldCmds \ cs
  BY <1>2, <1>3 DEF HeldApart, HeldCmds, Held
<1> HIDE DEF cs
<1> QED
  BY <1>1, <1>3, <1>4, CommandsReleased

LEMMA AcceptTakePool ==
    ASSUME TypeOK, NumsKnown, CommandHeldOnce, AcceptTake
    PROVE  NumsKnown' /\ CommandHeldOnce'
<1> USE DEF Types
<1> DEFINE new == [type |-> Accepted, num |-> created]
<1>1. accept.pc = "looking" /\ TakenCmds = {}
  BY DEF AcceptTake, TakenCmds
<1>2. /\ accept'.pc = "holding"
      /\ accept'.cmd = IF accept.cmd # {} THEN accept.cmd ELSE {new}
      /\ created' = IF accept.cmd # {} THEN created ELSE created + 1
      /\ unused' = IF accept.cmd # {} THEN [unused EXCEPT ![Accepted] = {}] ELSE unused
      /\ UNCHANGED <<input, process, execute, current, nested>>
  BY DEF AcceptTake, RemoveUnuse, queue
<1>3. HeldCmds' = HeldCmds /\ NestedCmds' = NestedCmds /\ Held' = Held
  BY <1>2 DEF HeldCmds, Held, Queued, NestedCmds
<1>4. TakenCmds' = accept'.cmd
  BY <1>2 DEF TakenCmds
<1>5. HeldApart' /\ IsInjective(nested)'
  BY <1>2, <1>3, HeldOnceSplit DEF HeldApart
<1>6. CASE accept.cmd # {}
  <2>1. /\ unused' = [unused EXCEPT ![Accepted] = {}] /\ created' = created
        /\ TakenCmds' = accept.cmd /\ accept.cmd \subseteq unused[Accepted]
    BY <1>1, <1>2, <1>4, <1>6 DEF NumsKnown
  <2>2. unused'[Accepted] = {} /\ unused'[Confirm] = unused[Confirm]
    BY <2>1 DEF TypeOK, Accepted, Confirm
  <2>3. FreeCmds' = unused[Confirm] /\ FreeCmds' \subseteq FreeCmds /\ TakenCmds' \subseteq FreeCmds
    BY <2>1, <2>2 DEF FreeCmds
  <2>4. TakenCmds' \cap FreeCmds' = {}
    <3>1. \A c \in unused[Confirm] : c.type = Confirm
      BY DEF NumsKnown
    <3>2. \A c \in unused[Accepted] : c.type = Accepted
      BY DEF NumsKnown
    <3> QED
      BY <2>1, <2>3, <3>1, <3>2 DEF Accepted, Confirm
  <2>5. PoolApart'
    BY <1>3, <2>3, <2>4, HeldOnceSplit DEF PoolApart
  <2>6. NumsKnown'
    BY <1>2, <1>3, <2>1, <2>2, <2>3 DEF NumsKnown
  <2> QED
    BY <1>5, <2>5, <2>6, HeldOnceSplit
<1>7. CASE accept.cmd = {}
  <2>1. /\ unused' = unused /\ created' = created + 1 /\ TakenCmds' = {new}
    BY <1>2, <1>4, <1>7
  <2>2. FreeCmds' = FreeCmds
    BY <2>1 DEF FreeCmds
  <2>3. new.num = created /\ created \in Nat
    BY CommandsTyped
  <2> HIDE DEF new
  <2>4. \A c \in HeldCmds \cup NestedCmds \cup FreeCmds :
           c.num < created' /\ c # new
    BY <2>1, <2>3, CommandsTyped DEF NumsKnown
  <2>5. PoolApart'
    BY <1>3, <2>1, <2>2, <2>4, HeldOnceSplit DEF PoolApart
  <2>6. NumsKnown'
    BY <1>2, <1>3, <2>1, <2>2, <2>3, <2>4 DEF NumsKnown
  <2> QED
    BY <1>5, <2>5, <2>6, HeldOnceSplit
<1> QED
  BY <1>6, <1>7

LEMMA AcceptPushPool ==
    ASSUME TypeOK, NumsKnown, CommandHeldOnce, AcceptPush
    PROVE  NumsKnown' /\ CommandHeldOnce'
<1>1. PICK c \in accept.cmd, d \in Delays :
        input' = input \cup {[n |-> pushes, id |-> accept.id, cmd |-> c,
                              recv |-> NetServer, left |-> d, delay |-> d]}
  BY DEF AcceptPush
<1> DEFINE e == [n |-> pushes, id |-> accept.id, cmd |-> c,
                 recv |-> NetServer, left |-> d, delay |-> d]
<1>2. e.cmd = c
  OBVIOUS
<1>3. /\ accept.pc = "holding" /\ accept'.pc = "accepting"
      /\ UNCHANGED <<process, execute, current, nested, unused, created>>
  BY DEF AcceptPush, commandPool
<1> HIDE DEF e
<1>4. Held' = Held \cup {e}
  BY <1>1, <1>3 DEF Held, Queued, e
<1>5. /\ HeldCmds' = HeldCmds \cup {c} /\ NestedCmds' = NestedCmds
      /\ TakenCmds' = {} /\ FreeCmds' = FreeCmds /\ c \in TakenCmds
  BY <1>2, <1>3, <1>4 DEF HeldCmds, NestedCmds, TakenCmds, FreeCmds
<1>6. HeldApart'
  BY <1>2, <1>4, <1>5, HeldOnceSplit DEF HeldApart, HeldCmds, PoolApart
<1>7. PoolApart'
  BY <1>5, HeldOnceSplit DEF PoolApart
<1>8. NumsKnown'
  BY <1>3, <1>5 DEF NumsKnown
<1>9. IsInjective(nested)'
  BY <1>3, HeldOnceSplit
<1> QED
  BY <1>6, <1>7, <1>8, <1>9, HeldOnceSplit

LEMMA BeginUpdatePool ==
    ASSUME TypeOK, QueueInv, NumsKnown, CommandHeldOnce, NEW t \in Frames, BeginUpdate(t)
    PROVE  NumsKnown' /\ CommandHeldOnce'
<1> DEFINE all == input \cup process
<1>1. /\ execute = {} /\ current = {} /\ current' = {} /\ input' = {}
      /\ UNCHANGED <<nested, accept, created, unused>>
  BY BeginUpdateAges
<1>2. Held = all
  BY <1>1 DEF Held, Queued
<1>3. HeldApart
  BY HeldOnceSplit
<1>4. HeldApart' /\ HeldCmds' = HeldCmds
  <2>1. CASE process' = all /\ execute' = {}
    <3>1. Held' = Held
      BY <1>1, <1>2, <2>1 DEF Held, Queued
    <3> QED
      BY <1>3, <3>1 DEF HeldApart, HeldCmds
  <2>2. CASE Queued' = {Aged(e, t) : e \in all}
    <3>1. \A e \in all : Aged(e, t).cmd = e.cmd
      BY AgedEntry DEF TypeOK
    <3> HIDE DEF all
    <3>2. Held' = {Aged(e, t) : e \in all}
      BY <1>1, <2>2 DEF Held
    <3> QED
      BY <1>2, <1>3, <3>1, <3>2 DEF HeldApart, HeldCmds
  <2> QED
    BY <2>1, <2>2, BeginUpdateAges
<1>5. NestedCmds' = NestedCmds /\ TakenCmds' = TakenCmds /\ FreeCmds' = FreeCmds
  BY <1>1 DEF NestedCmds, TakenCmds, FreeCmds
<1>6. PoolApart' /\ IsInjective(nested)'
  BY <1>1, <1>4, <1>5, HeldOnceSplit DEF PoolApart
<1>7. NumsKnown'
  BY <1>1, <1>4, <1>5 DEF NumsKnown
<1> QED
  BY <1>4, <1>6, <1>7, HeldOnceSplit

\* Every step leaves a command in one place.
LEMMA PoolStep ==
    TypeOK /\ QueueInv /\ NumsKnown /\ CommandHeldOnce /\ [Next]_vars
      => NumsKnown' /\ CommandHeldOnce'
<1> SUFFICES ASSUME TypeOK, QueueInv, NumsKnown, CommandHeldOnce, [Next]_vars
             PROVE  NumsKnown' /\ CommandHeldOnce'
  OBVIOUS
<1>1. ASSUME Held' \subseteq Held, UNCHANGED <<nested, unused, created, accept>>
      PROVE  NumsKnown' /\ CommandHeldOnce'
  <2>1. HeldApart' /\ HeldCmds' \subseteq HeldCmds
    BY <1>1, HeldOnceSplit DEF HeldApart, HeldCmds
  <2>2. NestedCmds' = NestedCmds /\ TakenCmds' = TakenCmds /\ FreeCmds' = FreeCmds
    BY <1>1 DEF NestedCmds, TakenCmds, FreeCmds
  <2>3. PoolApart' /\ IsInjective(nested)'
    BY <1>1, <2>1, <2>2, HeldOnceSplit DEF PoolApart
  <2>4. NumsKnown'
    BY <1>1, <2>1, <2>2 DEF NumsKnown
  <2> QED
    BY <2>1, <2>3, <2>4, HeldOnceSplit
<1>2. ASSUME NEW b \in Robots, NEW r \in Rooms, EnterRoom(b, r)
      PROVE  NumsKnown' /\ CommandHeldOnce'
  BY <1>1, <1>2 DEF EnterRoom, queue, commandPool, Held, Queued
<1>3. ASSUME NEW r \in Rooms, CreateRoom(r)
      PROVE  NumsKnown' /\ CommandHeldOnce'
  BY <1>1, <1>3 DEF CreateRoom, queue, commandPool, Held, Queued
<1>4. CASE StartCommand
  <2>1. Held' \subseteq Held
    BY <1>4, NextEntryWaits DEF StartCommand, Held, Queued
  <2> QED
    BY <1>1, <1>4, <2>1 DEF StartCommand, commandPool
<1>5. CASE SkipCommand
  BY <1>1, <1>5 DEF SkipCommand, commandPool, Held, Queued
<1>6. CASE EndUpdate
  BY <1>1, <1>6 DEF EndUpdate, commandPool, Held, Queued
<1>7. CASE Shutdown
  <2>1. /\ Held' \subseteq Held /\ \A t \in Types : unused'[t] = {}
        /\ accept.pc = "accepting"
        /\ UNCHANGED <<nested, created, accept>>
    BY <1>7 DEF Shutdown, Held, Queued
  <2>2. HeldApart' /\ HeldCmds' \subseteq HeldCmds
    BY <2>1, HeldOnceSplit DEF HeldApart, HeldCmds
  <2>3. NestedCmds' = NestedCmds /\ TakenCmds' = {} /\ FreeCmds' = {}
    BY <2>1 DEF NestedCmds, TakenCmds, FreeCmds, Types
  <2>4. PoolApart' /\ IsInjective(nested)'
    BY <2>1, <2>2, <2>3, HeldOnceSplit DEF PoolApart
  <2>5. NumsKnown'
    BY <2>1, <2>2, <2>3 DEF NumsKnown
  <2> QED
    BY <2>2, <2>4, <2>5, HeldOnceSplit
<1>8. CASE AcceptLook
  <2>1. /\ Held' = Held /\ UNCHANGED <<nested, unused, created>>
        /\ accept.pc = "accepting" /\ accept'.pc = "looking"
        /\ accept'.cmd \subseteq unused[Accepted]
    BY <1>8 DEF AcceptLook, queue, commandPool, Held, Queued
  <2>2. HeldApart' /\ HeldCmds' = HeldCmds
    BY <2>1, HeldOnceSplit DEF HeldApart, HeldCmds
  <2>3. /\ NestedCmds' = NestedCmds /\ FreeCmds' = FreeCmds
        /\ TakenCmds' = {} /\ TakenCmds = {}
    BY <2>1 DEF NestedCmds, TakenCmds, FreeCmds
  <2>4. PoolApart' /\ IsInjective(nested)'
    BY <2>1, <2>2, <2>3, HeldOnceSplit DEF PoolApart
  <2>5. NumsKnown'
    BY <2>1, <2>2, <2>3 DEF NumsKnown
  <2> QED
    BY <2>2, <2>4, <2>5, HeldOnceSplit
<1>9. CASE UNCHANGED vars
  BY <1>1, <1>9 DEF vars, queue, commandPool, Held, Queued
<1> QED
  BY <1>2, <1>3, <1>4, <1>5, <1>6, <1>7, <1>8, <1>9, RobotAskPool, LeaveRoomPool,
     DestroyRoomPool, PushCommandPool, FinishNestedPool, BeginUpdatePool,
     FinishCommandPool, AcceptTakePool, AcceptPushPool DEF Next

----------------------------------------------------------------------------
(* The invariants *)

LEMMA InitInv == Init => Inv
<1> SUFFICES ASSUME Init PROVE Inv
  OBVIOUS
<1>1. TypeOK
  <2>1. unused \in [Types -> SUBSET Command]
    BY DEF Init
  <2>2. roomOf \in [Robots -> Rooms \cup {Null}]
    BY DEF Init
  <2>3. cmdID \in [Robots -> [Questions -> Ids \cup {NoId}]]
    BY DEF Init
  <2>4. assigned \in 0 .. MaxAssign
    BY CommandConstants DEF Init
  <2>5. nested \in Seq(Command)
    BY DEF Init
  <2>6. accept \in [pc: {"accepting", "looking", "holding"}, cmd: SUBSET Command,
                    id: Ids \cup {NoId}]
    BY DEF Init
  <2> QED
    BY <2>1, <2>2, <2>3, <2>4, <2>5, <2>6 DEF Init, TypeOK
<1>2. Held = {} /\ Queued = {} /\ execute = {} /\ current = {} /\ input \cup process = {}
  BY DEF Init, Held, Queued
<1>3. QueueInv
  BY <1>2 DEF Init, QueueInv, IdsApart, IdleBetween, ReceiversLive, HoldingApart
<1>4. \A b \in Robots, q \in Questions : cmdID[b][q] = NoId
  BY DEF Init
<1>5. AnswersApart /\ RobotCanAnswer
  BY <1>4 DEF Init, AnswersApart, RobotCanAnswer, NoId
<1>6. WaitedLonger
  BY <1>2 DEF WaitedLonger
<1>7. HeldCmds = {} /\ TakenCmds = {} /\ FreeCmds = {} /\ NestedCmds = {}
  BY <1>2 DEF Init, HeldCmds, TakenCmds, FreeCmds, NestedCmds, ToSet, Types
<1>8. NumsKnown
  BY <1>7 DEF Init, NumsKnown
<1>9. HeldApart /\ PoolApart /\ IsInjective(nested)
  BY <1>2, <1>7 DEF Init, HeldApart, PoolApart, IsInjective
<1> QED
  BY <1>1, <1>3, <1>5, <1>6, <1>8, <1>9, HeldOnceSplit DEF Inv

LEMMA InvStep == Inv /\ [Next]_vars => Inv'
<1> SUFFICES ASSUME Inv, [Next]_vars PROVE Inv'
  OBVIOUS
<1>1. TypeOK'
  BY TypeStep DEF Inv, QueueInv
<1>2. QueueInv'
  BY QueueStep DEF Inv
<1>3. AnswersApart' /\ RobotCanAnswer'
  BY AnswersStep DEF Inv
<1>4. WaitedLonger'
  BY WaitedStep DEF Inv
<1>5. NumsKnown' /\ CommandHeldOnce'
  BY PoolStep DEF Inv
<1> QED
  BY <1>1, <1>2, <1>3, <1>4, <1>5 DEF Inv

LEMMA InvHolds == Spec => []Inv
BY InitInv, InvStep, PTL DEF Spec

\* The variables keep their types (the members of CommandSystem and CommandPool).
THEOREM CommandTypes == Spec => []TypeOK
<1>1. Inv => TypeOK
  BY DEF Inv
<1> QED
  BY <1>1, InvHolds, PTL

\* The pool never hands out a command that is waiting, is being executed or is in
\* the hand of the other thread (CommandPool::newCmd, destroyCmd).
THEOREM PoolNeverShares == Spec => []CommandHeldOnce
<1>1. Inv => CommandHeldOnce
  BY DEF Inv
<1> QED
  BY <1>1, InvHolds, PTL

\* A robot that remembers a command, and so answers no other question of the kind,
\* has that command waiting for its room (CharacterMahjongRobot::onCmdStart, clearCmd).
THEOREM RobotsAnswer == Spec => []RobotCanAnswer
<1>1. Inv => RobotCanAnswer
  BY DEF Inv
<1> QED
  BY <1>1, InvHolds, PTL

\* Commands are executed in the order they were pushed, but for those with a longer
\* delay (CommandSystem::update walking its lists).
THEOREM ExecutedInOrder == Spec => RunInOrder
<1>1. Inv /\ [Next]_vars =>
         [\A e \in current' \ current : \A f \in Waiting : f.n < e.n => f.delay > e.delay]_vars
  BY OrderStep DEF Inv
<1> QED
  BY <1>1, InvHolds, PTL DEF Spec, RunInOrder

----------------------------------------------------------------------------
(* The refinement: the queue is used as DelayedCalls says *)

\* A call of DelayedCalls.
CallOf(e) == [call |-> e.id, recv |-> e.recv]

LEMMA WaitingFacts ==
    ASSUME Inv
    PROVE  /\ \A e \in Waiting : /\ e \in Held /\ e.id \in Ids /\ e.id < assigned
                                 /\ e.id # accept.id /\ e.recv \in Alive
           /\ \A e, f \in Waiting : e.id = f.id => e = f
           /\ assigned \in Nat
<1>1. \A e \in Waiting : e \in Held /\ e.recv # Null
  BY DEF Waiting, Held
<1>2. \A e \in Waiting : e.id \in Ids /\ e.id < assigned
  BY <1>1 DEF Inv, TypeOK, DelayCommand, QueueInv, IdsApart, Held, Queued, Waiting
<1>3. \A i \in Ids : i # NoId
  BY DEF Ids, NoId
<1>4. \A e \in Waiting : e.id # accept.id
  BY <1>1, <1>2, <1>3 DEF Inv, QueueInv, HoldingApart
<1>5. \A e \in Waiting : e.recv \in Alive
  BY <1>1 DEF Waiting, Queued, Inv, QueueInv, ReceiversLive
<1>6. \A e, f \in Waiting : e.id = f.id => e = f
  BY <1>1 DEF Inv, QueueInv, IdsApart
<1>7. assigned \in Nat
  BY CommandConstants DEF Inv, TypeOK
<1> QED
  BY <1>1, <1>2, <1>4, <1>5, <1>6, <1>7

\* Some of the entries stop waiting, the others wait on with their receivers.
LEMMA EntriesSettle ==
    ASSUME Inv, NEW W, W \subseteq Waiting,
           \A f \in Waiting' : \E e \in Waiting \ W : f.id = e.id /\ f.recv = e.recv,
           \A e \in Waiting \ W : \E f \in Waiting' : f.id = e.id /\ f.recv = e.recv,
           assigned' = assigned, accept'.id = accept.id
    PROVE  /\ {CallOf(e) : e \in W} \subseteq CallsWaiting
           /\ CallsWaiting' = CallsWaiting \ {CallOf(e) : e \in W}
           /\ CallsOver' = CallsOver \cup {e.id : e \in W}
<1>1. CallsWaiting = {CallOf(e) : e \in Waiting} /\ CallsWaiting' = {CallOf(e) : e \in Waiting'}
  BY DEF CallsWaiting, CallOf
<1>2. \A e, f : CallOf(e) = CallOf(f) <=> e.id = f.id /\ e.recv = f.recv
  BY DEF CallOf
<1>3. CallsWaiting' = {CallOf(e) : e \in Waiting \ W}
  BY <1>1, <1>2
<1>4. \A e, f \in Waiting : CallOf(e) = CallOf(f) => e = f
  BY <1>2, WaitingFacts
<1>5. CallsWaiting' = CallsWaiting \ {CallOf(e) : e \in W}
  BY <1>1, <1>3, <1>4
<1>6. CallsOver' = CallsOver \cup {e.id : e \in W}
  <2>1. ASSUME NEW i \in CallsOver' PROVE i \in CallsOver \cup {e.id : e \in W}
    <3>1. i \in Ids /\ i < assigned /\ i # accept.id /\ \A f \in Waiting' : f.id # i
      BY <2>1 DEF CallsOver
    <3>2. \A e \in Waiting \ W : e.id # i
      BY <3>1
    <3> QED
      BY <3>1, <3>2 DEF CallsOver
  <2>2. ASSUME NEW i \in CallsOver PROVE i \in CallsOver'
    <3>1. i \in Ids /\ i < assigned /\ i # accept.id /\ \A e \in Waiting : e.id # i
      BY <2>2 DEF CallsOver
    <3>2. \A f \in Waiting' : f.id # i
      BY <3>1
    <3> QED
      BY <3>1, <3>2 DEF CallsOver
  <2>3. ASSUME NEW w \in W PROVE w.id \in CallsOver'
    <3>1. w.id \in Ids /\ w.id < assigned /\ w.id # accept.id
      BY WaitingFacts
    <3>2. \A e \in Waiting \ W : e.id # w.id
      BY WaitingFacts
    <3>3. \A f \in Waiting' : f.id # w.id
      BY <3>2
    <3> QED
      BY <3>1, <3>3 DEF CallsOver
  <2> QED
    BY <2>1, <2>2, <2>3
<1> QED
  BY <1>1, <1>5, <1>6

\* In the terms of DelayedCalls.
LEMMA SettleCalls ==
    ASSUME Inv, NEW W, W \subseteq Waiting,
           \A f \in Waiting' : \E e \in Waiting \ W : f.id = e.id /\ f.recv = e.recv,
           \A e \in Waiting \ W : \E f \in Waiting' : f.id = e.id /\ f.recv = e.recv,
           assigned' = assigned, accept'.id = accept.id
    PROVE  Calls!Settle({CallOf(e) : e \in W})
<1>1. /\ {CallOf(e) : e \in W} \subseteq CallsWaiting
      /\ CallsWaiting' = CallsWaiting \ {CallOf(e) : e \in W}
      /\ CallsOver' = CallsOver \cup {e.id : e \in W}
  BY EntriesSettle
<1>2. {e.id : e \in W} = Calls!CallsOf({CallOf(e) : e \in W})
  <2>1. \A e \in W : CallOf(e).call = e.id
    BY DEF CallOf
  <2>2. Calls!CallsOf({CallOf(e) : e \in W}) = {p.call : p \in {CallOf(e) : e \in W}}
    BY DEF Calls!CallsOf
  <2> QED
    BY <2>1, <2>2
<1> QED
  BY <1>1, <1>2 DEF Calls!Settle

\* The same entries wait after a step: DelayedCalls takes none.
LEMMA CallsStutter ==
    ASSUME Inv,
           \A f \in Waiting' : \E e \in Waiting : f.id = e.id /\ f.recv = e.recv,
           \A e \in Waiting : \E f \in Waiting' : f.id = e.id /\ f.recv = e.recv,
           assigned' = assigned, accept'.id = accept.id, Alive' = Alive
    PROVE  UNCHANGED <<CallsWaiting, CallsOver, Alive>>
<1>1. /\ CallsWaiting' = CallsWaiting \ {CallOf(e) : e \in {}}
      /\ CallsOver' = CallsOver \cup {e.id : e \in {}}
  BY EntriesSettle
<1> QED
  BY <1>1

\* An entry with a new id is added.
LEMMA PushCalls ==
    ASSUME Inv, NEW e, e.id \in Ids, e.recv \in Alive, e.recv # Null,
           \A f \in Held : f.id # e.id,
           Waiting' = Waiting \cup {e}, Alive' = Alive,
           \/ e.id = assigned /\ assigned' = assigned + 1 /\ accept'.id = accept.id
           \/ e.id = accept.id /\ assigned' = assigned /\ accept'.id = NoId
    PROVE  Calls!Push(e.id, e.recv)
<1>1. CallsWaiting' = CallsWaiting \cup {[call |-> e.id, recv |-> e.recv]}
  BY DEF CallsWaiting
<1>2. e.id \notin CallsOver
  BY WaitingFacts DEF CallsOver
<1>3. e.id \notin Calls!CallsOf(CallsWaiting)
  <2>1. \A p \in CallsWaiting : p.call # e.id
    BY WaitingFacts DEF CallsWaiting
  <2> QED
    BY <2>1 DEF Calls!CallsOf
<1>4. CallsOver' = CallsOver
  <2>1. \A i \in Ids : i \in Int /\ i # NoId
    BY CommandConstants DEF Ids, NoId
  <2>2. \A i \in Ids : /\ i < assigned' /\ i # accept'.id /\ i # e.id
                       <=> /\ i < assigned /\ i # accept.id /\ i # e.id
    BY <2>1, WaitingFacts
  <2>3. \A i \in Ids : (i < assigned /\ i # accept.id /\ \A f \in Waiting : f.id # i) => i # e.id
    <3>1. \/ e.id = assigned
          \/ e.id = accept.id
      OBVIOUS
    <3> QED
      BY <2>1, <3>1, WaitingFacts
  <2>4. CallsOver' = {i \in Ids : /\ i < assigned' /\ i # accept'.id /\ i # e.id
                                  /\ \A f \in Waiting : f.id # i}
    BY DEF CallsOver
  <2>5. CallsOver = {i \in Ids : /\ i < assigned /\ i # accept.id /\ i # e.id
                                 /\ \A f \in Waiting : f.id # i}
    BY <2>3 DEF CallsOver
  <2> QED
    BY <2>2, <2>4, <2>5
<1> QED
  BY <1>1, <1>2, <1>3, <1>4 DEF Calls!Push

\* What has no effect on the queue has none on the calls.
LEMMA SameCalls ==
    ASSUME UNCHANGED <<input, process, execute, assigned, accept, rooms>>
    PROVE  UNCHANGED <<CallsWaiting, CallsOver, Alive>>
<1>1. Waiting' = Waiting
  BY DEF Waiting, Queued
<1> QED
  BY <1>1 DEF CallsWaiting, CallsOver, Alive

LEMMA RobotAskCalls ==
    ASSUME Inv, NEW b \in Robots, NEW q \in Questions, NEW d \in Delays, RobotAsk(b, q, d)
    PROVE  \E c \in Ids, r \in Receivers : Calls!Push(c, r)
<1>1. PICK c \in Candidates(Confirm) :
        input' = input \cup {[n |-> pushes, id |-> assigned, cmd |-> c,
                              recv |-> roomOf[b], left |-> d, delay |-> d]}
  BY DEF RobotAsk
<1> DEFINE e == [n |-> pushes, id |-> assigned, cmd |-> c,
                 recv |-> roomOf[b], left |-> d, delay |-> d]
<1>2. e.id = assigned /\ e.recv = roomOf[b]
  OBVIOUS
<1>3. /\ roomOf[b] \in rooms /\ assigned < MaxAssign /\ assigned' = assigned + 1
      /\ UNCHANGED <<process, execute, rooms, accept>>
  BY DEF RobotAsk
<1> HIDE DEF e
<1>4. input' = input \cup {e}
  BY <1>1 DEF e
<1>5. e.recv \in Alive /\ e.recv # Null /\ e.recv \in Receivers
  BY <1>2, <1>3, CommandConstants DEF Inv, TypeOK, Alive, Receivers
<1>6. Waiting' = Waiting \cup {e}
  BY <1>3, <1>4, <1>5 DEF Waiting, Queued
<1>7. e.id \in Ids
  <2>1. assigned \in Nat /\ MaxAssign \in Nat
    BY CommandConstants, WaitingFacts
  <2> QED
    BY <1>2, <1>3, <2>1 DEF Ids
<1>8. \A f \in Held : f.id # e.id
  <2>1. \A f \in Held : f.id < assigned
    BY DEF Inv, QueueInv, IdsApart
  <2> QED
    BY <1>2, <2>1, WaitingFacts
<1>9. Alive' = Alive
  BY <1>3 DEF Alive
<1>10. Calls!Push(e.id, e.recv)
  BY <1>2, <1>3, <1>5, <1>6, <1>7, <1>8, <1>9, PushCalls
<1> QED
  BY <1>5, <1>7, <1>10

LEMMA AcceptPushCalls ==
    ASSUME Inv, AcceptPush
    PROVE  \E c \in Ids, r \in Receivers : Calls!Push(c, r)
<1>1. PICK c \in accept.cmd, d \in Delays :
        input' = input \cup {[n |-> pushes, id |-> accept.id, cmd |-> c,
                              recv |-> NetServer, left |-> d, delay |-> d]}
  BY DEF AcceptPush
<1> DEFINE e == [n |-> pushes, id |-> accept.id, cmd |-> c,
                 recv |-> NetServer, left |-> d, delay |-> d]
<1>2. e.id = accept.id /\ e.recv = NetServer
  OBVIOUS
<1>3. /\ accept.pc = "holding" /\ accept'.id = NoId
      /\ UNCHANGED <<process, execute, rooms, assigned>>
  BY DEF AcceptPush, commandPool, world
<1> HIDE DEF e
<1>4. input' = input \cup {e}
  BY <1>1 DEF e
<1>5. e.recv \in Alive /\ e.recv # Null /\ e.recv \in Receivers
  BY <1>2, CommandConstants DEF Alive, Receivers
<1>6. Waiting' = Waiting \cup {e}
  BY <1>3, <1>4, <1>5 DEF Waiting, Queued
<1>7. e.id \in Ids /\ \A f \in Held : f.id # e.id
  BY <1>2, <1>3 DEF Inv, QueueInv, HoldingApart
<1>8. Alive' = Alive
  BY <1>3 DEF Alive
<1>9. Calls!Push(e.id, e.recv)
  BY <1>2, <1>3, <1>5, <1>6, <1>7, <1>8, PushCalls
<1> QED
  BY <1>5, <1>7, <1>9

LEMMA LeaveRoomCalls ==
    ASSUME Inv, NEW b \in Robots, LeaveRoom(b)
    PROVE  \E S \in SUBSET CallsWaiting : Calls!Cancel(S)
<1>1. /\ input' \cup process' = (input \cup process) \ FoundOf(b)
      /\ UNCHANGED <<execute, assigned, rooms, accept>>
  BY LeaveRoomTakes
<1>2. \A e \in FoundOf(b) : e \in input \cup process /\ e \notin execute
  BY DEF FoundOf, Inv, QueueInv, IdsApart
<1>3. \A e \in FoundOf(b) : e.recv # Null
  BY <1>2, CommandConstants DEF Inv, TypeOK, QueueInv, ReceiversLive, Alive
<1>4. FoundOf(b) \subseteq Waiting /\ Waiting' = Waiting \ FoundOf(b)
  BY <1>1, <1>2, <1>3 DEF Waiting, Queued
<1>5. Calls!Settle({CallOf(e) : e \in FoundOf(b)})
  BY <1>1, <1>4, SettleCalls
<1>6. Alive' = Alive
  BY <1>1 DEF Alive
<1> QED
  BY <1>5, <1>6 DEF Calls!Cancel, Calls!Settle

LEMMA ShutdownCalls ==
    ASSUME Inv, Shutdown
    PROVE  \E S \in SUBSET CallsWaiting : Calls!Cancel(S)
<1>1. /\ input' = {} /\ process' = {} /\ execute' = execute /\ execute = {}
      /\ UNCHANGED <<assigned, rooms, accept>>
  BY DEF Shutdown, world, Inv, QueueInv, IdleBetween
<1>2. Waiting' = {}
  BY <1>1 DEF Waiting, Queued
<1>3. Calls!Settle({CallOf(e) : e \in Waiting})
  BY <1>1, <1>2, SettleCalls
<1>4. Alive' = Alive
  BY <1>1 DEF Alive
<1> QED
  BY <1>3, <1>4 DEF Calls!Cancel, Calls!Settle

LEMMA StartCommandCalls ==
    ASSUME Inv, StartCommand
    PROVE  \E p \in CallsWaiting : Calls!Run(p)
<1> DEFINE e == NextEntry(execute)
<1>1. e \in execute
  BY NextEntryWaits DEF StartCommand, Inv
<1>2. /\ e.recv # Null /\ execute' = execute \ {e}
      /\ UNCHANGED <<input, process, assigned, rooms, accept>>
  BY DEF StartCommand, commandPool
<1> HIDE DEF e
<1>3. e \notin input \cup process
  BY <1>1 DEF Inv, QueueInv, IdsApart
<1>4. e \in Waiting /\ Waiting' = Waiting \ {e}
  BY <1>1, <1>2, <1>3 DEF Waiting, Queued
<1>5. Calls!Settle({CallOf(f) : f \in {e}})
  BY <1>2, <1>4, SettleCalls
<1>6. {CallOf(f) : f \in {e}} = {CallOf(e)} /\ CallOf(e).recv = e.recv
  BY DEF CallOf
<1>7. e.recv \in Alive /\ Alive' = Alive
  BY <1>2, <1>4, WaitingFacts DEF Alive
<1>8. CallOf(e) \in CallsWaiting
  BY <1>4 DEF CallsWaiting, CallOf
<1>9. Calls!Run(CallOf(e))
  BY <1>5, <1>6, <1>7 DEF Calls!Run
<1> QED
  BY <1>8, <1>9

LEMMA DestroyRoomCalls ==
    ASSUME Inv, NEW r \in Rooms, DestroyRoom(r)
    PROVE  Calls!Die(r)
<1> DEFINE W == {e \in Waiting : e.recv = r}
<1>1. /\ execute' = {Orphan(e, r) : e \in execute}
      /\ input' = {} /\ process' = {e \in input \cup process : e.recv # r}
      /\ r \in rooms /\ rooms' = rooms \ {r}
      /\ UNCHANGED <<assigned, accept>>
  BY DEF DestroyRoom, Orphaned, Orphan
<1>2. \A e \in execute : /\ e.recv # r => Orphan(e, r) = e
                         /\ e.recv = r => Orphan(e, r).recv = Null
  <2>1. \A e \in execute : e \in DelayCommand
    BY DEF Inv, TypeOK
  <2>2. \A e \in execute : e.recv = r => Orphan(e, r).recv = Null
    BY <2>1, OrphanEntry
  <2> QED
    BY <2>2 DEF Orphan
<1>3. Waiting' = Waiting \ W
  <2>1. ASSUME NEW f \in Waiting' PROVE f \in Waiting \ W
    <3>1. f.recv # Null /\ (f \in process' \/ f \in execute')
      BY <1>1, <2>1 DEF Waiting, Queued
    <3>2. CASE f \in process'
      BY <1>1, <3>1, <3>2 DEF Waiting, Queued
    <3>3. CASE f \in execute'
      <4>1. PICK e \in execute : f = Orphan(e, r)
        BY <1>1, <3>3
      <4>2. e.recv # r /\ f = e
        BY <1>2, <3>1, <4>1
      <4> QED
        BY <3>1, <4>2 DEF Waiting, Queued
    <3> QED
      BY <3>1, <3>2, <3>3
  <2>2. ASSUME NEW e \in Waiting, e.recv # r PROVE e \in Waiting'
    <3>1. e \in execute => e \in execute'
      BY <1>1, <1>2, <2>2
    <3> QED
      BY <1>1, <2>2, <3>1 DEF Waiting, Queued
  <2> QED
    BY <2>1, <2>2
<1>4. Calls!Settle({CallOf(e) : e \in W})
  BY <1>1, <1>3, SettleCalls
<1>5. {CallOf(e) : e \in W} = {p \in CallsWaiting : p.recv = r}
  <2>1. CallsWaiting = {CallOf(e) : e \in Waiting}
    BY DEF CallsWaiting, CallOf
  <2>2. \A e \in Waiting : CallOf(e).recv = e.recv
    BY DEF CallOf
  <2> QED
    BY <2>1, <2>2
<1>6. r \in Alive /\ Alive' = Alive \ {r}
  BY <1>1, CommandConstants DEF Alive
<1> QED
  BY <1>4, <1>5, <1>6 DEF Calls!Die

LEMMA CreateRoomCalls ==
    ASSUME Inv, NEW r \in Rooms, CreateRoom(r)
    PROVE  Calls!Appear(r)
<1>1. /\ r \notin rooms /\ rooms' = rooms \cup {r}
      /\ UNCHANGED <<input, process, execute, assigned, accept>>
  BY DEF CreateRoom, queue, commandPool
<1>2. Waiting' = Waiting
  BY <1>1 DEF Waiting, Queued
<1>3. UNCHANGED <<CallsWaiting, CallsOver>>
  BY <1>1, <1>2 DEF CallsWaiting, CallsOver
<1>4. r \in Receivers \ Alive /\ Alive' = Alive \cup {r}
  BY <1>1, CommandConstants DEF Alive, Receivers
<1> QED
  BY <1>3, <1>4 DEF Calls!Appear

LEMMA BeginUpdateCalls ==
    ASSUME Inv, NEW t \in Frames, BeginUpdate(t)
    PROVE  UNCHANGED <<CallsWaiting, CallsOver, Alive>>
<1> DEFINE all == input \cup process
<1>1. /\ execute = {} /\ input' = {}
      /\ \/ process' = all /\ execute' = {}
         \/ Queued' = {Aged(e, t) : e \in all}
      /\ UNCHANGED <<assigned, accept, rooms>>
  BY BeginUpdateAges DEF Inv
<1>2. Queued = all
  BY <1>1 DEF Queued
<1>3. CASE process' = all /\ execute' = {}
  <2>1. Waiting' = Waiting
    BY <1>1, <1>2, <1>3 DEF Waiting, Queued
  <2> QED
    BY <1>1, <2>1 DEF CallsWaiting, CallsOver, Alive
<1>4. CASE Queued' = {Aged(e, t) : e \in all}
  <2>1. \A e \in all : Aged(e, t).id = e.id /\ Aged(e, t).recv = e.recv
    BY AgedEntry DEF Inv, TypeOK
  <2> HIDE DEF all
  <2>2. \A f \in Waiting' : \E e \in Waiting : f.id = e.id /\ f.recv = e.recv
    <3> SUFFICES ASSUME NEW e \in all, Aged(e, t).recv # Null
                 PROVE  e \in Waiting
      BY <1>4, <2>1 DEF Waiting
    <3> QED
      BY <1>2, <2>1 DEF Waiting
  <2>3. \A e \in Waiting : \E f \in Waiting' : f.id = e.id /\ f.recv = e.recv
    <3> SUFFICES ASSUME NEW e \in all, e.recv # Null
                 PROVE  \E f \in Waiting' : f.id = e.id /\ f.recv = e.recv
      BY <1>2 DEF Waiting
    <3>1. Aged(e, t) \in Waiting'
      BY <1>4, <2>1 DEF Waiting
    <3> QED
      BY <2>1, <3>1
  <2>4. Alive' = Alive
    BY <1>1 DEF Alive
  <2> QED
    BY <1>1, <2>2, <2>3, <2>4, CallsStutter
<1> QED
  BY <1>1, <1>3, <1>4

LEMMA SkipCommandCalls ==
    ASSUME Inv, SkipCommand
    PROVE  UNCHANGED <<CallsWaiting, CallsOver, Alive>>
<1>1. /\ NextEntry(execute).recv = Null /\ execute' = execute \ {NextEntry(execute)}
      /\ UNCHANGED <<input, process, assigned, accept, rooms>>
  BY DEF SkipCommand, commandPool, world
<1>2. Waiting' = Waiting
  <2>1. \A e \in input \cup process : e.recv # Null
    BY CommandConstants DEF Inv, TypeOK, QueueInv, ReceiversLive, Alive
  <2> QED
    BY <1>1, <2>1 DEF Waiting, Queued
<1> QED
  BY <1>1, <1>2 DEF CallsWaiting, CallsOver, Alive

\* The accepting thread looks for a command and takes an id: no call is made yet.
LEMMA AcceptCalls ==
    ASSUME Inv, AcceptLook \/ AcceptTake
    PROVE  UNCHANGED <<CallsWaiting, CallsOver, Alive>>
<1>1. accept.id = NoId /\ UNCHANGED <<input, process, execute, rooms>>
  BY DEF AcceptLook, AcceptTake, queue, world, Inv, QueueInv, HoldingApart
<1>2. Waiting' = Waiting
  BY <1>1 DEF Waiting, Queued
<1>3. \A i \in Ids : i \in Int /\ i # NoId
  BY CommandConstants DEF Ids, NoId
<1>4. \/ assigned' = assigned /\ accept'.id = NoId
      \/ assigned' = assigned + 1 /\ accept'.id = assigned
  BY DEF AcceptLook, AcceptTake, commandPool
<1>5. \A i \in Ids : (i < assigned' /\ i # accept'.id) <=> (i < assigned /\ i # accept.id)
  BY <1>1, <1>3, <1>4, WaitingFacts
<1>6. CallsOver' = CallsOver
  BY <1>2, <1>5 DEF CallsOver
<1> QED
  BY <1>1, <1>2, <1>6 DEF CallsWaiting, Alive

\* Every step of the queue is a step of DelayedCalls, or none.
LEMMA CallsStep == Inv /\ [Next]_vars => [Calls!Next]_(Calls!vars)
<1> SUFFICES ASSUME Inv, [Next]_vars
             PROVE  Calls!Next \/ UNCHANGED <<CallsWaiting, CallsOver, Alive>>
  BY DEF Calls!vars
<1>1. ASSUME NEW b \in Robots, NEW r \in Rooms, EnterRoom(b, r)
      PROVE  UNCHANGED <<CallsWaiting, CallsOver, Alive>>
  BY <1>1, SameCalls DEF EnterRoom, queue, commandPool
<1>2. ASSUME PushCommand \/ FinishNested \/ FinishCommand \/ EndUpdate \/ UNCHANGED vars
      PROVE  UNCHANGED <<CallsWaiting, CallsOver, Alive>>
  BY <1>2, SameCalls DEF PushCommand, FinishNested, FinishCommand, EndUpdate, vars, queue,
     commandPool, world
<1>3. Rooms \subseteq Receivers
  BY DEF Receivers
<1>4. ASSUME NEW b \in Robots, NEW q \in Questions, NEW d \in Delays, RobotAsk(b, q, d)
      PROVE  Calls!Next
  BY <1>4, RobotAskCalls DEF Calls!Next
<1>5. CASE AcceptPush
  BY <1>5, AcceptPushCalls DEF Calls!Next
<1>6. ASSUME NEW b \in Robots, LeaveRoom(b)
      PROVE  Calls!Next
  BY <1>6, LeaveRoomCalls DEF Calls!Next
<1>7. CASE Shutdown
  BY <1>7, ShutdownCalls DEF Calls!Next
<1>8. CASE StartCommand
  BY <1>8, StartCommandCalls DEF Calls!Next
<1>9. ASSUME NEW r \in Rooms, DestroyRoom(r)
      PROVE  Calls!Next
  BY <1>3, <1>9, DestroyRoomCalls DEF Calls!Next
<1>10. ASSUME NEW r \in Rooms, CreateRoom(r)
       PROVE  Calls!Next
  BY <1>3, <1>10, CreateRoomCalls DEF Calls!Next
<1> QED
  BY <1>1, <1>2, <1>4, <1>5, <1>6, <1>7, <1>8, <1>9, <1>10, BeginUpdateCalls,
     SkipCommandCalls, AcceptCalls DEF Next

LEMMA CallsInit == Init => Calls!Init
<1> SUFFICES ASSUME Init PROVE Calls!Init
  OBVIOUS
<1>1. Waiting = {}
  BY DEF Init, Waiting, Queued
<1>2. CallsWaiting = {}
  BY <1>1 DEF CallsWaiting
<1>3. CallsOver = {}
  BY CommandConstants DEF Init, CallsOver, Ids
<1>4. Alive \subseteq Receivers
  BY DEF Init, Alive, Receivers
<1> QED
  BY <1>2, <1>3, <1>4 DEF Calls!Init

\* CommandSystem implements DelayedCalls: a delayed command runs at most once, never
\* after it was interrupted and never on a receiver that has died
\* (CommandSystem::update, interruptCommand, notifyReceiverDestroied).
THEOREM QueueKeepsCalls == Spec => CallsAreKept
<1>1. Init => Calls!Init
  BY CallsInit
<1>2. Inv /\ [Next]_vars => [Calls!Next]_(Calls!vars)
  BY CallsStep
<1> QED
  BY <1>1, <1>2, InvHolds, PTL DEF Spec, CallsAreKept, Calls!Spec
==============================================================================
