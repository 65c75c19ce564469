---------------------------- MODULE CommandSystem ----------------------------
(***************************************************************************)
(* The command system: commands are taken from a pool, pushed to run at    *)
(* once or after a delay, and executed by the main thread.  The accepting  *)
(* socket thread pushes delayed commands as well.  What runs inside a      *)
(* command is the part of the server that concerns this module: robots     *)
(* that are asked for an answer or leave their room, rooms that come and   *)
(* go, commands pushed to run at once.                                     *)
(*                                                                         *)
(* A list only grows at its end and entries carry the number of their      *)
(* push, so a list is a set of entries, in the order of their numbers.     *)
(***************************************************************************)
EXTENDS Integers, FiniteSets, Sequences, SequencesExt

CONSTANTS
    Rooms,          \* the receivers that come and go
    NetServer,      \* the receiver that exists throughout
    Null,           \* a receiver set to NULL
    Robots,         \* the robots
    Delays,         \* the delays a command may be pushed with
    Frames,         \* the lengths a frame of the main loop may have
    Second,         \* frames of this length or longer are not counted
    MaxAssign,      \* bound: delayed commands pushed
    MaxCommand,     \* bound: command objects created
    MaxNest         \* bound: immediate commands nested in one another

ASSUME CommandConstants ==
    /\ NetServer \notin Rooms
    /\ Null \notin Rooms \cup {NetServer}
    /\ Delays \subseteq Nat
    /\ Frames \subseteq Nat
    /\ Second \in Nat
    /\ MaxAssign \in Nat
    /\ MaxCommand \in Nat
    /\ MaxNest \in Nat

\* The types of commands: the one the accepting thread creates, and the others.
Accepted == "CommandServerNotifyAcceptedClient"
Confirm == "CommandRoomConfirmAction"
Types == {Accepted, Confirm}
Questions == {"action", "drop"}

Receivers == Rooms \cup {NetServer}
Ids == 0 .. MaxAssign - 1
NoId == -1
Command == [type: Types, num: Nat]
DelayCommand == [n: Nat, id: Ids, cmd: Command, recv: Receivers \cup {Null},
                 left: Int, delay: Delays]

VARIABLES
    input,          \* mCommandBufferInput
    process,        \* mCommandBufferProcess
    execute,        \* mExecuteList from the entry to be executed next
    current,        \* mExecuteList, the entry that is being executed
    deleted,        \* mExecuteList begins with entries that were executed and deleted
    updating,       \* the main thread is in the loop of CommandSystem::update
    nested,         \* the immediate commands being executed, outermost first
    unused,         \* mUnusedList of every type
    created,        \* mIDSeed
    assigned,       \* mAssignIDSeed
    pushes,         \* delayed commands pushed so far
    rooms,          \* the rooms that exist
    roomOf,         \* the room of every robot, Null when it is in none
    cmdID,          \* mAskAcitonCmdID and mRequestDropCmdID of every robot
    accept,         \* where the accepting thread is, and the command it holds
    down,           \* mSystemDestroy
    crashed         \* undefined behaviour has brought the server down

queue == <<input, process, execute, current, deleted, updating>>
commandPool == <<unused, created, assigned>>
world == <<rooms, roomOf, cmdID>>
vars == <<queue, nested, commandPool, pushes, world, accept, down, crashed>>

First(S) == CHOOSE e \in S : \A f \in S : e.n <= f.n

\* The entries that are still to be executed, in whatever list.
Queued == input \cup process \cup execute
Alive == rooms \cup {NetServer}

----------------------------------------------------------------------------
(* CommandPool *)

\* newCmd: an unused command of the type, whichever, or a new one.  Taking an
\* unused one erases the type's whole list.  (Variants: it stays on the list; the
\* lists of the other types go as well.)
Candidates(t) == IF unused[t] # {} THEN unused[t] ELSE {[type |-> t, num |-> created]}
KeepsUnused(t) == unused
ErasesTypes(t) == [u \in {t} |-> {}]
RemoveUnuse(t) == [unused EXCEPT ![t] = {}]
NewCmd(t) ==
    /\ created' = IF unused[t] # {} THEN created ELSE created + 1
    /\ unused' = RemoveUnuse(t)

Creatable(t) == unused[t] # {} \/ created < MaxCommand

\* Only one thread is inside newCmd (mNewCmdLock).
NewCmdUnlocked == accept.pc # "looking"

\* destroyCmd of every command of a set.  It takes mUnuseLock, but the accepting
\* thread looks into mUnusedList under mNewCmdLock only: an undefined outcome.
DestroyCmds(cs) ==
    /\ unused' = [t \in Types |-> unused[t] \cup {c \in cs : c.type = t}]
    /\ crashed' \in IF cs # {} /\ accept.pc = "looking" THEN BOOLEAN ELSE {crashed}

----------------------------------------------------------------------------
(* What the main thread does in a command, or in another component's update *)

MainRuns == ~crashed /\ ~down /\ (current # {} \/ ~updating)

\* CharacterMahjongRobot::notifyAskAction, notifyAskDrop: unless an answer is
\* queued already, a delayed command with an onCmdStart callback.
RobotAsk(b, q, d) ==
    /\ MainRuns /\ NewCmdUnlocked /\ Creatable(Confirm)
    /\ assigned < MaxAssign
    /\ roomOf[b] \in rooms
    /\ cmdID[b][q] = NoId
    /\ NewCmd(Confirm)
    /\ \E c \in Candidates(Confirm) :
         input' = input \cup {[n |-> pushes, id |-> assigned, cmd |-> c,
                               recv |-> roomOf[b], left |-> d, delay |-> d]}
    /\ assigned' = assigned + 1
    /\ pushes' = pushes + 1
    /\ cmdID' = [cmdID EXCEPT ![b][q] = assigned]
    /\ UNCHANGED <<process, execute, current, deleted, updating, nested, rooms, roomOf,
                   accept, down, crashed>>

\* A robot is put into a room.
EnterRoom(b, r) ==
    /\ MainRuns
    /\ roomOf[b] = Null
    /\ r \in rooms
    /\ roomOf' = [roomOf EXCEPT ![b] = r]
    /\ UNCHANGED <<queue, nested, commandPool, pushes, rooms, cmdID, accept, down, crashed>>

\* The robot leaves: clearCmd interrupts both its commands.  interruptCommand
\* takes a command out of the process list; it only looks for one in the execute
\* list, where it dereferences the entries already deleted.
LeaveRoom(b) ==
    LET ids == {cmdID[b][q] : q \in Questions} \ {NoId}
        found == {e \in input \cup process : e.id \in ids}
    IN  /\ MainRuns
        /\ roomOf[b] # Null
        /\ roomOf' = [roomOf EXCEPT ![b] = Null]
        /\ cmdID' = [cmdID EXCEPT ![b] = [q \in Questions |-> NoId]]
        /\ IF ids = {} THEN UNCHANGED <<input, process, unused, crashed>>
           ELSE /\ process' = (input \cup process) \ found
                /\ input' = {}
                /\ IF deleted /\ ids # {e.id : e \in found}
                   THEN crashed' = TRUE /\ UNCHANGED unused
                   ELSE DestroyCmds({e.cmd : e \in found})
        /\ UNCHANGED <<execute, current, deleted, updating, nested, created, assigned,
                       pushes, rooms, accept, down>>

CreateRoom(r) ==
    /\ MainRuns
    /\ r \in Rooms \ rooms
    /\ rooms' = rooms \cup {r}
    /\ UNCHANGED <<queue, nested, commandPool, pushes, roomOf, cmdID, accept, down, crashed>>

\* A room dies, its robots having left.  Its commands are dropped; those in the
\* execute list that have not been executed lose their receiver.  (Variant: the
\* execute list is forgotten.)
ForgotExecute(r) == execute
Orphaned(r) == {IF e.recv = r THEN [e EXCEPT !.recv = Null] ELSE e : e \in execute}
DestroyRoom(r) ==
    LET mine == {e \in input \cup process : e.recv = r}
    IN  /\ MainRuns
        /\ r \in rooms
        /\ \A b \in Robots : roomOf[b] # r
        /\ rooms' = rooms \ {r}
        /\ process' = (input \cup process) \ mine
        /\ input' = {}
        /\ execute' = Orphaned(r)
        /\ DestroyCmds({e.cmd : e \in mine})
        /\ UNCHANGED <<current, deleted, updating, nested, created, assigned, pushes,
                       roomOf, cmdID, accept, down>>

\* pushCommand: the command is executed on the spot.
PushCommand ==
    /\ MainRuns /\ NewCmdUnlocked /\ Creatable(Confirm)
    /\ Len(nested) < MaxNest
    /\ NewCmd(Confirm)
    /\ \E c \in Candidates(Confirm) : nested' = Append(nested, c)
    /\ UNCHANGED <<queue, assigned, pushes, world, accept, down, crashed>>

FinishNested ==
    /\ ~crashed
    /\ nested # <<>>
    /\ nested' = Front(nested)
    /\ DestroyCmds({Last(nested)})
    /\ UNCHANGED <<queue, created, assigned, pushes, world, accept, down>>

----------------------------------------------------------------------------
(* CommandSystem::update *)

\* The frame begins: the input list is appended to the process list.  A frame of
\* a second or more ends there; else the commands whose time has come move to the
\* execute list.
Due(S) == {e \in S : e.left <= 0}
BeginUpdate(t) ==
    LET all == input \cup process
        later == {[e EXCEPT !.left = @ - t] : e \in all}
    IN  /\ ~crashed /\ ~down /\ ~updating /\ nested = <<>>
        /\ input' = {}
        /\ IF t >= Second
           THEN process' = all /\ UNCHANGED <<execute, updating>>
           ELSE /\ process' = later \ Due(later)
                /\ execute' = Due(later)
                /\ updating' = TRUE
        /\ UNCHANGED <<current, deleted, nested, commandPool, pushes, world, accept,
                       down, crashed>>

\* The next command starts: its callback makes the robot forget the command.
\* (Variants: the callback is not run; the list is walked backwards.)
KeepsIds(e) == cmdID
ForgetId(e) == [b \in Robots |-> [q \in Questions |->
                   IF cmdID[b][q] = e.id THEN NoId ELSE cmdID[b][q]]]
LastOne(S) == CHOOSE e \in S : \A f \in S : e.n >= f.n
NextEntry(S) == First(S)
StartCommand ==
    LET e == NextEntry(execute)
    IN  /\ ~crashed /\ updating /\ current = {} /\ execute # {}
        /\ e.recv # Null
        /\ current' = {e}
        /\ execute' = execute \ {e}
        /\ cmdID' = ForgetId(e)
        /\ UNCHANGED <<input, process, deleted, updating, nested, commandPool, pushes,
                       rooms, roomOf, accept, down, crashed>>

\* A command that has lost its receiver is skipped; nobody destroys it.
\* (Variant: the loop does not step past it.)
SkipForever ==
    /\ ~crashed /\ updating /\ current = {} /\ execute # {}
    /\ NextEntry(execute).recv = Null
    /\ UNCHANGED vars
SkipCommand ==
    LET e == NextEntry(execute)
    IN  /\ ~crashed /\ updating /\ current = {} /\ execute # {}
        /\ e.recv = Null
        /\ execute' = execute \ {e}
        /\ deleted' = TRUE
        /\ UNCHANGED <<input, process, current, updating, nested, commandPool, pushes,
                       world, accept, down, crashed>>

FinishCommand ==
    /\ ~crashed /\ current # {} /\ nested = <<>>
    /\ current' = {}
    /\ deleted' = TRUE
    /\ DestroyCmds({e.cmd : e \in current})
    /\ UNCHANGED <<input, process, execute, updating, nested, created, assigned, pushes,
                   world, accept, down>>

EndUpdate ==
    /\ ~crashed /\ updating /\ current = {} /\ execute = {}
    /\ updating' = FALSE
    /\ deleted' = FALSE
    /\ UNCHANGED <<input, process, execute, current, nested, commandPool, pushes, world,
                   accept, down, crashed>>

\* CommandSystem::destroy, once the socket threads are stopped.
Shutdown ==
    /\ ~crashed /\ ~down /\ ~updating /\ nested = <<>>
    /\ accept.pc = "accepting"
    /\ down' = TRUE
    /\ input' = {}
    /\ process' = {}
    /\ unused' = [t \in Types |-> {}]
    /\ UNCHANGED <<execute, current, deleted, updating, nested, created, assigned, pushes,
                   world, accept, crashed>>

----------------------------------------------------------------------------
(* NetServer::acceptSocket, in its own thread *)

\* newCmd looks for an unused command, then takes it or creates one.
AcceptLook ==
    /\ ~crashed /\ ~down
    /\ accept.pc = "accepting"
    /\ assigned < MaxAssign
    /\ Creatable(Accepted)
    /\ \E found \in IF unused[Accepted] # {} THEN {{c} : c \in unused[Accepted]} ELSE {{}} :
         accept' = [pc |-> "looking", cmd |-> found, id |-> NoId]
    /\ UNCHANGED <<queue, nested, commandPool, pushes, world, down, crashed>>

AcceptTake ==
    /\ ~crashed
    /\ accept.pc = "looking"
    /\ accept' = [pc |-> "holding", id |-> assigned,
                  cmd |-> IF accept.cmd # {} THEN accept.cmd
                          ELSE {[type |-> Accepted, num |-> created]}]
    /\ created' = IF accept.cmd # {} THEN created ELSE created + 1
    /\ unused' = IF accept.cmd # {} THEN RemoveUnuse(Accepted) ELSE unused
    /\ assigned' = assigned + 1
    /\ UNCHANGED <<queue, nested, pushes, world, down, crashed>>

AcceptPush ==
    /\ ~crashed
    /\ accept.pc = "holding"
    /\ \E c \in accept.cmd, d \in Delays :
         input' = input \cup {[n |-> pushes, id |-> accept.id, cmd |-> c,
                               recv |-> NetServer, left |-> d, delay |-> d]}
    /\ pushes' = pushes + 1
    /\ accept' = [pc |-> "accepting", cmd |-> {}, id |-> NoId]
    /\ UNCHANGED <<process, execute, current, deleted, updating, nested, commandPool,
                   world, down, crashed>>

----------------------------------------------------------------------------
Init ==
    /\ input = {} /\ process = {} /\ execute = {} /\ current = {}
    /\ deleted = FALSE /\ updating = FALSE
    /\ nested = <<>>
    /\ unused = [t \in Types |-> {}]
    /\ created = 0 /\ assigned = 0 /\ pushes = 0
    /\ rooms = {}
    /\ roomOf = [b \in Robots |-> Null]
    /\ cmdID = [b \in Robots |-> [q \in Questions |-> NoId]]
    /\ accept = [pc |-> "accepting", cmd |-> {}, id |-> NoId]
    /\ down = FALSE /\ crashed = FALSE

Next ==
    \/ \E b \in Robots : \/ \E q \in Questions, d \in Delays : RobotAsk(b, q, d)
                         \/ \E r \in Rooms : EnterRoom(b, r)
                         \/ LeaveRoom(b)
    \/ \E r \in Rooms : CreateRoom(r) \/ DestroyRoom(r)
    \/ PushCommand \/ FinishNested
    \/ \E t \in Frames : BeginUpdate(t)
    \/ StartCommand \/ SkipCommand \/ FinishCommand \/ EndUpdate \/ Shutdown
    \/ AcceptLook \/ AcceptTake \/ AcceptPush

Spec == Init /\ [][Next]_vars

(***************************************************************************)
(* The main loop updates the command system every frame, nearly all of     *)
(* them shorter than a second; between two frames, and in a command, it    *)
(* pushes only so many commands, hence the strong fairness.                *)
(***************************************************************************)
ShortFrame == \E t \in Frames : 0 < t /\ t < Second /\ BeginUpdate(t)
FairSpec ==
    /\ Spec
    /\ SF_vars(ShortFrame) /\ SF_vars(FinishCommand)
    /\ WF_vars(FinishNested)
    /\ WF_vars(StartCommand) /\ WF_vars(SkipCommand) /\ WF_vars(EndUpdate)

----------------------------------------------------------------------------
(* Properties *)

TypeOK ==
    /\ input \subseteq DelayCommand
    /\ process \subseteq DelayCommand
    /\ execute \subseteq DelayCommand
    /\ current \subseteq DelayCommand
    /\ deleted \in BOOLEAN
    /\ updating \in BOOLEAN
    /\ nested \in Seq(Command)
    /\ unused \in [Types -> SUBSET Command]
    /\ created \in Nat
    /\ assigned \in 0 .. MaxAssign
    /\ pushes \in Nat
    /\ rooms \subseteq Rooms
    /\ roomOf \in [Robots -> Rooms \cup {Null}]
    /\ cmdID \in [Robots -> [Questions -> Ids \cup {NoId}]]
    /\ accept \in [pc: {"accepting", "looking", "holding"}, cmd: SUBSET Command,
                   id: Ids \cup {NoId}]
    /\ down \in BOOLEAN
    /\ crashed \in BOOLEAN

\* The queue is used as DelayedCalls says: the calls that wait for an existing
\* receiver are pending; a call with an id that is not pending, nor in the hand
\* of the accepting thread, is over.
Waiting == {e \in Queued : e.recv # Null}
CallsWaiting == {[call |-> e.id, recv |-> e.recv] : e \in Waiting}
CallsOver == {i \in Ids : /\ i < assigned
                          /\ i # accept.id
                          /\ \A e \in Waiting : e.id # i}

Calls == INSTANCE DelayedCalls WITH
            Calls <- Ids, pending <- CallsWaiting, over <- CallsOver, alive <- Alive

\* A delayed command runs at most once, never after it was interrupted, and never
\* on a receiver that was destroyed in the meantime, even in the same frame
\* (notifyReceiverDestroied, CommandSystem.cpp:191).
CallsAreKept == Calls!Spec

\* A command object is in one place: with one of its users, in the queue, or on
\* the list of unused commands.  So the pool never hands out a command in use.
CommandHeldOnce ==
    LET held == Queued \cup current
        heldCmds == {e.cmd : e \in held}
        nestedCmds == ToSet(nested)
        taken == IF accept.pc = "holding" THEN accept.cmd ELSE {}
        free == unused[Accepted] \cup unused[Confirm]
    IN  /\ \A e, f \in held : e.cmd = f.cmd => e = f
        /\ IsInjective(nested)
        /\ (heldCmds \cup nestedCmds) \cap (free \cup taken) = {}
        /\ heldCmds \cap nestedCmds = {}
        /\ taken \cap free = {}

\* Of two commands, the one that was pushed first with no longer a delay runs
\* first: no command is overtaken by being moved between the lists.
RunInOrder ==
    [][\A e \in current' \ current : \A f \in Waiting :
           f.n < e.n => f.delay > e.delay]_vars

\* As long as a robot remembers a command, which keeps it from answering again,
\* that command waits for its room.
RobotCanAnswer ==
    \A b \in Robots, q \in Questions :
        cmdID[b][q] # NoId /\ ~crashed /\ ~down =>
            \E e \in Waiting : e.id = cmdID[b][q] /\ e.recv = roomOf[b]

\* Every call that waits is run, is interrupted or loses its receiver.
EveryCallEnds ==
    \A i \in Ids : (\E e \in Waiting : e.id = i) ~> (i \in CallsOver \/ crashed)
=============================================================================
