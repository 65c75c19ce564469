---------------------------- MODULE ClientStream ----------------------------
(***************************************************************************)
(* One client of the server, from its socket to the packets it has had     *)
(* executed and back, with the three threads that work on it: one receives *)
(* and sends (NetServer::receiveSendSocket), one cuts the stream into      *)
(* packets (parseSocket), and the main thread executes packets, sends      *)
(* messages, times the client out and destroys it.                         *)
(*                                                                         *)
(* A packet of the client is two pieces of the stream, its header and its  *)
(* body.  A message to it is as many pieces as it has bytes, and may be    *)
(* too large for the temporary buffer or the send buffer; the receive      *)
(* buffers are large enough for the bounds.  That sendPacketCheck refuses a*)
(* packet that names a client is left out: no message of the server does.  *)
(*                                                                         *)
(* A thread that is not idle holds its lock: the parsing thread            *)
(* mClientParseLock, the receiving one mClientRecvLock; the main thread    *)
(* takes the former and then the latter.                                   *)
(***************************************************************************)
EXTENDS Integers, FiniteSets, Sequences, SequencesExt

CONSTANTS
    MaxIn,          \* bound: packets the client sends
    MaxOut,         \* bound: pieces of the messages the server sends to the client
    HeaderSize,     \* HEADER_SIZE, in pieces
    BodySizes,      \* the sizes that the bodies of messages may have
    TempSize,       \* CLIENT_TEMP_BUFFER_SIZE
    SendSize,       \* CLIENT_SEND_BUFFER_SIZE
    TimeOut,        \* the heartbeat time-out, in units of time
    Elapsed         \* how many units may pass in a frame

ASSUME StreamConstants ==
    /\ MaxIn \in Nat
    /\ MaxOut \in Nat
    /\ HeaderSize \in Nat \ {0}
    /\ BodySizes \subseteq Nat
    /\ TempSize \in Nat
    /\ SendSize \in Nat \ {0}
    /\ TimeOut \in Nat \ {0}
    /\ Elapsed \subseteq Nat

VARIABLES
    wire,           \* pieces on their way to the server
    sent,           \* the kinds of the packets the client has sent
    peer,           \* whether the client's end of the socket is open
    client,         \* whether the NetClient exists
    dead,           \* mIsDeadClient
    character,      \* what became of the character of the client
    beat,           \* mHeartBeatTime; nothing in the program sets it back
    temp,           \* mTempRecvStreamBuffer
    recv,           \* mRecvStreamBuffer
    lists,          \* mExecutePacketList
    write,          \* mWriteExecuteIndex; mReadExecuteIndex is the other one
    out,            \* mSendStreamBuffer
    accepted,       \* pieces that were put in it
    delivered,      \* how many of them the socket took
    receiver,       \* where the receiving and sending thread is
    parser,         \* where the parsing thread is
    main,           \* where the main thread is
    executed,       \* packets executed so far
    lost,           \* packets deleted from the list without being executed
    crashed         \* undefined behaviour has brought the server down

network == <<wire, sent, peer>>
state == <<client, dead, character, beat>>
input == <<temp, recv, lists, write>>
output == <<out, accepted, delivered>>
history == <<executed, lost>>
vars == <<network, state, input, output, receiver, parser, main, history, crashed>>

\* The header of a packet tells its kind.  Of a wrong packet, type and size do not match.
Kinds == {"heartbeat", "login", "wrong"}
Pieces == [n: 1 .. MaxIn, part: Kinds \cup {"body"}]
\* A parsed packet has the header of the n-th packet sent, and the body of one.
Packets == [n: 1 .. MaxIn, kind: Kinds, body: 1 .. MaxIn]

Read == 1 - write

----------------------------------------------------------------------------
(* StreamBuffer: the pieces are numbered as they are accepted *)

EmptyBuffer == [data |-> [i \in 1 .. SendSize |-> 0], start |-> 0, length |-> 0]

\* (Variant of the second: the start is not counted.)
isAvailable(b, count) == count <= SendSize - b.length
FitsAtFront(b, count) == count <= SendSize - b.length
FitsBehind(b, count) == count <= SendSize - (b.start + b.length)

\* The data move to the front.  (Variant: the start is not reset.)
CompactedOff(b) == [b EXCEPT !.start = 0]
Compacted(b) ==
    [b EXCEPT !.data = [i \in 1 .. SendSize |-> IF i <= b.length THEN @[b.start + i] ELSE @[i]],
              !.start = 0]

\* The pieces from number first on are appended; without room for them nothing is.
Appended(b, first, count) ==
    [b EXCEPT !.data = [i \in 1 .. SendSize |->
                            LET k == i - b.start - b.length
                            IN  IF k \in 1 .. count THEN first + k - 1 ELSE @[i]],
              !.length = @ + count]
addDataToInputBuffer(b, first, count) ==
    IF FitsBehind(b, count) THEN Appended(b, first, count)
    ELSE IF isAvailable(b, count) THEN Appended(Compacted(b), first, count)
    ELSE b

\* (Variant: everything is removed, not what was sent.)
removesAll(b, count) == [b EXCEPT !.start = @ + b.length, !.length = 0]
removeDataFromInputBuffer(b, count) ==
    IF b.length >= count THEN [b EXCEPT !.start = @ + count, !.length = @ - count] ELSE b

----------------------------------------------------------------------------
(* The client's end of the connection *)

ClientSends(kind) ==
    /\ ~crashed
    /\ client = "connected" /\ peer = "open" /\ Len(sent) < MaxIn
    /\ sent' = Append(sent, kind)
    /\ wire' = wire \o <<[n |-> Len(sent) + 1, part |-> kind],
                         [n |-> Len(sent) + 1, part |-> "body"]>>
    /\ UNCHANGED <<peer, state, input, output, receiver, parser, main, history, crashed>>

ClientCloses ==
    /\ ~crashed
    /\ client = "connected" /\ peer = "open"
    /\ peer' = "closed"
    /\ UNCHANGED <<wire, sent, state, input, output, receiver, parser, main, history, crashed>>

----------------------------------------------------------------------------
(* The receiving and sending thread *)

\* Of a socket that can be read comes some of what has arrived, or the news that the
\* connection is over.
processRecv ==
    \/ /\ dead \/ (wire = <<>> /\ peer = "open")
       /\ UNCHANGED <<wire, temp, dead>>
    \/ /\ ~dead
       /\ \E k \in 1 .. Len(wire) : /\ temp' = temp \o SubSeq(wire, 1, k)
                                    /\ wire' = SubSeq(wire, k + 1, Len(wire))
       /\ UNCHANGED dead
    \/ /\ ~dead /\ peer = "closed"
       /\ dead' = TRUE
       /\ UNCHANGED <<wire, temp>>

\* The start and the length of the data to send are read, without mSendLock, if the
\* socket can be written.
processSend ==
    \/ UNCHANGED receiver
    \/ /\ out.length > 0
       /\ receiver' = [pc |-> "copying", start |-> out.start, count |-> out.length,
                       moved |-> FALSE]

\* With a client there, the lock is taken and both are done, ...
receiveSendSocket ==
    /\ ~crashed
    /\ receiver.pc = "idle" /\ client = "connected"
    /\ processRecv /\ processSend
    /\ UNCHANGED <<sent, peer, client, character, beat, recv, lists, write, output, parser,
                   main, history, crashed>>

\* ... then the socket takes some of them, or fails, ...
Copied(k) == [i \in 1 .. k |-> out.data[receiver.start + i]]
SocketTakes(k) ==
    /\ ~crashed
    /\ receiver.pc = "copying"
    /\ delivered' = delivered + k
    /\ receiver' = [receiver EXCEPT !.pc = "sent", !.count = k]
    /\ UNCHANGED <<network, state, input, out, accepted, parser, main, history, crashed>>
SendFails ==
    /\ ~crashed
    /\ receiver.pc = "copying" /\ peer = "closed"
    /\ receiver' = [receiver EXCEPT !.pc = "idle"]
    /\ UNCHANGED <<network, state, input, output, parser, main, history, crashed>>

\* ... and what it took is removed.
notifyDataSended ==
    /\ ~crashed
    /\ receiver.pc = "sent"
    /\ out' = removeDataFromInputBuffer(out, receiver.count)
    /\ receiver' = [pc |-> "idle", start |-> 0, count |-> 0, moved |-> FALSE]
    /\ UNCHANGED <<network, state, input, accepted, delivered, parser, main, history, crashed>>

----------------------------------------------------------------------------
(* The parsing thread *)

\* How many whole packets the pieces begin with, and whether a wrong one follows.
Whole(s) ==
    LET Good(k) == 2 * k <= Len(s) /\ s[2 * k - 1].part # "wrong"
    IN  Cardinality({k \in 1 .. Len(s) : \A j \in 1 .. k : Good(j)})
WrongNext(s) == Len(s) > 2 * Whole(s) /\ s[2 * Whole(s) + 1].part = "wrong"

\* What is not parsed yet stays in the buffer.  (Variants: all of it stays; the index
\* is not set back to the header of a packet whose body has not arrived.)
LeavesAll(s) == s
LosesHeader(s) == SubSeq(s, 2 * Whole(s) + 2, Len(s))
Unparsed(s) == SubSeq(s, 2 * Whole(s) + 1, Len(s))

parseData ==
    LET data == recv \o temp
        packets == [k \in 1 .. Whole(data) |->
                       [n |-> data[2 * k - 1].n, kind |-> data[2 * k - 1].part,
                        body |-> data[2 * k].n]]
    IN  /\ ~crashed
        /\ parser.pc = "idle" /\ main.pc # "locked"
        /\ client = "connected"
        /\ temp' = <<>>
        /\ recv' = Unparsed(data)
        /\ dead' = (dead \/ WrongNext(data))
        /\ parser' = [parser EXCEPT !.pc = IF packets = <<>> THEN "idle" ELSE "pushing",
                                    !.packets = packets]
        /\ UNCHANGED <<network, client, character, beat, lists, write, output, receiver,
                       main, history, crashed>>

\* One by one the packets go to the list the main thread does not execute: it is
\* looked up, ...
LookUpList ==
    /\ ~crashed
    /\ parser.pc = "pushing"
    /\ parser' = [parser EXCEPT !.pc = "found", !.into = write]
    /\ UNCHANGED <<network, state, input, output, receiver, main, history, crashed>>

\* ... and the packet appended, in which time the main thread may have swapped the
\* lists: an undefined outcome, if it walks this one.  The last packet ends the pass.
PushPacket ==
    LET i == parser.into
        rest == Tail(parser.packets)
    IN  /\ ~crashed
        /\ parser.pc = "found"
        /\ lists' = [lists EXCEPT ![i] = Append(@, Head(parser.packets))]
        /\ parser' = [pc |-> IF rest = <<>> THEN "idle" ELSE "pushing", into |-> 0,
                      packets |-> rest]
        /\ crashed' \in IF main.pc = "executing" /\ i = Read THEN BOOLEAN ELSE {FALSE}
        /\ UNCHANGED <<network, state, temp, recv, write, output, receiver, main, history>>

----------------------------------------------------------------------------
(* The main thread *)

\* A message with a body of that size is for the client.  To a dead client, or larger
\* than the temporary buffer, it is not sent.  The check asks for room for its body
\* only: with room for that and not for the header as well, the message is dropped.
\* Without room for either the client is taken for dead.
NoMessage == UNCHANGED <<dead, out, accepted, receiver>>
Sendable(size) == ~dead /\ HeaderSize + size <= TempSize
sendPacket(size) ==
    LET count == HeaderSize + size
        b == addDataToInputBuffer(out, accepted + 1, count)
    IN  \/ ~Sendable(size) /\ NoMessage
        \/ /\ Sendable(size) /\ ~isAvailable(out, size)
           /\ dead' = TRUE
           /\ UNCHANGED <<out, accepted, receiver>>
        \/ /\ Sendable(size) /\ isAvailable(out, size)
           /\ out' = b
           /\ accepted' = IF b = out THEN accepted ELSE accepted + count
           /\ receiver' = [receiver EXCEPT
                  !.moved = @ \/ (receiver.pc = "copying" /\ b.start # out.start)]
           /\ UNCHANGED dead

WithinBound(size) == accepted + HeaderSize + size <= MaxOut

\* NetClient::update: the lists are swapped.  (Variant: they are not.)
NotSwapped == write
Swapped == Read
UpdateStarts ==
    /\ ~crashed
    /\ main.pc = "idle" /\ client = "connected"
    /\ IF dead
       THEN /\ main' = [main EXCEPT !.pc = "locking"]
            /\ UNCHANGED write
       ELSE /\ write' = Swapped
            /\ main' = [pc |-> "executing", next |-> 1, count |-> Len(lists[1 - write'])]
    /\ UNCHANGED <<network, state, temp, recv, lists, output, receiver, parser, history,
                   crashed>>

\* The next packet is executed.  A heartbeat is answered, up to the bound; a login
\* gives the client its character.  (What else is sent comes from SendMessage.)
NextPacket == lists[Read][main.next]
ExecutePacket ==
    /\ ~crashed
    /\ main.pc = "executing" /\ main.next <= main.count
    /\ main' = [main EXCEPT !.next = @ + 1]
    /\ executed' = executed \cup {NextPacket}
    /\ IF NextPacket.kind = "heartbeat"
       THEN /\ \E size \in BodySizes :
                 IF WithinBound(size) THEN sendPacket(size) ELSE NoMessage
            /\ UNCHANGED character
       ELSE /\ NoMessage
            /\ character' = "online"
    /\ UNCHANGED <<network, client, beat, input, delivered, parser, lost, crashed>>

\* The list is cleared, and the time-out tested: a dead client is to be disconnected.
\* (Variant: the list is not cleared.)
UnclearedList == lists
ClearedList == [lists EXCEPT ![Read] = <<>>]
ExecuteEnds(t) ==
    /\ ~crashed
    /\ main.pc = "executing" /\ main.next > main.count
    /\ lists' = ClearedList
    /\ lost' = lost \cup {lists[Read][i] : i \in main.count + 1 .. Len(lists[Read])}
    /\ beat' = beat + t
    /\ dead' = (dead \/ beat' >= TimeOut)
    /\ main' = [pc |-> IF dead' THEN "locking" ELSE "idle", next |-> 1, count |-> 0]
    /\ UNCHANGED <<network, client, character, temp, recv, write, output, receiver, parser,
                   executed, crashed>>

\* disconnectSocket takes both locks, one after the other.  (Variant: not the first.)
LockAtOnce ==
    /\ ~crashed
    /\ main.pc = "locking"
    /\ main' = [main EXCEPT !.pc = "locked"]
    /\ UNCHANGED <<network, state, input, output, receiver, parser, history, crashed>>
LockParse ==
    /\ ~crashed
    /\ main.pc = "locking" /\ parser.pc = "idle"
    /\ main' = [main EXCEPT !.pc = "locked"]
    /\ UNCHANGED <<network, state, input, output, receiver, parser, history, crashed>>

\* The client is destroyed with its buffers and the packets in its lists, which has
\* a command pushed for its character; its socket is closed.  (Variant: the character
\* is not told.)
StaysOnline == character
ToldToLeave == IF character = "online" THEN "leaving" ELSE character
disconnectSocket ==
    /\ ~crashed
    /\ main.pc = "locked" /\ receiver.pc = "idle"
    /\ client' = "gone"
    /\ character' = ToldToLeave
    /\ wire' = <<>> /\ temp' = <<>> /\ recv' = <<>> /\ out' = EmptyBuffer
    /\ lists' = [i \in {0, 1} |-> <<>>]
    /\ main' = [main EXCEPT !.pc = "idle"]
    /\ UNCHANGED <<sent, peer, dead, beat, write, accepted, delivered, receiver, parser,
                   history, crashed>>

\* What else the main thread does in a frame: it executes that command, and sends
\* messages to the client.
NotifyPlayerOffline ==
    /\ ~crashed
    /\ main.pc = "idle" /\ character = "leaving"
    /\ character' = "offline"
    /\ UNCHANGED <<network, client, dead, beat, input, output, receiver, parser, main,
                   history, crashed>>

SendMessage(size) ==
    /\ ~crashed
    /\ main.pc = "idle" /\ client = "connected" /\ WithinBound(size)
    /\ sendPacket(size)
    /\ UNCHANGED <<network, client, character, beat, input, delivered, parser, main,
                   history, crashed>>

----------------------------------------------------------------------------
Init ==
    /\ wire = <<>> /\ sent = <<>> /\ peer = "open"
    /\ client = "connected" /\ dead = FALSE /\ character = "none" /\ beat = 0
    /\ temp = <<>> /\ recv = <<>>
    /\ lists = [i \in {0, 1} |-> <<>>] /\ write = 0
    /\ out = EmptyBuffer /\ accepted = 0 /\ delivered = 0
    /\ receiver = [pc |-> "idle", start |-> 0, count |-> 0, moved |-> FALSE]
    /\ parser = [pc |-> "idle", into |-> 0, packets |-> <<>>]
    /\ main = [pc |-> "idle", next |-> 1, count |-> 0]
    /\ executed = {} /\ lost = {} /\ crashed = FALSE

Receiving ==
    \/ receiveSendSocket \/ SendFails \/ notifyDataSended
    \/ \E k \in 1 .. receiver.count : SocketTakes(k)
Parsing == parseData \/ LookUpList \/ PushPacket
Updating ==
    \/ UpdateStarts \/ ExecutePacket
    \/ LockParse \/ disconnectSocket \/ NotifyPlayerOffline
    \/ \E t \in Elapsed : ExecuteEnds(t)
Next ==
    \/ \E kind \in Kinds : ClientSends(kind)
    \/ ClientCloses
    \/ Receiving \/ Parsing \/ Updating
    \/ \E size \in BodySizes : SendMessage(size)

Spec == Init /\ [][Next]_vars

(***************************************************************************)
(* Each thread goes on; the locks are spin locks, so that the main thread, *)
(* which asks for one again and again, gets it in the end, though not at   *)
(* once.  The client need not do anything.                                 *)
(***************************************************************************)
FairSpec == Spec /\ WF_vars(Receiving) /\ WF_vars(Parsing) /\ SF_vars(Updating)

----------------------------------------------------------------------------
(* Properties *)

TypeOK ==
    /\ wire \in Seq(Pieces) /\ temp \in Seq(Pieces) /\ recv \in Seq(Pieces)
    /\ sent \in Seq(Kinds) /\ Len(sent) <= MaxIn
    /\ peer \in {"open", "closed"}
    /\ client \in {"connected", "gone"}
    /\ dead \in BOOLEAN
    /\ character \in {"none", "online", "leaving", "offline"}
    /\ beat \in Nat
    /\ lists \in [{0, 1} -> Seq(Packets)]
    /\ write \in {0, 1}
    /\ out \in [data: [1 .. SendSize -> 0 .. MaxOut],
                start: 0 .. SendSize, length: 0 .. SendSize]
    /\ out.start + out.length <= SendSize
    /\ accepted \in 0 .. MaxOut
    /\ delivered \in 0 .. accepted
    /\ receiver \in [pc: {"idle", "copying", "sent"},
                     start: 0 .. SendSize, count: 0 .. SendSize, moved: BOOLEAN]
    /\ parser \in [pc: {"idle", "pushing", "found"}, into: {0, 1}, packets: Seq(Packets)]
    /\ main \in [pc: {"idle", "executing", "locking", "locked"},
                 next: Nat, count: Nat]
    /\ executed \subseteq Packets /\ lost \subseteq Packets
    /\ crashed \in BOOLEAN

\* The client is destroyed when no thread works on it (NetServer.cpp:325).
NobodyInDestroyed ==
    client = "gone" => receiver.pc = "idle" /\ parser.pc = "idle" /\ main.pc = "idle"

\* A packet is executed at most once, and not after it was deleted from its list.
ExecutedOnce == [][ExecutePacket => NextPacket \notin executed \cup lost]_vars

\* However the stream arrives and is cut, a packet that is executed has the header and
\* the body of one packet that the client sent, and the kind it was sent with.
AsSent(p) == p.n \in DOMAIN sent /\ p.body = p.n /\ p.kind = sent[p.n]
ExecutedAsSent == [][ExecutePacket => AsSent(NextPacket)]_vars

\* Whatever is sent and added meanwhile, the socket takes the pieces of the
\* accepted messages one after the other, unless the buffer is compacted while the
\* sending thread reads it.
StreamInOrder ==
    [][\A k \in 1 .. receiver.count :
          SocketTakes(k) /\ ~receiver.moved =>
              Copied(k) = [i \in 1 .. k |-> delivered + i]]_vars

\* Whatever the client sends is received, parsed, and executed, or lost in the race
\* for the list, as long as the client lives.
PacketsEnd ==
    []<>(dead \/ crashed \/ DOMAIN sent \subseteq {p.n : p \in executed \cup lost})

\* When the client closes the connection, it is destroyed in the end and its
\* character goes offline.
ClosedClientLeaves ==
    (peer = "closed") ~> (crashed \/ (client = "gone" /\ character \in {"none", "offline"}))
=============================================================================
