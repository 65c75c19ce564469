------------------------ MODULE ClientStream_proofs ------------------------
(***************************************************************************)
(* One client of the server, for any number of packets, any sizes of the   *)
(* messages and the buffers, any time-out and any lengths of frames: the   *)
(* client is not destroyed under a thread that works on it, every packet is*)
(* executed as it was sent and no more than once, and the socket gets the  *)
(* pieces of the accepted messages in order.                               *)
(***************************************************************************)
EXTENDS ClientStream, NumberLemmas, SequenceTheorems

(***************************************************************************)
(* What the threads leave each other.  A thread in the middle of its work  *)
(* keeps the client, and what it has seen of the buffers stays true while  *)
(* the others go on.                                                       *)
(***************************************************************************)
ThreadsInv ==
    /\ client = "gone" => receiver.pc = "idle" /\ parser.pc = "idle" /\ main.pc = "idle"
    /\ main.pc = "locked" => parser.pc = "idle"
    /\ parser.pc = "idle" <=> parser.packets = <<>>
    /\ main.pc = "executing" => /\ main.next \in 1 .. main.count + 1
                                /\ main.count <= Len(lists[Read])

\* Pieces the socket took that are still in the buffer.
Taken == IF receiver.pc = "sent" THEN receiver.count ELSE 0

\* The pieces in the buffer are those behind number d.
Behind(b, d) == \A i \in 1 .. b.length : b.data[b.start + i] = d + i

\* The buffer holds all accepted pieces that are not delivered, and the pieces
\* taken are its first ones.
SendInv ==
    client = "connected" =>
        /\ Taken <= out.length /\ Taken <= delivered
        /\ delivered + out.length = accepted + Taken
        /\ Behind(out, delivered - Taken)
        /\ receiver.pc = "copying" =>
             /\ receiver.count <= out.length
             /\ ~receiver.moved => receiver.start = out.start

\* The pieces s are those of all packets behind the first m, of which q are the kinds,
\* each a header and a body.
Pieced(s, m, q) ==
    /\ Len(s) = 2 * (Len(q) - m)
    /\ \A k \in 1 .. Len(q) - m : /\ s[2 * k - 1].n = m + k /\ s[2 * k - 1].part = q[m + k]
                                  /\ s[2 * k].n = m + k

Joined(a, b) == a \o b
Rest == Joined(Joined(recv, temp), wire)
Past == executed \cup lost

\* Of the packets that were parsed the first are pushed, and the parsing thread holds
\* the others.  The lists hold each pushed packet once, unless it is past, and what of
\* a list is past was executed in this frame.
Sorted(pushed) ==
    /\ pushed \in Nat
    /\ \A k \in DOMAIN parser.packets : parser.packets[k].n = pushed + k
    /\ \A x \in Past : x.n <= pushed
    /\ \A i \in {0, 1} : \A j \in DOMAIN lists[i] : lists[i][j].n <= pushed

ListsInv ==
    \A i \in {0, 1} : \A j \in DOMAIN lists[i] :
        /\ lists[i][j] \in Past => main.pc = "executing" /\ i = Read /\ j < main.next
        /\ \A i2 \in {0, 1} : \A j2 \in DOMAIN lists[i2] :
             lists[i][j].n = lists[i2][j2].n => i = i2 /\ j = j2

\* The packets parsed and not yet executed are as they were sent.
Faithful ==
    /\ \A k \in DOMAIN parser.packets : AsSent(parser.packets[k])
    /\ \A i \in {0, 1} : \A j \in DOMAIN lists[i] : AsSent(lists[i][j])

PacketInv ==
    client = "connected" =>
        /\ \E m \in 0 .. Len(sent) : /\ Pieced(Rest, m, sent)
                                     /\ Sorted(m - Len(parser.packets))
        /\ ListsInv
        /\ Faithful

Inv == TypeOK /\ ThreadsInv /\ SendInv /\ PacketInv

----------------------------------------------------------------------------
(* The send buffer *)

Buffer == [data: [1 .. SendSize -> 0 .. MaxOut],
           start: 0 .. SendSize, length: 0 .. SendSize]

\* Moving the data to the front keeps them.
LEMMA CompactedKeeps ==
    ASSUME NEW b \in Buffer, b.start + b.length <= SendSize
    PROVE  /\ Compacted(b) \in Buffer
           /\ Compacted(b).start = 0 /\ Compacted(b).length = b.length
           /\ \A i \in 1 .. b.length : Compacted(b).data[i] = b.data[b.start + i]
<1> DEFINE data == [i \in 1 .. SendSize |-> IF i <= b.length THEN b.data[b.start + i] ELSE b.data[i]]
<1>1. SendSize \in Nat /\ b.start \in Nat /\ b.length \in Nat
  BY StreamConstants DEF Buffer
<1>2. b.data \in [1 .. SendSize -> 0 .. MaxOut]
  BY DEF Buffer
<1>3. data \in [1 .. SendSize -> 0 .. MaxOut]
  <2> SUFFICES ASSUME NEW i \in 1 .. SendSize, i <= b.length
               PROVE  b.start + i \in 1 .. SendSize
    BY <1>2
  <2> QED BY <1>1
<1>4. Compacted(b) = [data |-> data, start |-> 0, length |-> b.length]
  <2>1. b = [data |-> b.data, start |-> b.start, length |-> b.length]
    BY DEF Buffer
  <2>2. Compacted(b) = [b EXCEPT !.data = data, !.start = 0]
    BY <2>1 DEF Compacted
  <2> HIDE DEF data
  <2> QED BY <2>1, <2>2
<1>5. b.length <= SendSize
  BY DEF Buffer
<1> QED BY <1>1, <1>3, <1>4, <1>5 DEF Buffer

\* A message appended follows what is there.
LEMMA AppendedAdds ==
    ASSUME NEW b \in Buffer, NEW count \in Nat, b.start + b.length + count <= SendSize,
           NEW first \in Nat \ {0}, first + count - 1 <= MaxOut
    PROVE  LET c == Appended(b, first, count)
           IN  /\ c \in Buffer
               /\ c.start = b.start /\ c.length = b.length + count
               /\ \A i \in 1 .. b.length : c.data[b.start + i] = b.data[b.start + i]
               /\ \A k \in 1 .. count : c.data[b.start + b.length + k] = first + k - 1
<1> DEFINE c == Appended(b, first, count)
           At(i) == i - b.start - b.length
           data == [i \in 1 .. SendSize |->
                      IF At(i) \in 1 .. count THEN first + At(i) - 1 ELSE b.data[i]]
<1>1. SendSize \in Nat /\ b.start \in Nat /\ b.length \in Nat /\ MaxOut \in Nat
  BY StreamConstants DEF Buffer
<1>2. b.data \in [1 .. SendSize -> 0 .. MaxOut]
  BY DEF Buffer
<1>3. c = [data |-> data, start |-> b.start, length |-> b.length + count]
  <2>1. b = [data |-> b.data, start |-> b.start, length |-> b.length]
    BY DEF Buffer
  <2>2. c = [b EXCEPT !.data = data, !.length = b.length + count]
    BY <2>1 DEF Appended
  <2> HIDE DEF data, c
  <2> QED BY <2>1, <2>2
<1>4. data \in [1 .. SendSize -> 0 .. MaxOut]
  <2> SUFFICES ASSUME NEW i \in 1 .. SendSize, At(i) \in 1 .. count
               PROVE  first + At(i) - 1 \in 0 .. MaxOut
    BY <1>2
  <2> QED BY <1>1
<1>5. b.length + count \in 0 .. SendSize
  BY <1>1
<1>6. ASSUME NEW i \in 1 .. b.length
      PROVE  data[b.start + i] = b.data[b.start + i]
  <2>1. b.start + i \in 1 .. SendSize /\ At(b.start + i) \notin 1 .. count
    BY <1>1
  <2> QED BY <2>1
<1>7. ASSUME NEW k \in 1 .. count
      PROVE  data[b.start + b.length + k] = first + k - 1
  <2>1. b.start + b.length + k \in 1 .. SendSize /\ At(b.start + b.length + k) = k
    BY <1>1
  <2> QED BY <2>1
<1>8. b.start \in 0 .. SendSize
  BY DEF Buffer
<1> HIDE DEF data
<1>9. c \in Buffer
  BY <1>3, <1>4, <1>5, <1>8 DEF Buffer
<1> QED BY <1>3, <1>6, <1>7, <1>9

\* Adding a message drops it, or appends it where it stands or after moving the data.
LEMMA Adding ==
    ASSUME NEW b \in Buffer, b.start + b.length <= SendSize, NEW d \in Nat, Behind(b, d),
           NEW count \in Nat \ {0}, d + b.length + count <= MaxOut
    PROVE  LET c == addDataToInputBuffer(b, d + b.length + 1, count)
           IN  \/ c = b
               \/ /\ c # b /\ c \in Buffer
                  /\ c.start + c.length <= SendSize
                  /\ c.length = b.length + count
                  /\ Behind(c, d)
<1> DEFINE first == d + b.length + 1
           c == addDataToInputBuffer(b, first, count)
<1>1. SendSize \in Nat /\ b.start \in Nat /\ b.length \in Nat /\ MaxOut \in Nat
  BY StreamConstants DEF Buffer
<1>2. ASSUME NEW e \in Buffer, e.length = b.length, Behind(e, d),
             e.start + e.length + count <= SendSize, c = Appended(e, first, count)
      PROVE  /\ c # b /\ c \in Buffer
             /\ c.start + c.length <= SendSize
             /\ c.length = b.length + count
             /\ Behind(c, d)
  <2>0. /\ e.start \in Nat /\ e.length \in Nat
        /\ first \in Nat \ {0} /\ first + count - 1 <= MaxOut
    <3>1. e.start \in Nat /\ e.length \in Nat
      BY <1>1, <1>2 DEF Buffer
    <3>2. first \in Nat \ {0} /\ first + count - 1 = d + b.length + count
      BY <1>1
    <3> QED BY <3>1, <3>2
  <2>1. /\ c \in Buffer
        /\ c.start = e.start /\ c.length = e.length + count
        /\ \A i \in 1 .. e.length : c.data[e.start + i] = e.data[e.start + i]
        /\ \A k \in 1 .. count : c.data[e.start + e.length + k] = first + k - 1
    <3> HIDE DEF first, c
    <3> QED BY <1>2, <2>0, AppendedAdds
  <2>2. ASSUME NEW i \in 1 .. c.length
        PROVE  c.data[c.start + i] = d + i
    <3>1. CASE i \in 1 .. e.length
      BY <1>2, <2>1, <3>1 DEF Behind
    <3>2. CASE i \notin 1 .. e.length
      <4>1. PICK k \in Int : k = i - e.length
        BY <2>0, <2>1
      <4>2. /\ k \in 1 .. count /\ c.start + i = e.start + e.length + k
            /\ d + i = first + k - 1
        BY <1>1, <1>2, <2>0, <2>1, <3>2, <4>1
      <4> QED BY <2>1, <4>2
    <3> QED BY <3>1, <3>2
  <2>3. c.start + c.length <= SendSize /\ c.length = b.length + count /\ c.length # b.length
    BY <1>1, <1>2, <2>0, <2>1
  <2> QED BY <2>1, <2>2, <2>3 DEF Behind
<1>3. CASE FitsBehind(b, count)
  <2>1. c = Appended(b, first, count)
    BY <1>3 DEF addDataToInputBuffer
  <2>2. b.start + b.length + count <= SendSize
    BY <1>1, <1>3 DEF FitsBehind
  <2> QED BY <1>2, <2>1, <2>2
<1>4. CASE ~FitsBehind(b, count) /\ isAvailable(b, count)
  <2> DEFINE e == Compacted(b)
  <2>1. c = Appended(e, first, count)
    BY <1>4 DEF addDataToInputBuffer
  <2>2. /\ e \in Buffer /\ e.start = 0 /\ e.length = b.length
        /\ \A i \in 1 .. b.length : e.data[i] = b.data[b.start + i]
    BY CompactedKeeps
  <2> HIDE DEF e
  <2>3. Behind(e, d)
    <3> SUFFICES ASSUME NEW i \in 1 .. b.length
                 PROVE  e.data[0 + i] = d + i
      BY <2>2 DEF Behind
    <3>1. 0 + i = i
      BY <1>1
    <3> QED BY <2>2, <3>1 DEF Behind
  <2>4. e.start + e.length + count <= SendSize
    BY <1>1, <1>4, <2>2 DEF isAvailable
  <2> QED BY <1>2, <2>1, <2>2, <2>3, <2>4
<1>5. CASE ~FitsBehind(b, count) /\ ~isAvailable(b, count)
  BY <1>5 DEF addDataToInputBuffer
<1> QED BY <1>3, <1>4, <1>5

\* Sending a message leaves what the sending thread has seen of the buffer, or says
\* that it has moved.
LEMMA SendPacketKeeps ==
    ASSUME TypeOK, SendInv, client = "connected",
           NEW size \in BodySizes, WithinBound(size), sendPacket(size),
           UNCHANGED <<client, delivered>>
    PROVE  /\ SendInv'
           /\ dead' \in BOOLEAN /\ accepted' \in 0 .. MaxOut /\ accepted' >= accepted
           /\ out' \in Buffer /\ out'.start + out'.length <= SendSize
           /\ receiver'.pc = receiver.pc
           /\ receiver' \in [pc: {"idle", "copying", "sent"}, start: 0 .. SendSize,
                             count: 0 .. SendSize, moved: BOOLEAN]
<1> DEFINE d == delivered - Taken
           count == HeaderSize + size
           b == addDataToInputBuffer(out, accepted + 1, count)
<1>1. /\ out \in Buffer /\ out.start + out.length <= SendSize
      /\ accepted \in Nat /\ MaxOut \in Nat /\ SendSize \in Nat
      /\ receiver \in [pc: {"idle", "copying", "sent"}, start: 0 .. SendSize,
                       count: 0 .. SendSize, moved: BOOLEAN]
      /\ delivered \in Nat /\ out.length \in Nat /\ Taken \in Nat
      /\ count \in Nat \ {0} /\ accepted + count <= MaxOut
  <2>1. SendSize \in Nat /\ MaxOut \in Nat /\ HeaderSize \in Nat \ {0} /\ size \in Nat
    BY StreamConstants
  <2>2. /\ out \in Buffer /\ out.start + out.length <= SendSize
        /\ receiver \in [pc: {"idle", "copying", "sent"}, start: 0 .. SendSize,
                         count: 0 .. SendSize, moved: BOOLEAN]
    BY DEF TypeOK, Buffer
  <2>3. out.length \in Nat /\ receiver.count \in Nat
    BY <2>1, <2>2 DEF Buffer
  <2>4. accepted \in Nat /\ delivered \in Nat
    BY <2>1 DEF TypeOK
  <2>5. count \in Nat \ {0} /\ accepted + count <= MaxOut
    BY <2>1, <2>4 DEF WithinBound
  <2> QED BY <2>1, <2>2, <2>3, <2>4, <2>5 DEF Taken
<1>2. /\ Taken <= out.length /\ Taken <= delivered
      /\ delivered + out.length = accepted + Taken
      /\ Behind(out, d)
      /\ receiver.pc = "copying" => /\ receiver.count <= out.length
                                    /\ ~receiver.moved => receiver.start = out.start
  BY DEF SendInv
<1> HIDE DEF b, count
<1>3. d \in Nat /\ d + out.length = accepted
  <2>1. \A x, y, z, u \in Nat : y <= x /\ x + z = u + y => x - y \in Nat /\ (x - y) + z = u
    OBVIOUS
  <2> QED BY <1>1, <1>2, <2>1
<1>4. CASE UNCHANGED <<out, accepted, receiver>> /\ dead' \in {dead, TRUE}
  <2>1. dead' \in BOOLEAN
    BY <1>4 DEF TypeOK
  <2>2. accepted \in 0 .. MaxOut /\ accepted >= accepted
    BY <1>1 DEF TypeOK
  <2>3. SendInv'
    BY <1>4 DEF SendInv, Taken, Behind
  <2> QED BY <1>1, <1>4, <2>1, <2>2, <2>3
<1>5. CASE /\ out' = b
           /\ accepted' = IF b = out THEN accepted ELSE accepted + count
           /\ receiver' = [receiver EXCEPT
                  !.moved = @ \/ (receiver.pc = "copying" /\ b.start # out.start)]
           /\ dead' = dead
  <2>2. b = addDataToInputBuffer(out, d + out.length + 1, count) /\ d + out.length + count <= MaxOut
    BY <1>1, <1>3 DEF b
  <2> HIDE DEF d
  <2>3. \/ b = out
        \/ /\ b # out /\ b \in Buffer
           /\ b.start + b.length <= SendSize
           /\ b.length = out.length + count
           /\ Behind(b, d)
    BY <1>1, <1>2, <1>3, <2>2, Adding
  <2>4. /\ receiver'.pc = receiver.pc /\ receiver'.start = receiver.start
        /\ receiver'.count = receiver.count
        /\ receiver'.moved = (receiver.moved \/ (receiver.pc = "copying" /\ b.start # out.start))
        /\ receiver' \in [pc: {"idle", "copying", "sent"}, start: 0 .. SendSize,
                          count: 0 .. SendSize, moved: BOOLEAN]
    BY <1>1, <1>5
  <2>5. Taken' = Taken /\ d = delivered' - Taken'
    BY <2>4 DEF Taken, d
  <2>6. b \in Buffer /\ b.start + b.length <= SendSize /\ Behind(b, d)
    BY <1>1, <1>2, <2>3
  <2>7. b.length \in Nat /\ b.length >= out.length
        /\ delivered + b.length = accepted' + Taken
        /\ accepted' \in 0 .. MaxOut /\ accepted' >= accepted
    <3>1. CASE b = out
      BY <1>1, <1>2, <1>5, <3>1
    <3>2. CASE b # out
      <4>1. b.length = out.length + count /\ accepted' = accepted + count
        BY <1>5, <2>3, <3>2
      <4> QED BY <1>1, <1>2, <4>1
    <3> QED BY <3>1, <3>2
  <2>8. receiver'.pc = "copying" => /\ receiver'.count <= b.length
                                    /\ ~receiver'.moved => receiver'.start = b.start
    <3> SUFFICES ASSUME receiver.pc = "copying"
                 PROVE  /\ receiver.count <= b.length
                        /\ ~receiver'.moved => receiver.start = b.start
      BY <2>4
    <3>1. receiver.count \in Nat /\ receiver.count <= out.length
      BY <1>1, <1>2
    <3>2. receiver.count <= b.length
      BY <1>1, <2>7, <3>1
    <3> QED BY <1>2, <2>4, <3>2
  <2>9. SendInv'
    <3>1. Taken' <= out'.length /\ Taken' <= delivered'
      BY <1>1, <1>2, <1>5, <2>5, <2>7
    <3> QED BY <1>5, <2>5, <2>6, <2>7, <2>8, <3>1 DEF SendInv
  <2> QED BY <1>1, <1>5, <2>4, <2>6, <2>7, <2>9 DEF TypeOK
<1> QED BY <1>4, <1>5 DEF sendPacket, NoMessage, b, count

----------------------------------------------------------------------------
(* The threads *)

\* What is not a step of the receiving thread or a message leaves the send buffer
\* and what was seen of it alone.
LEMMA SendSame ==
    ASSUME SendInv, UNCHANGED <<client, output, receiver>>
    PROVE  SendInv'
BY DEF SendInv, Taken, Behind, output

\* The types of what the sending thread and the main thread share.
LEMMA SendTypes ==
    ASSUME TypeOK
    PROVE  /\ SendSize \in Nat /\ MaxOut \in Nat
           /\ out \in Buffer /\ out.start \in Nat /\ out.length \in Nat
           /\ out.start + out.length <= SendSize
           /\ receiver \in [pc: {"idle", "copying", "sent"}, start: 0 .. SendSize,
                            count: 0 .. SendSize, moved: BOOLEAN]
           /\ receiver.count \in Nat /\ Taken \in Nat
           /\ accepted \in Nat /\ delivered \in Nat
<1>1. SendSize \in Nat /\ MaxOut \in Nat
  BY StreamConstants
<1>2. /\ out \in Buffer /\ out.start + out.length <= SendSize
      /\ receiver \in [pc: {"idle", "copying", "sent"}, start: 0 .. SendSize,
                       count: 0 .. SendSize, moved: BOOLEAN]
  BY DEF TypeOK, Buffer
<1>3. out.start \in Nat /\ out.length \in Nat /\ receiver.count \in Nat
  BY <1>1, <1>2 DEF Buffer
<1>4. accepted \in Nat /\ delivered \in Nat
  BY <1>1 DEF TypeOK
<1> QED BY <1>1, <1>2, <1>3, <1>4 DEF Taken

\* What was taken is the front of the buffer, so removing as much leaves the rest.
LEMMA RemovesTaken ==
    ASSUME TypeOK, SendInv, client = "connected", receiver.pc = "sent"
    PROVE  LET b == removeDataFromInputBuffer(out, receiver.count)
           IN  /\ b \in Buffer /\ b.start + b.length <= SendSize
               /\ delivered + b.length = accepted
               /\ Behind(b, delivered)
<1> DEFINE b == removeDataFromInputBuffer(out, receiver.count)
<1>1. /\ SendSize \in Nat /\ out \in Buffer /\ out.start \in Nat /\ out.length \in Nat
      /\ out.start + out.length <= SendSize
      /\ receiver.count \in Nat /\ accepted \in Nat /\ delivered \in Nat
  BY SendTypes
<1>2. /\ receiver.count <= out.length /\ receiver.count <= delivered
      /\ delivered + out.length = accepted + receiver.count
      /\ Behind(out, delivered - receiver.count)
  BY DEF SendInv, Taken
<1>3. b = [data |-> out.data, start |-> out.start + receiver.count,
           length |-> out.length - receiver.count]
  BY <1>1, <1>2 DEF removeDataFromInputBuffer, Buffer
<1> HIDE DEF b
<1>4. ASSUME NEW i \in 1 .. b.length
      PROVE  b.data[b.start + i] = delivered + i
  <2> DEFINE j == receiver.count + i
  <2>1. j \in 1 .. out.length /\ b.start + i = out.start + j
        /\ delivered - receiver.count + j = delivered + i
    BY <1>1, <1>2, <1>3
  <2>2. b.data = out.data
    BY <1>3
  <2> HIDE DEF j
  <2> QED BY <1>2, <2>1, <2>2 DEF Behind
<1>5. /\ out.start + receiver.count \in 0 .. SendSize /\ out.length - receiver.count \in 0 .. SendSize
      /\ (out.start + receiver.count) + (out.length - receiver.count) <= SendSize
      /\ delivered + (out.length - receiver.count) = accepted
  BY <1>1, <1>2
<1>6. out.data \in [1 .. SendSize -> 0 .. MaxOut]
  BY <1>1 DEF Buffer
<1>7. b \in Buffer /\ b.start + b.length <= SendSize /\ delivered + b.length = accepted
  BY <1>3, <1>5, <1>6 DEF Buffer
<1>8. Behind(b, delivered)
  BY <1>4 DEF Behind
<1> QED BY <1>7, <1>8 DEF b

LEMMA SendStep ==
    ASSUME TypeOK, ThreadsInv, SendInv, [Next]_vars
    PROVE  SendInv'
<1> USE DEF output, state, network, input, history
<1>1. CASE receiveSendSocket
  <2>1. UNCHANGED <<client, output>>
    BY <1>1 DEF receiveSendSocket
  <2>2. CASE UNCHANGED receiver
    BY <2>1, <2>2, SendSame
  <2>3. CASE receiver' = [pc |-> "copying", start |-> out.start, count |-> out.length,
                          moved |-> FALSE]
    <3>1. out.length \in Nat /\ Taken = 0 /\ Taken' = 0
      BY <1>1, <2>3, SendTypes DEF receiveSendSocket, Taken
    <3> QED BY <2>1, <2>3, <3>1 DEF SendInv, Behind
  <2> QED BY <1>1, <2>2, <2>3 DEF receiveSendSocket, processSend
<1>2. CASE SendFails
  <2>1. receiver'.pc = "idle"
    BY <1>2, SendTypes DEF SendFails
  <2> QED BY <1>2, <2>1 DEF SendFails, SendInv, Behind, Taken
<1>3. ASSUME NEW k \in 1 .. receiver.count, SocketTakes(k)
      PROVE  SendInv'
  <2>1. /\ receiver.pc = "copying" /\ delivered' = delivered + k
        /\ receiver' = [receiver EXCEPT !.pc = "sent", !.count = k]
        /\ UNCHANGED <<client, out, accepted>>
    BY <1>3 DEF SocketTakes
  <2>2. /\ receiver.count \in Nat /\ delivered \in Nat /\ out.length \in Nat /\ accepted \in Nat
        /\ receiver'.pc = "sent" /\ receiver'.count = k
    BY <2>1, SendTypes
  <2>3. Taken = 0 /\ Taken' = k
    BY <2>1, <2>2 DEF Taken
  <2> SUFFICES ASSUME client = "connected"
               PROVE  SendInv'
    BY <2>1 DEF SendInv
  <2>4. /\ delivered + out.length = accepted + 0
        /\ Behind(out, delivered - 0)
        /\ receiver.count <= out.length
    BY <2>1, <2>3 DEF SendInv
  <2>5. k <= out.length /\ k <= delivered' /\ delivered' - k = delivered /\ delivered - 0 = delivered
        /\ delivered' + out.length = accepted + k
    BY <2>1, <2>2, <2>4
  <2>6. Behind(out', delivered' - k)
    BY <2>1, <2>4, <2>5
  <2> QED BY <2>1, <2>2, <2>3, <2>5, <2>6 DEF SendInv
<1>4. CASE notifyDataSended
  <2>1. /\ receiver.pc = "sent" /\ receiver'.pc = "idle"
        /\ out' = removeDataFromInputBuffer(out, receiver.count)
        /\ UNCHANGED <<client, accepted, delivered>>
    BY <1>4 DEF notifyDataSended
  <2>2. Taken' = 0
    BY <2>1 DEF Taken
  <2> SUFFICES ASSUME client = "connected"
               PROVE  SendInv'
    BY <2>1 DEF SendInv
  <2>3. /\ out' \in Buffer
        /\ delivered + out'.length = accepted
        /\ Behind(out', delivered)
    BY <2>1, RemovesTaken
  <2>4. /\ out'.length \in Nat /\ out'.length >= 0
        /\ delivered \in Nat /\ delivered >= 0 /\ delivered - 0 = delivered
        /\ accepted + 0 = accepted
    BY <2>3, SendTypes DEF Buffer
  <2> QED BY <2>1, <2>2, <2>3, <2>4 DEF SendInv
<1>5. CASE ExecutePacket
  <2>1. client = "connected" /\ UNCHANGED <<client, delivered>>
    BY <1>5 DEF ExecutePacket, ThreadsInv, TypeOK
  <2>2. ASSUME NEW size \in BodySizes, WithinBound(size), sendPacket(size)
        PROVE  SendInv'
    BY <2>1, <2>2, SendPacketKeeps
  <2>3. CASE NoMessage
    BY <2>1, <2>3, SendSame DEF NoMessage
  <2> QED BY <1>5, <2>2, <2>3 DEF ExecutePacket
<1>6. ASSUME NEW size \in BodySizes, SendMessage(size)
      PROVE  SendInv'
  BY <1>6, SendPacketKeeps DEF SendMessage
<1>7. CASE disconnectSocket
  BY <1>7 DEF disconnectSocket, SendInv
<1>8. CASE UNCHANGED vars
  BY <1>8, SendSame DEF vars
<1>9. ASSUME \/ \E kind \in Kinds : ClientSends(kind)
             \/ ClientCloses \/ Parsing
             \/ UpdateStarts \/ LockParse \/ NotifyPlayerOffline
             \/ \E t \in Elapsed : ExecuteEnds(t)
      PROVE  SendInv'
  <2>1. UNCHANGED <<client, output, receiver>>
    BY <1>9 DEF ClientSends, ClientCloses, Parsing, parseData, LookUpList, PushPacket,
       UpdateStarts, LockParse, NotifyPlayerOffline, ExecuteEnds
  <2> QED BY <2>1, SendSame
<1> QED BY <1>1, <1>2, <1>3, <1>4, <1>5, <1>6, <1>7, <1>8, <1>9 DEF Next, Receiving, Updating

LEMMA ThreadsStep ==
    ASSUME TypeOK, ThreadsInv, [Next]_vars
    PROVE  ThreadsInv'
<1> USE DEF output, state, network, input, history
<1>0. /\ client \in {"connected", "gone"} /\ write \in {0, 1}
      /\ lists \in [{0, 1} -> Seq(Packets)] /\ parser.packets \in Seq(Packets)
      /\ receiver \in [pc: {"idle", "copying", "sent"}, start: 0 .. SendSize,
                       count: 0 .. SendSize, moved: BOOLEAN]
      /\ parser \in [pc: {"idle", "pushing", "found"}, into: {0, 1}, packets: Seq(Packets)]
      /\ main \in [pc: {"idle", "executing", "locking", "locked"}, next: Nat, count: Nat]
  BY DEF TypeOK
<1>1. CASE PushPacket
  <2>1. /\ parser.pc = "found" /\ main.pc # "locked" /\ client = "connected"
        /\ UNCHANGED <<client, main, write, receiver>>
        /\ lists' = [lists EXCEPT ![parser.into] = Append(@, Head(parser.packets))]
        /\ parser' = [pc |-> IF Tail(parser.packets) = <<>> THEN "idle" ELSE "pushing",
                      into |-> 0, packets |-> Tail(parser.packets)]
    BY <1>0, <1>1 DEF PushPacket, ThreadsInv
  <2>2. parser.packets # <<>>
    BY <2>1 DEF ThreadsInv
  <2>3. Head(parser.packets) \in Packets
    BY <1>0, <2>2, HeadTailProperties
  <2>4. Len(lists'[Read]) >= Len(lists[Read])
    <3>1. Read \in {0, 1} /\ parser.into \in {0, 1}
      BY <1>0 DEF Read
    <3>2. Len(lists[Read]) \in Nat
      BY <1>0, <3>1, LenProperties
    <3>3. Len(Append(lists[Read], Head(parser.packets))) = Len(lists[Read]) + 1
      BY <1>0, <2>3, <3>1, AppendProperties
    <3> QED BY <1>0, <2>1, <3>1, <3>2, <3>3
  <2>5. main.pc = "executing" => main.count <= Len(lists'[Read])
    <3>1. Read \in {0, 1}
      BY <1>0 DEF Read
    <3>2. Len(lists[Read]) \in Nat /\ Len(lists'[Read]) \in Int
      <4>1. lists'[Read] \in Seq(Packets)
        BY <1>0, <2>1, <2>3, <3>1, AppendProperties
      <4> QED BY <1>0, <3>1, <4>1, LenProperties
    <3> QED BY <1>0, <2>4, <3>2 DEF ThreadsInv
  <2> QED BY <2>1, <2>5 DEF ThreadsInv, Read
<1>2. CASE UpdateStarts
  <2>1. CASE dead
    BY <1>0, <1>2, <2>1 DEF UpdateStarts, ThreadsInv, Read
  <2>2. CASE ~dead
    <3>1. /\ write' = 1 - write /\ lists' = lists
          /\ main' = [pc |-> "executing", next |-> 1, count |-> Len(lists[1 - write'])]
          /\ UNCHANGED <<client, receiver, parser>>
          /\ client = "connected"
      BY <1>2, <2>2 DEF UpdateStarts, Swapped, Read
    <3>2. 1 - write' \in {0, 1}
      BY <1>0, <3>1
    <3>3. Len(lists[1 - write']) \in Nat
      BY <1>0, <3>2, LenProperties
    <3>4. main'.next \in 1 .. main'.count + 1 /\ main'.count <= Len(lists'[1 - write'])
      BY <3>1, <3>3
    <3> QED BY <3>1, <3>4 DEF ThreadsInv, Read
  <2> QED BY <2>1, <2>2
<1>3. CASE ExecutePacket
  <2>1. /\ main.pc = "executing" /\ main.next <= main.count /\ client = "connected"
        /\ main' = [main EXCEPT !.next = @ + 1]
        /\ UNCHANGED <<client, parser, lists, write>>
    BY <1>0, <1>3 DEF ExecutePacket, ThreadsInv
  <2>2. main.next \in 1 .. main.count + 1 /\ main.count \in Nat
    BY <1>0, <2>1 DEF ThreadsInv
  <2>3. main'.next \in 1 .. main'.count + 1 /\ main'.count = main.count /\ main'.pc = "executing"
    BY <1>0, <2>1, <2>2
  <2> QED BY <2>1, <2>3 DEF ThreadsInv, Read
<1>4. ASSUME NEW t \in Elapsed, ExecuteEnds(t)
      PROVE  ThreadsInv'
  <2>1. main'.pc \in {"idle", "locking"} /\ client = "connected" /\ UNCHANGED <<client, parser, receiver>>
    BY <1>0, <1>4 DEF ExecuteEnds, ThreadsInv
  <2> QED BY <2>1 DEF ThreadsInv
<1>5. CASE receiveSendSocket
  <2>1. client = "connected" /\ UNCHANGED <<client, main, parser, lists, write>>
    BY <1>5 DEF receiveSendSocket
  <2> QED BY <2>1 DEF ThreadsInv, Read
<1>6. CASE parseData
  <2>1. /\ client = "connected" /\ main.pc # "locked" /\ UNCHANGED <<client, main, lists, write>>
        /\ parser'.pc = "idle" <=> parser'.packets = <<>>
    BY <1>0, <1>6 DEF parseData
  <2> QED BY <2>1 DEF ThreadsInv, Read
<1>7. CASE LookUpList
  <2>1. /\ parser.pc = "pushing" /\ UNCHANGED <<client, main, lists, write, receiver>>
        /\ parser'.pc = "found" /\ parser'.packets = parser.packets
    BY <1>0, <1>7 DEF LookUpList
  <2> QED BY <1>0, <2>1 DEF ThreadsInv, Read
<1>8. CASE LockParse
  BY <1>0, <1>8 DEF LockParse, ThreadsInv, Read
<1>9. CASE disconnectSocket
  BY <1>0, <1>9 DEF disconnectSocket, ThreadsInv, Read
<1>10. CASE SendFails
  BY <1>0, <1>10 DEF SendFails, ThreadsInv, Read
<1>11. ASSUME NEW k \in 1 .. receiver.count, SocketTakes(k)
       PROVE  ThreadsInv'
  <2>1. client = "connected" /\ UNCHANGED <<client, main, parser, lists, write>>
    BY <1>0, <1>11 DEF SocketTakes, ThreadsInv
  <2> QED BY <2>1 DEF ThreadsInv, Read
<1>12. CASE notifyDataSended
  BY <1>0, <1>12 DEF notifyDataSended, ThreadsInv, Read
<1>13. ASSUME NEW size \in BodySizes, SendMessage(size)
       PROVE  ThreadsInv'
  <2>1. client = "connected" /\ UNCHANGED <<client, main, parser, lists, write>>
    BY <1>13 DEF SendMessage
  <2> QED BY <2>1 DEF ThreadsInv, Read
<1>14. ASSUME (\E kind \in Kinds : ClientSends(kind)) \/ ClientCloses \/ NotifyPlayerOffline
              \/ UNCHANGED vars
       PROVE  ThreadsInv'
  <2>1. UNCHANGED <<client, main, parser, lists, write, receiver>>
    BY <1>14 DEF ClientSends, ClientCloses, NotifyPlayerOffline, vars
  <2> QED BY <2>1 DEF ThreadsInv, Read
<1> QED BY <1>1, <1>2, <1>3, <1>4, <1>5, <1>6, <1>7, <1>8, <1>9, <1>10, <1>11, <1>12, <1>13, <1>14
        DEF Next, Receiving, Parsing, Updating

----------------------------------------------------------------------------
(* The stream of pieces *)

\* The whole packets the pieces begin with are their first ones.
LEMMA WholeIs ==
    ASSUME NEW s \in Seq(Pieces)
    PROVE  /\ Whole(s) \in Nat /\ 2 * Whole(s) <= Len(s)
           /\ \A k \in 1 .. Whole(s) : s[2 * k - 1].part # "wrong"
<1> DEFINE Good(k) == 2 * k <= Len(s) /\ s[2 * k - 1].part # "wrong"
           D == {k \in 1 .. Len(s) : \A j \in 1 .. k : Good(j)}
<1>1. Len(s) \in Nat
  BY LenProperties
<1>2. D \subseteq 1 .. Len(s) /\ Whole(s) = Cardinality(D)
  BY DEF Whole
<1>3. ASSUME NEW k \in D, NEW j \in 1 .. k
      PROVE  j \in D
  <2>1. j \in 1 .. Len(s) /\ \A i \in 1 .. j : i \in 1 .. k
    BY <1>1
  <2> QED BY <2>1
<1>4. \A k \in D : k \in 1 .. k /\ Good(k)
  <2> SUFFICES ASSUME NEW k \in D PROVE k \in 1 .. k /\ Good(k)
    OBVIOUS
  <2>1. k \in 1 .. k
    BY <1>1
  <2> QED BY <2>1
<1> HIDE DEF D
<1>5. Cardinality(D) \in 0 .. Len(s) /\ D = 1 .. Cardinality(D)
  BY <1>1, <1>2, <1>3, NoGaps
<1>6. Whole(s) \in Nat /\ \A k \in 1 .. Whole(s) : Good(k)
  BY <1>2, <1>4, <1>5
<1>7. 2 * Whole(s) <= Len(s)
  <2>1. CASE Whole(s) = 0
    BY <1>1, <2>1
  <2>2. CASE Whole(s) # 0
    <3>1. Whole(s) \in 1 .. Whole(s)
      BY <1>6, <2>2
    <3> QED BY <1>6, <3>1
  <2> QED BY <2>1, <2>2
<1> QED BY <1>6, <1>7

\* One more packet at the end.
LEMMA PiecedMore ==
    ASSUME NEW s \in Seq(Pieces), NEW m \in Nat, NEW q \in Seq(Kinds), m <= Len(q), Pieced(s, m, q),
           NEW kind \in Kinds, NEW h \in Pieces, NEW b \in Pieces,
           h.n = Len(q) + 1, h.part = kind, b.n = Len(q) + 1
    PROVE  Pieced(Joined(s, <<h, b>>), m, Append(q, kind))
<1> DEFINE t == <<h, b>>
           u == Joined(s, t)
           q2 == Append(q, kind)
<1>0. PICK n \in Nat : n = Len(q)
  BY LenProperties
<1>1. t \in Seq(Pieces) /\ Len(t) = 2 /\ t[1] = h /\ t[2] = b
  OBVIOUS
<1>2. Len(s) = 2 * (n - m)
  BY <1>0 DEF Pieced
<1>3. /\ Len(q2) = n + 1 /\ q2[n + 1] = kind
      /\ \A i \in 1 .. n : q2[i] = q[i]
  BY <1>0, AppendProperties
<1> HIDE DEF t, q2
<1>4. /\ Len(u) = Len(s) + 2
      /\ \A i \in 1 .. Len(s) + 2 : u[i] = IF i <= Len(s) THEN s[i] ELSE t[i - Len(s)]
  <2>1. PICK x \in Seq(Pieces) : x = t
    BY <1>1
  <2>2. /\ Len(s \o x) = Len(s) + Len(x)
        /\ \A i \in 1 .. Len(s) + Len(x) : (s \o x)[i] = IF i <= Len(s) THEN s[i] ELSE x[i - Len(s)]
    BY ConcatProperties
  <2>3. u = s \o x
    BY <2>1 DEF Joined
  <2> HIDE DEF u
  <2> QED BY <1>1, <2>1, <2>2, <2>3
<1> HIDE DEF u
<1>5. ASSUME NEW k \in 1 .. n + 1 - m
      PROVE  u[2 * k - 1].n = m + k /\ u[2 * k - 1].part = q2[m + k] /\ u[2 * k].n = m + k
  <2>1. CASE k = n + 1 - m
    <3>1. /\ 2 * k - 1 \in 1 .. Len(s) + 2 /\ 2 * k \in 1 .. Len(s) + 2
          /\ ~(2 * k - 1 <= Len(s)) /\ ~(2 * k <= Len(s))
          /\ (2 * k - 1) - Len(s) = 1 /\ 2 * k - Len(s) = 2 /\ m + k = n + 1
      BY <1>0, <1>2, <2>1
    <3> QED BY <1>0, <1>1, <1>3, <1>4, <3>1
  <2>2. CASE k # n + 1 - m
    <3>1. /\ k \in 1 .. n - m /\ m + k \in 1 .. n
          /\ 2 * k - 1 \in 1 .. Len(s) + 2 /\ 2 * k \in 1 .. Len(s) + 2
          /\ 2 * k - 1 <= Len(s) /\ 2 * k <= Len(s)
      BY <1>0, <1>2, <2>2
    <3>2. s[2 * k - 1].n = m + k /\ s[2 * k - 1].part = q[m + k] /\ s[2 * k].n = m + k
      BY <1>0, <3>1 DEF Pieced
    <3> QED BY <1>3, <1>4, <3>1, <3>2
  <2> QED BY <2>1, <2>2
<1>6. Len(u) = 2 * (n + 1 - m)
  <2>1. Len(u) = 2 * (n - m) + 2
    BY <1>2, <1>4
  <2>2. 2 * (n - m) + 2 = 2 * (n + 1 - m)
    OBVIOUS
  <2> QED BY <2>1, <2>2
<1>7. Pieced(u, m, q2)
  BY <1>3, <1>5, <1>6 DEF Pieced
<1> QED BY <1>7 DEF u, t, q2

\* The pieces behind the first c packets.
Dropped(d, c) == SubSeq(d, 2 * c + 1, Len(d))

\* The first c packets of the pieces d are those behind the first m, of which q are the kinds.
FirstAre(d, c, m, q) ==
    \A k \in 1 .. c : /\ d[2 * k].n = m + k /\ d[2 * k - 1].n = m + k
                      /\ d[2 * k - 1].part = q[m + k]

\* Some packets less at the front.
LEMMA PiecedLess ==
    ASSUME NEW d \in Seq(Pieces), NEW w \in Seq(Pieces), NEW m \in Nat, NEW q \in Seq(Kinds), m <= Len(q),
           Pieced(Joined(d, w), m, q), NEW c \in Nat, 2 * c <= Len(d)
    PROVE  /\ m + c <= Len(q)
           /\ Dropped(d, c) \in Seq(Pieces)
           /\ Pieced(Joined(Dropped(d, c), w), m + c, q)
           /\ FirstAre(d, c, m, q)
<1> DEFINE s == Joined(d, w)
           e == SubSeq(d, 2 * c + 1, Len(d))
           t == Joined(e, w)
<1>0. PICK n \in Nat : n = Len(q)
  BY LenProperties
<1>1. Len(d) \in Nat /\ Len(w) \in Nat /\ m <= n
  BY <1>0, LenProperties
<1>2. /\ Len(s) = Len(d) + Len(w)
      /\ \A i \in 1 .. Len(d) + Len(w) : s[i] = IF i <= Len(d) THEN d[i] ELSE w[i - Len(d)]
  BY ConcatProperties DEF Joined
<1>3. /\ Len(s) = 2 * (n - m)
      /\ \A k \in 1 .. n - m : /\ s[2 * k - 1].n = m + k /\ s[2 * k - 1].part = q[m + k]
                                /\ s[2 * k].n = m + k
  BY <1>0 DEF Pieced
<1> HIDE DEF s
<1>4. /\ e \in Seq(Pieces) /\ Len(e) = Len(d) - 2 * c
      /\ \A i \in 1 .. Len(d) - 2 * c : e[i] = d[2 * c + i]
  <2>1. 2 * c + 1 \in Int /\ Len(d) \in Int /\ \A i \in 2 * c + 1 .. Len(d) : i \in 1 .. Len(d)
    BY <1>1
  <2>2. \A i \in 2 * c + 1 .. Len(d) : d[i] \in Pieces
    BY <2>1, ElementOfSeq
  <2>3. /\ e \in Seq(Pieces)
        /\ Len(e) = IF 2 * c + 1 <= Len(d) THEN Len(d) - (2 * c + 1) + 1 ELSE 0
        /\ \A i \in 1 .. Len(d) - (2 * c + 1) + 1 : e[i] = d[(2 * c + 1) + i - 1]
    BY <2>1, <2>2, SubSeqProperties
  <2>4. Len(e) = Len(d) - 2 * c /\ Len(d) - (2 * c + 1) + 1 = Len(d) - 2 * c
    <3>1. CASE 2 * c + 1 <= Len(d)
      <4>1. Len(e) = Len(d) - (2 * c + 1) + 1
        BY <2>3, <3>1
      <4> HIDE DEF e
      <4> QED BY <1>1, <4>1
    <3>2. CASE ~(2 * c + 1 <= Len(d))
      <4>1. Len(e) = 0
        BY <2>3, <3>2
      <4> HIDE DEF e
      <4> QED BY <1>1, <3>2, <4>1
    <3> QED BY <3>1, <3>2
  <2>5. \A i \in 1 .. Len(d) - 2 * c : (2 * c + 1) + i - 1 = 2 * c + i
    BY <1>1
  <2> HIDE DEF e
  <2> QED BY <2>3, <2>4, <2>5
<1> HIDE DEF e
<1>5. /\ Len(t) = Len(e) + Len(w)
      /\ \A i \in 1 .. Len(e) + Len(w) : t[i] = IF i <= Len(e) THEN e[i] ELSE w[i - Len(e)]
  BY <1>4, ConcatProperties DEF Joined
<1> HIDE DEF t
<1>6. ASSUME NEW i \in 1 .. Len(s) - 2 * c
      PROVE  t[i] = s[2 * c + i]
  <2>1. CASE i <= Len(e)
    <3>1. i \in 1 .. Len(e) + Len(w) /\ i \in 1 .. Len(d) - 2 * c /\ 2 * c + i \in 1 .. Len(d) + Len(w)
          /\ 2 * c + i <= Len(d)
      BY <1>1, <1>2, <1>4, <2>1
    <3> QED BY <1>2, <1>4, <1>5, <2>1, <3>1
  <2>2. CASE ~(i <= Len(e))
    <3>1. i \in 1 .. Len(e) + Len(w) /\ 2 * c + i \in 1 .. Len(d) + Len(w)
          /\ ~(2 * c + i <= Len(d)) /\ (2 * c + i) - Len(d) = i - Len(e)
      BY <1>1, <1>2, <1>4, <2>2
    <3> QED BY <1>2, <1>5, <2>2, <3>1
  <2> QED BY <2>1, <2>2
<1>7. m + c <= n /\ Len(t) = 2 * (n - (m + c))
  <2>1. Len(d) + Len(w) = 2 * (n - m)
    BY <1>2, <1>3
  <2>2. Len(t) = (Len(d) - 2 * c) + Len(w)
    BY <1>4, <1>5
  <2> QED BY <1>1, <2>1, <2>2
<1>8. ASSUME NEW k \in 1 .. n - (m + c)
      PROVE  /\ t[2 * k - 1].n = (m + c) + k /\ t[2 * k - 1].part = q[(m + c) + k]
             /\ t[2 * k].n = (m + c) + k
  <2>1. k \in Nat /\ k >= 1 /\ m + c + k <= n
    BY <1>7
  <2>2. Len(s) = 2 * (n - m)
    BY <1>3
  <2>3. /\ c + k \in 1 .. n - m /\ 2 * (c + k) - 1 = 2 * c + (2 * k - 1)
        /\ 2 * (c + k) = 2 * c + 2 * k /\ m + (c + k) = (m + c) + k
    BY <2>1
  <2>4. 2 * k - 1 \in 1 .. Len(s) - 2 * c /\ 2 * k \in 1 .. Len(s) - 2 * c
    BY <2>1, <2>2
  <2> QED BY <1>3, <1>6, <2>3, <2>4
<1>9. ASSUME NEW k \in 1 .. c
      PROVE  d[2 * k].n = m + k /\ d[2 * k - 1].n = m + k /\ d[2 * k - 1].part = q[m + k]
  <2>1. /\ k \in 1 .. n - m /\ 2 * k \in 1 .. Len(d) + Len(w) /\ 2 * k - 1 \in 1 .. Len(d) + Len(w)
        /\ 2 * k <= Len(d) /\ 2 * k - 1 <= Len(d)
    BY <1>1, <1>7
  <2> QED BY <1>2, <1>3, <2>1
<1>10. Pieced(t, m + c, q)
  BY <1>0, <1>7, <1>8 DEF Pieced
<1> QED BY <1>0, <1>4, <1>7, <1>9, <1>10 DEF Dropped, FirstAre, t, e, s

LEMMA JoinedTypes ==
    ASSUME NEW a \in Seq(Pieces), NEW b \in Seq(Pieces)
    PROVE  Joined(a, b) \in Seq(Pieces)
BY ConcatProperties DEF Joined

LEMMA JoinedAssociative ==
    ASSUME NEW a \in Seq(Pieces), NEW b \in Seq(Pieces), NEW c \in Seq(Pieces)
    PROVE  Joined(Joined(a, b), c) = Joined(a, Joined(b, c))
BY ConcatAssociative DEF Joined

\* The first k pieces of w are moved to the end of t, which gives t2 and w2.
Moved(t, w, k, t2, w2) == t2 = Joined(t, SubSeq(w, 1, k)) /\ w2 = SubSeq(w, k + 1, Len(w))

\* Receiving moves pieces between the parts of the stream, whose whole stays.
LEMMA ReceivingKeeps ==
    ASSUME NEW r \in Seq(Pieces), NEW t \in Seq(Pieces), NEW w \in Seq(Pieces),
           NEW k \in 1 .. Len(w), NEW t2, NEW w2, Moved(t, w, k, t2, w2)
    PROVE  /\ t2 \in Seq(Pieces) /\ w2 \in Seq(Pieces)
           /\ Joined(Joined(r, t2), w2) = Joined(Joined(r, t), w)
<1>1. Len(w) \in Nat /\ \A i \in 1 .. Len(w) : w[i] \in Pieces
  BY LenProperties, ElementOfSeq
<1>2. SubSeq(w, 1, k) \in Seq(Pieces)
  <2>1. 1 \in Int /\ k \in Int /\ \A i \in 1 .. k : w[i] \in Pieces
    BY <1>1
  <2> QED BY <2>1, SubSeqProperties
<1>3. SubSeq(w, k + 1, Len(w)) \in Seq(Pieces)
  <2>1. k + 1 \in Int /\ Len(w) \in Int /\ \A i \in k + 1 .. Len(w) : w[i] \in Pieces
    BY <1>1
  <2> QED BY <2>1, SubSeqProperties
<1>4. SubSeq(w, 1, k) \o SubSeq(w, k + 1, Len(w)) = w
  <2>1. 1 \in 1 .. Len(w) + 1 /\ k \in 1 - 1 .. Len(w) /\ Len(w) \in k .. Len(w)
    BY <1>1
  <2> QED BY <2>1, ConcatAdjacentSubSeq, SubSeqFull
<1>5. PICK x \in Seq(Pieces) : x = SubSeq(w, 1, k)
  BY <1>2
<1>6. PICK y \in Seq(Pieces) : y = SubSeq(w, k + 1, Len(w))
  BY <1>3
<1>7. Joined(x, y) = w
  BY <1>4, <1>5, <1>6 DEF Joined
<1>8. t2 = Joined(t, x) /\ w2 = y
  BY <1>5, <1>6 DEF Moved
<1>9. Joined(r, t2) = Joined(Joined(r, t), x)
  BY <1>8, JoinedAssociative
<1>10. Joined(Joined(Joined(r, t), x), y) = Joined(Joined(r, t), Joined(x, y))
  <2>1. Joined(r, t) \in Seq(Pieces)
    BY JoinedTypes
  <2> QED BY <2>1, JoinedAssociative
<1> QED BY <1>7, <1>8, <1>9, <1>10, JoinedTypes

----------------------------------------------------------------------------
(* What becomes of the packets *)

LEMMA PacketTypes ==
    ASSUME TypeOK
    PROVE  /\ recv \in Seq(Pieces) /\ temp \in Seq(Pieces) /\ wire \in Seq(Pieces)
           /\ Joined(recv, temp) \in Seq(Pieces) /\ Rest \in Seq(Pieces)
           /\ sent \in Seq(Kinds) /\ Len(sent) \in Nat /\ MaxIn \in Nat /\ Len(sent) <= MaxIn
           /\ DOMAIN sent = 1 .. Len(sent)
           /\ parser.packets \in Seq(Packets) /\ parser.into \in {0, 1}
           /\ lists \in [{0, 1} -> Seq(Packets)] /\ write \in {0, 1} /\ Read \in {0, 1}
           /\ main.next \in Nat /\ main.count \in Nat
           /\ \A i \in {0, 1} : lists[i] \in Seq(Packets) /\ Len(lists[i]) \in Nat
                                /\ DOMAIN lists[i] = 1 .. Len(lists[i])
<1>1. /\ recv \in Seq(Pieces) /\ temp \in Seq(Pieces) /\ wire \in Seq(Pieces)
      /\ sent \in Seq(Kinds) /\ Len(sent) <= MaxIn
      /\ lists \in [{0, 1} -> Seq(Packets)] /\ write \in {0, 1}
      /\ parser.packets \in Seq(Packets) /\ parser.into \in {0, 1}
      /\ main.next \in Nat /\ main.count \in Nat
  BY DEF TypeOK
<1>2. Joined(recv, temp) \in Seq(Pieces)
  BY <1>1, JoinedTypes
<1>3. Rest \in Seq(Pieces)
  BY <1>1, <1>2, JoinedTypes DEF Rest
<1>4. \A i \in {0, 1} : lists[i] \in Seq(Packets)
  BY <1>1
<1>5. \A i \in {0, 1} : Len(lists[i]) \in Nat /\ DOMAIN lists[i] = 1 .. Len(lists[i])
  BY <1>4, LenProperties
<1>6. MaxIn \in Nat
  BY StreamConstants
<1>7. Len(sent) \in Nat /\ DOMAIN sent = 1 .. Len(sent)
  BY <1>1, LenProperties
<1> QED BY <1>1, <1>2, <1>3, <1>4, <1>5, <1>6, <1>7 DEF Read

\* The lists stay in order while nothing is appended, cleared or executed.
LEMMA ListsSame ==
    ASSUME ListsInv, lists' = lists, Past' = Past,
           main.pc # "executing" \/ UNCHANGED <<main, write>>
    PROVE  ListsInv'
BY DEF ListsInv, Read

\* What was parsed stays as it was sent while nothing is sent, parsed or moved.
LEMMA FaithfulSame ==
    ASSUME Faithful, UNCHANGED <<sent, lists, parser.packets>>
    PROVE  Faithful'
BY DEF Faithful, AsSent

LEMMA PacketSame ==
    ASSUME PacketInv, UNCHANGED <<client, sent, lists, parser.packets>>, Rest' = Rest,
           Past' = Past, main.pc # "executing" \/ UNCHANGED <<main, write>>
    PROVE  PacketInv'
<1> SUFFICES ASSUME client = "connected"
             PROVE  PacketInv'
  BY DEF PacketInv
<1>1. PICK m \in 0 .. Len(sent) : Pieced(Rest, m, sent) /\ Sorted(m - Len(parser.packets))
  BY DEF PacketInv
<1>2. ListsInv'
  BY ListsSame DEF PacketInv
<1>3. Sorted(m - Len(parser.packets))'
  BY <1>1 DEF Sorted
<1>4. Pieced(Rest', m, sent')
  BY <1>1
<1>5. m \in 0 .. Len(sent')
  BY <1>1
<1>6. Faithful'
  BY FaithfulSame DEF PacketInv
<1> QED BY <1>2, <1>3, <1>4, <1>5, <1>6 DEF PacketInv

LEMMA ClientSendsStep ==
    ASSUME TypeOK, PacketInv, NEW kind \in Kinds, ClientSends(kind)
    PROVE  /\ wire' \in Seq(Pieces) /\ sent' \in Seq(Kinds) /\ Len(sent') <= MaxIn
           /\ PacketInv'
<1> DEFINE h == [n |-> Len(sent) + 1, part |-> kind]
           b == [n |-> Len(sent) + 1, part |-> "body"]
<1>1. /\ client = "connected" /\ Len(sent) < MaxIn /\ sent' = Append(sent, kind)
      /\ wire' = wire \o <<h, b>>
      /\ UNCHANGED <<client, temp, recv, lists, write, parser, main, executed, lost>>
  BY DEF ClientSends, state, input, history
<1>2. /\ sent' \in Seq(Kinds) /\ Len(sent') = Len(sent) + 1
      /\ DOMAIN sent \subseteq DOMAIN sent' /\ \A i \in DOMAIN sent : sent'[i] = sent[i]
  <2>1. sent \in Seq(Kinds) /\ Len(sent) \in Nat /\ DOMAIN sent = 1 .. Len(sent)
    BY PacketTypes
  <2>2. /\ Append(sent, kind) \in Seq(Kinds) /\ Len(Append(sent, kind)) = Len(sent) + 1
        /\ \A i \in 1 .. Len(sent) : Append(sent, kind)[i] = sent[i]
    BY <2>1, AppendProperties
  <2>3. DOMAIN Append(sent, kind) = 1 .. Len(sent) + 1
    BY <2>2, LenProperties
  <2> QED BY <1>1, <2>1, <2>2, <2>3
<1>3. /\ h \in Pieces /\ b \in Pieces /\ h.n = Len(sent) + 1 /\ b.n = Len(sent) + 1
      /\ h.part = kind
  <2>1. Len(sent) + 1 \in 1 .. MaxIn
    BY <1>1, PacketTypes
  <2> QED BY <2>1 DEF Pieces
<1> HIDE DEF h, b
<1>4. <<h, b>> \in Seq(Pieces)
  BY <1>3
<1>5. wire' \in Seq(Pieces)
  BY <1>1, <1>4, PacketTypes, ConcatProperties
<1>6. Rest' = Joined(Rest, <<h, b>>)
  <2>1. Joined(Joined(Joined(recv, temp), wire), <<h, b>>)
          = Joined(Joined(recv, temp), Joined(wire, <<h, b>>))
    <3>1. PICK t \in Seq(Pieces) : t = <<h, b>>
      BY <1>4
    <3>2. Joined(recv, temp) \in Seq(Pieces) /\ wire \in Seq(Pieces)
      BY PacketTypes
    <3>3. Joined(Joined(Joined(recv, temp), wire), t) = Joined(Joined(recv, temp), Joined(wire, t))
      BY <3>2, JoinedAssociative
    <3> QED BY <3>1, <3>3
  <2>2. Rest' = Joined(Joined(recv, temp), Joined(wire, <<h, b>>))
    BY <1>1 DEF Rest, Joined
  <2> QED BY <2>1, <2>2 DEF Rest
<1>7. PICK m \in 0 .. Len(sent) : Pieced(Rest, m, sent) /\ Sorted(m - Len(parser.packets))
  BY <1>1 DEF PacketInv
<1>8. Pieced(Rest', m, sent')
  <2>1. m \in Nat /\ m <= Len(sent) /\ sent \in Seq(Kinds) /\ Rest \in Seq(Pieces)
    BY PacketTypes
  <2> QED BY <1>1, <1>3, <1>6, <1>7, <2>1, PiecedMore
<1>9. Sorted(m - Len(parser.packets))' /\ ListsInv'
  BY <1>1, <1>7, ListsSame DEF Sorted, Past, PacketInv
<1>10. m \in 0 .. Len(sent') /\ Len(sent') <= MaxIn
  BY <1>1, <1>2, PacketTypes
<1>11. Faithful'
  <2>1. Faithful
    BY <1>1 DEF PacketInv
  <2>2. \A x : x.n \in DOMAIN sent /\ x.body = x.n /\ x.kind = sent[x.n]
               => x.n \in DOMAIN sent' /\ x.body = x.n /\ x.kind = sent'[x.n]
    BY <1>2
  <2>3. UNCHANGED <<lists, parser>>
    BY <1>1
  <2> QED BY <2>1, <2>2, <2>3 DEF Faithful, AsSent
<1> QED BY <1>2, <1>5, <1>8, <1>9, <1>10, <1>11 DEF PacketInv

\* Receiving moves pieces from the socket to the buffer, or does nothing.
LEMMA ProcessRecvKeeps ==
    ASSUME TypeOK, processRecv, recv' = recv
    PROVE  /\ Rest' = Rest
           /\ wire' \in Seq(Pieces) /\ temp' \in Seq(Pieces) /\ dead' \in BOOLEAN
<1>0. dead \in BOOLEAN
  BY DEF TypeOK
<1>1. CASE UNCHANGED <<wire, temp>> /\ (dead' = dead \/ dead' = TRUE)
  BY <1>0, <1>1, PacketTypes DEF Rest
<1>2. CASE /\ \E k \in 1 .. Len(wire) : /\ temp' = temp \o SubSeq(wire, 1, k)
                                        /\ wire' = SubSeq(wire, k + 1, Len(wire))
           /\ UNCHANGED dead
  <2>1. PICK k \in 1 .. Len(wire) : Moved(temp, wire, k, temp', wire')
    BY <1>2 DEF Moved, Joined
  <2>2. recv \in Seq(Pieces) /\ temp \in Seq(Pieces) /\ wire \in Seq(Pieces)
    BY PacketTypes
  <2>3. /\ temp' \in Seq(Pieces) /\ wire' \in Seq(Pieces)
        /\ Joined(Joined(recv, temp'), wire') = Joined(Joined(recv, temp), wire)
    BY <2>1, <2>2, ReceivingKeeps
  <2> QED BY <1>0, <1>2, <2>1, <2>3 DEF Rest
<1> QED BY <1>1, <1>2 DEF processRecv

\* The packets the stream begins with go to the parsing thread.
LEMMA ParseStep ==
    ASSUME TypeOK, ThreadsInv, PacketInv, parseData
    PROVE  /\ recv' \in Seq(Pieces) /\ temp' \in Seq(Pieces)
           /\ parser'.packets \in Seq(Packets)
           /\ PacketInv'
<1> DEFINE data == recv \o temp
           c == Whole(data)
           packets == [k \in 1 .. c |-> [n |-> data[2 * k - 1].n, kind |-> data[2 * k - 1].part,
                                  body |-> data[2 * k].n]]
<1>1. /\ client = "connected" /\ parser.pc = "idle"
      /\ temp' = <<>> /\ recv' = Unparsed(data) /\ parser'.packets = packets
      /\ UNCHANGED <<client, wire, sent, lists, write, main, executed, lost>>
  BY DEF parseData, network, history, TypeOK
<1>2. data = Joined(recv, temp) /\ data \in Seq(Pieces)
  BY PacketTypes DEF Joined
<1>3. /\ c \in Nat /\ 2 * c <= Len(data)
      /\ \A k \in 1 .. c : data[2 * k - 1].part # "wrong"
  BY <1>2, WholeIs
<1>4. PICK m \in 0 .. Len(sent) : Pieced(Rest, m, sent) /\ Sorted(m - Len(parser.packets))
  BY <1>1 DEF PacketInv
<1>5. m \in Nat /\ sent \in Seq(Kinds) /\ Len(sent) \in Nat /\ m <= Len(sent) /\ wire \in Seq(Pieces)
  BY PacketTypes
<1> DEFINE e == Dropped(data, c)
<1> HIDE DEF data, c
<1>6. Pieced(Joined(data, wire), m, sent)
  BY <1>2, <1>4 DEF Rest
<1>7. /\ m + c <= Len(sent) /\ e \in Seq(Pieces) /\ Pieced(Joined(e, wire), m + c, sent)
      /\ FirstAre(data, c, m, sent)
  <2>1. PICK d \in Seq(Pieces), k \in Nat : d = data /\ k = c
    BY <1>2, <1>3
  <2>2. PICK q \in Seq(Kinds), w \in Seq(Pieces) : q = sent /\ w = wire
    BY <1>5
  <2> HIDE DEF packets, e
  <2>3. Pieced(Joined(d, w), m, q) /\ 2 * k <= Len(d) /\ m \in Nat /\ m <= Len(q)
    BY <1>3, <1>5, <1>6, <2>1, <2>2
  <2>4. /\ m + k <= Len(q) /\ Dropped(d, k) \in Seq(Pieces)
        /\ Pieced(Joined(Dropped(d, k), w), m + k, q)
        /\ FirstAre(d, k, m, q)
    BY <2>3, PiecedLess
  <2> QED BY <2>1, <2>2, <2>4 DEF e
<1>8. recv' = e
  BY <1>1 DEF Unparsed, Dropped, c, e
<1> HIDE DEF e
<1>9. Rest' = Joined(e, wire)
  <2>1. Joined(e, <<>>) = e
    BY <1>7, ConcatEmptySeq DEF Joined
  <2> QED BY <1>1, <1>8, <2>1 DEF Rest
<1>10. packets \in Seq(Packets) /\ Len(packets) = c /\ DOMAIN packets = 1 .. c
       /\ \A k \in 1 .. c : packets[k].n = m + k /\ AsSent(packets[k])
  <2>1. ASSUME NEW k \in 1 .. c
        PROVE  /\ packets[k] \in Packets
               /\ packets[k].n = m + k /\ AsSent(packets[k])
    <3>0. PICK n \in Nat, x \in Nat : n = Len(sent) /\ x = c /\ m + x <= n /\ n <= MaxIn
      BY <1>3, <1>5, <1>7, PacketTypes
    <3>1. m + k \in 1 .. MaxIn /\ m + k \in 1 .. Len(sent)
      <4>1. k \in 1 .. x /\ MaxIn \in Nat /\ m \in Nat
        BY <1>5, <3>0, PacketTypes
      <4>2. m + k \in 1 .. MaxIn /\ m + k \in 1 .. n
        BY <3>0, <4>1
      <4> QED BY <3>0, <4>2
    <3>2. m + k \in DOMAIN sent /\ sent[m + k] \in Kinds
      BY <1>5, <3>1, LenProperties, ElementOfSeq
    <3>3. packets[k] = [n |-> m + k, kind |-> sent[m + k], body |-> m + k]
      BY <1>7 DEF FirstAre
    <3> HIDE DEF packets
    <3> QED BY <3>1, <3>2, <3>3 DEF Packets, AsSent
  <2>2. packets \in [1 .. c -> Packets]
    BY <2>1
  <2>3. DOMAIN packets = 1 .. c
    OBVIOUS
  <2> HIDE DEF packets
  <2>5. packets \in Seq(Packets)
    BY <1>3, <2>2, SeqDef
  <2>6. Len(packets) = c
    BY <1>3, <2>3, <2>5, LenProperties
  <2> QED BY <2>1, <2>3, <2>5, <2>6
<1> HIDE DEF packets
<1>11. parser.packets = <<>>
  BY <1>1 DEF ThreadsInv
<1>12. Sorted(m)'
  <2>1. Sorted(m)
    <3>1. m - Len(parser.packets) = m
      BY <1>5, <1>11
    <3> QED BY <1>4, <3>1
  <2>2. Past' = Past /\ lists' = lists
    BY <1>1 DEF Past
  <2>3. \A k \in DOMAIN parser'.packets : parser'.packets[k].n = m + k
    BY <1>1, <1>10
  <2> QED BY <2>1, <2>2, <2>3 DEF Sorted
<1>13. ListsInv'
  BY <1>1, ListsSame DEF PacketInv, Past
<1>14. /\ m + c \in 0 .. Len(sent') /\ Pieced(Rest', m + c, sent')
       /\ (m + c) - Len(parser'.packets) = m
  BY <1>1, <1>3, <1>5, <1>7, <1>9, <1>10
<1>15. Faithful'
  <2>1. Faithful
    BY <1>1 DEF PacketInv
  <2>2. UNCHANGED <<sent, lists>>
    BY <1>1
  <2>3. \A k \in DOMAIN parser'.packets : AsSent(parser'.packets[k])
    BY <1>1, <1>10
  <2> QED BY <2>1, <2>2, <2>3 DEF Faithful, AsSent
<1>17. PacketInv'
  BY <1>12, <1>13, <1>14, <1>15 DEF PacketInv
<1>16. temp' \in Seq(Pieces)
  BY <1>1
<1> QED BY <1>1, <1>7, <1>8, <1>10, <1>16, <1>17

\* The first packet of the parsing thread goes to a list.
LEMMA PushStep ==
    ASSUME TypeOK, ThreadsInv, PacketInv, PushPacket
    PROVE  /\ parser'.packets \in Seq(Packets) /\ lists' \in [{0, 1} -> Seq(Packets)]
           /\ PacketInv'
<1> DEFINE packets == parser.packets
           x == Head(packets)
           to == parser.into
<1>1. /\ parser.pc = "found" /\ client = "connected"
      /\ lists' = [lists EXCEPT ![to] = Append(@, x)]
      /\ parser'.packets = Tail(packets)
      /\ UNCHANGED <<client, wire, temp, recv, sent, write, main, executed, lost>>
  BY DEF PushPacket, network, history, state, TypeOK, ThreadsInv
<1>2. packets # <<>> /\ packets \in Seq(Packets) /\ to \in {0, 1}
  BY <1>1, PacketTypes DEF ThreadsInv
<1>3. Len(packets) \in Nat /\ Len(packets) # 0 /\ DOMAIN packets = 1 .. Len(packets)
  BY <1>2, LenProperties, EmptySeq
<1>4. /\ x \in Packets /\ x = packets[1] /\ Tail(packets) \in Seq(Packets)
      /\ Len(Tail(packets)) = Len(packets) - 1
      /\ DOMAIN Tail(packets) = 1 .. Len(packets) - 1
      /\ \A k \in 1 .. Len(packets) - 1 : Tail(packets)[k] = packets[k + 1]
  <2>1. /\ Head(packets) \in Packets
        /\ Tail(packets) \in Seq(Packets)
        /\ Len(Tail(packets)) = Len(packets) - 1
        /\ \A k \in 1 .. Len(Tail(packets)) : Tail(packets)[k] = packets[k + 1]
    BY <1>2, HeadTailProperties
  <2>2. DOMAIN Tail(packets) = 1 .. Len(Tail(packets))
    BY <2>1, LenProperties
  <2>3. Head(packets) = packets[1]
    BY <1>2, <1>3
  <2> QED BY <2>1, <2>2, <2>3
<1>5. lists \in [{0, 1} -> Seq(Packets)]
  BY PacketTypes
<1>6. PICK m \in 0 .. Len(sent) : Pieced(Rest, m, sent) /\ Sorted(m - Len(parser.packets))
  BY <1>1 DEF PacketInv
<1>7. m \in Nat /\ ListsInv
  BY <1>1, PacketTypes DEF PacketInv
<1> HIDE DEF packets, x, to
<1>8. /\ Append(lists[to], x) \in Seq(Packets)
      /\ DOMAIN Append(lists[to], x) = 1 .. Len(lists[to]) + 1
      /\ DOMAIN lists[to] = 1 .. Len(lists[to]) /\ Len(lists[to]) \in Nat
      /\ Append(lists[to], x)[Len(lists[to]) + 1] = x
      /\ \A j \in DOMAIN lists[to] : Append(lists[to], x)[j] = lists[to][j]
  <2>1. lists[to] \in Seq(Packets)
    BY <1>2, <1>5
  <2>2. Len(lists[to]) \in Nat /\ DOMAIN lists[to] = 1 .. Len(lists[to])
    BY <2>1, LenProperties
  <2>3. /\ Append(lists[to], x) \in Seq(Packets)
        /\ Len(Append(lists[to], x)) = Len(lists[to]) + 1
        /\ \A j \in 1 .. Len(lists[to]) : Append(lists[to], x)[j] = lists[to][j]
        /\ Append(lists[to], x)[Len(lists[to]) + 1] = x
    BY <1>4, <2>1, AppendProperties
  <2>4. DOMAIN Append(lists[to], x) = 1 .. Len(Append(lists[to], x))
    BY <2>3, LenProperties
  <2> QED BY <2>2, <2>3, <2>4
<1>9. lists' \in [{0, 1} -> Seq(Packets)]
  BY <1>1, <1>2, <1>5, <1>8
\* Every entry of the lists is an old one or the new one.
<1> DEFINE New(i, j) == i = to /\ j = Len(lists[to]) + 1
<1>10. ASSUME NEW i \in {0, 1}, NEW j \in DOMAIN lists'[i]
       PROVE  \/ New(i, j) /\ lists'[i][j] = x
              \/ j \in DOMAIN lists[i] /\ lists'[i][j] = lists[i][j]
  <2>1. CASE i = to
    <3>1. lists'[i] = Append(lists[to], x)
      BY <1>1, <1>5, <2>1
    <3>2. j \in 1 .. Len(lists[to]) + 1
      BY <1>8, <3>1
    <3>3. j \in DOMAIN lists[to] \/ j = Len(lists[to]) + 1
      BY <1>8, <3>2
    <3> QED BY <1>8, <2>1, <3>1, <3>3
  <2>2. CASE i # to
    BY <1>1, <1>5, <2>2
  <2> QED BY <2>1, <2>2
<1>11. PICK pushed \in Nat :
          /\ pushed = m - Len(packets)
          /\ \A k \in DOMAIN packets : packets[k].n = pushed + k
          /\ \A y \in Past : y.n <= pushed
          /\ \A i \in {0, 1} : \A j \in DOMAIN lists[i] : lists[i][j].n <= pushed
  BY <1>6 DEF Sorted, packets
<1>12. m - Len(parser'.packets) = pushed + 1
  BY <1>1, <1>3, <1>4, <1>7, <1>11
<1>13. x.n = pushed + 1
  <2>1. 1 \in DOMAIN packets
    BY <1>3
  <2> QED BY <1>4, <1>11, <2>1
<1>14. Past' = Past
  BY <1>1 DEF Past
<1>15. \A y \in Past : y.n \in Nat
  <2>1. Past \subseteq Packets
    BY DEF Past, TypeOK
  <2> QED BY <2>1, PacketTypes DEF Packets
<1>16. \A i \in {0, 1} : \A j \in DOMAIN lists[i] : lists[i][j].n \in Nat
  <2> SUFFICES ASSUME NEW i \in {0, 1}, NEW j \in DOMAIN lists[i]
               PROVE  lists[i][j].n \in Nat
    OBVIOUS
  <2>1. lists[i] \in Seq(Packets)
    BY <1>5
  <2>2. lists[i][j] \in Packets
    BY <2>1, LenProperties, ElementOfSeq
  <2> QED BY <2>2, PacketTypes DEF Packets
<1>17. Sorted(pushed + 1)'
  <2>1. \A k \in DOMAIN parser'.packets : parser'.packets[k].n = (pushed + 1) + k
    <3> SUFFICES ASSUME NEW k \in 1 .. Len(packets) - 1
                 PROVE  packets[k + 1].n = (pushed + 1) + k
      BY <1>1, <1>4
    <3>1. k + 1 \in DOMAIN packets /\ pushed + (k + 1) = (pushed + 1) + k
      BY <1>3, <1>11
    <3> QED BY <1>11, <3>1
  <2>2. \A y \in Past : y.n <= pushed + 1
    BY <1>11, <1>15
  <2>3. \A i \in {0, 1} : \A j \in DOMAIN lists'[i] : lists'[i][j].n <= pushed + 1
    <3> SUFFICES ASSUME NEW i \in {0, 1}, NEW j \in DOMAIN lists'[i]
                 PROVE  lists'[i][j].n <= pushed + 1
      OBVIOUS
    <3>1. CASE lists'[i][j] = x
      BY <1>11, <1>13, <3>1
    <3>2. CASE j \in DOMAIN lists[i] /\ lists'[i][j] = lists[i][j]
      BY <1>11, <1>16, <3>2
    <3> QED BY <1>10, <3>1, <3>2
  <2>4. pushed + 1 \in Nat
    BY <1>11
  <2> QED BY <1>14, <2>1, <2>2, <2>3, <2>4 DEF Sorted
<1>18. ListsInv'
  <2>1. ASSUME NEW i \in {0, 1}, NEW j \in DOMAIN lists'[i], lists'[i][j] \in Past
        PROVE  main.pc = "executing" /\ i = Read /\ j < main.next
    <3>1. lists'[i][j] # x
      BY <1>11, <1>13, <2>1
    <3>2. j \in DOMAIN lists[i] /\ lists'[i][j] = lists[i][j]
      BY <1>10, <3>1
    <3> QED BY <1>7, <2>1, <3>2 DEF ListsInv
  <2>2. ASSUME NEW i \in {0, 1}, NEW j \in DOMAIN lists'[i],
               NEW i2 \in {0, 1}, NEW j2 \in DOMAIN lists'[i2], lists'[i][j].n = lists'[i2][j2].n
        PROVE  i = i2 /\ j = j2
    <3>1. CASE New(i, j) /\ lists'[i][j] = x
      <4>1. ~(j2 \in DOMAIN lists[i2] /\ lists'[i2][j2] = lists[i2][j2])
        BY <1>11, <1>13, <2>2, <3>1
      <4> QED BY <1>10, <3>1, <4>1
    <3>2. CASE j \in DOMAIN lists[i] /\ lists'[i][j] = lists[i][j]
      <4>1. lists'[i2][j2] # x
        BY <1>11, <1>13, <2>2, <3>2
      <4>2. j2 \in DOMAIN lists[i2] /\ lists'[i2][j2] = lists[i2][j2]
        BY <1>10, <4>1
      <4> QED BY <1>7, <2>2, <3>2, <4>2 DEF ListsInv
    <3> QED BY <1>10, <3>1, <3>2
  <2>3. Read' = Read
    BY <1>1 DEF Read
  <2> QED BY <1>1, <1>14, <2>1, <2>2, <2>3 DEF ListsInv
<1>19. Rest' = Rest /\ sent' = sent
  BY <1>1 DEF Rest
<1>20. Pieced(Rest', m, sent') /\ m \in 0 .. Len(sent')
  BY <1>6, <1>19
<1>21. Faithful'
  <2>1. Faithful
    BY <1>1 DEF PacketInv
  <2>2. \A k \in DOMAIN packets : AsSent(packets[k])
    BY <2>1 DEF Faithful, packets
  <2>3. \A k \in DOMAIN parser'.packets : AsSent(parser'.packets[k])
    <3> SUFFICES ASSUME NEW k \in 1 .. Len(packets) - 1
                 PROVE  AsSent(packets[k + 1])
      BY <1>1, <1>4
    <3>1. k + 1 \in DOMAIN packets
      BY <1>3
    <3> QED BY <2>2, <3>1
  <2>4. AsSent(x)
    <3>1. 1 \in DOMAIN packets
      BY <1>3
    <3> QED BY <1>4, <2>2, <3>1
  <2>5. ASSUME NEW i \in {0, 1}, NEW j \in DOMAIN lists'[i]
        PROVE  AsSent(lists'[i][j])
    BY <1>10, <2>1, <2>4 DEF Faithful
  <2> QED BY <1>19, <2>3, <2>5 DEF Faithful, AsSent
<1>22. PacketInv'
  BY <1>12, <1>17, <1>18, <1>20, <1>21 DEF PacketInv
<1> QED BY <1>1, <1>4, <1>9, <1>22

\* The packet that is executed next is one of the list, not past, and as it was sent.
LEMMA NextIsNew ==
    ASSUME TypeOK, ThreadsInv, PacketInv, ExecutePacket
    PROVE  /\ client = "connected" /\ Read \in {0, 1} /\ main.next \in DOMAIN lists[Read]
           /\ NextPacket = lists[Read][main.next]
           /\ NextPacket \in Packets /\ NextPacket \notin Past /\ AsSent(NextPacket)
<1>1. /\ main.pc = "executing" /\ main.next <= main.count /\ client \in {"connected", "gone"}
  BY DEF ExecutePacket, TypeOK
<1>2. client = "connected" /\ main.next \in 1 .. main.count + 1 /\ main.count <= Len(lists[Read])
  BY <1>1 DEF ThreadsInv
<1>3. /\ Read \in {0, 1} /\ lists[Read] \in Seq(Packets) /\ Len(lists[Read]) \in Nat
      /\ DOMAIN lists[Read] = 1 .. Len(lists[Read]) /\ main.count \in Nat
  BY PacketTypes
<1>4. main.next \in 1 .. Len(lists[Read])
  BY <1>1, <1>2, <1>3
<1>5. NextPacket \in Packets
  BY <1>3, <1>4, ElementOfSeq DEF NextPacket
<1>6. NextPacket \notin Past
  <2> SUFFICES ASSUME NextPacket \in Past
               PROVE  FALSE
    OBVIOUS
  <2>1. main.next < main.next
    BY <1>2, <1>3, <1>4 DEF PacketInv, ListsInv, NextPacket
  <2> QED BY <1>4, <2>1
<1>7. AsSent(NextPacket)
  BY <1>2, <1>3, <1>4 DEF PacketInv, Faithful, NextPacket
<1> QED BY <1>2, <1>3, <1>4, <1>5, <1>6, <1>7 DEF NextPacket

LEMMA ExecuteStep ==
    ASSUME TypeOK, ThreadsInv, PacketInv, ExecutePacket
    PROVE  PacketInv'
<1>1. /\ client = "connected" /\ Read \in {0, 1} /\ main.next \in DOMAIN lists[Read]
      /\ NextPacket = lists[Read][main.next] /\ main.pc = "executing"
  BY NextIsNew DEF ExecutePacket
<1>2. /\ main' = [main EXCEPT !.next = @ + 1] /\ executed' = executed \cup {NextPacket}
      /\ UNCHANGED <<client, wire, sent, temp, recv, lists, write, parser, lost>>
  BY DEF ExecutePacket, network, input
<1>3. main'.pc = "executing" /\ main'.next = main.next + 1 /\ Read' = Read
      /\ Past' = Past \cup {NextPacket} /\ Rest' = Rest
  <2>1. main \in [pc: {"idle", "executing", "locking", "locked"}, next: Nat, count: Nat]
    BY DEF TypeOK
  <2>2. main'.pc = "executing" /\ main'.next = main.next + 1
    BY <1>1, <1>2, <2>1
  <2> QED BY <1>2, <2>2 DEF Read, Past, Rest
<1>4. PICK m \in 0 .. Len(sent) : Pieced(Rest, m, sent) /\ Sorted(m - Len(parser.packets))
  BY <1>1 DEF PacketInv
<1>5. PICK pushed : pushed = m - Len(parser.packets) /\ Sorted(pushed)
  BY <1>4
<1>6. NextPacket.n <= pushed
  BY <1>1, <1>5 DEF Sorted
<1>7. Sorted(pushed)'
  <2>1. \A x \in Past' : x.n <= pushed
    BY <1>3, <1>5, <1>6 DEF Sorted
  <2> QED BY <1>2, <1>5, <2>1 DEF Sorted
<1>8. ListsInv
  BY <1>1 DEF PacketInv
<1>9. ListsInv'
  <2>1. ASSUME NEW i \in {0, 1}, NEW j \in DOMAIN lists[i], lists[i][j] \in Past'
        PROVE  i = Read /\ j < main.next + 1
    <3>0. j \in Nat /\ main.next \in Nat
      <4>1. DOMAIN lists[i] = 1 .. Len(lists[i]) /\ Len(lists[i]) \in Nat
        BY PacketTypes
      <4> QED BY <4>1, PacketTypes
    <3>1. CASE lists[i][j] \in Past
      <4>1. i = Read /\ j < main.next
        BY <1>8, <3>1 DEF ListsInv
      <4> QED BY <3>0, <4>1
    <3>2. CASE lists[i][j] = NextPacket
      <4>1. i = Read /\ j = main.next
        BY <1>1, <1>8, <3>2 DEF ListsInv
      <4> QED BY <3>0, <4>1
    <3> QED BY <1>3, <2>1, <3>1, <3>2
  <2>2. \A i \in {0, 1} : \A j \in DOMAIN lists[i] :
          \A i2 \in {0, 1} : \A j2 \in DOMAIN lists[i2] :
            lists[i][j].n = lists[i2][j2].n => i = i2 /\ j = j2
    BY <1>8 DEF ListsInv
  <2>3. /\ UNCHANGED <<lists, Read>> /\ main'.pc = "executing"
        /\ main'.next = main.next + 1
    BY <1>2, <1>3
  <2> QED BY <2>1, <2>2, <2>3 DEF ListsInv
<1>10. /\ m \in 0 .. Len(sent') /\ Pieced(Rest', m, sent')
       /\ pushed = m - Len(parser'.packets)
  BY <1>2, <1>3, <1>4, <1>5
<1>11. Faithful'
  BY <1>1, <1>2, FaithfulSame DEF PacketInv
<1> QED BY <1>7, <1>9, <1>10, <1>11 DEF PacketInv

LEMMA ExecuteEndsStep ==
    ASSUME TypeOK, ThreadsInv, PacketInv, NEW t \in Elapsed, ExecuteEnds(t)
    PROVE  /\ lists' \in [{0, 1} -> Seq(Packets)] /\ lost' \subseteq Packets
           /\ PacketInv'
<1> DEFINE Lost == {lists[Read][i] : i \in main.count + 1 .. Len(lists[Read])}
<1>1. /\ main.pc = "executing" /\ client = "connected"
  BY DEF ExecuteEnds, TypeOK, ThreadsInv
<1>2. /\ lists' = [lists EXCEPT ![Read] = <<>>] /\ lost' = lost \cup Lost
      /\ main'.pc # "executing"
      /\ UNCHANGED <<client, wire, sent, temp, recv, write, parser, executed>>
  BY DEF ExecuteEnds, ClearedList, network
<1>3. /\ Read \in {0, 1} /\ lists \in [{0, 1} -> Seq(Packets)] /\ lists[Read] \in Seq(Packets)
      /\ Len(lists[Read]) \in Nat
      /\ DOMAIN lists[Read] = 1 .. Len(lists[Read]) /\ main.count \in Nat
  BY PacketTypes
<1>4. \A x \in Lost : \E j \in DOMAIN lists[Read] : x = lists[Read][j]
  <2> SUFFICES ASSUME NEW i \in main.count + 1 .. Len(lists[Read])
               PROVE  i \in DOMAIN lists[Read]
    OBVIOUS
  <2> QED BY <1>3
<1> HIDE DEF Lost
<1>5. Lost \subseteq Packets
  <2> SUFFICES ASSUME NEW j \in DOMAIN lists[Read]
               PROVE  lists[Read][j] \in Packets
    BY <1>4
  <2>1. j \in 1 .. Len(lists[Read])
    BY <1>3
  <2> QED BY <1>3, <2>1, ElementOfSeq
<1>6. lists' \in [{0, 1} -> Seq(Packets)] /\ lost' \subseteq Packets
  <2>1. lost \subseteq Packets
    BY DEF TypeOK
  <2> QED BY <1>2, <1>3, <1>5, <2>1
<1>7. /\ lists'[Read] = <<>> /\ DOMAIN lists'[Read] = {}
      /\ \A i \in {0, 1} : i # Read => lists'[i] = lists[i]
  BY <1>2, <1>3
<1>8. Past' = Past \cup Lost /\ Rest' = Rest /\ Read' = Read
  BY <1>2 DEF Past, Rest, Read
<1>9. PICK m \in 0 .. Len(sent) : Pieced(Rest, m, sent) /\ Sorted(m - Len(parser.packets))
  BY <1>1 DEF PacketInv
<1>10. PICK pushed : pushed = m - Len(parser.packets) /\ Sorted(pushed)
  BY <1>9
<1>11. Sorted(pushed)'
  <2>1. \A x \in Past' : x.n <= pushed
    BY <1>3, <1>4, <1>8, <1>10 DEF Sorted
  <2>2. \A i \in {0, 1} : \A j \in DOMAIN lists'[i] : lists'[i][j].n <= pushed
    BY <1>7, <1>10 DEF Sorted
  <2> QED BY <1>2, <1>10, <2>1, <2>2 DEF Sorted
<1>12. ListsInv
  BY <1>1 DEF PacketInv
<1>13. ListsInv'
  <2>1. ASSUME NEW i \in {0, 1}, NEW j \in DOMAIN lists'[i]
        PROVE  i # Read /\ j \in DOMAIN lists[i] /\ lists'[i][j] = lists[i][j]
    BY <1>7
  <2>2. ASSUME NEW i \in {0, 1}, NEW j \in DOMAIN lists'[i], lists'[i][j] \in Past'
        PROVE  FALSE
    <3>1. lists[i][j] \notin Past
      BY <1>12, <2>1 DEF ListsInv
    <3>2. PICK k \in DOMAIN lists[Read] : lists[i][j] = lists[Read][k]
      BY <1>4, <1>8, <2>1, <2>2, <3>1
    <3> QED BY <1>3, <1>12, <2>1, <3>2 DEF ListsInv
  <2>3. ASSUME NEW i \in {0, 1}, NEW j \in DOMAIN lists'[i],
               NEW i2 \in {0, 1}, NEW j2 \in DOMAIN lists'[i2], lists'[i][j].n = lists'[i2][j2].n
        PROVE  i = i2 /\ j = j2
    BY <1>12, <2>1, <2>3 DEF ListsInv
  <2> QED BY <2>2, <2>3 DEF ListsInv
<1>14. /\ m \in 0 .. Len(sent') /\ Pieced(Rest', m, sent')
       /\ pushed = m - Len(parser'.packets)
  BY <1>2, <1>8, <1>9, <1>10
<1>15. Faithful'
  <2>1. Faithful /\ UNCHANGED <<sent, parser>>
    BY <1>1, <1>2 DEF PacketInv
  <2>2. \A i \in {0, 1} : \A j \in DOMAIN lists'[i] : AsSent(lists'[i][j])
    BY <1>7, <2>1 DEF Faithful
  <2> QED BY <2>1, <2>2 DEF Faithful, AsSent
<1>16. PacketInv'
  BY <1>11, <1>13, <1>14, <1>15 DEF PacketInv
<1> QED BY <1>6, <1>16

LEMMA PacketStep ==
    ASSUME TypeOK, ThreadsInv, PacketInv, [Next]_vars
    PROVE  PacketInv'
<1> USE DEF network, state, input, output, history
<1>1. CASE receiveSendSocket
  <2>1. /\ processRecv /\ recv' = recv
        /\ UNCHANGED <<client, sent, lists, parser, main, write, executed, lost>>
    BY <1>1 DEF receiveSendSocket
  <2>2. Rest' = Rest /\ Past' = Past
    BY <2>1, ProcessRecvKeeps DEF Past
  <2> QED BY <2>1, <2>2, PacketSame
<1>2. CASE LookUpList
  <2>1. /\ UNCHANGED <<client, wire, temp, recv, sent, lists, main, write, executed, lost>>
        /\ parser'.packets = parser.packets
    BY <1>2 DEF LookUpList, TypeOK
  <2>2. Rest' = Rest /\ Past' = Past
    BY <2>1 DEF Past, Rest
  <2> QED BY <2>1, <2>2, PacketSame
<1>3. CASE UpdateStarts \/ LockParse
  <2>1. /\ UNCHANGED <<client, wire, temp, recv, sent, lists, parser, executed, lost>>
        /\ main.pc # "executing"
    BY <1>3 DEF UpdateStarts, LockParse
  <2>2. Rest' = Rest /\ Past' = Past
    BY <2>1 DEF Past, Rest
  <2> QED BY <2>1, <2>2, PacketSame
<1>4. CASE disconnectSocket
  BY <1>4 DEF disconnectSocket, PacketInv
<1>5. ASSUME \/ ClientCloses \/ SendFails \/ notifyDataSended
             \/ \E k \in 1 .. receiver.count : SocketTakes(k)
             \/ NotifyPlayerOffline \/ UNCHANGED vars
             \/ \E size \in BodySizes : SendMessage(size)
      PROVE  PacketInv'
  <2>1. UNCHANGED <<client, wire, temp, recv, sent, lists, parser, main, write, executed, lost>>
    BY <1>5 DEF ClientCloses, SendFails, notifyDataSended, SocketTakes, NotifyPlayerOffline,
       SendMessage, vars
  <2>2. Rest' = Rest /\ Past' = Past
    BY <2>1 DEF Past, Rest
  <2> QED BY <2>1, <2>2, PacketSame
<1>6. CASE \E kind \in Kinds : ClientSends(kind)
  BY <1>6, ClientSendsStep
<1>7. CASE \E t \in Elapsed : ExecuteEnds(t)
  BY <1>7, ExecuteEndsStep
<1>8. CASE parseData \/ PushPacket \/ ExecutePacket
  BY <1>8, ParseStep, PushStep, ExecuteStep
<1> QED BY <1>1, <1>2, <1>3, <1>4, <1>5, <1>6, <1>7, <1>8
        DEF Next, Receiving, Parsing, Updating

----------------------------------------------------------------------------
(* The invariant *)

\* The types, variable by variable.
Receivers == [pc: {"idle", "copying", "sent"},
              start: 0 .. SendSize, count: 0 .. SendSize, moved: BOOLEAN]
Parsers == [pc: {"idle", "pushing", "found"}, into: {0, 1}, packets: Seq(Packets)]
Mains == [pc: {"idle", "executing", "locking", "locked"}, next: Nat, count: Nat]
Characters == {"none", "online", "leaving", "offline"}

NetworkTypes == /\ wire \in Seq(Pieces) /\ sent \in Seq(Kinds) /\ Len(sent) <= MaxIn
                /\ peer \in {"open", "closed"}
StateTypes == /\ client \in {"connected", "gone"} /\ dead \in BOOLEAN
              /\ character \in Characters /\ beat \in Nat
StreamTypes == temp \in Seq(Pieces) /\ recv \in Seq(Pieces)
ListTypes == lists \in [{0, 1} -> Seq(Packets)] /\ write \in {0, 1}
OutputTypes == /\ out \in Buffer /\ out.start + out.length <= SendSize
               /\ accepted \in 0 .. MaxOut /\ delivered \in 0 .. accepted
ReceiverType == receiver \in Receivers
ParserType == parser \in Parsers
MainType == main \in Mains
HistoryTypes == executed \subseteq Packets /\ lost \subseteq Packets
CrashType == crashed \in BOOLEAN

LEMMA TypesAre ==
    ASSUME TypeOK
    PROVE  /\ NetworkTypes /\ StateTypes /\ StreamTypes /\ ListTypes /\ OutputTypes
           /\ ReceiverType /\ ParserType /\ MainType /\ HistoryTypes /\ CrashType
BY DEF TypeOK, NetworkTypes, StateTypes, StreamTypes, ListTypes, OutputTypes, ReceiverType,
   ParserType, MainType, HistoryTypes, CrashType, Receivers, Parsers, Mains, Buffer, Characters

LEMMA TypesMake ==
    ASSUME NetworkTypes', StateTypes', StreamTypes', ListTypes', OutputTypes',
           ReceiverType', ParserType', MainType', HistoryTypes', CrashType'
    PROVE  TypeOK'
BY DEF TypeOK, NetworkTypes, StateTypes, StreamTypes, ListTypes, OutputTypes, ReceiverType,
   ParserType, MainType, HistoryTypes, CrashType, Receivers, Parsers, Mains, Buffer, Characters

LEMMA SameTypes ==
    ASSUME TypeOK
    PROVE  /\ UNCHANGED <<wire, sent, peer>> => NetworkTypes'
           /\ UNCHANGED <<client, dead, character, beat>> => StateTypes'
           /\ UNCHANGED <<temp, recv>> => StreamTypes'
           /\ UNCHANGED <<lists, write>> => ListTypes'
           /\ UNCHANGED <<out, accepted, delivered>> => OutputTypes'
           /\ UNCHANGED receiver => ReceiverType'
           /\ UNCHANGED parser => ParserType'
           /\ UNCHANGED main => MainType'
           /\ UNCHANGED <<executed, lost>> => HistoryTypes'
           /\ UNCHANGED crashed => CrashType'
<1>1. /\ NetworkTypes /\ StateTypes /\ StreamTypes /\ ListTypes /\ OutputTypes
      /\ ReceiverType /\ ParserType /\ MainType /\ HistoryTypes /\ CrashType
  BY TypesAre
<1>2. UNCHANGED <<wire, sent, peer>> => NetworkTypes'
  BY <1>1 DEF NetworkTypes
<1>3. UNCHANGED <<client, dead, character, beat>> => StateTypes'
  BY <1>1 DEF StateTypes
<1>4. UNCHANGED <<temp, recv>> => StreamTypes'
  BY <1>1 DEF StreamTypes
<1>5. UNCHANGED <<lists, write>> => ListTypes'
  BY <1>1 DEF ListTypes
<1>6. UNCHANGED <<out, accepted, delivered>> => OutputTypes'
  BY <1>1 DEF OutputTypes
<1>7. /\ UNCHANGED receiver => ReceiverType'
      /\ UNCHANGED parser => ParserType'
      /\ UNCHANGED main => MainType'
  BY <1>1 DEF ReceiverType, ParserType, MainType
<1>8. UNCHANGED <<executed, lost>> => HistoryTypes'
  BY <1>1 DEF HistoryTypes
<1>9. UNCHANGED crashed => CrashType'
  BY <1>1 DEF CrashType
<1> QED BY <1>2, <1>3, <1>4, <1>5, <1>6, <1>7, <1>8, <1>9

\* What holds of the parts before a step, in the form the steps use it.
LEMMA PartTypes ==
    ASSUME TypeOK
    PROVE  /\ SendSize \in Nat /\ MaxOut \in Nat /\ accepted \in Nat /\ delivered \in Nat
           /\ accepted \in 0 .. MaxOut
           /\ receiver.count \in Nat /\ out.length \in Nat /\ out \in Buffer
           /\ out.start \in 0 .. SendSize /\ out.length \in 0 .. SendSize
           /\ out.start + out.length <= SendSize
           /\ receiver \in Receivers /\ parser \in Parsers /\ main \in Mains
           /\ client \in {"connected", "gone"} /\ dead \in BOOLEAN
           /\ character \in Characters /\ beat \in Nat /\ write \in {0, 1}
           /\ delivered <= accepted
<1>1. SendSize \in Nat /\ MaxOut \in Nat
  BY StreamConstants
<1>2. OutputTypes /\ ReceiverType /\ ParserType /\ MainType /\ StateTypes /\ ListTypes
  BY TypesAre
<1>3. /\ out \in Buffer /\ out.start + out.length <= SendSize
      /\ accepted \in Nat /\ accepted \in 0 .. MaxOut
  BY <1>1, <1>2 DEF OutputTypes
<1>4. delivered \in Nat /\ delivered <= accepted
  BY <1>2, <1>3 DEF OutputTypes
<1>5. /\ out.start \in 0 .. SendSize /\ out.length \in 0 .. SendSize /\ out.length \in Nat
  BY <1>1, <1>3 DEF Buffer
<1>6. /\ receiver \in Receivers /\ parser \in Parsers /\ main \in Mains
  BY <1>2 DEF ReceiverType, ParserType, MainType
<1>7. receiver.count \in Nat
  BY <1>1, <1>6 DEF Receivers
<1>8. /\ client \in {"connected", "gone"} /\ dead \in BOOLEAN
      /\ character \in Characters /\ beat \in Nat /\ write \in {0, 1}
  BY <1>2 DEF StateTypes, ListTypes
<1> QED BY <1>1, <1>3, <1>4, <1>5, <1>6, <1>7, <1>8

\* The steps of the receiving and sending thread.
LEMMA ReceivingTypes ==
    ASSUME Inv, Receiving
    PROVE  TypeOK'
<1> USE DEF network, state, input, output, history
<1>0. TypeOK /\ ThreadsInv /\ SendInv
  BY DEF Inv
<1>1. CASE receiveSendSocket
  <2>1. wire' \in Seq(Pieces) /\ temp' \in Seq(Pieces) /\ dead' \in BOOLEAN
    BY <1>0, <1>1, ProcessRecvKeeps DEF receiveSendSocket
  <2>2. ReceiverType'
    <3>1. CASE receiver' = receiver
      BY <1>0, <3>1, SameTypes
    <3>2. CASE receiver' = [pc |-> "copying", start |-> out.start, count |-> out.length,
                            moved |-> FALSE]
      BY <1>0, <3>2, PartTypes DEF ReceiverType, Receivers
    <3> QED BY <1>1, <3>1, <3>2 DEF receiveSendSocket, processSend
  <2>3. UNCHANGED <<sent, peer, client, character, beat, recv, lists, write, output, parser,
                    main, history, crashed>>
    BY <1>1 DEF receiveSendSocket
  <2>4. NetworkTypes' /\ StreamTypes' /\ StateTypes'
    BY <1>0, <2>1, <2>3, TypesAre DEF NetworkTypes, StreamTypes, StateTypes
  <2> QED BY <1>0, <2>2, <2>3, <2>4, SameTypes, TypesMake
<1>2. ASSUME NEW k \in 1 .. receiver.count, SocketTakes(k)
      PROVE  TypeOK'
  <2>1. /\ receiver.pc = "copying" /\ client = "connected" /\ delivered' = delivered + k
        /\ receiver' = [receiver EXCEPT !.pc = "sent", !.count = k]
        /\ UNCHANGED <<network, state, input, out, accepted, parser, main, history, crashed>>
    BY <1>0, <1>2, PartTypes DEF SocketTakes, ThreadsInv
  <2>2. delivered + out.length = accepted + 0 /\ receiver.count <= out.length
    BY <1>0, <2>1 DEF SendInv, Taken
  <2>3. k \in Nat /\ k <= out.length /\ k <= SendSize
    BY <1>0, <2>2, PartTypes
  <2>4. delivered' \in 0 .. accepted
    <3>1. delivered \in Nat /\ out.length \in Nat /\ accepted \in Nat
      BY <1>0, PartTypes
    <3> QED BY <2>1, <2>2, <2>3, <3>1
  <2>5. OutputTypes'
    BY <1>0, <2>1, <2>4, TypesAre DEF OutputTypes
  <2>6. ReceiverType'
    <3>1. k \in 0 .. SendSize
      BY <1>0, <2>3, PartTypes
    <3> QED BY <1>0, <2>1, <3>1, PartTypes DEF ReceiverType, Receivers
  <2> QED BY <1>0, <2>1, <2>5, <2>6, SameTypes, TypesMake
<1>3. CASE SendFails
  <2>1. /\ receiver' = [receiver EXCEPT !.pc = "idle"]
        /\ UNCHANGED <<network, state, input, output, parser, main, history, crashed>>
    BY <1>3 DEF SendFails
  <2>2. ReceiverType'
    BY <1>0, <2>1, PartTypes DEF ReceiverType, Receivers
  <2> QED BY <1>0, <2>1, <2>2, SameTypes, TypesMake
<1>4. CASE notifyDataSended
  <2>1. /\ receiver.pc = "sent" /\ client = "connected"
        /\ out' = removeDataFromInputBuffer(out, receiver.count)
        /\ receiver' = [pc |-> "idle", start |-> 0, count |-> 0, moved |-> FALSE]
        /\ UNCHANGED <<network, state, input, accepted, delivered, parser, main, history,
                       crashed>>
    BY <1>0, <1>4, PartTypes DEF notifyDataSended, ThreadsInv
  <2>2. out' \in Buffer /\ out'.start + out'.length <= SendSize
    BY <1>0, <2>1, RemovesTaken
  <2>3. OutputTypes'
    BY <1>0, <2>1, <2>2, TypesAre DEF OutputTypes
  <2>4. ReceiverType'
    <3>1. 0 \in 0 .. SendSize
      BY <1>0, PartTypes
    <3> QED BY <2>1, <3>1 DEF ReceiverType, Receivers
  <2> QED BY <1>0, <2>1, <2>3, <2>4, SameTypes, TypesMake
<1> QED BY <1>1, <1>2, <1>3, <1>4 DEF Receiving

\* The steps of the parsing thread.
LEMMA ParsingTypes ==
    ASSUME Inv, Parsing
    PROVE  TypeOK'
<1> USE DEF network, state, input, output, history
<1>0. TypeOK /\ ThreadsInv /\ PacketInv
  BY DEF Inv
<1>1. CASE parseData
  <2>1. recv' \in Seq(Pieces) /\ temp' \in Seq(Pieces) /\ parser'.packets \in Seq(Packets)
    BY <1>0, <1>1, ParseStep
  <2>2. UNCHANGED <<network, client, character, beat, lists, write, output, receiver, main,
                    history, crashed>>
    BY <1>1 DEF parseData
  <2>3. dead' \in BOOLEAN
    <3>1. dead' = (dead \/ WrongNext(recv \o temp))
      BY <1>1 DEF parseData
    <3> HIDE DEF WrongNext
    <3> QED BY <1>0, <3>1, PartTypes DEF WrongNext
  <2>4. ParserType'
    <3>1. PICK p, q : parser' = [parser EXCEPT !.pc = p, !.packets = q]
                      /\ p \in {"idle", "pushing"}
      BY <1>1 DEF parseData
    <3> QED BY <1>0, <2>1, <3>1, PartTypes DEF ParserType, Parsers
  <2>5. StateTypes' /\ StreamTypes'
    BY <1>0, <2>1, <2>2, <2>3, TypesAre DEF StateTypes, StreamTypes
  <2> QED BY <1>0, <2>2, <2>4, <2>5, SameTypes, TypesMake
<1>2. CASE LookUpList
  <2>1. /\ parser' = [parser EXCEPT !.pc = "found", !.into = write]
        /\ UNCHANGED <<network, state, input, output, receiver, main, history, crashed>>
    BY <1>2 DEF LookUpList
  <2>2. ParserType'
    BY <1>0, <2>1, PartTypes DEF ParserType, Parsers
  <2> QED BY <1>0, <2>1, <2>2, SameTypes, TypesMake
<1>3. CASE PushPacket
  <2>1. parser'.packets \in Seq(Packets) /\ lists' \in [{0, 1} -> Seq(Packets)]
    BY <1>0, <1>3, PushStep
  <2>2. /\ UNCHANGED <<network, state, temp, recv, write, output, receiver, main, history>>
        /\ crashed' \in BOOLEAN
    BY <1>3 DEF PushPacket
  <2>3. ParserType'
    <3>1. PICK p, q : parser' = [pc |-> p, into |-> 0, packets |-> q]
                      /\ p \in {"idle", "pushing"}
      BY <1>3 DEF PushPacket
    <3> QED BY <2>1, <3>1 DEF ParserType, Parsers
  <2>4. ListTypes' /\ CrashType'
    BY <1>0, <2>1, <2>2, PartTypes DEF ListTypes, CrashType
  <2> QED BY <1>0, <2>2, <2>3, <2>4, SameTypes, TypesMake
<1> QED BY <1>1, <1>2, <1>3 DEF Parsing

\* A message leaves the output and the receiving thread with their types.
LEMMA SendPacketTypes ==
    ASSUME Inv, NEW size \in BodySizes, WithinBound(size), sendPacket(size),
           client = "connected", UNCHANGED <<client, delivered>>
    PROVE  dead' \in BOOLEAN /\ OutputTypes' /\ ReceiverType'
<1>0. TypeOK /\ SendInv
  BY DEF Inv
<1>1. /\ dead' \in BOOLEAN /\ accepted' \in 0 .. MaxOut /\ accepted' >= accepted
      /\ out' \in Buffer /\ out'.start + out'.length <= SendSize
      /\ receiver' \in Receivers
  BY <1>0, SendPacketKeeps DEF Receivers
<1>2. delivered' \in 0 .. accepted'
  <2>1. PICK d \in Nat, a \in Nat, b \in Nat :
          d = delivered' /\ a = accepted /\ b = accepted' /\ b >= a /\ d <= a
    BY <1>0, <1>1, PartTypes
  <2>2. d \in 0 .. b
    BY <2>1
  <2> QED BY <2>1, <2>2
<1> QED BY <1>1, <1>2 DEF OutputTypes, ReceiverType

\* The steps of the main thread.
LEMMA UpdatingTypes ==
    ASSUME Inv, Updating \/ \E size \in BodySizes : SendMessage(size)
    PROVE  TypeOK'
<1> USE DEF network, state, input, output, history
<1>0. TypeOK /\ ThreadsInv /\ SendInv /\ PacketInv
  BY DEF Inv
<1>1. CASE UpdateStarts
  <2>1. UNCHANGED <<network, state, temp, recv, lists, output, receiver, parser, history,
                    crashed>>
    BY <1>1 DEF UpdateStarts
  <2>2. write' = 0 \/ write' = 1
    BY <1>0, <1>1, PartTypes DEF UpdateStarts, Swapped, Read
  <2>3. ListTypes'
    BY <1>0, <2>1, <2>2, TypesAre DEF ListTypes
  <2>4. MainType'
    <3>1. CASE dead
      BY <1>0, <1>1, <3>1, PartTypes DEF UpdateStarts, MainType, Mains
    <3>2. CASE ~dead
      <4>1. 1 - write' \in {0, 1}
        BY <2>2
      <4>2. Len(lists[1 - write']) \in Nat
        BY <1>0, <4>1, PacketTypes
      <4> QED BY <1>1, <3>2, <4>2 DEF UpdateStarts, MainType, Mains
    <3> QED BY <3>1, <3>2
  <2> QED BY <1>0, <2>1, <2>3, <2>4, SameTypes, TypesMake
<1>2. CASE ExecutePacket
  <2>1. client = "connected" /\ NextPacket \in Packets
    BY <1>0, <1>2, NextIsNew
  <2>2. /\ executed' = executed \cup {NextPacket} /\ main' = [main EXCEPT !.next = @ + 1]
        /\ UNCHANGED <<network, client, beat, input, delivered, parser, lost, crashed>>
        /\ character' \in {character, "online"}
        /\ NoMessage \/ \E size \in BodySizes : WithinBound(size) /\ sendPacket(size)
    BY <1>2 DEF ExecutePacket
  <2>3. HistoryTypes' /\ MainType'
    BY <1>0, <2>1, <2>2, TypesAre DEF HistoryTypes, MainType, Mains
  <2>4. dead' \in BOOLEAN /\ OutputTypes' /\ ReceiverType'
    <3>1. CASE NoMessage
      BY <1>0, <2>2, <3>1, SameTypes, PartTypes DEF NoMessage
    <3>2. CASE \E size \in BodySizes : WithinBound(size) /\ sendPacket(size)
      BY <2>1, <2>2, <3>2, SendPacketTypes
    <3> QED BY <2>2, <3>1, <3>2
  <2>5. StateTypes'
    BY <1>0, <2>2, <2>4, PartTypes DEF StateTypes, Characters
  <2> QED BY <1>0, <2>2, <2>3, <2>4, <2>5, SameTypes, TypesMake
<1>3. ASSUME NEW size \in BodySizes, SendMessage(size)
      PROVE  TypeOK'
  <2>1. /\ dead' \in BOOLEAN /\ OutputTypes' /\ ReceiverType'
        /\ UNCHANGED <<network, client, character, beat, input, parser, main, history, crashed>>
    BY <1>3, SendPacketTypes DEF SendMessage
  <2>2. StateTypes'
    BY <1>0, <2>1, PartTypes DEF StateTypes
  <2> QED BY <1>0, <2>1, <2>2, SameTypes, TypesMake
<1>4. ASSUME NEW t \in Elapsed, ExecuteEnds(t)
      PROVE  TypeOK'
  <2>1. lists' \in [{0, 1} -> Seq(Packets)] /\ lost' \subseteq Packets
    BY <1>0, <1>4, ExecuteEndsStep
  <2>2. /\ beat' = beat + t /\ dead' = (dead \/ beat' >= TimeOut)
        /\ \E p \in {"idle", "locking"} : main' = [pc |-> p, next |-> 1, count |-> 0]
        /\ UNCHANGED <<network, client, character, temp, recv, write, output, receiver, parser,
                       executed, crashed>>
    BY <1>4 DEF ExecuteEnds
  <2>3. MainType' /\ ListTypes' /\ HistoryTypes'
    BY <1>0, <2>1, <2>2, TypesAre DEF MainType, Mains, ListTypes, HistoryTypes
  <2>4. StateTypes'
    <3>1. t \in Nat
      BY StreamConstants
    <3>2. dead' \in BOOLEAN
      BY <1>0, <2>2, PartTypes
    <3>3. beat' \in Nat
      BY <1>0, <2>2, <3>1, PartTypes
    <3> QED BY <1>0, <2>2, <3>2, <3>3, PartTypes DEF StateTypes
  <2> QED BY <1>0, <2>2, <2>3, <2>4, SameTypes, TypesMake
<1>5. CASE LockParse
  <2>1. /\ main' = [main EXCEPT !.pc = "locked"]
        /\ UNCHANGED <<network, state, input, output, receiver, parser, history, crashed>>
    BY <1>5 DEF LockParse
  <2>2. MainType'
    BY <1>0, <2>1, PartTypes DEF MainType, Mains
  <2> QED BY <1>0, <2>1, <2>2, SameTypes, TypesMake
<1>6. CASE disconnectSocket
  <2>1. /\ client' = "gone" /\ character' \in {character, "leaving"}
        /\ wire' = <<>> /\ temp' = <<>> /\ recv' = <<>> /\ out' = EmptyBuffer
        /\ lists' = [i \in {0, 1} |-> <<>>] /\ main' = [main EXCEPT !.pc = "idle"]
        /\ UNCHANGED <<sent, peer, dead, beat, write, accepted, delivered, receiver, parser,
                       history, crashed>>
    BY <1>6 DEF disconnectSocket, ToldToLeave
  <2>2. OutputTypes'
    <3>1. 0 \in 0 .. MaxOut /\ 0 \in 0 .. SendSize /\ 0 + 0 <= SendSize
      BY <1>0, PartTypes
    <3>2. out' \in Buffer /\ out'.start + out'.length <= SendSize
      BY <2>1, <3>1 DEF EmptyBuffer, Buffer
    <3> QED BY <1>0, <2>1, <3>2, TypesAre DEF OutputTypes
  <2>3. StreamTypes' /\ MainType' /\ ListTypes'
    <3>1. <<>> \in Seq(Pieces) /\ <<>> \in Seq(Packets)
      OBVIOUS
    <3>2. MainType'
      BY <1>0, <2>1, PartTypes DEF MainType, Mains
    <3> QED BY <1>0, <2>1, <3>1, <3>2, PartTypes DEF StreamTypes, ListTypes
  <2>4. NetworkTypes'
    <3>1. <<>> \in Seq(Pieces)
      OBVIOUS
    <3> QED BY <1>0, <2>1, <3>1, TypesAre DEF NetworkTypes
  <2>5. StateTypes'
    BY <1>0, <2>1, PartTypes DEF StateTypes, Characters
  <2> QED BY <1>0, <2>1, <2>2, <2>3, <2>4, <2>5, SameTypes, TypesMake
<1>7. CASE NotifyPlayerOffline
  <2>1. /\ character' = "offline"
        /\ UNCHANGED <<network, client, dead, beat, input, output, receiver, parser, main,
                       history, crashed>>
    BY <1>7 DEF NotifyPlayerOffline
  <2>2. StateTypes'
    BY <1>0, <2>1, PartTypes DEF StateTypes, Characters
  <2> QED BY <1>0, <2>1, <2>2, SameTypes, TypesMake
<1> QED BY <1>1, <1>2, <1>3, <1>4, <1>5, <1>6, <1>7 DEF Updating

LEMMA TypeStep ==
    ASSUME Inv, [Next]_vars
    PROVE  TypeOK'
<1> USE DEF network, state, input, output, history
<1>0. TypeOK /\ PacketInv
  BY DEF Inv
<1>1. ASSUME NEW kind \in Kinds, ClientSends(kind)
      PROVE  TypeOK'
  <2>1. wire' \in Seq(Pieces) /\ sent' \in Seq(Kinds) /\ Len(sent') <= MaxIn
    BY <1>0, <1>1, ClientSendsStep
  <2>2. UNCHANGED <<peer, state, input, output, receiver, parser, main, history, crashed>>
    BY <1>1 DEF ClientSends
  <2>3. NetworkTypes'
    BY <1>0, <2>1, <2>2, TypesAre DEF NetworkTypes
  <2> QED BY <1>0, <2>2, <2>3, SameTypes, TypesMake
<1>2. CASE ClientCloses
  <2>1. /\ peer' = "closed"
        /\ UNCHANGED <<wire, sent, state, input, output, receiver, parser, main, history,
                       crashed>>
    BY <1>2 DEF ClientCloses
  <2>2. NetworkTypes'
    BY <1>0, <2>1, TypesAre DEF NetworkTypes
  <2> QED BY <1>0, <2>1, <2>2, SameTypes, TypesMake
<1>3. CASE UNCHANGED vars
  <2>1. UNCHANGED <<network, state, input, output, receiver, parser, main, history, crashed>>
    BY <1>3 DEF vars
  <2> QED BY <1>0, <2>1, SameTypes, TypesMake
<1> QED BY <1>1, <1>2, <1>3, ReceivingTypes, ParsingTypes, UpdatingTypes DEF Next

LEMMA InvInit ==
    ASSUME Init
    PROVE  Inv
<1>1. SendSize \in Nat /\ MaxIn \in Nat /\ MaxOut \in Nat
  BY StreamConstants
<1>2. out \in Buffer /\ out.start = 0 /\ out.length = 0
  <2>1. 0 \in 0 .. MaxOut /\ 0 \in 0 .. SendSize
    BY <1>1
  <2> QED BY <2>1 DEF Init, EmptyBuffer, Buffer
<1>3. TypeOK
  <2>1. 0 \in 0 .. 0 /\ 0 \in 0 .. MaxOut /\ 0 \in 0 .. MaxIn /\ 0 \in 0 .. SendSize
        /\ 0 + 0 <= SendSize
    BY <1>1
  <2>2. <<>> \in Seq(Pieces) /\ <<>> \in Seq(Packets)
    OBVIOUS
  <2>3. wire = <<>> /\ temp = <<>> /\ recv = <<>>
    BY DEF Init
  <2>4. lists \in [{0, 1} -> Seq(Packets)] /\ write \in {0, 1}
    BY <2>2 DEF Init
  <2>5. /\ receiver \in [pc: {"idle", "copying", "sent"},
                         start: 0 .. SendSize, count: 0 .. SendSize, moved: BOOLEAN]
        /\ parser \in [pc: {"idle", "pushing", "found"}, into: {0, 1}, packets: Seq(Packets)]
        /\ main \in [pc: {"idle", "executing", "locking", "locked"}, next: Nat, count: Nat]
    BY <2>1, <2>2 DEF Init
  <2>6. /\ sent \in Seq(Kinds) /\ Len(sent) <= MaxIn /\ accepted \in 0 .. MaxOut
        /\ delivered \in 0 .. accepted /\ beat \in Nat
    BY <1>1, <2>1 DEF Init
  <2>7. out.start + out.length <= SendSize
    BY <1>1, <1>2
  <2> QED BY <1>2, <2>2, <2>3, <2>4, <2>5, <2>6, <2>7 DEF Init, TypeOK, Buffer
<1>4. ThreadsInv
  BY DEF Init, ThreadsInv
<1>5. SendInv
  <2>1. Taken = 0
    BY DEF Init, Taken
  <2>2. Behind(out, delivered - Taken)
    BY <1>2 DEF Behind
  <2>3. delivered = 0 /\ accepted = 0 /\ receiver.pc # "copying"
    BY DEF Init
  <2>4. 0 <= 0 /\ 0 + 0 = 0 + 0
    OBVIOUS
  <2> QED BY <1>2, <2>1, <2>2, <2>3, <2>4 DEF SendInv
<1>6. PacketInv
  <2>1. Rest = <<>>
    <3>1. recv = <<>> /\ temp = <<>> /\ wire = <<>>
      BY DEF Init
    <3>2. <<>> \in Seq(Pieces)
      OBVIOUS
    <3> QED BY <3>1, <3>2, ConcatEmptySeq DEF Rest, Joined
  <2>2. Pieced(Rest, 0, sent)
    <3>1. Len(sent) = 0 /\ Len(Rest) = 2 * (0 - 0)
      BY <2>1 DEF Init
    <3> QED BY <3>1 DEF Pieced
  <2>3. Sorted(0 - Len(parser.packets))
    <3>1. 0 - Len(parser.packets) = 0
      BY DEF Init
    <3> QED BY <3>1 DEF Init, Sorted, Past
  <2>4. ListsInv
    BY DEF Init, ListsInv
  <2>5. 0 \in 0 .. Len(sent)
    BY DEF Init
  <2>6. Faithful
    BY DEF Init, Faithful
  <2> QED BY <2>2, <2>3, <2>4, <2>5, <2>6 DEF PacketInv
<1> QED BY <1>3, <1>4, <1>5, <1>6 DEF Inv

LEMMA Invariant == Spec => []Inv
<1>1. Init => Inv
  BY InvInit
<1>2. Inv /\ [Next]_vars => Inv'
  BY TypeStep, ThreadsStep, SendStep, PacketStep DEF Inv
<1> QED BY <1>1, <1>2, PTL DEF Spec

----------------------------------------------------------------------------
(* The results *)

\* All variables have their types: the piece counters stay within the buffer, and the
\* socket never takes more than was accepted.
THEOREM TypesHold == Spec => []TypeOK
<1>1. Inv => TypeOK
  BY DEF Inv
<1> QED BY <1>1, Invariant, PTL

\* The client is destroyed when no thread works on it: with both locks held no thread
\* is in the middle of anything.
THEOREM DestroyedAlone == Spec => []NobodyInDestroyed
<1>1. Inv => NobodyInDestroyed
  BY DEF Inv, ThreadsInv, NobodyInDestroyed
<1> QED BY <1>1, Invariant, PTL

\* No packet is executed that was executed, or deleted with its list, before.
THEOREM NoPacketTwice == Spec => ExecutedOnce
<1>1. Inv /\ [Next]_vars => [ExecutePacket => NextPacket \notin executed \cup lost]_vars
  BY NextIsNew DEF Inv, Past
<1> QED BY <1>1, Invariant, PTL DEF Spec, ExecutedOnce

\* However the stream is cut, the packets are put together as the client sent them.
THEOREM PacketsAsSent == Spec => ExecutedAsSent
<1>1. Inv /\ [Next]_vars => [ExecutePacket => AsSent(NextPacket)]_vars
  BY NextIsNew DEF Inv
<1> QED BY <1>1, Invariant, PTL DEF Spec, ExecutedAsSent

\* What the socket takes from the buffer are the next pieces of the accepted messages.
LEMMA CopiesNext ==
    ASSUME Inv, NEW k \in 1 .. receiver.count, SocketTakes(k), ~receiver.moved
    PROVE  Copied(k) = [i \in 1 .. k |-> delivered + i]
<1>1. receiver.pc = "copying" /\ client = "connected"
  BY DEF SocketTakes, Inv, ThreadsInv, TypeOK
<1>2. /\ Behind(out, delivered - 0) /\ receiver.count <= out.length
      /\ receiver.start = out.start
  BY <1>1 DEF Inv, SendInv, Taken
<1>3. receiver.count \in Nat /\ out.length \in Nat /\ delivered \in Nat
  BY SendTypes DEF Inv, Buffer
<1>4. \A i \in 1 .. k : out.data[out.start + i] = delivered + i
  <2>1. \A i \in 1 .. k : i \in 1 .. out.length
    BY <1>2, <1>3
  <2>2. delivered - 0 = delivered
    BY <1>3
  <2> QED BY <1>2, <2>1, <2>2 DEF Behind
<1> QED BY <1>2, <1>4 DEF Copied

\* The pieces of the accepted messages reach the socket in their order, each once,
\* unless the buffer is compacted under the sending thread.
THEOREM SentInOrder == Spec => StreamInOrder
<1>1. Inv /\ [Next]_vars =>
        [\A k \in 1 .. receiver.count :
            SocketTakes(k) /\ ~receiver.moved =>
                Copied(k) = [i \in 1 .. k |-> delivered + i]]_vars
  BY CopiesNext
<1> QED BY <1>1, Invariant, PTL DEF Spec, StreamInOrder
=============================================================================
