-------------------------- MODULE CommsChannel_proofs --------------------------
(***************************************************************************)
(* CommsProtocol implements MessageChannel: until one recv() returns an    *)
(* object together with bytes after it, Comms_Receive gives the callbacks  *)
(* exactly the messages sent, in their order, whatever the division into   *)
(* chunks, the size of the object and the width of cBytesLeft.             *)
(***************************************************************************)
EXTENDS CommsProtocol_proofs

(* What the wire carries, and how many bytes a message takes.                 *)
Carried == [byte : Bytes, ends : BOOLEAN]
Size(m) == Len(Encode(m))

(* What the callbacks are given is a message, if perhaps not one that was     *)
(* sent.                                                                      *)
Received == [type : {"object", "command"}, id : UInt16, body : Seq(Bytes)]

(* The bytes still to be read: those left in the buffer, then those on the    *)
(* wire.                                                                      *)
Left      == IF i <= Len(buffer) THEN Len(buffer) - i ELSE 0
Coming    == Left + Len(wire)
ByteAt(q) == IF q <= Left THEN buffer[i + q] ELSE wire[q - Left].byte

(* How much of the message under way has been read.                           *)
Consumed ==
    CASE cState \in {"MESSAGE_TYPE", "ERROR"} -> 0
      [] cState \in {"OBJECT_ID_1", "COMMAND_ID_1"} -> 1
      [] cState \in {"OBJECT_ID_2", "COMMAND_ID_2"} -> 2
      [] cState = "LENGTH_1" -> 3
      [] cState = "LENGTH_2" -> 4
      [] cState = "PAYLOAD" -> 5 + nPayloadWrite

Current == sent[Len(received) + 1]

(* What the state machine has made of it is what was sent.                    *)
ParserInv ==
    /\ cState # "ERROR"
    /\ cState # "MESSAGE_TYPE" => Len(received) < Len(sent)
    /\ cState \in {"OBJECT_ID_1", "OBJECT_ID_2", "LENGTH_1", "LENGTH_2", "PAYLOAD"} =>
          Current.type = "object"
    /\ cState \in {"COMMAND_ID_1", "COMMAND_ID_2"} => Current.type = "command"
    /\ cState \in {"OBJECT_ID_2", "COMMAND_ID_2", "LENGTH_1", "LENGTH_2", "PAYLOAD"} =>
          nReceivingID = Current.id
    /\ cState = "LENGTH_2" => nReceivingLength = StatusLength
    /\ cState = "PAYLOAD" =>
          /\ nPayloadWrite + nReceivingLength = StatusLength
          /\ \A k \in 1..nPayloadWrite : pcPayload[k] = Current.body[k]

(* What the callbacks were given is what was sent first.                      *)
ReceivedInv ==
    /\ Len(received) <= Len(sent)
    /\ \A n \in 1..Len(received) : received[n] = sent[n]

(* off[n] is the place, among the bytes still to be read, after which the     *)
(* n-th message begins; for the message under way it lies before them.  The   *)
(* bytes of all messages that are not received yet follow each other without  *)
(* gaps, and no object's last byte is in the buffer with a byte after it.      *)
Placed(off, n) ==
    LET m == sent[n] IN
    /\ off[n + 1] = off[n] + Size(m)
    /\ off[n + 1] <= Coming
    /\ \A k \in 1..Size(m) : off[n] + k > 0 => ByteAt(off[n] + k) = Encode(m)[k]
    /\ m.type = "object" /\ off[n + 1] > 0 => off[n + 1] >= Left
    /\ m.type = "object" /\ off[n + 1] > Left => wire[off[n + 1] - Left].ends

Framed(off) ==
    /\ off[Len(received) + 1] = -Consumed
    /\ off[Len(sent) + 1] = Coming
    /\ \A n \in (Len(received) + 1)..Len(sent) : Placed(off, n)

FramingInv == \E off \in [1..(Len(sent) + 1) -> Int] : Framed(off)

(* Once coalesced, nothing is promised of the bytes any more.                 *)
ChannelInv ==
    /\ received \in Seq(Received)
    /\ coalesced \in BOOLEAN
    /\ ~coalesced => ParserInv /\ ReceivedInv /\ FramingInv

-------------------------------------------------------------------------------
(* The bytes of a concatenation.                                             *)
LEMMA Concatenated ==
    ASSUME NEW S, NEW a \in Seq(S), NEW b \in Seq(S)
    PROVE  /\ Len(a \o b) = Len(a) + Len(b)
           /\ \A k \in 1..(Len(a) + Len(b)) :
                 (a \o b)[k] = IF k <= Len(a) THEN a[k] ELSE b[k - Len(a)]
OBVIOUS

(* The bytes of an object: the first tells its type, IDs and the length take  *)
(* two bytes of which the second is zero.                                     *)
LEMMA EncodeObject ==
    ASSUME NEW m \in Messages, m.type = "object"
    PROVE  /\ m.id = OBJECT_STATUS /\ m.body \in [1..StatusLength -> Bytes]
           /\ m = [type |-> "object", id |-> m.id, body |-> m.body]
           /\ Size(m) = 5 + StatusLength
           /\ Encode(m)[1] = COMMS_MESSAGE_TYPE_OBJECT
           /\ Encode(m)[2] = m.id /\ Encode(m)[3] = 0
           /\ Encode(m)[4] = StatusLength /\ Encode(m)[5] = 0
           /\ \A k \in 1..StatusLength : Encode(m)[5 + k] = m.body[k]
<1> DEFINE head == <<COMMS_MESSAGE_TYPE_OBJECT, m.id % 256, m.id \div 256,
                     StatusLength % 256, StatusLength \div 256>>
<1>1. m \in [type : {"object"}, id : {OBJECT_STATUS}, body : Bodies]
  BY DEF Messages
<1>2. m.id = OBJECT_STATUS /\ m.body \in [1..StatusLength -> Bytes]
  BY <1>1, CommsAssumption
<1>3. m = [type |-> "object", id |-> m.id, body |-> m.body]
  BY <1>1
<1>4. StatusLength \in Nat /\ StatusLength < 256 /\ m.id \in Nat /\ m.id < 256
  BY <1>2, CommsAssumption DEF Bytes
<1>5. /\ m.id % 256 = m.id /\ m.id \div 256 = 0
      /\ StatusLength % 256 = StatusLength /\ StatusLength \div 256 = 0
  BY <1>4
<1>6. head = <<COMMS_MESSAGE_TYPE_OBJECT, m.id, 0, StatusLength, 0>>
  BY <1>5
<1>7. COMMS_MESSAGE_TYPE_OBJECT \in Nat /\ 0 \in Nat
  BY DEF COMMS_MESSAGE_TYPE_OBJECT
<1>8. m.body \in Seq(Nat) /\ Len(m.body) = StatusLength
  BY <1>2, <1>4 DEF Bytes
<1>9. Encode(m) = head \o m.body
  BY DEF Encode
<1> HIDE DEF head
<1>10. head \in Seq(Nat) /\ Len(head) = 5
  BY <1>4, <1>6, <1>7
<1>12. /\ Len(head \o m.body) = Len(head) + Len(m.body)
       /\ \A k \in 1..(Len(head) + Len(m.body)) :
             (head \o m.body)[k] = IF k <= Len(head) THEN head[k] ELSE m.body[k - Len(head)]
  BY <1>8, <1>10, Concatenated
<1>11. /\ Len(Encode(m)) = 5 + StatusLength
       /\ \A k \in 1..5 : Encode(m)[k] = head[k]
       /\ \A k \in 1..StatusLength : Encode(m)[5 + k] = m.body[k]
  <2>1. \A k \in 1..5 : k \in 1..(5 + StatusLength) /\ k <= 5
    BY <1>4
  <2>2. \A k \in 1..StatusLength :
           /\ 5 + k \in 1..(5 + StatusLength) /\ ~(5 + k <= 5) /\ (5 + k) - 5 = k
    BY <1>4
  <2>3. /\ Len(Encode(m)) = 5 + StatusLength
        /\ \A k \in 1..(5 + StatusLength) :
              Encode(m)[k] = IF k <= 5 THEN head[k] ELSE m.body[k - 5]
    BY <1>8, <1>9, <1>10, <1>12, Zenon
  <2>4. \A k \in 1..5 : Encode(m)[k] = head[k]
    BY <2>1, <2>3, Zenon
  <2>5. \A k \in 1..StatusLength : Encode(m)[5 + k] = m.body[k]
    BY <2>2, <2>3, Zenon
  <2> QED
    BY <2>3, <2>4, <2>5
<1> QED
  BY <1>2, <1>3, <1>6, <1>11 DEF Size

(* A command is its type and its ID.                                          *)
LEMMA EncodeCommand ==
    ASSUME NEW m \in Messages, m.type = "command"
    PROVE  /\ m.id \in Bytes
           /\ m = [type |-> "command", id |-> m.id, body |-> << >>]
           /\ Size(m) = 3
           /\ Encode(m)[1] = COMMS_MESSAGE_TYPE_COMMAND
           /\ Encode(m)[2] = m.id /\ Encode(m)[3] = 0
<1>1. m \in [type : {"command"}, id : Commands, body : {<< >>}]
  BY DEF Messages
<1>2. m.id \in Bytes /\ m = [type |-> "command", id |-> m.id, body |-> << >>]
  BY <1>1, CommsAssumption
<1>3. m.id % 256 = m.id /\ m.id \div 256 = 0
  BY <1>2 DEF Bytes
<1>4. Encode(m) = <<COMMS_MESSAGE_TYPE_COMMAND, m.id, 0>>
  BY <1>3 DEF Encode
<1> QED
  BY <1>2, <1>4 DEF Size

(* No message is shorter than a command.                                      *)
LEMMA MessageSize ==
    ASSUME NEW m \in Messages
    PROVE  /\ m.type \in {"object", "command"}
           /\ Size(m) \in Nat /\ Size(m) >= 3
<1>1. m.type \in {"object", "command"}
  BY DEF Messages
<1>2. StatusLength \in Nat
  BY CommsAssumption DEF Bytes
<1> QED
  BY <1>1, <1>2, EncodeObject, EncodeCommand

(* Only two bytes begin a message.                                            *)
LEMMA TypesDiffer == COMMS_MESSAGE_TYPE_OBJECT # COMMS_MESSAGE_TYPE_COMMAND
BY DEF COMMS_MESSAGE_TYPE_OBJECT, COMMS_MESSAGE_TYPE_COMMAND

(* There are as many bytes to read as are in the buffer and on the wire.      *)
LEMMA StreamType ==
    ASSUME TypeOK
    PROVE  /\ Left \in Nat /\ Len(wire) \in Nat /\ Coming \in Nat
           /\ Len(sent) \in Nat
           /\ \A n \in 1..Len(sent) : sent[n] \in Messages
           /\ i < Len(buffer) => Left = Len(buffer) - i /\ Left > 0
<1>1. Len(wire) \in Nat /\ Len(sent) \in Nat /\ \A n \in 1..Len(sent) : sent[n] \in Messages
  <2>1. wire \in Seq(Carried)
    BY DEF TypeOK, Carried
  <2> HIDE DEF Carried
  <2> QED
    BY <2>1 DEF TypeOK
<1>2. i \in Nat /\ Len(buffer) \in Nat
  BY NumbersType
<1> QED
  BY <1>1, <1>2 DEF Left, Coming

(* Reading on by s bytes moves every place s to the front.                    *)
LEMMA Shift ==
    ASSUME TypeOK, NEW off \in [1..(Len(sent) + 1) -> Int], NEW s \in 0..Left,
           UNCHANGED <<sent, wire, buffer>>, Left' = Left - s,
           i' = i + s \/ Left' = 0,
           NEW off2, off2 = [k \in 1..(Len(sent) + 1) |-> off[k] - s],
           NEW n \in 1..Len(sent), Placed(off, n)
    PROVE  Placed(off2, n)'
<1> DEFINE m == sent[n]
<1>1. /\ Left \in Nat /\ Len(wire) \in Nat /\ Coming \in Nat /\ s \in Nat /\ s <= Left
      /\ Len(sent) \in Nat /\ m \in Messages
  BY StreamType
<1>2. n \in 1..(Len(sent) + 1) /\ n + 1 \in 1..(Len(sent) + 1)
  BY <1>1
<1>3. off2[n] = off[n] - s /\ off2[n + 1] = off[n + 1] - s /\ off[n] \in Int /\ off[n + 1] \in Int
  BY <1>2
<1>4. Coming' = Coming - s
  BY <1>1 DEF Coming
<1>5. ASSUME NEW q \in Int, q > 0 PROVE ByteAt(q)' = ByteAt(q + s)
  <2>1. i \in Nat
    BY NumbersType
  <2>2. CASE q <= Left'
    <3>1. i' = i + s /\ q + s <= Left
      BY <1>1, <1>5, <2>2
    <3>2. i' + q = i + (q + s)
      BY <1>1, <2>1, <3>1
    <3> QED
      BY <2>2, <3>1, <3>2 DEF ByteAt
  <2>3. CASE ~(q <= Left')
    <3>1. ~(q + s <= Left) /\ q - Left' = (q + s) - Left
      BY <1>1, <2>3
    <3> QED
      BY <2>3, <3>1 DEF ByteAt
  <2> QED
    BY <2>2, <2>3
<1>6. Size(m) \in Nat
  BY <1>1, MessageSize
<1>7. off2[n + 1] = off2[n] + Size(m) /\ off2[n + 1] <= Coming'
  BY <1>1, <1>3, <1>4, <1>6, SMTT(30) DEF Placed
<1>8. ASSUME NEW k \in 1..Size(m), off2[n] + k > 0
      PROVE  ByteAt(off2[n] + k)' = Encode(m)[k]
  <2>1. k \in Int /\ off2[n] + k \in Int /\ (off2[n] + k) + s = off[n] + k /\ off[n] + k > 0
    BY <1>1, <1>3, <1>6, <1>8
  <2>2. ByteAt(off2[n] + k)' = ByteAt(off[n] + k)
    <3>1. PICK q \in Int : q = off2[n] + k
      BY <2>1
    <3>2. q > 0 /\ q + s = off[n] + k
      BY <1>8, <2>1, <3>1
    <3>3. ByteAt(q)' = ByteAt(q + s)
      BY <1>5, <3>2
    <3> QED
      BY <3>1, <3>2, <3>3
  <2> QED
    BY <2>1, <2>2 DEF Placed
<1>9. m.type = "object" /\ off2[n + 1] > 0 => off2[n + 1] >= Left'
  BY <1>1, <1>3 DEF Placed
<1>10. m.type = "object" /\ off2[n + 1] > Left' => wire'[off2[n + 1] - Left'].ends
  <2>1. off2[n + 1] - Left' = off[n + 1] - Left
    BY <1>1, <1>3
  <2> QED
    BY <1>1, <1>3, <2>1 DEF Placed
<1> QED
  BY <1>7, <1>8, <1>9, <1>10 DEF Placed

(* The lengths that the invariant speaks of are natural numbers.              *)
LEMMA LengthsType ==
    ASSUME IInv, ChannelInv
    PROVE  /\ Len(received) \in Nat /\ Len(sent) \in Nat
           /\ Left \in Nat /\ Len(wire) \in Nat /\ Coming \in Nat
           /\ nPayloadWrite \in Nat /\ Consumed \in Nat
<1>1. Len(received) \in Nat
  BY DEF ChannelInv
<1>2. /\ Left \in Nat /\ Len(wire) \in Nat /\ Coming \in Nat /\ Len(sent) \in Nat
      /\ nPayloadWrite \in Nat /\ cState \in States
  BY StreamType, NumbersType DEF IInv, TypeOK
<1>3. Consumed \in Nat
  BY <1>2 DEF Consumed, States
<1> QED
  BY <1>1, <1>2, <1>3

(* Something is left in the buffer, so a message is under way or begins, and  *)
(* what the buffer holds is the next of its bytes.                            *)
LEMMA NextBytes ==
    ASSUME IInv, ChannelInv, ~coalesced, i < Len(buffer)
    PROVE  /\ Len(received) < Len(sent) /\ Current \in Messages
           /\ Consumed < Size(Current)
           /\ \A q \in 1..Left : Consumed + q <= Size(Current) =>
                 buffer[i + q] = Encode(Current)[Consumed + q]
           /\ Current.type = "object" => Size(Current) - Consumed >= Left
<1> DEFINE n == Len(received) + 1
<1>1. TypeOK /\ Left > 0 /\ Coming > 0
  BY StreamType DEF IInv, Coming
<1>2. PICK off \in [1..(Len(sent) + 1) -> Int] : Framed(off)
  BY DEF ChannelInv, FramingInv
<1>3. Len(received) <= Len(sent) /\ Len(received) \in Nat /\ Len(sent) \in Nat
  BY LengthsType DEF ChannelInv, ReceivedInv
<1>4. Len(received) # Len(sent)
  BY <1>1, <1>2, <1>3, LengthsType DEF Framed
<1>5. Len(received) < Len(sent) /\ n \in 1..Len(sent) /\ n \in (Len(received) + 1)..Len(sent)
  BY <1>3, <1>4
<1>6. Current \in Messages /\ Current = sent[n]
  BY <1>1, <1>5, StreamType DEF Current
<1>7. Placed(off, n) /\ off[n] = -Consumed
  BY <1>2, <1>5 DEF Framed
<1>8. Consumed < Size(Current)
  <2>1. CASE cState = "MESSAGE_TYPE"
    BY <2>1, <1>6, MessageSize DEF Consumed
  <2>2. CASE cState \in {"COMMAND_ID_1", "COMMAND_ID_2"}
    BY <2>2, <1>6, MessageSize DEF Consumed
  <2>3. CASE cState \in {"OBJECT_ID_1", "OBJECT_ID_2", "LENGTH_1", "LENGTH_2"}
    <3>1. Size(Current) = 5 + StatusLength /\ StatusLength \in Nat
      BY <1>6, <2>3, EncodeObject, CommsAssumption DEF ChannelInv, ParserInv, Bytes
    <3> QED
      BY <2>3, <3>1 DEF Consumed
  <2>4. CASE cState = "PAYLOAD"
    <3>1. Size(Current) = 5 + StatusLength /\ StatusLength \in Nat
      BY <1>6, <2>4, EncodeObject, CommsAssumption DEF ChannelInv, ParserInv, Bytes
    <3>2. nPayloadWrite + nReceivingLength = StatusLength /\ nReceivingLength > 0
      BY <2>4 DEF ChannelInv, ParserInv, IInv, PayloadFits
    <3>3. nPayloadWrite \in Nat /\ nReceivingLength \in Nat
      BY <1>1, NumbersType
    <3> QED
      BY <2>4, <3>1, <3>2, <3>3 DEF Consumed
  <2> QED
    BY <2>1, <2>2, <2>3, <2>4, <1>1 DEF ChannelInv, ParserInv, TypeOK, States
<1>9. ASSUME NEW q \in 1..Left, Consumed + q <= Size(Current)
      PROVE  buffer[i + q] = Encode(Current)[Consumed + q]
  <2>1. Consumed \in Nat /\ Size(Current) \in Nat /\ Left \in Nat
    BY <1>6, LengthsType, MessageSize
  <2>2. PICK k \in 1..Size(Current) : k = Consumed + q
    BY <1>9, <2>1
  <2>3. off[n] + k = q /\ q > 0 /\ q <= Left
    BY <1>7, <2>1, <2>2
  <2>4. ByteAt(q) = Encode(Current)[k]
    BY <1>6, <1>7, <2>2, <2>3 DEF Placed
  <2> QED
    BY <2>2, <2>3, <2>4 DEF ByteAt
<1>10. Current.type = "object" => Size(Current) - Consumed >= Left
  <2>1. Consumed \in Nat /\ Size(Current) \in Nat /\ Left \in Nat
    BY <1>6, LengthsType, MessageSize
  <2>2. off[n + 1] = Size(Current) - Consumed /\ off[n + 1] > 0
    BY <1>6, <1>7, <1>8, <2>1 DEF Placed
  <2> QED
    BY <1>6, <1>7, <2>1, <2>2 DEF Placed
<1> QED
  BY <1>5, <1>6, <1>8, <1>9, <1>10

(* Reading s more bytes of the message under way, or its last s bytes.        *)
LEMMA ReadOn ==
    ASSUME IInv, ChannelInv, ~coalesced, NEW s \in 0..Left,
           UNCHANGED <<sent, wire, buffer>>, Left' = Left - s,
           i' = i + s \/ Left' = 0,
           \/ UNCHANGED received /\ Consumed' = Consumed + s
           \/ /\ Len(received') = Len(received) + 1 /\ Len(received) < Len(sent)
              /\ Consumed' = 0 /\ Consumed + s = Size(Current)
    PROVE  FramingInv'
<1>1. PICK off \in [1..(Len(sent) + 1) -> Int] : Framed(off)
  BY DEF ChannelInv, FramingInv
<1>2. PICK off2 : off2 = [k \in 1..(Len(sent) + 1) |-> off[k] - s]
  OBVIOUS
<1>3. /\ Len(received) <= Len(sent) /\ Len(received) \in Nat /\ Len(sent) \in Nat
      /\ Left \in Nat /\ s \in Nat /\ Coming \in Nat /\ Consumed \in Nat /\ Len(wire) \in Nat
  BY LengthsType DEF ChannelInv, ReceivedInv
<1>4. off2 \in [1..(Len(sent) + 1) -> Int]
  BY <1>2, <1>3
<1>5. off2[Len(sent) + 1] = Coming'
  BY <1>1, <1>2, <1>3 DEF Framed, Coming
<1>6. ASSUME NEW n \in (Len(received) + 1)..Len(sent) PROVE Placed(off2, n)'
  <2>1. n \in 1..Len(sent) /\ Placed(off, n) /\ TypeOK
    BY <1>1, <1>3 DEF Framed, IInv
  <2> QED
    BY <1>2, <2>1, Shift
<1>7. CASE UNCHANGED received /\ Consumed' = Consumed + s
  <2>1. off2[Len(received') + 1] = -Consumed'
    BY <1>1, <1>2, <1>3, <1>7 DEF Framed
  <2>2. Framed(off2)'
    BY <1>5, <1>6, <1>7, <2>1 DEF Framed
  <2> QED
    BY <1>4, <2>2 DEF FramingInv
<1>8. CASE /\ Len(received') = Len(received) + 1 /\ Len(received) < Len(sent)
           /\ Consumed' = 0 /\ Consumed + s = Size(Current)
  <2>1. PICK n \in 1..Len(sent) : n = Len(received) + 1
    BY <1>3, <1>8
  <2>2. Placed(off, n) /\ off[n] = -Consumed /\ Current = sent[n]
    BY <1>1, <1>3, <2>1 DEF Framed, Current
  <2>3. off[n + 1] = s
    BY <1>3, <1>8, <2>2 DEF Placed
  <2>4. off2[Len(received') + 1] = -Consumed'
    BY <1>2, <1>3, <1>8, <2>1, <2>3
  <2>5. \A k \in (Len(received') + 1)..Len(sent) : Placed(off2, k)'
    BY <1>3, <1>6, <1>8
  <2>6. Framed(off2)'
    BY <1>5, <2>4, <2>5 DEF Framed
  <2> QED
    BY <1>4, <2>6 DEF FramingInv
<1> QED
  BY <1>7, <1>8

(* An iteration outside the payload reads the next byte of the message.       *)
LEMMA OneByte ==
    ASSUME IInv, ChannelInv, ~coalesced, i < Len(buffer), i' = i + 1, buffer' = buffer
    PROVE  /\ 1 \in 0..Left /\ Left' = Left - 1
           /\ Data = Encode(Current)[Consumed + 1]
<1>1. i \in Nat /\ Len(buffer) \in Nat /\ Left = Len(buffer) - i /\ Left \in Nat /\ Left > 0
  BY StreamType, NumbersType DEF IInv
<1>2. Left' = Left - 1
  BY <1>1 DEF Left
<1>3. Consumed + 1 <= Size(Current)
  BY NextBytes, LengthsType, MessageSize
<1>4. Data = Encode(Current)[Consumed + 1]
  <2>1. 1 \in 1..Left
    BY <1>1
  <2>2. buffer[i + 1] = Encode(Current)[Consumed + 1]
    BY <1>3, <2>1, NextBytes
  <2> QED
    BY <2>2 DEF Data
<1> QED
  BY <1>1, <1>2, <1>4

(* The header is read as it was written, so nothing is taken for an error.    *)
LEMMA HeaderRead ==
    ASSUME IInv, ChannelInv, ~coalesced,
           \/ MessageType \/ Id1 \/ ObjectId2 \/ CommandId2
           \/ Length1 \/ Length2 \/ Discard
    PROVE  /\ ParserInv' /\ ReceivedInv' /\ FramingInv'
           /\ UNCHANGED received \/
                 /\ Len(received) < Len(sent)
                 /\ received' = Append(received, Current)
<1>1. /\ i < Len(buffer) /\ i' = i + 1 /\ UNCHANGED <<sent, wire, buffer>>
  BY DEF MessageType, Id1, ObjectId2, CommandId2, Length1, Length2, Discard, Iterate, sender
<1>2. /\ 1 \in 0..Left /\ Left' = Left - 1 /\ i' = i + 1
      /\ Data = Encode(Current)[Consumed + 1]
  BY <1>1, OneByte
<1>3. /\ Len(received) < Len(sent) /\ Current \in Messages
      /\ ParserInv /\ ReceivedInv /\ PayloadFits
      /\ Len(received) \in Nat /\ Len(sent) \in Nat
  BY <1>1, NextBytes, LengthsType DEF ChannelInv, IInv
<1>4. ASSUME UNCHANGED received, Consumed' = Consumed + 1
      PROVE  FramingInv' /\ ReceivedInv' /\ Current' = Current
  BY <1>1, <1>2, <1>3, <1>4, ReadOn DEF ReceivedInv, Current
<1>5. CASE MessageType
  <2>1. cState = "MESSAGE_TYPE" /\ UNCHANGED received /\ Consumed = 0
    BY <1>5 DEF MessageType, Iterate, Consumed
  <2>2. Data = IF Current.type = "object" THEN COMMS_MESSAGE_TYPE_OBJECT
                                          ELSE COMMS_MESSAGE_TYPE_COMMAND
    BY <1>2, <1>3, <2>1, EncodeObject, EncodeCommand, MessageSize
  <2>3. \/ Current.type = "object" /\ cState' = "OBJECT_ID_1"
        \/ Current.type = "command" /\ cState' = "COMMAND_ID_1"
    BY <1>3, <1>5, <2>2, TypesDiffer, MessageSize DEF MessageType
  <2>4. Consumed' = Consumed + 1
    BY <2>1, <2>3 DEF Consumed
  <2> QED
    BY <1>1, <1>3, <1>4, <2>1, <2>3, <2>4 DEF ParserInv
<1>6. CASE Id1
  <2>1. /\ UNCHANGED received /\ Consumed = 1 /\ nReceivingID' = Data
        /\ \/ cState = "OBJECT_ID_1" /\ cState' = "OBJECT_ID_2"
           \/ cState = "COMMAND_ID_1" /\ cState' = "COMMAND_ID_2"
    BY <1>6 DEF Id1, Iterate, Consumed
  <2>2. Data = Current.id
    BY <1>2, <1>3, <2>1, EncodeObject, EncodeCommand, MessageSize
  <2>3. Consumed' = Consumed + 1
    BY <2>1 DEF Consumed
  <2> QED
    BY <1>1, <1>3, <1>4, <2>1, <2>2, <2>3 DEF ParserInv
<1>7. CASE ObjectId2
  <2>1. /\ UNCHANGED received /\ Consumed = 2 /\ cState = "OBJECT_ID_2"
        /\ cState' = "LENGTH_1" /\ nReceivingID' = nReceivingID + 256 * Data
    BY <1>7 DEF ObjectId2, Iterate, Consumed
  <2>2. Data = 0 /\ nReceivingID \in Nat
    BY <1>2, <1>3, <2>1, EncodeObject, NumbersType DEF ParserInv, IInv
  <2>3. Consumed' = Consumed + 1 /\ nReceivingID' = nReceivingID
    BY <2>1, <2>2 DEF Consumed
  <2> QED
    BY <1>1, <1>3, <1>4, <2>1, <2>3 DEF ParserInv
<1>8. CASE CommandId2
  <2> DEFINE m == [type |-> "command", id |-> nReceivingID + 256 * Data, body |-> << >>]
  <2>1. Consumed = 2 /\ cState = "COMMAND_ID_2" /\ Finish(m)
    BY <1>8 DEF CommandId2, Iterate, Consumed
  <2>2. Data = 0 /\ nReceivingID \in Nat /\ nReceivingID = Current.id /\ Size(Current) = 3
    BY <1>2, <1>3, <2>1, EncodeCommand, NumbersType DEF ParserInv, IInv
  <2>3. m = Current
    BY <1>3, <2>1, <2>2, EncodeCommand DEF ParserInv
  <2> HIDE DEF m
  <2>4. received' = Append(received, Current) /\ cState' = "MESSAGE_TYPE"
    BY <2>1, <2>3 DEF Finish
  <2>5. Len(received') = Len(received) + 1 /\ ReceivedInv'
    BY <1>1, <1>3, <2>4 DEF ChannelInv, ReceivedInv, Current
  <2>6. Consumed' = 0 /\ Consumed + 1 = Size(Current)
    BY <2>1, <2>2, <2>4 DEF Consumed
  <2>7. FramingInv'
    BY <1>1, <1>2, <1>3, <2>5, <2>6, ReadOn
  <2> QED
    BY <1>3, <2>4, <2>5, <2>7 DEF ParserInv
<1>9. CASE Length1
  <2>1. /\ UNCHANGED <<received, nReceivingID>> /\ Consumed = 3 /\ cState = "LENGTH_1"
        /\ cState' = "LENGTH_2" /\ nReceivingLength' = Data
    BY <1>9 DEF Length1, Iterate, Consumed
  <2>2. Data = StatusLength
    BY <1>2, <1>3, <2>1, EncodeObject DEF ParserInv
  <2>3. Consumed' = Consumed + 1
    BY <2>1 DEF Consumed
  <2> QED
    BY <1>1, <1>3, <1>4, <2>1, <2>2, <2>3 DEF ParserInv
<1>10. CASE Length2
  <2>1. UNCHANGED <<received, nReceivingID, nPayloadWrite>> /\ Consumed = 4 /\ cState = "LENGTH_2"
    BY <1>10 DEF Length2, Iterate, Consumed
  <2>2. Data = 0 /\ StatusLength \in Nat /\ nReceivingLength = StatusLength
    BY <1>2, <1>3, <2>1, EncodeObject, CommsAssumption DEF ParserInv, Bytes
  <2>3. nReceivingLength + 256 * Data = StatusLength
    BY <2>2
  <2>4. LengthCheck(nReceivingID, nReceivingLength + 256 * Data)
    BY <1>3, <2>1, <2>3, EncodeObject DEF ParserInv, LengthCheck
  <2>5. cState' = "PAYLOAD" /\ nReceivingLength' = StatusLength
    BY <1>10, <2>3, <2>4 DEF Length2
  <2>6. nPayloadWrite = 0
    BY <1>3, <2>1 DEF PayloadFits
  <2>7. Consumed' = Consumed + 1
    BY <2>1, <2>5, <2>6 DEF Consumed
  <2> QED
    BY <1>1, <1>3, <1>4, <2>1, <2>2, <2>5, <2>6, <2>7 DEF ParserInv
<1>11. CASE Discard
  BY <1>3, <1>11 DEF Discard, Iterate, ParserInv
<1> QED
  BY <1>5, <1>6, <1>7, <1>8, <1>9, <1>10, <1>11

(* Not coalesced, a chunk never reaches beyond the object: all of it is       *)
(* copied, however narrow cBytesLeft is, and reading goes on in the next.      *)
LEMMA PayloadRead ==
    ASSUME IInv, ChannelInv, ~coalesced, Payload
    PROVE  /\ ParserInv' /\ ReceivedInv' /\ FramingInv'
           /\ UNCHANGED received \/
                 /\ Len(received) < Len(sent)
                 /\ received' = Append(received, Current)
<1>1. i < Len(buffer) /\ cState = "PAYLOAD" /\ UNCHANGED <<sent, wire, buffer>>
  BY DEF Payload, Iterate, sender
<1>2. /\ Len(received) < Len(sent) /\ Current \in Messages /\ Current.type = "object"
      /\ ParserInv /\ ReceivedInv /\ PayloadFits /\ nReceivingID = Current.id
      /\ Len(received) \in Nat /\ Len(sent) \in Nat
      /\ nPayloadWrite + nReceivingLength = StatusLength
  BY <1>1, NextBytes, LengthsType DEF ChannelInv, IInv, ParserInv
<1>3. /\ i \in Nat /\ Len(buffer) \in Nat /\ Left = Len(buffer) - i /\ Left \in Nat
      /\ Left > 0 /\ nPayloadWrite \in Nat /\ nReceivingLength \in Nat
      /\ StatusLength \in Nat /\ ByteMod \in Nat /\ StatusLength < ByteMod
      /\ nReceivingLength > 0
  BY <1>1, <1>2, StreamType, NumbersType, CommsAssumption DEF IInv, PayloadFits, Bytes
<1>4. Consumed = 5 + nPayloadWrite /\ Size(Current) = 5 + StatusLength
  BY <1>1, <1>2, EncodeObject DEF Consumed
<1>5. Left <= nReceivingLength
  BY <1>1, <1>2, <1>3, <1>4, NextBytes, SMTT(30)
<1>6. BytesLeft = Left
  <2>1. PICK room \in Nat : room = Left
    BY <1>3
  <2>2. room % ByteMod = room
    BY <1>2, <1>3, <1>5, <2>1
  <2> QED
    BY <1>3, <1>5, <2>1, <2>2 DEF BytesLeft
<1>7. i' = Len(buffer) + 1 /\ Left' = 0
  BY <1>1, <1>3, <1>6 DEF Payload, Left
<1>12. PICK n \in Nat : n = Left
  BY <1>3
<1>8. /\ Copied(n) \in Seq(Bytes) /\ Len(Copied(n)) = nPayloadWrite + n
      /\ Copied(n) \in [1..(nPayloadWrite + n) -> Bytes]
  <2>1. Copied(n) \in Seq(Bytes) /\ Len(Copied(n)) = nPayloadWrite + n
    <3>1. TypeOK /\ Len(pcPayload) = nPayloadWrite /\ n <= Len(buffer) - i
      BY <1>1, <1>3, <1>12 DEF IInv, PayloadFits
    <3> QED
      BY <3>1, CopiedType
  <2> QED
    BY <2>1
<1>9. ASSUME NEW k \in 1..(nPayloadWrite + n)
      PROVE  Copied(n)[k] = Current.body[k]
  <2>1. k \in Nat /\ k > 0 /\ k <= nPayloadWrite + Left /\ k \in 1..StatusLength
    BY <1>2, <1>3, <1>5, <1>12
  <2>2. CASE k <= nPayloadWrite
    BY <1>1, <1>2, <1>3, <1>9, <2>1, <2>2, SMTT(30) DEF Copied, ParserInv
  <2>3. CASE ~(k <= nPayloadWrite)
    <3>1. PICK q \in 1..Left : q = k - nPayloadWrite
      BY <1>3, <2>1, <2>3
    <3>2. /\ i + k - nPayloadWrite = i + q /\ Consumed + q = 5 + k
          /\ Consumed + q <= Size(Current)
      BY <1>3, <1>4, <2>1, <3>1
    <3>3. buffer[i + q] = Encode(Current)[5 + k]
      BY <1>1, <3>1, <3>2, NextBytes
    <3>4. Encode(Current)[5 + k] = Current.body[k]
      BY <1>2, <2>1, EncodeObject
    <3> QED
      BY <1>9, <2>3, <3>2, <3>3, <3>4 DEF Copied
  <2> QED
    BY <2>2, <2>3
<1>10. CASE Left = nReceivingLength
  <2> DEFINE m == [type |-> "object", id |-> nReceivingID, body |-> Copied(n)]
  <2>1. Finish(m)
    BY <1>6, <1>10, <1>12 DEF Payload
  <2>2. m = Current
    <3>1. Copied(n) \in [1..StatusLength -> Bytes] /\ nPayloadWrite + n = StatusLength
      BY <1>2, <1>8, <1>10, <1>12
    <3>3. \A k \in 1..StatusLength : Copied(n)[k] = Current.body[k]
      BY <1>9, <3>1
    <3>4. PICK f \in [1..StatusLength -> Bytes] : f = Copied(n)
      BY <3>1
    <3>5. PICK g \in [1..StatusLength -> Bytes] : g = Current.body
      BY <1>2, EncodeObject
    <3>7. \A k \in 1..StatusLength : f[k] = g[k]
      BY <3>3, <3>4, <3>5
    <3>6. f = g
      <4>1. f = [k \in 1..StatusLength |-> f[k]] /\ g = [k \in 1..StatusLength |-> g[k]]
        OBVIOUS
      <4> QED
        BY <3>7, <4>1, Zenon
    <3>2. Copied(n) = Current.body
      BY <3>4, <3>5, <3>6
    <3> QED
      BY <1>2, <3>2, EncodeObject
  <2> HIDE DEF m
  <2>3. received' = Append(received, Current) /\ cState' = "MESSAGE_TYPE"
    BY <2>1, <2>2 DEF Finish
  <2>4. Len(received') = Len(received) + 1 /\ ReceivedInv'
    BY <1>1, <1>2, <2>3 DEF ChannelInv, ReceivedInv, Current
  <2>5. Consumed' = 0 /\ Consumed + Left = Size(Current)
    <3>1. Consumed' = 0
      BY <2>3 DEF Consumed
    <3> QED
      BY <1>2, <1>3, <1>4, <1>10, <3>1
  <2>6. FramingInv'
    BY <1>1, <1>2, <1>3, <1>7, <2>4, <2>5, ReadOn
  <2> QED
    BY <1>2, <2>3, <2>4, <2>6 DEF ParserInv
<1>11. CASE Left # nReceivingLength
  <2>1. /\ pcPayload' = Copied(n) /\ nPayloadWrite' = nPayloadWrite + Left
        /\ nReceivingLength' = nReceivingLength - Left
        /\ UNCHANGED <<cState, nReceivingID, received>>
    BY <1>6, <1>11, <1>12 DEF Payload
  <2>2. Consumed' = Consumed + Left
    BY <1>1, <1>3, <1>4, <2>1 DEF Consumed
  <2>3. FramingInv'
    BY <1>1, <1>3, <1>7, <2>1, <2>2, ReadOn
  <2>4. nPayloadWrite' + nReceivingLength' = StatusLength
    BY <1>2, <1>3, <2>1
  <2>5. ReceivedInv' /\ Current' = Current
    BY <1>1, <1>2, <2>1 DEF ReceivedInv, Current
  <2>6. \A k \in 1..nPayloadWrite' : pcPayload'[k] = Current'.body[k]
    BY <1>9, <1>12, <2>1, <2>5
  <2> QED
    BY <1>1, <1>2, <2>1, <2>3, <2>4, <2>5, <2>6 DEF ParserInv
<1> QED
  BY <1>10, <1>11

-------------------------------------------------------------------------------
(* A message is put behind the last one.                                      *)
LEMMA SendFramed ==
    ASSUME IInv, ChannelInv, ~coalesced, Send
    PROVE  ParserInv' /\ ReceivedInv' /\ FramingInv'
<1>1. PICK m \in Messages : sent' = Append(sent, m) /\ wire' = wire \o OnWire(m)
  BY DEF Send
<1>2. UNCHANGED <<buffer, i, cState, message, cLastError, received, coalesced>>
  BY DEF Send
<1>3. /\ Len(received) \in Nat /\ Len(sent) \in Nat /\ Len(received) <= Len(sent)
      /\ Left \in Nat /\ Len(wire) \in Nat /\ Coming \in Nat /\ Consumed \in Nat
  BY LengthsType DEF ChannelInv, ReceivedInv
<1>4. /\ Len(sent') = Len(sent) + 1 /\ sent'[Len(sent) + 1] = m
      /\ \A n \in 1..Len(sent) : sent'[n] = sent[n]
  BY <1>1 DEF IInv, TypeOK
<1>5. Left' = Left /\ Consumed' = Consumed
  BY <1>2 DEF Left, Consumed, message
<1>6. /\ Size(m) \in Nat /\ Size(m) >= 3
      /\ Len(OnWire(m)) = Size(m)
      /\ \A k \in 1..Size(m) :
            OnWire(m)[k] = [byte |-> Encode(m)[k],
                            ends |-> m.type = "object" /\ k = Size(m)]
  BY MessageSize DEF OnWire, Size
<1>7. /\ Len(wire') = Len(wire) + Size(m) /\ Coming' = Coming + Size(m)
      /\ \A p \in 1..Len(wire) : wire'[p] = wire[p]
      /\ \A k \in 1..Size(m) : wire'[Len(wire) + k] = OnWire(m)[k]
  <2>1. wire \in Seq(Carried) /\ OnWire(m) \in Seq(Carried)
    BY OnWireType DEF IInv, TypeOK, Carried
  <2>2. /\ Len(wire \o OnWire(m)) = Len(wire) + Size(m)
        /\ \A p \in 1..(Len(wire) + Size(m)) :
              (wire \o OnWire(m))[p] = IF p <= Len(wire) THEN wire[p] ELSE OnWire(m)[p - Len(wire)]
    <3>1. /\ Len(wire \o OnWire(m)) = Len(wire) + Len(OnWire(m))
          /\ \A p \in 1..(Len(wire) + Len(OnWire(m))) :
                (wire \o OnWire(m))[p] =
                  IF p <= Len(wire) THEN wire[p] ELSE OnWire(m)[p - Len(wire)]
      BY <2>1, Concatenated
    <3> QED
      BY <1>6, <3>1, Zenon
  <2>3. \A p \in 1..Len(wire) : wire'[p] = wire[p]
    BY <1>1, <1>3, <1>6, <2>2
  <2>4. ASSUME NEW k \in 1..Size(m) PROVE wire'[Len(wire) + k] = OnWire(m)[k]
    <3>1. PICK p \in 1..(Len(wire) + Size(m)) : p = Len(wire) + k
      BY <1>3, <1>6
    <3>2. ~(p <= Len(wire)) /\ p - Len(wire) = k
      BY <1>3, <1>6, <3>1
    <3> QED
      BY <1>1, <2>2, <3>1, <3>2
  <2> QED
    BY <1>1, <1>3, <1>5, <1>6, <2>2, <2>3, <2>4 DEF Coming
<1>8. ReceivedInv'
  BY <1>2, <1>3, <1>4 DEF ChannelInv, ReceivedInv
<1>9. ParserInv'
  <2>1. Len(received) < Len(sent) => Current' = Current
    BY <1>2, <1>3, <1>4 DEF Current
  <2> QED
    BY <1>2, <1>3, <1>4, <2>1 DEF ChannelInv, ParserInv, message
<1>10. FramingInv'
  <2>1. PICK off \in [1..(Len(sent) + 1) -> Int] : Framed(off)
    BY DEF ChannelInv, FramingInv
  <2>2. PICK off2 : off2 = [k \in 1..(Len(sent) + 2) |->
                               IF k <= Len(sent) + 1 THEN off[k] ELSE Coming + Size(m)]
    OBVIOUS
  <2>3. /\ off2 \in [1..(Len(sent') + 1) -> Int]
        /\ \A k \in 1..(Len(sent) + 1) : off2[k] = off[k]
        /\ off2[Len(sent') + 1] = Coming'
    BY <1>3, <1>4, <1>6, <1>7, <2>2
  <2>4. off2[Len(received') + 1] = -Consumed'
    BY <1>2, <1>3, <1>5, <2>1, <2>3 DEF Framed
  <2>5. ASSUME NEW q \in Int, q > 0, q <= Coming PROVE ByteAt(q)' = ByteAt(q)
    <3>1. CASE q <= Left
      BY <1>2, <1>5, <3>1 DEF ByteAt
    <3>2. CASE ~(q <= Left)
      <4>1. q - Left \in 1..Len(wire)
        BY <1>3, <2>5, <3>2 DEF Coming
      <4> QED
        BY <1>5, <1>7, <3>2, <4>1 DEF ByteAt
    <3> QED
      BY <3>1, <3>2
  <2>6. ASSUME NEW n \in (Len(received) + 1)..Len(sent) PROVE Placed(off2, n)'
    <3>1. /\ n \in 1..(Len(sent) + 1) /\ n + 1 \in 1..(Len(sent) + 1) /\ n \in 1..Len(sent)
      BY <1>3
    <3>2. off2[n] = off[n] /\ off2[n + 1] = off[n + 1] /\ sent'[n] = sent[n] /\ Placed(off, n)
          /\ off[n] \in Int /\ off[n + 1] \in Int /\ Size(sent[n]) \in Nat
      BY <1>4, <2>1, <2>3, <3>1, MessageSize, StreamType DEF Framed, IInv
    <3>3. \A k \in 1..Size(sent[n]) : off[n] + k > 0 => ByteAt(off[n] + k)' = Encode(sent[n])[k]
      <4> SUFFICES ASSUME NEW k \in 1..Size(sent[n]), off[n] + k > 0
                   PROVE  ByteAt(off[n] + k)' = Encode(sent[n])[k]
        OBVIOUS
      <4>1. PICK q \in Int : q = off[n] + k
        BY <3>2
      <4>2. q > 0 /\ q <= Coming
        BY <1>3, <3>2, <4>1, SMTT(30) DEF Placed
      <4>3. ByteAt(q)' = ByteAt(q)
        BY <2>5, <4>2
      <4> QED
        BY <3>2, <4>1, <4>3 DEF Placed
    <3>4. sent[n].type = "object" /\ off[n + 1] > Left => wire'[off[n + 1] - Left].ends
      <4> SUFFICES ASSUME sent[n].type = "object", off[n + 1] > Left
                   PROVE  wire'[off[n + 1] - Left].ends
        OBVIOUS
      <4>1. off[n + 1] - Left \in 1..Len(wire)
        BY <1>3, <3>2, SMTT(30) DEF Placed, Coming
      <4> QED
        BY <1>7, <3>2, <4>1 DEF Placed
    <3> QED
      BY <1>3, <1>5, <1>6, <1>7, <3>2, <3>3, <3>4, SMTT(30) DEF Placed
  <2>7. ASSUME NEW n \in Nat, n = Len(sent) + 1 PROVE Placed(off2, n)'
    <3>1. PICK c \in Nat : c = Coming
      BY <1>3
    <3>2. off2[n] = c /\ off2[n + 1] = c + Size(m) /\ sent'[n] = m /\ n + 1 = Len(sent') + 1
      <4>1. /\ n \in 1..(Len(sent) + 1) /\ off[n] = Coming
            /\ n + 1 = Len(sent') + 1 /\ sent'[n] = m
        BY <1>3, <1>4, <2>1, <2>7 DEF Framed
      <4>2. off2[n] = c
        BY <2>3, <3>1, <4>1
      <4>3. off2[n + 1] = c + Size(m)
        BY <1>7, <2>3, <3>1, <4>1
      <4> QED
        BY <4>1, <4>2, <4>3
    <3>3. ASSUME NEW k \in 1..Size(m) PROVE ByteAt(c + k)' = Encode(m)[k]
      <4>1. ~(c + k <= Left) /\ c + k - Left = Len(wire) + k
        BY <1>3, <1>6, <3>1 DEF Coming
      <4>2. ByteAt(c + k)' = wire'[Len(wire) + k].byte
        <5>1. PICK q \in Int : q = c + k
          BY <1>6
        <5>2. ~(q <= Left') /\ q - Left' = Len(wire) + k
          BY <1>3, <1>5, <1>6, <4>1, <5>1
        <5>3. ByteAt(q)' = wire'[Len(wire) + k].byte
          BY <5>2 DEF ByteAt
        <5> QED
          BY <5>1, <5>3
      <4> QED
        BY <1>6, <1>7, <4>2
    <3>4. m.type = "object" => wire'[c + Size(m) - Left].ends
      <4>1. c + Size(m) - Left = Len(wire) + Size(m) /\ Size(m) \in 1..Size(m)
        BY <1>3, <1>6, <3>1 DEF Coming
      <4>2. wire'[Len(wire) + Size(m)] = OnWire(m)[Size(m)]
        BY <1>7, <4>1
      <4>3. ASSUME m.type = "object" PROVE OnWire(m)[Size(m)].ends
        <5>1. PICK e : e = (m.type = "object" /\ Size(m) = Size(m))
          OBVIOUS
        <5>2. e = TRUE
          BY <4>3, <5>1
        <5>3. OnWire(m)[Size(m)] = [byte |-> Encode(m)[Size(m)], ends |-> e]
          BY <1>6, <4>1, <5>1
        <5> QED
          BY <5>2, <5>3
      <4> QED
        BY <4>1, <4>2, <4>3
    <3>5. c >= Left
      BY <1>3, <3>1 DEF Coming
    <3>6. Coming' = c + Size(m)
      BY <1>7, <3>1
    <3> QED
      <4>1. /\ off2[n + 1] = off2[n] + Size(m) /\ off2[n + 1] <= Coming'
            /\ off2[n + 1] >= Left' /\ off2[n + 1] - Left' = c + Size(m) - Left
        BY <1>3, <1>5, <1>6, <3>1, <3>2, <3>5, <3>6, SMTT(30)
      <4>2. \A k \in 1..Size(m) : ByteAt(off2[n] + k)' = Encode(m)[k]
        BY <3>2, <3>3
      <4>3. m.type = "object" => wire'[off2[n + 1] - Left'].ends
        BY <3>4, <4>1
      <4> QED
        BY <3>2, <4>1, <4>2, <4>3 DEF Placed
  <2>8. Framed(off2)'
    <3>1. \A n \in (Len(received) + 1)..(Len(sent) + 1) : Placed(off2, n)'
      <4> SUFFICES ASSUME NEW n \in (Len(received) + 1)..(Len(sent) + 1)
                   PROVE  Placed(off2, n)'
        OBVIOUS
      <4>1. n \in (Len(received) + 1)..Len(sent) \/ (n \in Nat /\ n = Len(sent) + 1)
        BY <1>3
      <4> QED
        BY <2>6, <2>7, <4>1
    <3> QED
      BY <1>2, <1>4, <2>3, <2>4, <3>1 DEF Framed
  <2> QED
    BY <2>3, <2>8 DEF FramingInv
<1> QED
  BY <1>8, <1>9, <1>10

(* recv() moves bytes from the wire to the buffer.  If it does not coalesce,  *)
(* an object that ends among them ends with the last of them.                 *)
LEMMA RecvFramed ==
    ASSUME IInv, ChannelInv, NEW n \in 1..Len(wire), Recv(n), ~coalesced'
    PROVE  ~coalesced /\ ParserInv' /\ ReceivedInv' /\ FramingInv'
<1>1. /\ ~coalesced /\ \A k \in 1..(n - 1) : ~wire[k].ends
      /\ i >= Len(buffer) /\ i' = 0
      /\ buffer' = [k \in 1..n |-> wire[k].byte]
      /\ wire' = SubSeq(wire, n + 1, Len(wire))
      /\ UNCHANGED <<sent, cState, message, cLastError, received>>
  BY DEF Recv
<1>2. /\ Len(received) \in Nat /\ Len(sent) \in Nat /\ Len(received) <= Len(sent)
      /\ Len(wire) \in Nat /\ Coming \in Nat /\ n \in Nat /\ n > 0 /\ n <= Len(wire)
  BY <1>1, LengthsType DEF ChannelInv, ReceivedInv
<1>3. Left = 0 /\ Left' = n /\ Consumed' = Consumed
  <2>1. i \in Nat /\ Len(buffer) \in Nat
    BY NumbersType DEF IInv
  <2>2. Len(buffer') = n
    BY <1>1, <1>2
  <2> QED
    BY <1>1, <1>2, <2>1, <2>2 DEF Left, Consumed, message
<1>4. /\ Len(wire') = Len(wire) - n
      /\ \A p \in 1..(Len(wire) - n) : wire'[p] = wire[n + p]
  <2>1. wire \in Seq(Carried)
    BY DEF IInv, TypeOK, Carried
  <2> HIDE DEF Carried
  <2> QED
    BY <1>1, <1>2, <2>1
<1>5. Coming' = Coming
  BY <1>2, <1>3, <1>4 DEF Coming
<1>6. ASSUME NEW q \in Int, q > 0, q <= Coming PROVE ByteAt(q)' = ByteAt(q)
  <2>1. ByteAt(q) = wire[q].byte /\ q <= Len(wire)
    BY <1>2, <1>3, <1>6 DEF ByteAt, Coming
  <2>2. CASE q <= n
    <3>1. 0 + q = q /\ q \in 1..n
      BY <1>6, <2>2
    <3> QED
      BY <1>1, <1>3, <2>1, <2>2, <3>1 DEF ByteAt
  <2>3. CASE ~(q <= n)
    <3>1. q - n \in 1..(Len(wire) - n) /\ n + (q - n) = q
      BY <1>2, <2>1, <2>3
    <3> QED
      BY <1>3, <1>4, <2>1, <2>3, <3>1 DEF ByteAt
  <2> QED
    BY <2>2, <2>3
<1>7. ParserInv' /\ ReceivedInv'
  BY <1>1 DEF ChannelInv, ParserInv, ReceivedInv, Current, message
<1>8. FramingInv'
  <2>1. PICK off \in [1..(Len(sent) + 1) -> Int] : Framed(off)
    BY <1>1 DEF ChannelInv, FramingInv
  <2>2. ASSUME NEW x \in (Len(received) + 1)..Len(sent) PROVE Placed(off, x)'
    <3>1. x \in 1..(Len(sent) + 1) /\ x + 1 \in 1..(Len(sent) + 1) /\ x \in 1..Len(sent)
      BY <1>2
    <3>2. off[x] \in Int /\ off[x + 1] \in Int /\ Size(sent[x]) \in Nat /\ Placed(off, x)
      BY <2>1, <3>1, MessageSize, StreamType DEF Framed, IInv
    <3>3. \A k \in 1..Size(sent[x]) : off[x] + k > 0 => ByteAt(off[x] + k)' = Encode(sent[x])[k]
      <4> SUFFICES ASSUME NEW k \in 1..Size(sent[x]), off[x] + k > 0
                   PROVE  ByteAt(off[x] + k)' = Encode(sent[x])[k]
        OBVIOUS
      <4>1. PICK q \in Int : q = off[x] + k
        BY <3>2
      <4>2. q > 0 /\ q <= Coming
        BY <1>2, <3>2, <4>1, SMTT(30) DEF Placed
      <4>3. ByteAt(q)' = ByteAt(q)
        BY <1>6, <4>2
      <4> QED
        BY <3>2, <4>1, <4>3 DEF Placed
    <3>4. ASSUME sent[x].type = "object", off[x + 1] > 0
          PROVE  /\ off[x + 1] >= n
                 /\ off[x + 1] > n => wire'[off[x + 1] - n].ends
      <4>1. wire[off[x + 1]].ends /\ off[x + 1] <= Len(wire)
        BY <1>2, <1>3, <3>2, <3>4 DEF Placed, Coming
      <4>2. off[x + 1] \notin 1..(n - 1)
        BY <1>1, <4>1
      <4>3. off[x + 1] >= n
        BY <1>2, <3>2, <3>4, <4>2
      <4>4. ASSUME off[x + 1] > n PROVE wire'[off[x + 1] - n].ends
        <5>1. off[x + 1] - n \in 1..(Len(wire) - n) /\ n + (off[x + 1] - n) = off[x + 1]
          BY <1>2, <3>2, <4>1, <4>4, SMTT(30)
        <5> QED
          BY <1>4, <4>1, <5>1
      <4> QED
        BY <4>3, <4>4
    <3>5. sent'[x] = sent[x] /\ Left' = n /\ n > 0 /\ n \in Int
      BY <1>1, <1>2, <1>3
    <3>6. off[x + 1] > n => off[x + 1] > 0
      BY <3>2, <3>5
    <3> QED
      BY <1>5, <3>2, <3>3, <3>4, <3>5, <3>6 DEF Placed
  <2>3. Framed(off)'
    BY <1>1, <1>3, <1>5, <2>1, <2>2 DEF Framed
  <2> QED
    BY <1>1, <2>3 DEF FramingInv
<1> QED
  BY <1>1, <1>7, <1>8

-------------------------------------------------------------------------------
(* Only two iterations give something to a callback, and what they give has   *)
(* the form of a message even on a garbled connection.                        *)
LEMMA ReceiveType ==
    ASSUME IInv, ChannelInv, Receive
    PROVE  /\ received' \in Seq(Received)
           /\ UNCHANGED <<sent, coalesced>>
           /\ UNCHANGED received \/ \E m \in Received : received' = Append(received, m)
<1>1. CASE MessageType \/ Id1 \/ ObjectId2 \/ Length1 \/ Length2 \/ Discard
  BY <1>1 DEF MessageType, Id1, ObjectId2, Length1, Length2, Discard, sender, ChannelInv
<1>2. ASSUME NEW m, Finish(m), m \in Received, UNCHANGED <<sent, coalesced>>
      PROVE  /\ received' \in Seq(Received)
             /\ \E x \in Received : received' = Append(received, x)
  BY <1>2 DEF Finish, ChannelInv
<1>3. CASE CommandId2
  <2> DEFINE m == [type |-> "command", id |-> nReceivingID + 256 * Data, body |-> << >>]
  <2>1. i < Len(buffer) /\ nReceivingID \in Bytes
    BY <1>3 DEF CommandId2, Iterate, IInv, HalvesInv
  <2>2. Data \in Bytes
    BY <2>1, NumbersType DEF IInv, Data
  <2>3. m \in Received
    BY <2>1, <2>2 DEF Bytes, UInt16, Received
  <2>4. Finish(m) /\ UNCHANGED <<sent, coalesced>>
    BY <1>3 DEF CommandId2, sender
  <2> HIDE DEF m
  <2> QED
    BY <1>2, <2>3, <2>4
<1>4. CASE Payload
  <2>1. PICK n : n = BytesLeft
    OBVIOUS
  <2> DEFINE m == [type |-> "object", id |-> nReceivingID, body |-> Copied(n)]
  <2>2. i < Len(buffer) /\ cState = "PAYLOAD" /\ UNCHANGED <<sent, coalesced>>
    BY <1>4 DEF Payload, Iterate, sender
  <2>3. n \in 0..nReceivingLength /\ n <= Len(buffer) - i
    BY <2>1, <2>2, BytesLeftBound DEF IInv
  <2>4. Copied(n) \in Seq(Bytes)
    BY <2>2, <2>3, CopiedType, NumbersType DEF IInv, PayloadFits
  <2>5. m \in Received
    BY <2>4 DEF IInv, TypeOK, Received
  <2>6. Finish(m) \/ UNCHANGED received
    BY <1>4, <2>1 DEF Payload
  <2> HIDE DEF m
  <2> QED
    BY <1>2, <2>2, <2>5, <2>6 DEF ChannelInv
<1> QED
  BY <1>1, <1>3, <1>4 DEF Receive

(* Every step is one of MessageChannel or a stutter, and keeps the invariant. *)
LEMMA ChannelStep ==
    ASSUME IInv, ChannelInv, [Next]_vars
    PROVE  ChannelInv' /\ [Channel!Next]_(Channel!vars)
<1>1. CASE Send
  <2>1. PICK m \in Messages : sent' = Append(sent, m)
    BY <1>1 DEF Send
  <2>2. UNCHANGED <<received, coalesced>>
    BY <1>1 DEF Send
  <2>3. ChannelInv'
    BY <1>1, <2>2, SendFramed DEF ChannelInv
  <2> QED
    BY <2>1, <2>2, <2>3 DEF Channel!Next, Channel!Send
<1>2. ASSUME NEW n \in 1..Len(wire), Recv(n)
      PROVE  ChannelInv' /\ [Channel!Next]_(Channel!vars)
  <2>1. UNCHANGED <<sent, received>> /\ coalesced' \in BOOLEAN
    BY <1>2 DEF Recv
  <2>2. ChannelInv'
    BY <1>2, <2>1, RecvFramed DEF ChannelInv
  <2>3. CASE coalesced'
    <3>1. coalesced' = TRUE
      BY <2>1, <2>3
    <3> QED
      BY <2>1, <2>2, <3>1 DEF Channel!Next, Channel!Break
  <2>4. CASE ~coalesced'
    <3>1. coalesced' = coalesced
      BY <1>2, <2>1, <2>4, RecvFramed DEF ChannelInv
    <3> QED
      BY <2>1, <2>2, <3>1 DEF Channel!vars
  <2> QED
    BY <2>3, <2>4
<1>3. CASE Receive
  <2>1. /\ received' \in Seq(Received) /\ UNCHANGED <<sent, coalesced>>
        /\ UNCHANGED received \/ \E m \in Received : received' = Append(received, m)
    BY <1>3, ReceiveType
  <2>2. CASE coalesced
    <3>1. ChannelInv'
      BY <2>1, <2>2 DEF ChannelInv
    <3>2. SubSeq(received', 1, Len(received)) = received
      BY <2>1 DEF ChannelInv
    <3> QED
      BY <2>1, <2>2, <3>1, <3>2 DEF Channel!Next, Channel!Garble
  <2>3. CASE ~coalesced
    <3>1. /\ ParserInv' /\ ReceivedInv' /\ FramingInv'
          /\ UNCHANGED received \/
                /\ Len(received) < Len(sent)
                /\ received' = Append(received, Current)
      BY <1>3, <2>3, HeaderRead, PayloadRead DEF Receive
    <3>2. ChannelInv'
      BY <2>1, <3>1 DEF ChannelInv
    <3> QED
      BY <2>1, <2>3, <3>1, <3>2 DEF Channel!Next, Channel!Deliver, Channel!vars, Current
  <2> QED
    BY <2>2, <2>3
<1>4. CASE UNCHANGED vars
  <2>1. /\ UNCHANGED <<sent, wire, buffer, i, cState, nReceivingID, nReceivingLength>>
        /\ UNCHANGED <<pcPayload, nPayloadWrite, received, coalesced>>
    BY <1>4 DEF vars, sender, message
  <2>2. ParserInv' = ParserInv /\ ReceivedInv' = ReceivedInv
    BY <2>1 DEF ParserInv, ReceivedInv, Current
  <2>3. ASSUME NEW off PROVE Framed(off)' <=> Framed(off)
    BY <2>1 DEF Framed, Placed, Coming, Left, Consumed, ByteAt
  <2>4. FramingInv => FramingInv'
    BY <2>1, <2>3 DEF FramingInv
  <2> QED
    BY <2>1, <2>2, <2>4 DEF ChannelInv, Channel!vars
<1> QED
  BY <1>1, <1>2, <1>3, <1>4 DEF Next

(* Nothing has been sent when the connection is set up.                       *)
LEMMA InitChannel == Init => ChannelInv /\ Channel!Init
<1> SUFFICES ASSUME Init PROVE ChannelInv /\ Channel!Init
  OBVIOUS
<1>1. Channel!Init
  BY DEF Init, Channel!Init
<1>2. received \in Seq(Received) /\ coalesced \in BOOLEAN /\ ParserInv /\ ReceivedInv
  <2>1. cState = "MESSAGE_TYPE" /\ received = << >> /\ coalesced = FALSE
    BY DEF Init
  <2>4. ParserInv
    BY <2>1 DEF ParserInv
  <2>5. received \in Seq(Received)
    BY <2>1
  <2>6. coalesced \in BOOLEAN
    BY <2>1
  <2>2. Len(received) = 0 /\ Len(sent) = 0
    BY DEF Init
  <2>3. ReceivedInv
    BY <2>2 DEF ReceivedInv
  <2> QED
    BY <2>3, <2>4, <2>5, <2>6
<1>3. FramingInv
  <2>1. Len(sent) = 0 /\ Len(received) = 0 /\ Left = 0 /\ Coming = 0 /\ Consumed = 0
    BY DEF Init, Left, Coming, Consumed
  <2>2. PICK off : off = [k \in 1..1 |-> 0]
    OBVIOUS
  <2>3. off \in [1..(Len(sent) + 1) -> Int] /\ off[1] = 0
    BY <2>1, <2>2
  <2>4. Framed(off)
    BY <2>1, <2>3 DEF Framed
  <2> QED
    BY <2>3, <2>4 DEF FramingInv
<1> QED
  BY <1>1, <1>2, <1>3 DEF ChannelInv

(* The bytes to be read are always those of the messages not yet received.    *)
LEMMA SpecChannelInv == Spec => []ChannelInv
<1>1. Init => ChannelInv
  BY InitChannel
<1>2. IInv /\ ChannelInv /\ [Next]_vars => ChannelInv'
  BY ChannelStep
<1> QED
  BY <1>1, <1>2, SpecIInv, PTL DEF Spec

(* Comms_Receive reports an error for well-formed messages only after some    *)
(* recv() has returned an object together with what follows it.               *)
THEOREM NoErrorSafety == Spec => []NoErrorUnlessCoalesced
<1>1. ChannelInv => NoErrorUnlessCoalesced
  BY DEF ChannelInv, ParserInv, NoErrorUnlessCoalesced
<1> QED
  BY <1>1, SpecChannelInv, PTL

(* Whatever is sent and however it is divided, the callbacks get what         *)
(* MessageChannel promises.                                                   *)
THEOREM Refinement == Spec => ImplementsMessageChannel
<1>1. Init => Channel!Init
  BY InitChannel
<1>2. IInv /\ ChannelInv /\ [Next]_vars => [Channel!Next]_(Channel!vars)
  BY ChannelStep
<1> QED
  BY <1>1, <1>2, SpecIInv, SpecChannelInv, PTL
  DEF Spec, ImplementsMessageChannel, Channel!Spec
===============================================================================
