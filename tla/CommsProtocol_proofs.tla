------------------------- MODULE CommsProtocol_proofs -------------------------
(* What holds of Comms_Receive for every division of the bytes into chunks,   *)
(* every size of the object and every width of cBytesLeft.                    *)
EXTENDS CommsProtocol, TLAPS

(* The first halves of the two-byte fields are bytes.                         *)
HalvesInv ==
    /\ cState \in {"OBJECT_ID_2", "COMMAND_ID_2"} => nReceivingID \in Bytes
    /\ cState = "LENGTH_2" => nReceivingLength \in Bytes

IInv == TypeOK /\ PayloadFits /\ HalvesInv

-------------------------------------------------------------------------------
(* The numbers among the variables are natural numbers.                       *)
LEMMA NumbersType ==
    ASSUME TypeOK
    PROVE  /\ buffer \in Seq(Bytes) /\ Len(buffer) \in Nat
           /\ pcPayload \in Seq(Bytes) /\ Len(pcPayload) \in Nat
           /\ i \in Nat /\ i <= Len(buffer) + 1
           /\ nReceivingLength \in Nat /\ nReceivingID \in Nat
           /\ nPayloadWrite \in Nat /\ allocated \in Nat
BY DEF TypeOK, UInt16

(* Narrowing does not make a number larger.                                   *)
LEMMA ModBound ==
    ASSUME NEW a \in Nat, NEW m \in Nat \ {0}
    PROVE  a % m \in Nat /\ a % m <= a
OBVIOUS

(* Narrowing to uint8_t never makes cBytesLeft larger than the rest of the    *)
(* buffer, nor does it exceed the rest of the object.                         *)
LEMMA BytesLeftBound ==
    ASSUME TypeOK, i < Len(buffer)
    PROVE  /\ BytesLeft \in 0..nReceivingLength
           /\ BytesLeft <= Len(buffer) - i
<1> DEFINE room == Len(buffer) - i
<1>1. room \in Nat /\ nReceivingLength \in Nat
  BY NumbersType
<1>2. ByteMod \in Nat \ {0}
  BY CommsAssumption
<1>3. room % ByteMod \in Nat /\ room % ByteMod <= room
  <2> HIDE DEF room
  <2> QED BY <1>1, <1>2, ModBound
<1>4. BytesLeft = IF room % ByteMod > nReceivingLength THEN nReceivingLength
                                                       ELSE room % ByteMod
  BY DEF BytesLeft
<1> QED
  <2> DEFINE here == room % ByteMod
  <2>1. here \in Nat /\ here <= room
    BY <1>3
  <2>2. BytesLeft = IF here > nReceivingLength THEN nReceivingLength ELSE here
    BY <1>4
  <2> HIDE DEF here
  <2>3. BytesLeft \in 0..nReceivingLength /\ BytesLeft <= room
    BY <1>1, <2>1, <2>2
  <2> QED BY <2>3

(* The copy reads bytes of the buffer only and lengthens the payload by n.    *)
LEMMA CopiedType ==
    ASSUME TypeOK, Len(pcPayload) = nPayloadWrite,
           NEW n \in Nat, n <= Len(buffer) - i
    PROVE  /\ Copied(n) \in Seq(Bytes)
           /\ Len(Copied(n)) = nPayloadWrite + n
<1>1. /\ nPayloadWrite \in Nat /\ i \in Nat
      /\ Len(buffer) \in Nat /\ n <= Len(buffer) - i
  BY NumbersType
<1>2. ASSUME NEW k \in 1..(nPayloadWrite + n)
      PROVE  (IF k <= nPayloadWrite THEN pcPayload[k]
                                    ELSE buffer[i + k - nPayloadWrite]) \in Bytes
  <2>1. CASE k <= nPayloadWrite
    <3>1. k \in 1..Len(pcPayload)
      BY <1>1, <2>1
    <3>2. pcPayload[k] \in Bytes
      BY <3>1, NumbersType
    <3> QED BY <2>1, <3>2
  <2>2. CASE ~(k <= nPayloadWrite)
    <3>1. i + k - nPayloadWrite \in 1..Len(buffer)
      BY <1>1, <2>2
    <3>2. buffer[i + k - nPayloadWrite] \in Bytes
      BY <3>1, NumbersType
    <3> QED BY <2>2, <3>2
  <2> QED BY <2>1, <2>2
<1>3. Copied(n) \in [1..(nPayloadWrite + n) -> Bytes]
  BY <1>2 DEF Copied
<1>4. nPayloadWrite + n \in Nat
  BY <1>1
<1> QED BY <1>3, <1>4

(* What is sent is a sequence of bytes.                                       *)
LEMMA OnWireType ==
    ASSUME NEW m \in Messages
    PROVE  OnWire(m) \in Seq([byte : Bytes, ends : BOOLEAN])
<1>1. Encode(m) \in Seq(Bytes)
  <2>1. CASE m.type = "object"
    <3>1. m.body \in Bodies /\ m.id = OBJECT_STATUS
      BY <2>1 DEF Messages
    <3>2. m.body \in [1..StatusLength -> Bytes] /\ StatusLength \in Nat
      BY <3>1, CommsAssumption DEF Bytes
    <3>3. m.body \in Seq(Bytes)
      BY <3>2
    <3>4. /\ m.id % 256 \in Bytes /\ m.id \div 256 \in Bytes
          /\ StatusLength % 256 \in Bytes /\ StatusLength \div 256 \in Bytes
      BY <3>1, CommsAssumption DEF Bytes
    <3>5. COMMS_MESSAGE_TYPE_OBJECT \in Bytes
      BY DEF Bytes, COMMS_MESSAGE_TYPE_OBJECT
    <3>6. <<COMMS_MESSAGE_TYPE_OBJECT, m.id % 256, m.id \div 256,
            StatusLength % 256, StatusLength \div 256>> \in Seq(Bytes)
      BY <3>4, <3>5
    <3> QED BY <2>1, <3>3, <3>6 DEF Encode
  <2>2. CASE m.type = "command"
    <3>1. m.id \in Commands
      BY <2>2 DEF Messages
    <3>2. m.id \in Bytes
      BY <3>1, CommsAssumption
    <3>3. m.id % 256 \in Bytes /\ m.id \div 256 \in Bytes
      BY <3>2 DEF Bytes
    <3>4. COMMS_MESSAGE_TYPE_COMMAND \in Bytes
      BY DEF Bytes, COMMS_MESSAGE_TYPE_COMMAND
    <3> QED BY <2>2, <3>3, <3>4 DEF Encode
  <2>3. m.type \in {"object", "command"}
    BY DEF Messages
  <2> QED BY <2>1, <2>2, <2>3
<1>2. \A k \in 1..Len(Encode(m)) : Encode(m)[k] \in Bytes
  BY <1>1
<1>3. Len(Encode(m)) \in Nat
  BY <1>1
<1> QED
  <2> DEFINE bytes == Encode(m)
  <2>1. OnWire(m) = [k \in 1..Len(bytes) |->
                        [byte |-> bytes[k], ends |-> m.type = "object" /\ k = Len(bytes)]]
    BY DEF OnWire
  <2>2. Len(bytes) \in Nat /\ \A k \in 1..Len(bytes) : bytes[k] \in Bytes
    BY <1>2, <1>3
  <2> HIDE DEF bytes
  <2> QED BY <2>1, <2>2

-------------------------------------------------------------------------------
(* The invariant, step by step.                                               *)

LEMMA InitIInv == Init => IInv
<1> SUFFICES ASSUME Init PROVE IInv
  OBVIOUS
<1>1. TypeOK
  BY CommsAssumption DEF Init, TypeOK, Bytes, UInt16, States
<1>2. PayloadFits /\ HalvesInv
  BY DEF Init, PayloadFits, HalvesInv
<1> QED BY <1>1, <1>2 DEF IInv

(* Steps at the ends of the connection do not touch the state machine.        *)
LEMMA ConnectionStep ==
    ASSUME IInv, Send \/ \E n \in 1..Len(wire) : Recv(n)
    PROVE  IInv'
<1> USE DEF IInv
<1>1. CASE Send
  <2>1. PICK m \in Messages : sent' = Append(sent, m) /\ wire' = wire \o OnWire(m)
    BY <1>1 DEF Send
  <2>2. sent' \in Seq(Messages)
    BY <2>1 DEF TypeOK
  <2>3. wire' \in Seq([byte : Bytes, ends : BOOLEAN])
    <3>1. /\ wire \in Seq([byte : Bytes, ends : BOOLEAN])
          /\ OnWire(m) \in Seq([byte : Bytes, ends : BOOLEAN])
      BY OnWireType DEF TypeOK
    <3> DEFINE Carried == [byte : Bytes, ends : BOOLEAN]
    <3> HIDE DEF Carried
    <3>2. wire \in Seq(Carried) /\ OnWire(m) \in Seq(Carried)
      BY <3>1 DEF Carried
    <3>3. wire' \in Seq(Carried)
      BY <2>1, <3>2
    <3> QED BY <3>3 DEF Carried
  <2>4. UNCHANGED <<buffer, i, cState, message, cLastError, received, coalesced>>
    BY <1>1 DEF Send
  <2> QED BY <2>2, <2>3, <2>4 DEF TypeOK, PayloadFits, HalvesInv, message
<1>2. ASSUME NEW n \in 1..Len(wire), Recv(n) PROVE IInv'
  <2> DEFINE Carried == [byte : Bytes, ends : BOOLEAN]
  <2>1. wire \in Seq(Carried)
    BY DEF TypeOK
  <2>2. wire' \in Seq(Carried)
    <3> HIDE DEF Carried
    <3>1. n + 1 \in Nat \ {0} /\ n <= Len(wire) /\ Len(wire) \in Nat
      BY <2>1
    <3>2. wire' = SubSeq(wire, n + 1, Len(wire))
      BY <1>2 DEF Recv
    <3> QED BY <2>1, <3>1, <3>2
  <2>3. buffer' \in Seq(Bytes) /\ i' \in 0..(Len(buffer') + 1)
    <3>1. n \in Nat /\ \A k \in 1..n : wire[k] \in Carried
      <4> HIDE DEF Carried
      <4> QED BY <2>1
    <3>2. \A k \in 1..n : wire[k].byte \in Bytes
      BY <3>1
    <3>3. buffer' = [k \in 1..n |-> wire[k].byte] /\ i' = 0
      BY <1>2 DEF Recv
    <3>4. buffer' \in Seq(Bytes) /\ Len(buffer') = n
      BY <3>1, <3>2, <3>3
    <3> QED BY <3>1, <3>3, <3>4
  <2>4. UNCHANGED <<sent, cState, message, cLastError, received>>
    BY <1>2 DEF Recv
  <2> QED BY <2>2, <2>3, <2>4 DEF TypeOK, PayloadFits, HalvesInv, message
<1> QED BY <1>1, <1>2

(* Every iteration of the loop that is not in the payload.                    *)
LEMMA HeaderStep ==
    ASSUME IInv,
           \/ MessageType \/ Id1 \/ ObjectId2 \/ CommandId2
           \/ Length1 \/ Length2 \/ Discard
    PROVE  IInv'
<1> USE DEF IInv
<1>1. i < Len(buffer)
  BY DEF MessageType, Id1, ObjectId2, CommandId2, Length1, Length2, Discard, Iterate
<1>2. Data \in Bytes
  BY <1>1, NumbersType DEF Data
<1>3. /\ Data \in UInt16
      /\ \A low \in Bytes : low + 256 * Data \in UInt16
  BY <1>2 DEF Bytes, UInt16
<1>4. i' = i + 1 /\ UNCHANGED <<sent, wire, buffer>>
  BY DEF MessageType, Id1, ObjectId2, CommandId2, Length1, Length2, Discard, sender
<1>5. i' \in 0..(Len(buffer') + 1)
  <2>1. i \in Nat /\ Len(buffer) \in Nat
    BY NumbersType
  <2> QED BY <1>1, <1>4, <2>1
<1>6. << >> \in Seq(Bytes) /\ 0 \in UInt16 /\ Len(<< >>) = 0
  BY DEF UInt16
<1>7. CASE MessageType
  BY <1>4, <1>5, <1>6, <1>7
  DEF MessageType, Iterate, Fail, message, TypeOK, PayloadFits, HalvesInv, States
<1>8. CASE Id1
  BY <1>2, <1>3, <1>4, <1>5, <1>8
  DEF Id1, Iterate, TypeOK, PayloadFits, HalvesInv, States
<1>9. CASE ObjectId2
  BY <1>3, <1>4, <1>5, <1>9
  DEF ObjectId2, Iterate, TypeOK, PayloadFits, HalvesInv, States
<1>10. CASE CommandId2
  BY <1>4, <1>5, <1>6, <1>10
  DEF CommandId2, Iterate, Finish, TypeOK, PayloadFits, HalvesInv, States
<1>11. CASE Length1
  BY <1>2, <1>3, <1>4, <1>5, <1>11
  DEF Length1, Iterate, TypeOK, PayloadFits, HalvesInv, States
<1>12. CASE Length2
  <2> DEFINE length == nReceivingLength + 256 * Data
  <2>1. length \in UInt16 /\ nReceivingLength' = length /\ cState = "LENGTH_2"
    BY <1>3, <1>12 DEF Length2, Iterate, HalvesInv
  <2>2. UNCHANGED <<nReceivingID, nPayloadWrite, received>>
    BY <1>12 DEF Length2
  <2>3. allocated = 0 /\ nPayloadWrite = 0 /\ Len(pcPayload) = 0
    BY <2>1 DEF PayloadFits
  <2>4. CASE LengthCheck(nReceivingID, length)
    <3>1. /\ cState' = "PAYLOAD" /\ allocated' = length
          /\ UNCHANGED <<pcPayload, cLastError>>
      BY <1>12, <2>4 DEF Length2
    <3>2. length > 0 /\ length \in Nat
      BY <2>1, <2>4, CommsAssumption DEF LengthCheck, Bytes, UInt16
    <3> HIDE DEF length
    <3>3. TypeOK'
      BY <1>4, <1>5, <2>1, <2>2, <3>1 DEF TypeOK, States
    <3> QED BY <2>1, <2>2, <2>3, <3>1, <3>2, <3>3 DEF PayloadFits, HalvesInv
  <2>5. CASE ~LengthCheck(nReceivingID, length)
    <3>1. Fail("LENGTH_INVALID")
      BY <1>12, <2>5 DEF Length2
    <3> HIDE DEF length
    <3> QED BY <1>4, <1>5, <1>6, <2>1, <2>2, <2>3, <3>1
            DEF Fail, TypeOK, PayloadFits, HalvesInv, States
  <2> QED BY <2>4, <2>5
<1>13. CASE Discard
  BY <1>4, <1>5, <1>13
  DEF Discard, Iterate, message, TypeOK, PayloadFits, HalvesInv, States
<1> QED BY <1>7, <1>8, <1>9, <1>10, <1>11, <1>12, <1>13

LEMMA PayloadStep ==
    ASSUME IInv, Payload
    PROVE  IInv'
<1> USE DEF IInv
<1>1. i < Len(buffer) /\ cState = "PAYLOAD"
  BY DEF Payload, Iterate
<1>2. PICK n : n = BytesLeft
  OBVIOUS
<1>3. n \in 0..nReceivingLength /\ n <= Len(buffer) - i
  BY <1>1, <1>2, BytesLeftBound
<1>4. /\ nPayloadWrite + nReceivingLength = allocated
      /\ Len(pcPayload) = nPayloadWrite /\ nReceivingLength > 0
  BY <1>1 DEF PayloadFits
<1>5. Copied(n) \in Seq(Bytes) /\ Len(Copied(n)) = nPayloadWrite + n
  BY <1>3, <1>4, CopiedType, NumbersType
<1>6. i' = i + n + 1 /\ UNCHANGED <<sent, wire, buffer, cLastError>>
  BY <1>2 DEF Payload, sender
<1>7. i' \in 0..(Len(buffer') + 1)
  <2>1. i \in Nat /\ Len(buffer) \in Nat /\ nReceivingLength \in Nat
    BY NumbersType
  <2> QED BY <1>3, <1>6, <2>1
<1>8. CASE n = nReceivingLength
  <2>1. Finish([type |-> "object", id |-> nReceivingID, body |-> Copied(n)])
    BY <1>2, <1>8 DEF Payload
  <2>2. << >> \in Seq(Bytes) /\ 0 \in UInt16
    BY DEF UInt16
  <2> QED BY <1>6, <1>7, <2>1, <2>2
          DEF Finish, TypeOK, PayloadFits, HalvesInv, States
<1>9. CASE n # nReceivingLength
  <2>1. /\ pcPayload' = Copied(n) /\ nPayloadWrite' = nPayloadWrite + n
        /\ nReceivingLength' = nReceivingLength - n
        /\ UNCHANGED <<cState, nReceivingID, allocated, received>>
    BY <1>2, <1>9 DEF Payload
  <2>2. /\ nReceivingLength' > 0
        /\ nPayloadWrite' + nReceivingLength' = allocated'
        /\ nReceivingLength' \in Nat /\ nReceivingLength' <= nReceivingLength
        /\ nPayloadWrite' \in Nat /\ nPayloadWrite' <= allocated
    <3>1. /\ nReceivingLength \in Nat /\ nPayloadWrite \in Nat
          /\ allocated \in Nat
      BY NumbersType
    <3>2. nReceivingLength - n \in Nat /\ nReceivingLength - n > 0
      BY <1>3, <1>9, <3>1
    <3> QED BY <1>3, <1>4, <2>1, <3>1, <3>2
  <2>3. nReceivingLength' \in UInt16 /\ nPayloadWrite' \in UInt16
    BY <2>2, NumbersType DEF TypeOK, UInt16
  <2>4. TypeOK'
    BY <1>5, <1>6, <1>7, <2>1, <2>3 DEF TypeOK
  <2> QED BY <1>1, <1>5, <2>1, <2>2, <2>4 DEF PayloadFits, HalvesInv
<1> QED BY <1>8, <1>9

LEMMA StepIInv == IInv /\ [Next]_vars => IInv'
<1> SUFFICES ASSUME IInv, [Next]_vars PROVE IInv'
  OBVIOUS
<1>1. CASE UNCHANGED vars
  BY <1>1 DEF vars, sender, message, IInv, TypeOK, PayloadFits, HalvesInv
<1>2. CASE Next
  BY <1>2, ConnectionStep, HeaderStep, PayloadStep DEF Next, Receive
<1> QED BY <1>1, <1>2

LEMMA SpecIInv == Spec => []IInv
<1>1. Init => IInv
  BY InitIInv
<1>2. IInv /\ [Next]_vars => IInv'
  BY StepIInv
<1> QED BY <1>1, <1>2, PTL DEF Spec

(* Every field of struct sdfComms keeps its width, and the loop variable i    *)
(* never passes the end of the buffer by more than one.                       *)
THEOREM TypeCorrectness == Spec => []TypeOK
<1>1. IInv => TypeOK
  BY DEF IInv
<1> QED BY <1>1, SpecIInv, PTL

(* However recv() divides an object, memcpy stays inside the allocation of    *)
(* Comms_Receive: what was copied and what is to come make up its size.       *)
THEOREM PayloadSafety == Spec => []PayloadFits
<1>1. IInv => PayloadFits
  BY DEF IInv
<1> QED BY <1>1, SpecIInv, PTL
===============================================================================
