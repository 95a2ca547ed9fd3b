----------------------------- MODULE CommsProtocol -----------------------------
(***************************************************************************)
(* common/comms_protocol.c: one direction of a connection.  A sender turns *)
(* objects and commands into bytes; TCP keeps the bytes in order but not   *)
(* the boundaries between them; Comms_Receive takes whatever a recv() has  *)
(* returned and runs its state machine over it, a step for every iteration *)
(* of its loop.                                                            *)
(***************************************************************************)
EXTENDS Sequences, Integers

CONSTANTS
    Commands,       \* command IDs that are sent
    Bodies,         \* contents of the status objects that are sent
    OBJECT_STATUS,  \* their object ID
    StatusLength,   \* sizeof(struct SystemStatus)
    ByteMod,        \* 2^8: the range of uint8_t
    MaxMessages     \* bound on the messages sent

Bytes  == {n \in Nat : n < 256}      \* uint8_t
UInt16 == {n \in Nat : n < 65536}    \* uint16_t

ASSUME CommsAssumption ==
    /\ Commands \subseteq Bytes /\ OBJECT_STATUS \in Bytes
    /\ StatusLength \in Bytes \ {0}
    /\ \A b \in Bodies : b \in [1..StatusLength -> Bytes]
    /\ ByteMod \in Nat \ {0} /\ StatusLength < ByteMod
    /\ MaxMessages \in Nat

COMMS_MESSAGE_TYPE_OBJECT  == 170
COMMS_MESSAGE_TYPE_COMMAND == 171

Messages ==
    [type : {"object"}, id : {OBJECT_STATUS}, body : Bodies]
    \cup [type : {"command"}, id : Commands, body : {<< >>}]

(* Comms_SendObject and Comms_SendCommand: the low byte comes first.        *)
Encode(m) ==
    IF m.type = "object"
       THEN <<COMMS_MESSAGE_TYPE_OBJECT, m.id % 256, m.id \div 256,
              StatusLength % 256, StatusLength \div 256>> \o m.body
       ELSE <<COMMS_MESSAGE_TYPE_COMMAND, m.id % 256, m.id \div 256>>

(* What lengthCheck_callback of server and client answers.                  *)
LengthCheck(id, length) == id = OBJECT_STATUS /\ length = StatusLength

VARIABLES
    sent,               \* history: the messages sent
    wire,               \* bytes on their way; ends marks the last of an object
    buffer, i,          \* the argument and the loop variable of Comms_Receive
    cState,
    nReceivingID,
    nReceivingLength,
    pcPayload,          \* the payload received so far
    allocated,          \* the size it was allocated with, 0 for NULL
    nPayloadWrite,
    cLastError,
    received,           \* history: the messages given to the callbacks
    coalesced           \* history: a recv() has returned an object's last byte
                        \* and bytes after it

sender   == <<sent, wire>>
message  == <<nReceivingID, nReceivingLength, pcPayload, allocated, nPayloadWrite>>
vars     == <<sender, buffer, i, cState, message, cLastError, received, coalesced>>

States == {"MESSAGE_TYPE", "OBJECT_ID_1", "OBJECT_ID_2", "COMMAND_ID_1",
           "COMMAND_ID_2", "LENGTH_1", "LENGTH_2", "PAYLOAD", "ERROR"}

(* Comms_Initialise *)
Init ==
    /\ sent = << >> /\ wire = << >>
    /\ buffer = << >> /\ i = 0
    /\ cState = "MESSAGE_TYPE"
    /\ nReceivingID = 0 /\ nReceivingLength = 0
    /\ pcPayload = << >> /\ allocated = 0 /\ nPayloadWrite = 0
    /\ cLastError = "NONE"
    /\ received = << >>
    /\ coalesced = FALSE

-----------------------------------------------------------------------------
(* The connection.                                                          *)

OnWire(m) ==
    [k \in 1..Len(Encode(m)) |->
        [byte |-> Encode(m)[k],
         ends |-> m.type = "object" /\ k = Len(Encode(m))]]

Send ==
    /\ Len(sent) < MaxMessages
    /\ \E m \in Messages : sent' = Append(sent, m) /\ wire' = wire \o OnWire(m)
    /\ UNCHANGED <<buffer, i, cState, message, cLastError, received, coalesced>>

(* recv() returns some of the bytes that have arrived, and Comms_Receive is *)
(* called with them.  The caller stops receiving once there was an error.   *)
Recv(n) ==
    /\ i >= Len(buffer)
    /\ cLastError = "NONE"
    /\ coalesced' = (coalesced \/ \E k \in 1..(n - 1) : wire[k].ends)
    /\ buffer' = [k \in 1..n |-> wire[k].byte]
    /\ wire' = SubSeq(wire, n + 1, Len(wire))
    /\ i' = 0
    /\ UNCHANGED <<sent, cState, message, cLastError, received>>

-----------------------------------------------------------------------------
(* Comms_Receive: for(i = 0; i < nLength; i++) switch(cState).              *)

Data == buffer[i + 1]

Iterate(state) == cState = state /\ i < Len(buffer)

(* Comms_FinishMessage, after a callback has been given m.                  *)
Finish(m) ==
    /\ received' = Append(received, m)
    /\ cState' = "MESSAGE_TYPE"
    /\ nReceivingID' = 0 /\ nReceivingLength' = 0 /\ nPayloadWrite' = 0
    /\ pcPayload' = << >> /\ allocated' = 0

(* Comms_Error *)
Fail(error) ==
    /\ pcPayload' = << >> /\ allocated' = 0
    /\ cState' = "ERROR"
    /\ cLastError' = error

(* Mutant: commands are not recognised.                                     *)
MessageTypeObject ==
    /\ Iterate("MESSAGE_TYPE")
    /\ \/ /\ Data = COMMS_MESSAGE_TYPE_OBJECT
          /\ cState' = "OBJECT_ID_1" /\ UNCHANGED <<message, cLastError>>
       \/ /\ Data # COMMS_MESSAGE_TYPE_OBJECT
          /\ Fail("MESSAGE_TYPE_INVALID")
          /\ UNCHANGED <<nReceivingID, nReceivingLength, nPayloadWrite>>
    /\ i' = i + 1
    /\ UNCHANGED <<sender, buffer, received, coalesced>>

MessageType ==
    /\ Iterate("MESSAGE_TYPE")
    /\ \/ /\ Data = COMMS_MESSAGE_TYPE_OBJECT
          /\ cState' = "OBJECT_ID_1" /\ UNCHANGED <<message, cLastError>>
       \/ /\ Data = COMMS_MESSAGE_TYPE_COMMAND
          /\ cState' = "COMMAND_ID_1" /\ UNCHANGED <<message, cLastError>>
       \/ /\ Data \notin {COMMS_MESSAGE_TYPE_OBJECT, COMMS_MESSAGE_TYPE_COMMAND}
          /\ Fail("MESSAGE_TYPE_INVALID")
          /\ UNCHANGED <<nReceivingID, nReceivingLength, nPayloadWrite>>
    /\ i' = i + 1
    /\ UNCHANGED <<sender, buffer, received, coalesced>>

Id1 ==
    /\ \/ Iterate("OBJECT_ID_1") /\ cState' = "OBJECT_ID_2"
       \/ Iterate("COMMAND_ID_1") /\ cState' = "COMMAND_ID_2"
    /\ nReceivingID' = Data
    /\ i' = i + 1
    /\ UNCHANGED <<sender, buffer, nReceivingLength, pcPayload, allocated>>
    /\ UNCHANGED <<nPayloadWrite, cLastError, received, coalesced>>

ObjectId2 ==
    /\ Iterate("OBJECT_ID_2")
    /\ cState' = "LENGTH_1"
    /\ nReceivingID' = nReceivingID + 256 * Data
    /\ i' = i + 1
    /\ UNCHANGED <<sender, buffer, nReceivingLength, pcPayload, allocated>>
    /\ UNCHANGED <<nPayloadWrite, cLastError, received, coalesced>>

CommandId2 ==
    /\ Iterate("COMMAND_ID_2")
    /\ Finish([type |-> "command", id |-> nReceivingID + 256 * Data, body |-> << >>])
    /\ i' = i + 1
    /\ UNCHANGED <<sender, buffer, cLastError, coalesced>>

Length1 ==
    /\ Iterate("LENGTH_1")
    /\ cState' = "LENGTH_2"
    /\ nReceivingLength' = Data
    /\ i' = i + 1
    /\ UNCHANGED <<sender, buffer, nReceivingID, pcPayload, allocated>>
    /\ UNCHANGED <<nPayloadWrite, cLastError, received, coalesced>>

(* The payload is allocated before its length is checked.                   *)
Length2 ==
    LET length == nReceivingLength + 256 * Data IN
    /\ Iterate("LENGTH_2")
    /\ nReceivingLength' = length
    /\ IF LengthCheck(nReceivingID, length)
          THEN /\ cState' = "PAYLOAD"
               /\ allocated' = length
               /\ UNCHANGED <<pcPayload, cLastError>>
          ELSE Fail("LENGTH_INVALID")
    /\ i' = i + 1
    /\ UNCHANGED <<sender, buffer, nReceivingID, nPayloadWrite, received, coalesced>>

(* uint8_t cBytesLeft = nLength - i, but no more than is still to come.     *)
BytesLeft ==
    LET here == (Len(buffer) - i) % ByteMod
    IN  IF here > nReceivingLength THEN nReceivingLength ELSE here

(* Mutant: every chunk is copied from the start of the buffer.              *)
CopiedFromStart(n) ==
    [k \in 1..(nPayloadWrite + n) |->
        IF k <= nPayloadWrite THEN pcPayload[k] ELSE buffer[k - nPayloadWrite]]

(* memcpy of n bytes to offset nPayloadWrite of the payload.                *)
Copied(n) ==
    [k \in 1..(nPayloadWrite + n) |->
        IF k <= nPayloadWrite THEN pcPayload[k] ELSE buffer[i + k - nPayloadWrite]]

(* Mutant: nReceivingLength is not reduced by what a chunk brought.         *)
PayloadUncounted ==
    /\ Iterate("PAYLOAD")
    /\ IF BytesLeft = nReceivingLength
          THEN Finish([type |-> "object", id |-> nReceivingID, body |-> Copied(BytesLeft)])
          ELSE /\ pcPayload' = Copied(BytesLeft)
               /\ nPayloadWrite' = nPayloadWrite + BytesLeft
               /\ UNCHANGED <<cState, nReceivingID, nReceivingLength, allocated, received>>
    /\ i' = i + BytesLeft + 1
    /\ UNCHANGED <<sender, buffer, cLastError, coalesced>>

(* Mutant: i is advanced by one more.                                       *)
PayloadSkipping ==
    /\ Iterate("PAYLOAD")
    /\ IF BytesLeft = nReceivingLength
          THEN Finish([type |-> "object", id |-> nReceivingID, body |-> Copied(BytesLeft)])
          ELSE /\ pcPayload' = Copied(BytesLeft)
               /\ nPayloadWrite' = nPayloadWrite + BytesLeft
               /\ nReceivingLength' = nReceivingLength - BytesLeft
               /\ UNCHANGED <<cState, nReceivingID, allocated, received>>
    /\ i' = i + BytesLeft + 2
    /\ UNCHANGED <<sender, buffer, cLastError, coalesced>>

(* Mutant: the end is looked for before the chunk is copied.                *)
PayloadLate ==
    /\ Iterate("PAYLOAD")
    /\ IF nReceivingLength = 0
          THEN Finish([type |-> "object", id |-> nReceivingID, body |-> pcPayload])
          ELSE /\ pcPayload' = Copied(BytesLeft)
               /\ nPayloadWrite' = nPayloadWrite + BytesLeft
               /\ nReceivingLength' = nReceivingLength - BytesLeft
               /\ UNCHANGED <<cState, nReceivingID, allocated, received>>
    /\ i' = i + BytesLeft + 1
    /\ UNCHANGED <<sender, buffer, cLastError, coalesced>>

(* The loop adds 1 to the i to which the case has added cBytesLeft.         *)
Payload ==
    /\ Iterate("PAYLOAD")
    /\ IF BytesLeft = nReceivingLength
          THEN Finish([type |-> "object", id |-> nReceivingID, body |-> Copied(BytesLeft)])
          ELSE /\ pcPayload' = Copied(BytesLeft)
               /\ nPayloadWrite' = nPayloadWrite + BytesLeft
               /\ nReceivingLength' = nReceivingLength - BytesLeft
               /\ UNCHANGED <<cState, nReceivingID, allocated, received>>
    /\ i' = i + BytesLeft + 1
    /\ UNCHANGED <<sender, buffer, cLastError, coalesced>>

(* Nothing is done with what follows an error.                              *)
Discard ==
    /\ Iterate("ERROR")
    /\ i' = i + 1
    /\ UNCHANGED <<sender, buffer, cState, message, cLastError, received, coalesced>>

Receive ==
    \/ MessageType \/ Id1 \/ ObjectId2 \/ CommandId2
    \/ Length1 \/ Length2 \/ Payload \/ Discard

Next == Send \/ (\E n \in 1..Len(wire) : Recv(n)) \/ Receive

(* What has arrived is received in the end; nobody has to send.             *)
Spec ==
    /\ Init /\ [][Next]_vars
    /\ WF_vars(\E n \in 1..Len(wire) : Recv(n)) /\ WF_vars(Receive)

-----------------------------------------------------------------------------
(* Properties.                                                              *)

TypeOK ==
    /\ sent \in Seq(Messages)
    /\ wire \in Seq([byte : Bytes, ends : BOOLEAN])
    /\ buffer \in Seq(Bytes)
    /\ i \in 0..(Len(buffer) + 1)
    /\ cState \in States
    /\ nReceivingID \in UInt16 /\ nReceivingLength \in UInt16
    /\ pcPayload \in Seq(Bytes)
    /\ allocated \in UInt16 /\ nPayloadWrite \in UInt16
    /\ cLastError \in {"NONE", "MESSAGE_TYPE_INVALID", "LENGTH_INVALID"}

(* Across any division of the payload into chunks, what has been copied and  *)
(* what is still to come make up exactly what was allocated; in every other  *)
(* state nothing is allocated and nothing counts as copied.                  *)
PayloadFits ==
    IF cState = "PAYLOAD"
       THEN /\ nPayloadWrite + nReceivingLength = allocated
            /\ Len(pcPayload) = nPayloadWrite
            /\ nReceivingLength > 0
       ELSE /\ allocated = 0 /\ pcPayload = << >>
            /\ cState # "ERROR" => nPayloadWrite = 0

(* Well-formed messages, divided anyhow, cause no error as long as no recv() *)
(* joins an object with what follows it.                                     *)
NoErrorUnlessCoalesced == cState = "ERROR" => coalesced

(* "EXPECTED_ERROR_CALLBACKS 0": well-formed messages cause no error at all. *)
NoError == cState # "ERROR"

(* Messages arrive intact, once and in order, until the first such recv().   *)
Channel == INSTANCE MessageChannel WITH broken <- coalesced
ImplementsMessageChannel == Channel!Spec

(* And they do arrive.                                                       *)
EventuallyDelivered ==
    \A n \in 1..MaxMessages :
        Len(sent) >= n ~> Len(received) >= n \/ coalesced
===============================================================================
