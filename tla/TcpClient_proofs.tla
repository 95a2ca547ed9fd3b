--------------------------- MODULE TcpClient_proofs ---------------------------
(* The safety of the remote monitor for any number of failures and of          *)
(* messages in flight.                                                         *)
EXTENDS TcpClient, TLAPS

(* Where the receive thread is tells what clientState and the socket are.      *)
PlaceInv ==
    /\ pc \in {"socket", "connect", "memset", "assign", "announce"} => clientState = "INIT"
    /\ pc \in {"recv", "close", "deinit", "again"} => clientState = "PROCESS"
    /\ pc = "socket" => sock \in {"none", "closed"}
    /\ pc = "top" /\ clientState = "INIT" => sock \in {"none", "closed"}
    /\ pc \in {"deinit", "again"} => sock = "closed"
    /\ pc = "connect" => sock = "open"
    /\ pc \in {"memset", "assign", "announce", "recv", "close"} =>
          sock \in {"connected", "leftByServer", "reset"}
    /\ pc = "top" /\ clientState = "PROCESS" =>
          sock \in {"connected", "leftByServer", "reset"}

(* Between two connections nothing is allocated.                               *)
PayloadInv ==
    /\ pc \in {"socket", "connect", "memset", "assign", "announce", "again"} => ~payload
    /\ pc = "top" /\ clientState = "INIT" => ~payload

(* The callback is there, or is about to be, or nobody has seen a status yet.  *)
TransmitInv ==
    \/ transmit
    \/ pc = "assign"
    \/ /\ clientState = "INIT" /\ pc # "announce"
       /\ \A s \in Senders : at[s] = "idle"
       /\ view = "changing" /\ updates = 0

IInv ==
    /\ TypeOK /\ PlaceInv /\ PayloadInv /\ TransmitInv
    /\ SocketNotLeaked /\ EndsOnlyWhileReconnecting

-------------------------------------------------------------------------------
LEMMA InitIInv == Init => IInv
<1> SUFFICES ASSUME Init PROVE IInv
  OBVIOUS
<1>1. TypeOK
  <2>1. transmit \in BOOLEAN /\ payload \in BOOLEAN /\ ended \in BOOLEAN
    BY Zenon DEF Init
  <2> QED BY <2>1, ClientAssumption
             DEF Init, TypeOK, SystemStates, Senders, Sockets
<1>2. PlaceInv /\ PayloadInv /\ SocketNotLeaked
  BY DEF Init, PlaceInv, PayloadInv, SocketNotLeaked, OpenSockets
<1>3. TransmitInv
  BY DEF Init, TransmitInv, Senders
<1>4. EndsOnlyWhileReconnecting
  BY DEF Init, EndsOnlyWhileReconnecting
<1> QED BY <1>1, <1>2, <1>3, <1>4 DEF IInv

(* A step of the receive thread, which leaves the senders where they are.      *)
LEMMA ReceiveStep ==
    ASSUME IInv, ~ended, ReceiveThread
    PROVE  IInv'
<1> USE DEF IInv
<1>1. at' = at /\ view' = view /\ ended' = ended
  BY DEF ReceiveThread, Dispatch, CreateSocket, Connect,
     ClearComms, AssignCallbacks, AnnounceProcess, ReceivePart, ReceiveStatus,
     ReceiveNonsense, ReceiveNothing, CloseSocket, Deinit, ConnectAgain, window
<1>2. TypeOK' /\ SocketNotLeaked'
  <2>1. \/ transmit' = transmit /\ payload' = payload
        \/ transmit' = transmit /\ payload' = TRUE
        \/ transmit' = transmit /\ payload' = FALSE
        \/ transmit' = TRUE /\ payload' = payload
        \/ transmit' = FALSE /\ payload' = FALSE
    BY DEF ReceiveThread, Dispatch, CreateSocket, Connect, ClearComms,
       AssignCallbacks, AnnounceProcess, ReceivePart, ReceiveStatus,
       ReceiveNonsense, ReceiveNothing, CloseSocket, Deinit, ConnectAgain, comms
  <2>2. transmit' \in BOOLEAN /\ payload' \in BOOLEAN
    BY <2>1, Zenon DEF TypeOK
  <2>3. /\ clientState' \in {"INIT", "PROCESS"} /\ cState' \in {"OK", "ERROR"}
        /\ sock' \in Sockets
        /\ status' \in SystemStates
        /\ pc' \in {"top", "socket", "connect", "memset", "assign", "announce",
                    "recv", "close", "deinit", "again"}
    BY DEF ReceiveThread, TypeOK, Sockets, OpenSockets, Dispatch, CreateSocket,
       Connect, ClearComms, AssignCallbacks, AnnounceProcess, ReceivePart,
       ReceiveStatus, ReceiveNonsense, ReceiveNothing, CloseSocket, Deinit,
       ConnectAgain, comms
  <2>4. /\ updates' \in 0..MaxInFlight /\ requests' \in 0..MaxInFlight
        /\ replies' \in 0..MaxInFlight /\ faults' \in 0..MaxFaults
    BY ClientAssumption
       DEF ReceiveThread, TypeOK, Dispatch, CreateSocket,
       Connect, ClearComms, AssignCallbacks, AnnounceProcess, ReceivePart,
       ReceiveStatus, ReceiveNonsense, ReceiveNothing, CloseSocket, Deinit,
       ConnectAgain, window, connection, Fault
  <2>5. SocketNotLeaked' /\ descriptors' \in 0..1
    BY DEF ReceiveThread, TypeOK, SocketNotLeaked, PlaceInv, OpenSockets, Dispatch, CreateSocket,
       Connect, ClearComms, AssignCallbacks, AnnounceProcess, ReceivePart,
       ReceiveStatus, ReceiveNonsense, ReceiveNothing, CloseSocket, Deinit,
       ConnectAgain
  <2> QED BY <1>1, <2>2, <2>3, <2>4, <2>5 DEF TypeOK
<1>3. PlaceInv'
  BY DEF ReceiveThread, TypeOK, PlaceInv, Dispatch, CreateSocket,
     Connect, ClearComms, AssignCallbacks, AnnounceProcess, ReceivePart,
     ReceiveStatus, ReceiveNonsense, ReceiveNothing, CloseSocket, Deinit, ConnectAgain
<1>4. PayloadInv'
  BY DEF ReceiveThread, TypeOK, PlaceInv, PayloadInv, Dispatch, CreateSocket,
     Connect, ClearComms, AssignCallbacks, AnnounceProcess, ReceivePart,
     ReceiveStatus, ReceiveNonsense, ReceiveNothing, CloseSocket, Deinit,
     ConnectAgain, comms
<1>5. TransmitInv'
  BY <1>1 DEF ReceiveThread, TypeOK, PlaceInv, TransmitInv, Dispatch, CreateSocket,
     Connect, ClearComms, AssignCallbacks, AnnounceProcess, ReceivePart,
     ReceiveStatus, ReceiveNonsense, ReceiveNothing, CloseSocket, Deinit,
     ConnectAgain, comms, window
<1>6. EndsOnlyWhileReconnecting'
  BY <1>1 DEF EndsOnlyWhileReconnecting
<1> QED BY <1>2, <1>3, <1>4, <1>5, <1>6

(* A step of a sender: the process ends in it only if it meets the receive     *)
(* thread inside Comms_Initialise or before connect().                         *)
LEMMA SenderStep ==
    ASSUME IInv, ~ended, NEW s \in Senders, SendingThread(s)
    PROVE  IInv'
<1> USE DEF IInv
<1>1. /\ UNCHANGED <<clientState, comms, status, pc, view, updates, replies>>
      /\ UNCHANGED <<descriptors, faults>>
      /\ sock' = sock \/ (sock = "leftByServer" /\ sock' = "reset")
  BY DEF SendingThread, CallTransmit, CheckState, SendBytes, connection
<1>2. at' \in [Senders -> {"idle", "call", "check", "send"}]
  BY DEF SendingThread, CallTransmit, CheckState, SendBytes, Go, TypeOK
<1>3. requests' \in 0..MaxInFlight /\ ended' \in BOOLEAN
  <2>1. CASE CallTransmit(s)
    <3>1. requests' = requests
      BY <2>1 DEF CallTransmit, connection
    <3>2. ended' = ended \/ ended' = TRUE
      BY <2>1 DEF CallTransmit
    <3> QED BY <3>1, <3>2 DEF TypeOK
  <2>2. CASE CheckState(s)
    BY <2>2 DEF CheckState, connection, TypeOK
  <2>3. CASE SendBytes(s)
    <3>1. requests' \in 0..MaxInFlight
      BY <2>3, ClientAssumption DEF SendBytes, TypeOK
    <3>2. ended' = ended \/ ended' = TRUE
      BY <2>3 DEF SendBytes
    <3> QED BY <3>1, <3>2 DEF TypeOK
  <2> QED BY <2>1, <2>2, <2>3 DEF SendingThread
<1>4. TypeOK' /\ PlaceInv' /\ PayloadInv' /\ SocketNotLeaked'
  BY <1>1, <1>2, <1>3
     DEF TypeOK, PlaceInv, PayloadInv, SocketNotLeaked, Sockets, OpenSockets, comms
<1>5. at[s] # "idle"
  BY DEF SendingThread, CallTransmit, CheckState, SendBytes, Go
<1>6. TransmitInv'
  BY <1>1, <1>5 DEF TransmitInv, comms
<1>7. EndsOnlyWhileReconnecting'
  <2>1. CASE ended'
    <3>1. /\ at' = at /\ sock' = sock
          /\ \/ at[s] = "call" /\ ~transmit
             \/ at[s] = "send" /\ sock \in {"open", "reset"}
      BY <2>1 DEF SendingThread, CallTransmit, CheckState, SendBytes
    <3>2. CASE at[s] = "call" /\ ~transmit
      BY <1>1, <1>5, <3>1, <3>2 DEF TransmitInv, EndsOnlyWhileReconnecting
    <3>3. CASE at[s] = "send" /\ sock \in {"open", "reset"}
      <4>1. pc = "connect" \/ sock = "reset"
        BY <3>3 DEF PlaceInv, TypeOK
      <4> QED BY <1>1, <3>1, <3>3, <4>1 DEF EndsOnlyWhileReconnecting
    <3> QED BY <3>1, <3>2, <3>3
  <2>2. CASE ~ended'
    BY <2>2 DEF EndsOnlyWhileReconnecting
  <2> QED BY <2>1, <2>2
<1> QED BY <1>4, <1>6, <1>7

(* The server closes its end of the connection.                                *)
LEMMA ServerClosesStep ==
    ASSUME IInv, ~ended, ServerCloses
    PROVE  IInv'
<1> USE DEF IInv
<1>1. /\ UNCHANGED <<clientState, comms, status, pc, window, replies>>
      /\ UNCHANGED <<descriptors, ended>>
      /\ sock = "connected" /\ sock' = "leftByServer"
      /\ requests' = 0 /\ faults' \in 0..MaxFaults
  BY ClientAssumption DEF ServerCloses, Fault, TypeOK
<1>2. TypeOK' /\ PlaceInv' /\ PayloadInv' /\ SocketNotLeaked'
  BY <1>1, ClientAssumption
     DEF TypeOK, PlaceInv, PayloadInv, SocketNotLeaked, Sockets, OpenSockets, comms,
     window
<1>3. TransmitInv' /\ EndsOnlyWhileReconnecting'
  BY <1>1 DEF TransmitInv, EndsOnlyWhileReconnecting, comms, window
<1> QED BY <1>2, <1>3

(* The remaining steps: a poll, a click, a queued update, a reply.             *)
LEMMA OtherStep ==
    ASSUME IInv, ~ended,
           Poll \/ ClickMode \/ ClickPage \/ UpdateStatus \/ ServerReplies
    PROVE  IInv'
<1> USE DEF IInv
<1>1. /\ UNCHANGED <<clientState, sock, comms, status, pc, descriptors, faults, ended>>
  BY DEF Poll, ClickMode, ClickPage, UpdateStatus, ServerReplies
<1>2. at' \in [Senders -> {"idle", "call", "check", "send"}]
  BY DEF Poll, ClickMode, ClickPage, UpdateStatus, ServerReplies, Go, TypeOK, window
<1>3. view' \in SystemStates \cup {"changing"}
  BY DEF Poll, ClickMode, ClickPage, UpdateStatus, ServerReplies, TypeOK, window
<1>4. /\ updates' \in 0..MaxInFlight
      /\ requests' \in 0..MaxInFlight /\ replies' \in 0..MaxInFlight
  BY ClientAssumption
     DEF Poll, ClickMode, ClickPage, UpdateStatus, ServerReplies, TypeOK, window,
     connection
<1>5. TypeOK' /\ PlaceInv' /\ PayloadInv' /\ SocketNotLeaked'
  BY <1>1, <1>2, <1>3, <1>4 DEF TypeOK, PlaceInv, PayloadInv, SocketNotLeaked, comms
<1>6. TransmitInv'
  <2>1. CASE transmit \/ pc = "assign"
    BY <1>1, <2>1 DEF TransmitInv, comms
  <2>2. CASE ~transmit /\ pc # "assign"
    BY <1>1, <2>2
       DEF TransmitInv, comms, Poll, ClickMode, ClickPage, UpdateStatus,
       ServerReplies, Buttons, window, TypeOK
  <2> QED BY <2>1, <2>2
<1>7. EndsOnlyWhileReconnecting'
  BY <1>1 DEF EndsOnlyWhileReconnecting
<1> QED BY <1>5, <1>6, <1>7

LEMMA StepIInv == IInv /\ [Next]_vars => IInv'
<1> SUFFICES ASSUME IInv, [Next]_vars PROVE IInv'
  OBVIOUS
<1>1. CASE UNCHANGED vars
  BY <1>1 DEF vars, comms, window, connection, IInv, TypeOK, PlaceInv, PayloadInv,
     TransmitInv, SocketNotLeaked, EndsOnlyWhileReconnecting
<1>2. CASE Next
  BY <1>2, ReceiveStep, SenderStep, ServerClosesStep, OtherStep DEF Next
<1> QED BY <1>1, <1>2

LEMMA SpecIInv == Spec => []IInv
<1>1. Init => IInv
  BY InitIInv
<1>2. IInv /\ [Next]_vars => IInv'
  BY StepIInv
<1> QED BY <1>1, <1>2, PTL DEF Spec

(* Every variable of the client keeps its type, and at most one socket is open. *)
THEOREM TypeCorrectness == Spec => []TypeOK
<1>1. IInv => TypeOK
  BY DEF IInv
<1> QED BY <1>1, SpecIInv, PTL

(* The receive thread closes what it opens, whatever fails.                    *)
THEOREM SocketSafety == Spec => []SocketNotLeaked
<1>1. IInv => SocketNotLeaked
  BY DEF IInv
<1> QED BY <1>1, SpecIInv, PTL

(* Comms_Initialise never overwrites the only pointer to a payload.            *)
THEOREM PayloadSafety == Spec => []PayloadNotLeaked
<1>1. IInv => PayloadNotLeaked
  BY DEF IInv, PayloadInv, PayloadNotLeaked
<1> QED BY <1>1, SpecIInv, PTL

(* The commands of the other threads are safe from the first status on, but    *)
(* for the moments in which the receive thread connects again.                 *)
THEOREM CommandSafety == Spec => []EndsOnlyWhileReconnecting
<1>1. IInv => EndsOnlyWhileReconnecting
  BY DEF IInv
<1> QED BY <1>1, SpecIInv, PTL

-------------------------------------------------------------------------------
(* TcpClient implements StatusFeed.                                            *)

(* Without a connection nothing is on its way.                                 *)
AskedInv == sock \notin {"connected", "leftByServer", "reset"} =>
                requests = 0 /\ replies = 0

Held == sock \in {"connected", "leftByServer", "reset"}

LEMMA StepAskedInv == IInv /\ AskedInv /\ [Next]_vars => AskedInv'
<1> SUFFICES ASSUME IInv, AskedInv, [Next]_vars PROVE AskedInv'
  OBVIOUS
<1> USE DEF AskedInv
<1>1. CASE UNCHANGED vars
  BY <1>1 DEF vars, connection
<1>2. CASE ReceiveThread
  <2>1. CASE CloseSocket
    BY <2>1 DEF CloseSocket
  <2>2. CASE CreateSocket \/ Connect
    BY <2>2 DEF IInv, PlaceInv, CreateSocket, Connect, connection
  <2>3. CASE ReceiveStatus
    BY <2>3 DEF IInv, PlaceInv, TypeOK, ReceiveStatus
  <2>4. CASE ~(CloseSocket \/ CreateSocket \/ Connect \/ ReceiveStatus)
    BY <1>2, <2>4 DEF ReceiveThread, Dispatch, ClearComms, AssignCallbacks,
       AnnounceProcess, ReceivePart, ReceiveNonsense, ReceiveNothing, Deinit,
       ConnectAgain, connection
  <2> QED BY <2>1, <2>2, <2>3, <2>4
<1>3. CASE \E s \in Senders : SendingThread(s)
  BY <1>3 DEF SendingThread, CallTransmit, CheckState, SendBytes, connection
<1>4. CASE ServerCloses
  BY <1>4 DEF ServerCloses
<1>5. CASE ServerReplies
  BY <1>5 DEF ServerReplies, IInv, TypeOK
<1>6. CASE Poll \/ ClickMode \/ ClickPage \/ UpdateStatus
  BY <1>6 DEF Poll, ClickMode, ClickPage, UpdateStatus, connection
<1> QED BY <1>1, <1>2, <1>3, <1>4, <1>5, <1>6 DEF Next

LEMMA SpecAskedInv == Spec => []AskedInv
<1>1. Init => AskedInv
  BY DEF Init, AskedInv
<1> QED BY <1>1, StepAskedInv, SpecIInv, PTL DEF Spec

LEMMA InitFeed == Init => Feed!Init
BY DEF Init, Feed!Init, SystemStates

(* Only connecting, receiving a status and closing are seen from the receive   *)
(* thread.                                                                     *)
LEMMA ReceiveFeed ==
    ASSUME IInv, AskedInv, ReceiveThread
    PROVE  [Feed!Next]_Feed!vars
<1> USE DEF IInv
<1>1. CASE CreateSocket
  BY <1>1 DEF PlaceInv, CreateSocket, connection, window, Feed!vars
<1>2. CASE Connect
  <2>1. sock = "open" /\ UNCHANGED <<status, updates, view, requests, replies>>
    BY <1>2 DEF Connect, PlaceInv, window, connection
  <2>2. CASE sock' = "connected"
    <3>1. Feed!Connect
      BY <2>1, <2>2 DEF Feed!Connect
    <3> QED BY <3>1 DEF Feed!Next
  <2>3. CASE sock' = "closed"
    BY <2>1, <2>3 DEF Feed!vars
  <2> QED BY <1>2, <2>2, <2>3 DEF Connect
<1>3. CASE ReceiveStatus
  <2>1. Held
    BY <1>3 DEF ReceiveStatus, PlaceInv, Held
  <2>2. /\ requests + replies > 0
        /\ (requests + replies)' = (requests + replies) - 1
    BY <1>3 DEF ReceiveStatus, TypeOK
  <2>3. status' \in SystemStates /\ updates' = updates + 1
    BY <1>3 DEF ReceiveStatus
  <2>4. sock' = sock /\ view' = view
    BY <1>3 DEF ReceiveStatus
  <2>5. Feed!Receive
    <3>1. UNCHANGED <<IF sock = "connected" THEN "up"
                      ELSE IF sock \in {"leftByServer", "reset"} THEN "left"
                      ELSE "down", view>>
      BY <2>4
    <3>2. (IF sock = "connected" THEN "up"
           ELSE IF sock \in {"leftByServer", "reset"} THEN "left" ELSE "down") # "down"
      BY <2>1 DEF Held
    <3> QED BY <2>2, <2>3, <3>1, <3>2, Zenon DEF Feed!Receive
  <2> QED BY <2>5 DEF Feed!Next
<1>4. CASE CloseSocket
  <2>1. Held
    BY <1>4 DEF CloseSocket, PlaceInv, Held
  <2>2. Feed!Lose
    BY <1>4, <2>1 DEF CloseSocket, Held, window, Feed!Lose
  <2> QED BY <2>2 DEF Feed!Next
<1>5. CASE ~(CreateSocket \/ Connect \/ ReceiveStatus \/ CloseSocket)
  BY <1>5 DEF ReceiveThread, Dispatch, ClearComms, AssignCallbacks, AnnounceProcess,
     ReceivePart, ReceiveNonsense, ReceiveNothing, Deinit, ConnectAgain, connection,
     window, Feed!vars
<1> QED BY <1>1, <1>2, <1>3, <1>4, <1>5

(* Of a sender, only that the polling thread asks on the connection.           *)
LEMMA SendFeed ==
    ASSUME IInv, NEW s \in Senders, SendingThread(s)
    PROVE  [Feed!Next]_Feed!vars
<1>1. UNCHANGED <<status, view, updates, replies>>
  BY DEF SendingThread, CallTransmit, CheckState, SendBytes, connection
<1>2. CASE requests' = requests
  BY <1>1, <1>2
     DEF SendingThread, CallTransmit, CheckState, SendBytes, connection, Feed!vars
<1>3. CASE requests' # requests
  <2>1. sock = "connected" /\ sock' = sock /\ requests' = requests + 1
    BY <1>3 DEF SendingThread, CallTransmit, CheckState, SendBytes, connection
  <2>2. requests' + replies' = (requests + replies) + 1
    BY <1>1, <2>1 DEF IInv, TypeOK
  <2>3. Feed!Ask
    BY <1>1, <2>1, <2>2 DEF Feed!Ask
  <2> QED BY <2>3 DEF Feed!Next
<1> QED BY <1>2, <1>3

(* The server and the window.                                                  *)
LEMMA OtherFeed ==
    ASSUME IInv, Poll \/ ClickMode \/ ClickPage \/ UpdateStatus \/ ServerReplies
                 \/ ServerCloses
    PROVE  [Feed!Next]_Feed!vars
<1>1. CASE Poll
  BY <1>1 DEF Poll, connection, Feed!vars
<1>2. CASE ClickMode \/ ClickPage
  <2>1. Feed!Hide
    BY <1>2 DEF ClickMode, ClickPage, connection, Feed!Hide
  <2> QED BY <2>1 DEF Feed!Next
<1>3. CASE UpdateStatus
  <2>1. Feed!Show
    BY <1>3 DEF UpdateStatus, connection, Feed!Show
  <2> QED BY <2>1 DEF Feed!Next
<1>4. CASE ServerReplies
  <2>1. requests' + replies' = requests + replies
    BY <1>4 DEF ServerReplies, IInv, TypeOK
  <2> QED BY <1>4, <2>1 DEF ServerReplies, window, Feed!vars
<1>5. CASE ServerCloses
  <2>1. requests' + replies' \in 0..(requests + replies)
    BY <1>5 DEF ServerCloses, IInv, TypeOK
  <2>2. Feed!Leave
    BY <1>5, <2>1 DEF ServerCloses, window, Feed!Leave
  <2> QED BY <2>2 DEF Feed!Next
<1> QED BY <1>1, <1>2, <1>3, <1>4, <1>5

LEMMA StepFeed ==
    IInv /\ AskedInv /\ [Next]_vars => [Feed!Next]_Feed!vars
<1> SUFFICES ASSUME IInv, AskedInv, [Next]_vars PROVE [Feed!Next]_Feed!vars
  OBVIOUS
<1>1. CASE UNCHANGED vars
  BY <1>1 DEF vars, window, connection, Feed!vars
<1>2. CASE Next
  BY <1>2, ReceiveFeed, SendFeed, OtherFeed DEF Next
<1> QED BY <1>1, <1>2

(* Whatever fails, a status is received only on the connection on which it was *)
(* asked for, announced once, and the window shows the latest or "changing".   *)
THEOREM Refinement == Spec => ImplementsStatusFeed
BY InitFeed, StepFeed, SpecIInv, SpecAskedInv, PTL
   DEF Spec, ImplementsStatusFeed, Feed!Spec
===============================================================================
