------------------------------- MODULE TcpClient -------------------------------
(***************************************************************************)
(* The remote monitor: the receive thread of client/tcpclient.c, which      *)
(* connects again whenever the connection is lost, the polling thread of    *)
(* client/main.cpp and the Qt thread that runs client/mainwindow.cpp.  They *)
(* share clientState, client_socket and sdcComms without a lock.            *)
(*                                                                          *)
(* What Comms_Receive makes of the bytes is CommsProtocol's subject: here   *)
(* a recv() brings a part of a status object, the rest of one, or an error. *)
(***************************************************************************)
EXTENDS Integers

CONSTANTS
    MaxInFlight,    \* bound on status requests, replies and queued updates
    MaxFaults       \* bound on failures of the connection

ASSUME ClientAssumption == MaxInFlight \in Nat \ {0} /\ MaxFaults \in Nat

SystemStates == {"PEAK", "BYPASS", "OFF_PEAK", "BOOST"}

(* The buttons updateStatus() makes visible in each state.                  *)
Buttons == [PEAK |-> {"Grid", "Boost"}, BYPASS |-> {"Batts", "Boost"},
            OFF_PEAK |-> {}, BOOST |-> {"Grid", "Batts"}, changing |-> {}]

Senders == {"ui", "poll"}    \* the threads that call tcpclient_SendCommand

(* leftByServer: the server has closed its end; reset: it has then refused    *)
(* what was sent all the same.                                              *)
OpenSockets == {"open", "connected", "leftByServer", "reset"}
Sockets     == OpenSockets \cup {"none", "closed"}

VARIABLES
    (* shared by the threads *)
    clientState,    \* INIT or PROCESS; nothing assigns the other two
    sock,           \* client_socket: a member of Sockets
    transmit,       \* psdcComms->transmit is not NULL
    payload,        \* psdcComms->pcPayload is not NULL
    cState,         \* psdcComms->cState: OK or ERROR
    status,         \* the nSystemState of the last status received
    (* the threads *)
    pc,             \* the receive thread
    at,             \* the senders: idle, call, check, send
    view,           \* the state the window shows, or "changing"
    updates,        \* updateStatus invocations in Qt's queue
    (* outside *)
    requests,       \* status requests on their way to the server
    replies,        \* status objects on their way back
    descriptors,    \* history: sockets created and not closed
    faults,
    ended           \* the process was ended by a signal

connection == <<requests, replies>>
comms      == <<transmit, payload, cState>>
window     == <<at, view, updates>>
vars == <<clientState, sock, comms, status, pc, window, connection, descriptors,
          faults, ended>>

Init ==
    /\ clientState = "INIT" /\ sock = "none"
    /\ transmit = FALSE /\ payload = FALSE /\ cState = "OK"
    /\ status = "PEAK"
    /\ pc = "top" /\ at = [s \in Senders |-> "idle"]
    /\ view = "changing" /\ updates = 0
    /\ requests = 0 /\ replies = 0 /\ descriptors = 0 /\ faults = 0
    /\ ended = FALSE

Fault == faults < MaxFaults /\ faults' = faults + 1

-----------------------------------------------------------------------------
(* The receive thread: while(DIE != clientState) switch(clientState).       *)

Dispatch ==
    /\ pc = "top"
    /\ pc' = [INIT |-> "socket", PROCESS |-> "recv"][clientState]
    /\ UNCHANGED <<clientState, sock, comms, status, window, connection>>
    /\ UNCHANGED <<descriptors, faults, ended>>

CreateSocket ==
    /\ pc = "socket"
    /\ \/ /\ pc' = "connect" /\ sock' = "open" /\ descriptors' = descriptors + 1
          /\ UNCHANGED faults
       \/ pc' = "top" /\ sock' = "none" /\ Fault /\ UNCHANGED descriptors
    /\ UNCHANGED <<clientState, comms, status, window, connection, ended>>

Connect ==
    /\ pc = "connect"
    /\ \/ pc' = "memset" /\ sock' = "connected" /\ UNCHANGED <<descriptors, faults>>
       \/ /\ pc' = "top" /\ sock' = "closed" /\ descriptors' = descriptors - 1
          /\ Fault
    /\ UNCHANGED <<clientState, comms, status, window, connection, ended>>

(* Mutant: Comms_Initialise leaves the state of the state machine.          *)
ClearCommsKeepState ==
    /\ pc = "memset"
    /\ pc' = "assign"
    /\ transmit' = FALSE /\ payload' = FALSE /\ UNCHANGED cState
    /\ UNCHANGED <<clientState, sock, status, window, connection>>
    /\ UNCHANGED <<descriptors, faults, ended>>

(* Comms_Initialise clears the whole structure ...                          *)
ClearComms ==
    /\ pc = "memset"
    /\ pc' = "assign"
    /\ transmit' = FALSE /\ payload' = FALSE /\ cState' = "OK"
    /\ UNCHANGED <<clientState, sock, status, window, connection>>
    /\ UNCHANGED <<descriptors, faults, ended>>

(* ... before it assigns the callbacks.                                     *)
AssignCallbacks ==
    /\ pc = "assign"
    /\ pc' = "announce"
    /\ transmit' = TRUE
    /\ UNCHANGED <<clientState, sock, payload, cState, status, window, connection>>
    /\ UNCHANGED <<descriptors, faults, ended>>

AnnounceProcess ==
    /\ pc = "announce"
    /\ pc' = "top"
    /\ clientState' = "PROCESS"
    /\ UNCHANGED <<sock, comms, status, window, connection, descriptors, faults, ended>>

(* Mutant: a status is announced when its first part has come.              *)
ReceivePartAnnouncing ==
    /\ pc = "recv" /\ cState = "OK"
    /\ replies > 0 /\ ~payload /\ updates < MaxInFlight
    /\ pc' = "top"
    /\ payload' = TRUE /\ updates' = updates + 1
    /\ UNCHANGED <<clientState, sock, transmit, cState, status, at, view, connection>>
    /\ UNCHANGED <<descriptors, faults, ended>>

(* recv() brings the first part of a status object, up to any byte of it.    *)
(* In COMMS_STATE_ERROR everything received would be ignored.               *)
ReceivePart ==
    /\ pc = "recv" /\ cState = "OK"
    /\ replies > 0 /\ ~payload
    /\ pc' = "top"
    /\ payload' = TRUE
    /\ UNCHANGED <<clientState, sock, transmit, cState, status, window, connection>>
    /\ UNCHANGED <<descriptors, faults, ended>>

(* Or the whole, or the rest of it: _tcpclient_ReceiveStatus copies it and   *)
(* has Qt invoke updateStatus later.                                        *)
ReceiveStatus ==
    /\ pc = "recv" /\ cState = "OK"
    /\ replies > 0 /\ updates < MaxInFlight
    /\ pc' = "top"
    /\ payload' = FALSE
    /\ \E s \in SystemStates : status' = s
    /\ updates' = updates + 1
    /\ replies' = replies - 1
    /\ UNCHANGED <<clientState, sock, transmit, cState, at, view, requests>>
    /\ UNCHANGED <<descriptors, faults, ended>>

(* The bytes make no sense: Comms_Error frees the payload, and calls         *)
(* error_callback.                                                          *)
ReceiveNonsense ==
    /\ pc = "recv" /\ cState = "OK" /\ Fault
    /\ pc' = "close"
    /\ cState' = "ERROR" /\ payload' = FALSE
    /\ UNCHANGED <<clientState, sock, transmit, status, window, connection>>
    /\ UNCHANGED <<descriptors, ended>>

(* recv() fails, or returns 0 because the server has closed the socket.     *)
ReceiveNothing ==
    /\ pc = "recv"
    /\ \/ Fault
       \/ sock # "connected" /\ UNCHANGED faults
    /\ pc' = "close"
    /\ UNCHANGED <<clientState, sock, comms, status, window, connection>>
    /\ UNCHANGED <<descriptors, ended>>

(* Mutant: the socket is not closed after an error.                         *)
CloseSocketNot ==
    /\ pc = "close"
    /\ pc' = "deinit"
    /\ requests' = 0 /\ replies' = 0
    /\ UNCHANGED <<clientState, sock, comms, status, window, faults, descriptors, ended>>

(* The three statements of either error branch and of error_callback.       *)
CloseSocket ==
    /\ pc = "close"
    /\ pc' = "deinit"
    /\ sock' = "closed" /\ descriptors' = descriptors - 1
    /\ requests' = 0 /\ replies' = 0
    /\ UNCHANGED <<clientState, comms, status, window, faults, ended>>

(* Mutant: Comms_Deinit is forgotten.                                       *)
DeinitNot ==
    /\ pc = "deinit"
    /\ pc' = "again"
    /\ UNCHANGED <<clientState, sock, comms, status, window, connection>>
    /\ UNCHANGED <<descriptors, faults, ended>>

Deinit ==
    /\ pc = "deinit"
    /\ pc' = "again"
    /\ payload' = FALSE
    /\ UNCHANGED <<clientState, sock, transmit, cState, status, window, connection>>
    /\ UNCHANGED <<descriptors, faults, ended>>

ConnectAgain ==
    /\ pc = "again"
    /\ pc' = "top"
    /\ clientState' = "INIT"
    /\ UNCHANGED <<sock, comms, status, window, connection, descriptors, faults, ended>>

ReceiveThread ==
    \/ Dispatch \/ CreateSocket \/ Connect \/ ClearComms \/ AssignCallbacks
    \/ AnnounceProcess \/ ReceivePart \/ ReceiveStatus
    \/ ReceiveNonsense \/ ReceiveNothing \/ CloseSocket \/ Deinit \/ ConnectAgain

-----------------------------------------------------------------------------
(* tcpclient_SendCommand, in either thread: it calls transmit, which sends  *)
(* only in PROCESS.                                                         *)

Go(s, from, to) == at[s] = from /\ at' = [at EXCEPT ![s] = to]

(* A call of NULL ends the process.                                         *)
CallTransmit(s) ==
    /\ \/ transmit /\ Go(s, "call", "check") /\ UNCHANGED ended
       \/ ~transmit /\ at[s] = "call" /\ ended' = TRUE /\ UNCHANGED at
    /\ UNCHANGED <<clientState, sock, comms, status, pc, view, updates, connection>>
    /\ UNCHANGED <<descriptors, faults>>

CheckState(s) ==
    /\ Go(s, "check", IF clientState = "PROCESS" THEN "send" ELSE "idle")
    /\ UNCHANGED <<clientState, sock, comms, status, pc, view, updates, connection>>
    /\ UNCHANGED <<descriptors, faults, ended>>

(* A command reaches a connected server.  The result of send() is ignored,   *)
(* but where the socket is not connected, or no longer, SIGPIPE may come too. *)
(* The number of a socket closed meanwhile is taken as nobody's: what files  *)
(* Qt opens, which could be given it, is not in this program.                *)
SendBytes(s) ==
    /\ \/ /\ sock = "connected"
          /\ s = "poll" => requests < MaxInFlight
          /\ requests' = IF s = "poll" THEN requests + 1 ELSE requests
          /\ Go(s, "send", "idle") /\ UNCHANGED <<sock, ended>>
       \/ /\ sock # "connected" /\ Go(s, "send", "idle")
          /\ sock' \in IF sock = "leftByServer" THEN {sock, "reset"} ELSE {sock}
          /\ UNCHANGED <<requests, ended>>
       \/ /\ sock \in {"open", "reset"} /\ at[s] = "send"
          /\ ended' = TRUE /\ UNCHANGED <<sock, at, requests>>
    /\ UNCHANGED <<clientState, comms, status, pc, view, updates, replies>>
    /\ UNCHANGED <<descriptors, faults>>

SendingThread(s) == CallTransmit(s) \/ CheckState(s) \/ SendBytes(s)

(* Mutant: a status is asked for even while there is no connection.         *)
PollAlways ==
    /\ Go("poll", "idle", "call")
    /\ UNCHANGED <<clientState, sock, comms, status, pc, view, updates, connection>>
    /\ UNCHANGED <<descriptors, faults, ended>>

(* networkThread(), once a second: ask for the status if connected.         *)
Poll ==
    /\ clientState = "PROCESS"
    /\ Go("poll", "idle", "call")
    /\ UNCHANGED <<clientState, sock, comms, status, pc, view, updates, connection>>
    /\ UNCHANGED <<descriptors, faults, ended>>

(* A click on a visible mode button: PrepareStateChange() hides them all.   *)
ClickMode ==
    /\ Buttons[view] # {}
    /\ Go("ui", "idle", "call")
    /\ view' = "changing"
    /\ UNCHANGED <<clientState, sock, comms, status, pc, updates, connection>>
    /\ UNCHANGED <<descriptors, faults, ended>>

(* A click on one of the six page buttons hides them too, and sends nothing. *)
ClickPage ==
    /\ at["ui"] = "idle"
    /\ view' = "changing"
    /\ UNCHANGED <<clientState, sock, comms, status, pc, at, updates, connection>>
    /\ UNCHANGED <<descriptors, faults, ended>>

(* updateStatus().  MainWindow::nSystemState keeps the NO_CHANGE it was      *)
(* constructed with, so every status differs from it and is shown.          *)
UpdateStatus ==
    /\ at["ui"] = "idle"
    /\ updates > 0
    /\ updates' = updates - 1
    /\ view' = status
    /\ UNCHANGED <<clientState, sock, comms, status, pc, at, connection>>
    /\ UNCHANGED <<descriptors, faults, ended>>

(* The server closes its end: after 30 seconds without a command, after an   *)
(* error, or because its process ends.                                      *)
ServerCloses ==
    /\ sock = "connected" /\ Fault
    /\ sock' = "leftByServer"
    /\ requests' = 0
    /\ UNCHANGED <<clientState, comms, status, pc, window, replies>>
    /\ UNCHANGED <<descriptors, ended>>

(* The server's thread for this client: commandReceived_callback.           *)
ServerReplies ==
    /\ requests > 0 /\ replies < MaxInFlight
    /\ requests' = requests - 1 /\ replies' = replies + 1
    /\ UNCHANGED <<clientState, sock, comms, status, pc, window>>
    /\ UNCHANGED <<descriptors, faults, ended>>

Next ==
    /\ ~ended
    /\ \/ ReceiveThread \/ \E s \in Senders : SendingThread(s)
       \/ Poll \/ ClickMode \/ ClickPage \/ UpdateStatus
       \/ ServerReplies \/ ServerCloses

(* Every thread goes on, the server answers, nobody has to click.           *)
Fairness ==
    /\ WF_vars(~ended /\ ReceiveThread)
    /\ \A s \in Senders : WF_vars(~ended /\ SendingThread(s))
    /\ WF_vars(~ended /\ Poll)
    /\ WF_vars(~ended /\ UpdateStatus)
    /\ WF_vars(~ended /\ ServerReplies)

Spec == Init /\ [][Next]_vars /\ Fairness

-----------------------------------------------------------------------------
(* Properties.                                                              *)

TypeOK ==
    /\ clientState \in {"INIT", "PROCESS"}
    /\ sock \in Sockets
    /\ transmit \in BOOLEAN /\ payload \in BOOLEAN /\ cState \in {"OK", "ERROR"}
    /\ status \in SystemStates
    /\ pc \in {"top", "socket", "connect", "memset", "assign", "announce", "recv",
               "close", "deinit", "again"}
    /\ at \in [Senders -> {"idle", "call", "check", "send"}]
    /\ view \in SystemStates \cup {"changing"}
    /\ updates \in 0..MaxInFlight
    /\ requests \in 0..MaxInFlight /\ replies \in 0..MaxInFlight
    /\ descriptors \in 0..1
    /\ faults \in 0..MaxFaults
    /\ ended \in BOOLEAN

(* Through any sequence of failures and new connections no socket is leaked: *)
(* there is none while the next is created, and no socket is closed twice.   *)
SocketNotLeaked ==
    descriptors = IF sock \in OpenSockets THEN 1 ELSE 0

(* Comms_Initialise forgets pcPayload: by then it has been freed, wherever   *)
(* in an object the previous connection broke off.                          *)
PayloadNotLeaked == pc \in {"memset", "socket"} => ~payload

(* sdcComms is "not thread safe": a command sent by another thread finds no  *)
(* transmit callback only while Comms_Initialise is rebuilding it for a new  *)
(* connection, never before the first one; and SIGPIPE can only come while   *)
(* the lost connection has not been replaced.                               *)
EndsOnlyWhileReconnecting ==
    ended =>
        \/ pc = "assign" /\ \E s \in Senders : at[s] = "call"
        \/ /\ pc = "connect" \/ sock = "reset"
           /\ \E s \in Senders : at[s] = "send"

(* Through lost connections, partial objects and commands of other threads,   *)
(* each status received was asked for on its own connection and is announced *)
(* once, and the window shows nothing else.                                 *)
Feed == INSTANCE StatusFeed WITH
    States <- SystemStates,
    link   <- IF sock = "connected" THEN "up"
              ELSE IF sock \in {"leftByServer", "reset"} THEN "left" ELSE "down",
    asked  <- requests + replies,
    latest <- status, news <- updates, shown <- view

ImplementsStatusFeed == Feed!Spec

(* "Changing Mode..." never stays: the window shows a state again, although   *)
(* the command may have been dropped and the connection lost meanwhile.      *)
WindowRecovers == view = "changing" ~> view # "changing" \/ ended
===============================================================================
