------------------------------ MODULE TcpServer ------------------------------
(***************************************************************************)
(* server/tcpserver.c with the end of main: the start of the server, the   *)
(* accept loop in its thread, one detached thread for every connection,    *)
(* and tcpserver_deinit in the main thread.  They share bServerRunning,    *)
(* serverThread and server_socket without a lock, and the accept loop      *)
(* hands every connection to its thread through one local variable.        *)
(*                                                                         *)
(* A client is one connection, and the thread that is created for it has   *)
(* its name.  What Comms_Receive makes of bytes is CommsProtocol's         *)
(* subject; here bytes are requests for the status, or nonsense.  The      *)
(* commands that need no answer are those of InverterControl.              *)
(***************************************************************************)
EXTENDS Naturals, FiniteSets

CONSTANTS
    Clients,        \* the connections made, each with its thread
    MaxDescriptor,  \* the process may have descriptors 1 .. MaxDescriptor
    MaxRequests,    \* bound on one client's unanswered requests
    PromptThreads   \* TRUE iff a new thread reads client_socket before the
                    \* accept loop, which pauses for 10 ms, assigns it again

ASSUME ServerAssumption ==
    /\ {"server", "none", "free", "listener"} \cap Clients = {}
    /\ IsFiniteSet(Clients)
    /\ MaxDescriptor \in Nat \ {0} /\ MaxRequests \in Nat \ {0}
    /\ PromptThreads \in BOOLEAN

Descriptors == 1..MaxDescriptor
NoDescriptor == 0    \* -1, or a number that is no socket's

VARIABLES
    (* main thread *)
    mainAt,
    cancelled,      \* the thread that tcpserver_deinit cancelled
    (* shared *)
    bServerRunning,
    serverThread,   \* the thread whose ID was stored last; "none" when a
                    \* creation has failed, or none was tried, and it is void
    server_socket,
    client_socket,  \* the local variable of the accept loop, while a thread
                    \* has still to read it
    (* the accept loop *)
    pc,
    (* one thread per client *)
    at,
    fd,             \* its copy of client_socket
    file,           \* the connection its recv() waits for
    due,            \* requests received in one recv() and not yet answered
    (* the kernel *)
    table,          \* what each descriptor stands for
    peer,           \* what the client has done to its connection
    inbox,          \* requests that have arrived
    owed,           \* history: requests unanswered, as long as the client is
                    \* there
    ended           \* how the process ended

main    == <<mainAt, cancelled>>
shared  == <<bServerRunning, serverThread, server_socket>>
threads == <<at, fd, file, due>>
clients == <<peer, inbox, owed>>
vars    == <<main, shared, client_socket, pc, threads, table, clients, ended>>

(* silent: nothing comes for 30 seconds, or what comes is no message.       *)
(* left: the client has closed its end, but a send() is accepted still, or   *)
(* fails without a signal.  broken: the next send() raises SIGPIPE.         *)
(* closed: the server has closed the connection, in whatever state it was.  *)
Present == {"connected", "silent"}
Gone    == {"left", "broken"}
Peers   == {"away", "closed"} \cup Present \cup Gone
IsOpen(c) == peer[c] \in Present \cup Gone

Free == {d \in Descriptors : table[d] = "free"}

(* The lowest free number, as the kernel gives it.                          *)
Lowest == CHOOSE d \in Free : \A e \in Free : d <= e

Refers(d) == IF d = NoDescriptor THEN "free" ELSE table[d]

(* close(d), whatever d stands for by now: a connection is closed unless a   *)
(* recv() still waits for it.                                               *)
Release(d) == table' = [e \in Descriptors |-> IF e = d THEN "free" ELSE table[e]]

EndConnections ==
    LET open(c) == \/ \E d \in Descriptors : table'[d] = c
                   \/ \E t \in Clients : file'[t] = c
        ends(c) == IsOpen(c) /\ ~open(c)
    IN  /\ peer'  = [c \in Clients |-> IF ends(c) THEN "closed" ELSE peer[c]]
        /\ inbox' = [c \in Clients |-> IF ends(c) THEN 0 ELSE inbox[c]]
        /\ owed'  = [c \in Clients |-> IF ends(c) THEN 0 ELSE owed[c]]

Init ==
    /\ mainAt = "socket" /\ cancelled = "none"
    /\ bServerRunning = FALSE /\ serverThread = "none"
    /\ server_socket = NoDescriptor /\ client_socket = NoDescriptor
    /\ pc = "none"
    /\ at = [t \in Clients |-> "none"]
    /\ fd = [t \in Clients |-> NoDescriptor]
    /\ file = [t \in Clients |-> "free"]
    /\ due = [t \in Clients |-> 0]
    /\ table = [d \in Descriptors |-> "free"]
    /\ peer = [c \in Clients |-> "away"]
    /\ inbox = [c \in Clients |-> 0] /\ owed = [c \in Clients |-> 0]
    /\ ended = "no"

-----------------------------------------------------------------------------
(* tcpserver_init: a failure is tried again, with a new socket.             *)

CreateSocket ==
    /\ mainAt = "socket"
    /\ \/ /\ Free # {}
          /\ server_socket' = Lowest
          /\ table' = [table EXCEPT ![Lowest] = "listener"]
          /\ mainAt' = "bind"
       \/ server_socket' = NoDescriptor /\ UNCHANGED <<mainAt, table>>
    /\ UNCHANGED <<cancelled, bServerRunning, serverThread, client_socket, pc>>
    /\ UNCHANGED <<threads, clients, ended>>

(* bind() and listen().                                                     *)
Prepare(from, to) ==
    /\ mainAt = from
    /\ \/ mainAt' = to /\ UNCHANGED table
       \/ mainAt' = "socket" /\ Release(server_socket)
    /\ UNCHANGED <<cancelled, shared, client_socket, pc, threads, clients, ended>>

CreateServerThread ==
    /\ mainAt = "create"
    /\ \/ /\ bServerRunning' = TRUE /\ serverThread' = "server" /\ pc' = "top"
          /\ mainAt' = "modbus" /\ UNCHANGED table
       \/ /\ Release(server_socket)
          /\ mainAt' = "lost" /\ UNCHANGED <<bServerRunning, serverThread, pc>>
    /\ UNCHANGED <<cancelled, server_socket, client_socket, threads, clients, ended>>

CreateModbusThread ==
    /\ mainAt = "modbus"
    /\ mainAt' \in {"console", "lost"}
    /\ UNCHANGED <<cancelled, shared, client_socket, pc, threads, table, clients, ended>>

-----------------------------------------------------------------------------
(* The end of main: q, the join of the MODBUS thread, which InverterControl *)
(* shows may wait for ever, and tcpserver_deinit.                           *)

Quit ==
    /\ mainAt = "console" /\ mainAt' = "wait"
    /\ UNCHANGED <<cancelled, shared, client_socket, pc, threads, table, clients, ended>>

JoinModbusThread ==
    /\ mainAt = "wait" /\ mainAt' = "stop"
    /\ UNCHANGED <<cancelled, shared, client_socket, pc, threads, table, clients, ended>>

(* main joins thread_modbus although it was never created, which is         *)
(* undefined: it fails, and main goes on; it crashes; or it never returns.   *)
JoinUninitialised ==
    /\ mainAt = "lost"
    /\ \/ mainAt' = "stop" /\ UNCHANGED ended
       \/ ended' = "crash" /\ UNCHANGED mainAt
    /\ UNCHANGED <<cancelled, shared, client_socket, pc, threads, table, clients>>

Stop ==
    /\ mainAt = "stop" /\ mainAt' = "close"
    /\ bServerRunning' = FALSE
    /\ UNCHANGED <<cancelled, serverThread, server_socket, client_socket, pc>>
    /\ UNCHANGED <<threads, table, clients, ended>>

CloseListener ==
    /\ mainAt = "close" /\ mainAt' = "cancel"
    /\ Release(server_socket)
    /\ UNCHANGED <<cancelled, shared, client_socket, pc, threads, clients, ended>>

(* Mutant: nothing is cancelled.                                            *)
CancelNothing ==
    /\ mainAt = "cancel" /\ mainAt' = "join"
    /\ UNCHANGED <<cancelled, shared, client_socket, pc, threads, table, clients, ended>>

(* An ID that means nothing: no thread was given it, or its thread, which is *)
(* detached, has ended.  Using it is undefined: an error, or a crash.       *)
Dangling(id) ==
    \/ id = "none"
    \/ id \in Clients /\ at[id] = "done"

(* The ID is that of the thread created last.                               *)
Cancel ==
    /\ mainAt = "cancel" /\ mainAt' = "join"
    /\ cancelled' = serverThread
    /\ \/ UNCHANGED ended
       \/ Dangling(serverThread) /\ ended' = "crash"
    /\ UNCHANGED <<shared, client_socket, pc, threads, table, clients>>

(* serverThread is read again, and may have changed.  Joining a detached    *)
(* thread fails at once; then main returns.                                 *)
Join ==
    /\ mainAt = "join"
    /\ \/ "server" \in {cancelled, serverThread} /\ pc = "done"
       \/ serverThread = "none"
       \/ serverThread \in Clients /\ at[serverThread] # "start"
    /\ \/ ended' = "exit"
       \/ Dangling(serverThread) /\ ended' = "crash"
    /\ UNCHANGED <<main, shared, client_socket, pc, threads, table, clients>>

MainThread ==
    \/ CreateSocket \/ Prepare("bind", "listen") \/ Prepare("listen", "create")
    \/ CreateServerThread \/ CreateModbusThread
    \/ Stop \/ CloseListener \/ Cancel \/ Join

-----------------------------------------------------------------------------
(* handle_server.                                                           *)

(* while(bServerRunning): into accept(), or close the socket and return.    *)
LoopServer ==
    /\ pc = "top"
    /\ UNCHANGED <<main, shared, client_socket, threads, ended>>
    /\ IF bServerRunning
          THEN pc' = "accept" /\ UNCHANGED <<table, clients>>
          ELSE pc' = "done" /\ Release(server_socket) /\ EndConnections

(* The accept loop pauses for 10 ms before it assigns client_socket again.   *)
Starting   == {t \in Clients : at[t] = "start"}
AfterPause == PromptThreads => Starting = {}

Assign(d) == client_socket' = IF \E t \in Clients : at'[t] = "start"
                                 THEN d ELSE NoDescriptor

(* accept() and pthread_create(), which stores the new thread's ID over the *)
(* previous one and gives it the address of client_socket.  An accept() that *)
(* was waiting when another thread closed its socket may still succeed.     *)
AcceptClient(c) ==
    /\ pc = "accept" /\ pc' = "top"
    /\ peer[c] = "away" /\ Free # {}
    /\ AfterPause
    /\ \/ /\ serverThread' = c
          /\ peer' = [peer EXCEPT ![c] = "connected"]
          /\ at' = [at EXCEPT ![c] = "start"]
          /\ table' = [table EXCEPT ![Lowest] = c]
       \/ /\ serverThread' \in {serverThread, "none"}    \* there is no thread
          /\ peer' = [peer EXCEPT ![c] = "closed"]
          /\ UNCHANGED <<at, table>>
    /\ Assign(Lowest)
    /\ UNCHANGED <<main, bServerRunning, server_socket, fd, file, due>>
    /\ UNCHANGED <<inbox, owed, ended>>

AcceptFails ==
    /\ pc = "accept" /\ pc' = "top"
    /\ AfterPause
    /\ client_socket' = NoDescriptor    \* -1
    /\ UNCHANGED <<main, shared, threads, table, clients, ended>>

(* Cancelled, it ends at its next wait and closes nothing.                  *)
CancelServer ==
    /\ cancelled = "server" /\ pc \in {"top", "accept"}
    /\ pc' = "done"
    /\ UNCHANGED <<main, shared, client_socket, threads, table, clients, ended>>

-----------------------------------------------------------------------------
(* handle_client.                                                           *)

Go(t, from, to) == at[t] = from /\ at' = [at EXCEPT ![t] = to]

(* It detaches itself and reads the variable of the accept loop, whose stack *)
(* is no longer there once that thread has ended.                            *)
Start(t) ==
    /\ Go(t, "start", "loop")
    /\ \E d \in {client_socket} \cup (IF pc = "done" THEN {NoDescriptor} ELSE {}) :
          fd' = [fd EXCEPT ![t] = d]
    /\ Assign(client_socket)
    /\ UNCHANGED <<main, shared, pc, file, due, table, clients, ended>>

LoopClient(t) ==
    /\ Go(t, "loop", IF bServerRunning THEN "recv" ELSE "close")
    /\ file' = [file EXCEPT ![t] = IF bServerRunning THEN Refers(fd[t]) ELSE "free"]
    /\ UNCHANGED <<main, shared, client_socket, pc, fd, due, table, clients, ended>>

(* Mutant: an answer is sent in two parts, header and payload.               *)
ReceiveToReplyTwice(t) ==
    LET c == file[t] IN
    /\ Go(t, "recv", "reply")
    /\ c \in Clients
    /\ \E n \in 1..inbox[c] :
          /\ inbox' = [inbox EXCEPT ![c] = @ - n]
          /\ due' = [due EXCEPT ![t] = 2 * n]
    /\ file' = [file EXCEPT ![t] = "free"]
    /\ UNCHANGED <<main, shared, client_socket, pc, fd, table, peer, owed, ended>>

(* One recv() may bring several commands; Comms_Receive calls               *)
(* commandReceived_callback for each.                                       *)
Receive(t) ==
    LET c == file[t] IN
    /\ Go(t, "recv", "reply")
    /\ c \in Clients
    /\ \E n \in 1..inbox[c] :
          /\ inbox' = [inbox EXCEPT ![c] = @ - n]
          /\ due' = [due EXCEPT ![t] = n]
    /\ file' = [file EXCEPT ![t] = "free"]
    /\ UNCHANGED <<main, shared, client_socket, pc, fd, table, peer, owed, ended>>

(* Mutant: a recv() that does not wait takes a pause for the end.           *)
NothingComesYet(c) == c \in Clients => inbox[c] = 0

(* Mutant: without SO_RCVTIMEO silence lasts for ever.                      *)
NothingComesUntimed(c) ==
    c \in Clients => inbox[c] = 0 /\ peer[c] \notin {"connected", "silent"}

(* recv() ends without a command: an invalid descriptor, 30 seconds of      *)
(* silence, the end of the connection; or Comms_Receive finds an error.     *)
NothingComes(c) ==
    c \in Clients => inbox[c] = 0 /\ peer[c] # "connected"

(* Mutant: the error branch closes the socket, as the client's code does.   *)
ReceiveNothingClosing(t) ==
    /\ Go(t, "recv", "close")
    /\ NothingComes(file[t])
    /\ file' = [file EXCEPT ![t] = "free"]
    /\ Release(fd[t]) /\ EndConnections
    /\ UNCHANGED <<main, shared, client_socket, pc, fd, due, ended>>

ReceiveNothing(t) ==
    /\ Go(t, "recv", "close")
    /\ NothingComes(file[t])
    /\ file' = [file EXCEPT ![t] = "free"]
    /\ UNCHANGED table /\ EndConnections
    /\ UNCHANGED <<main, shared, client_socket, pc, fd, due, ended>>

(* What has been sent to a client that has gone is refused sooner or later. *)
PeerAfterSend(p) == IF p = "left" THEN {"left", "broken"} ELSE {p}

(* Mutant: one answer more than was asked for.                              *)
RepliedOnceMore(t) ==
    /\ due' = [due EXCEPT ![t] = @ - 1]
    /\ IF due[t] = 0 THEN Go(t, "reply", "loop") ELSE at[t] = "reply" /\ UNCHANGED at

Replied(t) ==
    /\ due' = [due EXCEPT ![t] = @ - 1]
    /\ IF due[t] = 1 THEN Go(t, "reply", "loop") ELSE at[t] = "reply" /\ UNCHANGED at

(* transmit_callback for one request.  Nobody looks at the result of send(); *)
(* SIGPIPE, for which no handler is installed, ends the process.            *)
Reply(t) ==
    LET c == Refers(fd[t]) IN
    \/ /\ c \in Clients /\ peer[c] # "broken"
       /\ Replied(t)
       /\ \E p \in PeerAfterSend(peer[c]) :
             /\ peer' = [peer EXCEPT ![c] = p]
             /\ inbox' = IF p = "broken" THEN [inbox EXCEPT ![c] = 0] ELSE inbox
       /\ owed' = IF owed[c] > 0 /\ peer[c] \in Present
                     THEN [owed EXCEPT ![c] = @ - 1] ELSE owed
       /\ UNCHANGED <<main, shared, client_socket, pc, fd, file, table, ended>>
    \/ /\ c \notin Clients
       /\ Replied(t)
       /\ UNCHANGED <<main, shared, client_socket, pc, fd, file, table, clients, ended>>
    \/ /\ at[t] = "reply" /\ c \in Clients /\ peer[c] = "broken"
       /\ ended' = "signal"
       /\ UNCHANGED <<main, shared, client_socket, pc, threads, table, clients>>

CloseClient(t) ==
    /\ Go(t, "close", "done")
    /\ fd' = [fd EXCEPT ![t] = NoDescriptor]
    /\ UNCHANGED <<main, shared, client_socket, pc, file, due, ended>>
    /\ Release(fd[t]) /\ EndConnections

(* A cancelled client thread ends too, and leaves its socket open.          *)
CancelClient(t) ==
    /\ cancelled = t /\ at[t] \in {"loop", "recv", "reply"}
    /\ at' = [at EXCEPT ![t] = "done"]
    /\ file' = [file EXCEPT ![t] = "free"]
    /\ fd' = [fd EXCEPT ![t] = NoDescriptor]
    /\ UNCHANGED table /\ EndConnections
    /\ UNCHANGED <<main, shared, client_socket, pc, due, ended>>

ClientThread(t) ==
    \/ Start(t) \/ LoopClient(t) \/ Receive(t) \/ ReceiveNothing(t)
    \/ Reply(t) \/ CloseClient(t) \/ CancelClient(t)

-----------------------------------------------------------------------------
(* The remote clients.                                                      *)

AskStatus(c) ==
    /\ peer[c] = "connected"
    /\ owed[c] < MaxRequests /\ inbox[c] < MaxRequests
    /\ inbox' = [inbox EXCEPT ![c] = @ + 1]
    /\ owed' = [owed EXCEPT ![c] = @ + 1]
    /\ UNCHANGED <<main, shared, client_socket, pc, threads, table, peer, ended>>

FallSilent(c) ==
    /\ peer[c] = "connected"
    /\ peer' = [peer EXCEPT ![c] = "silent"]
    /\ UNCHANGED <<main, shared, client_socket, pc, threads, table, inbox, owed, ended>>

(* It closes its end; having left an answer unread, with a reset, which     *)
(* takes with it what has arrived and was not received.                     *)
Leave(c) ==
    /\ peer[c] \in Present
    /\ peer' = [peer EXCEPT ![c] = "left"]
    /\ inbox' \in {inbox, [inbox EXCEPT ![c] = 0]}
    /\ UNCHANGED <<main, shared, client_socket, pc, threads, table, owed, ended>>

Next ==
    /\ ended = "no"
    /\ \/ MainThread \/ Quit \/ JoinModbusThread \/ JoinUninitialised
       \/ LoopServer \/ AcceptFails \/ CancelServer
       \/ \E c \in Clients : \/ AcceptClient(c) \/ ClientThread(c)
                             \/ AskStatus(c) \/ FallSilent(c) \/ Leave(c)

(* The threads go on, and a cancellation arrives; nobody has to connect, to  *)
(* ask or to quit, and the join of the MODBUS thread need not return.       *)
Fairness ==
    /\ WF_vars(ended = "no" /\ MainThread)
    /\ WF_vars(ended = "no" /\ (LoopServer \/ CancelServer))
    /\ \A t \in Clients : WF_vars(ended = "no" /\ ClientThread(t))

Spec == Init /\ [][Next]_vars /\ Fairness

-----------------------------------------------------------------------------
(* Properties.                                                              *)

(* Every variable keeps its type; no more is answered than was received.     *)
TypeOK ==
    /\ mainAt \in {"socket", "bind", "listen", "create", "modbus", "lost",
                   "console", "wait", "stop", "close", "cancel", "join"}
    /\ cancelled \in Clients \cup {"none", "server"}
    /\ bServerRunning \in BOOLEAN
    /\ serverThread \in Clients \cup {"none", "server"}
    /\ server_socket \in Descriptors \cup {NoDescriptor}
    /\ client_socket \in Descriptors \cup {NoDescriptor}
    /\ pc \in {"none", "top", "accept", "done"}
    /\ at \in [Clients -> {"none", "start", "loop", "recv", "reply", "close", "done"}]
    /\ fd \in [Clients -> Descriptors \cup {NoDescriptor}]
    /\ file \in [Clients -> Clients \cup {"free", "listener"}]
    /\ due \in [Clients -> 0..MaxRequests]
    /\ table \in [Descriptors -> Clients \cup {"free", "listener"}]
    /\ peer \in [Clients -> Peers]
    /\ inbox \in [Clients -> 0..MaxRequests]
    /\ owed \in [Clients -> 0..MaxRequests]
    /\ ended \in {"no", "exit", "signal", "crash"}

Serving == {"start", "loop", "recv", "reply", "close"}

(* While the server runs, descriptors are closed once and by their owners:   *)
(* every open connection has its own thread, which still works on it and not *)
(* on one that has been given the same number since.                         *)
EachSocketHasItsThread ==
    bServerRunning =>
        /\ \A d \in Descriptors : table[d] \in Clients =>
              /\ at[table[d]] \in Serving
              /\ at[table[d]] # "start" => fd[table[d]] = d
        /\ \A t \in Clients : at[t] \in Serving \ {"start"} => Refers(fd[t]) = t
        /\ Refers(server_socket) = "listener"

(* "Create a new thread to handle the connection": no connection is read by   *)
(* two threads, which would tear its messages apart.                         *)
NoConnectionShared ==
    \A t, u \in Clients :
        /\ at[t] \in Serving \ {"start"} /\ at[u] \in Serving \ {"start"}
        /\ fd[t] = fd[u] /\ Refers(fd[t]) \in Clients
        => t = u

(* A client that goes away can end the controller, by SIGPIPE, only if it    *)
(* left two requests behind: one that asks for the status, waits for it and  *)
(* asks again never does.                                                    *)
SignalNeedsTwoRequests ==
    ended = "signal" => \E c \in Clients : peer[c] \in Gone /\ owed[c] >= 2

(* Sessions, requests and answers behave as StatusService promises.          *)
Service == INSTANCE StatusService WITH
    session  <- [c \in Clients |-> IF IsOpen(c) THEN "open" ELSE peer[c]],
    asked    <- [c \in Clients |->
                   IF peer[c] = "connected" THEN inbox[c] + due[c] ELSE 0],
    excused  <- {c \in Clients : IsOpen(c) /\ peer[c] # "connected"},
    stopping <- mainAt \in {"stop", "close", "cancel", "join"}

ImplementsStatusService == Service!Spec

Stopping == mainAt \in {"stop", "close", "cancel", "join"} \/ ended # "no"

(* "Accept incoming client connections that can query the current inverter   *)
(* parameters": until the server stops, every client is given answer after   *)
(* answer, or has nothing to wait for, or is closed because it has gone.     *)
EveryClientServed ==
    \A c \in Clients :
        \/ []<><<owed[c]' < owed[c]>>_vars
        \/ <>[](IF peer[c] = "connected" THEN owed[c] = 0 ELSE ~IsOpen(c))
        \/ <>Stopping

(* Whichever thread's ID serverThread holds, and whether it is a thread's at *)
(* all, a quit ends the program once the MODBUS thread has been joined.      *)
QuitEnds == mainAt = "stop" ~> ended # "no"
===============================================================================
