--------------------------- MODULE TcpServer_proofs ---------------------------
(***************************************************************************)
(* The safety of the TCP server and its refinement of StatusService, for   *)
(* any number of connections, descriptors and requests.  All but the type  *)
(* invariant rest on PromptThreads: without it the run server_race shows   *)
(* two threads on one connection.                                          *)
(***************************************************************************)
EXTENDS TcpServer, WellFoundedInduction, TLAPS

(* How far the start of the server is, and who may touch the listener.      *)
StartInv ==
    /\ mainAt \in {"socket", "bind", "listen", "create"} => pc = "none"
    /\ pc = "none" => /\ ~bServerRunning
                      /\ \A t \in Clients : at[t] = "none"
                      /\ \A d \in Descriptors : table[d] \notin Clients
    /\ mainAt \in {"bind", "listen", "create"} => Refers(server_socket) = "listener"
    /\ bServerRunning => /\ mainAt \in {"modbus", "console", "wait", "stop", "lost"}
                         /\ pc \in {"top", "accept"}
    /\ mainAt \in {"modbus", "lost", "console", "wait", "stop", "close"} =>
          \/ Refers(server_socket) = "listener"
          \/ pc \in {"none", "done"} /\ Refers(server_socket) = "free"
    /\ cancelled # "none" => mainAt = "join"

(* A client that has not come has no thread.                                *)
AwayInv == \A c \in Clients : peer[c] = "away" => at[c] = "none"

Working == Serving \ {"start"}

(* Whom a descriptor stands for while the server runs.                      *)
TableInv ==
    bServerRunning =>
        \A d \in Descriptors : table[d] \in Clients =>
            /\ at[table[d]] \in Serving
            /\ IF at[table[d]] = "start" THEN client_socket = d
                                         ELSE fd[table[d]] = d

(* A thread's descriptor is its own client's: only the accept loop's last    *)
(* close() may take it away, after which no number is given out again.      *)
Owns(t, d) ==
    \/ Refers(d) = t
    \/ pc = "done" /\ Refers(d) = "free"

FdInv ==
    /\ \A t, u \in Clients : at[t] = "start" /\ at[u] = "start" => t = u
    /\ \A t \in Clients : /\ at[t] = "start" => Owns(t, client_socket)
                          /\ at[t] \in Working => Owns(t, fd[t])

-----------------------------------------------------------------------------
(* The kernel gives out a number that is free.                              *)
LEMMA LowestIsFree == ASSUME Free # {} PROVE Lowest \in Free
<1> DEFINE R == {p \in Nat \X Nat : p[1] < p[2]}
<1>0. R = OpToRel(<, Nat)
  BY DEF OpToRel
<1>1. IsWellFoundedOn(R, Nat)
  BY <1>0, NatLessThanWellFounded
<1>2. Free \subseteq Nat
  BY ServerAssumption DEF Free, Descriptors
<1> HIDE DEF R
<1>3. PICK d \in Free : \A e \in Free : ~ (<<e, d>> \in R)
  BY <1>1, <1>2, WFMin, Zenon
<1>4. ASSUME NEW e \in Free PROVE d <= e
  <2>1. d \in Nat /\ e \in Nat
    BY <1>2
  <2>2. <<e, d>> \in Nat \X Nat /\ <<e, d>>[1] = e /\ <<e, d>>[2] = d
    BY <2>1
  <2>3. e < d => <<e, d>> \in R
    BY <2>2 DEF R
  <2> QED
    BY <1>3, <2>1, <2>3
<1> QED
  BY <1>4 DEF Lowest

(* It is a descriptor, and not one that stands for anything.                *)
LEMMA LowestType ==
    ASSUME Free # {} PROVE Lowest \in Descriptors /\ table[Lowest] = "free"
BY LowestIsFree DEF Free

(* The end of a connection touches what the client and the kernel keep, and  *)
(* makes no client one that has not come.                                   *)
LEMMA EndConnectionsType ==
    ASSUME TypeOK, EndConnections
    PROVE  /\ peer' \in [Clients -> Peers]
           /\ inbox' \in [Clients -> 0..MaxRequests]
           /\ owed' \in [Clients -> 0..MaxRequests]
           /\ \A c \in Clients : \/ UNCHANGED <<peer[c], inbox[c], owed[c]>>
                                 \/ peer'[c] = "closed" /\ IsOpen(c)
<1> DEFINE open(c) == \/ \E d \in Descriptors : table'[d] = c
                      \/ \E t \in Clients : file'[t] = c
           ends(c) == IsOpen(c) /\ ~open(c)
<1>1. /\ peer'  = [c \in Clients |-> IF ends(c) THEN "closed" ELSE peer[c]]
      /\ inbox' = [c \in Clients |-> IF ends(c) THEN 0 ELSE inbox[c]]
      /\ owed'  = [c \in Clients |-> IF ends(c) THEN 0 ELSE owed[c]]
  BY DEF EndConnections
<1> HIDE DEF open, ends
<1>2. \A c \in Clients : ends(c) => IsOpen(c)
  BY DEF ends
<1> QED
  BY <1>1, <1>2, ServerAssumption DEF TypeOK, Peers

(* close() changes what at most one number stands for.                      *)
LEMMA ReleaseType ==
    ASSUME TypeOK, NEW d, Release(d)
    PROVE  /\ table' \in [Descriptors -> Clients \cup {"free", "listener"}]
           /\ \A e \in Descriptors : table'[e] = IF e = d THEN "free" ELSE table[e]
BY DEF Release, TypeOK

-----------------------------------------------------------------------------
(* Answers never outnumber the requests received.                           *)
DueInv == \A t \in Clients : at[t] = "reply" => due[t] > 0

(* Every step keeps the types.                                              *)
LEMMA TypeStep ==
    ASSUME TypeOK, DueInv, [Next]_vars
    PROVE  TypeOK' /\ DueInv'
<1> DEFINE Goal == TypeOK' /\ DueInv'
<1> USE ServerAssumption DEF main, shared, threads, clients
<1>1. CASE CreateSocket
  BY <1>1, LowestType DEF CreateSocket, TypeOK, DueInv, NoDescriptor
<1>2. ASSUME NEW from, NEW to \in {"listen", "create"}, Prepare(from, to) PROVE Goal
  BY <1>2, ReleaseType DEF Prepare, TypeOK, DueInv
<1>3. CASE CreateServerThread
  <2>1. /\ mainAt' \in {"modbus", "lost"} /\ bServerRunning' \in BOOLEAN
        /\ serverThread' \in Clients \cup {"none", "server"}
        /\ pc' \in {"none", "top", "accept", "done"}
        /\ UNCHANGED <<cancelled, server_socket, client_socket, threads, clients, ended>>
    BY <1>3 DEF CreateServerThread, TypeOK
  <2>2. table' \in [Descriptors -> Clients \cup {"free", "listener"}]
    BY <1>3, ReleaseType DEF CreateServerThread, TypeOK
  <2> QED
    BY <2>1, <2>2 DEF TypeOK, DueInv
<1>4. CASE CreateModbusThread \/ JoinUninitialised \/ JoinModbusThread
        \/ Stop \/ Cancel \/ Join \/ Quit
  <2>1. /\ mainAt' \in {"console", "wait", "lost", "stop", "close", "cancel", "join"}
        /\ cancelled' \in Clients \cup {"none", "server"}
        /\ bServerRunning' \in BOOLEAN
        /\ ended' \in {"no", "exit", "signal", "crash"}
    BY <1>4 DEF CreateModbusThread, JoinUninitialised, JoinModbusThread, Stop, Cancel, Join,
         Quit, TypeOK
  <2>2. UNCHANGED <<serverThread, server_socket, client_socket, pc, threads, table, clients>>
    BY <1>4 DEF CreateModbusThread, JoinUninitialised, JoinModbusThread, Stop, Cancel, Join,
         Quit
  <2> QED
    BY <2>1, <2>2 DEF TypeOK, DueInv
<1>5. CASE CloseListener
  BY <1>5, ReleaseType DEF CloseListener, TypeOK, DueInv
<1>6. CASE LoopServer
  BY <1>6, ReleaseType, EndConnectionsType DEF LoopServer, TypeOK, DueInv
<1>7. CASE AcceptFails \/ CancelServer
  BY <1>7 DEF AcceptFails, CancelServer, TypeOK, DueInv
<1>8. ASSUME NEW c \in Clients, AcceptClient(c) PROVE Goal
  BY <1>8, LowestType DEF AcceptClient, Assign, TypeOK, DueInv, Peers, Present, Gone
<1>9. ASSUME NEW t \in Clients, Start(t) PROVE Goal
  BY <1>9 DEF Start, Go, Assign, TypeOK, DueInv
<1>10. ASSUME NEW t \in Clients, LoopClient(t) PROVE Goal
  BY <1>10 DEF LoopClient, Go, Refers, TypeOK, DueInv, NoDescriptor
<1>11. ASSUME NEW t \in Clients, Receive(t) PROVE Goal
  BY <1>11 DEF Receive, Go, TypeOK, DueInv
<1>12. ASSUME NEW t \in Clients, ReceiveNothing(t) PROVE Goal
  BY <1>12, EndConnectionsType DEF ReceiveNothing, Go, TypeOK, DueInv
<1>13. ASSUME NEW t \in Clients, Reply(t) PROVE Goal
  BY <1>13 DEF Reply, Replied, Go, Refers, PeerAfterSend, TypeOK, DueInv, Peers, Present, Gone
<1>14. ASSUME NEW t \in Clients, CloseClient(t) PROVE Goal
  BY <1>14, ReleaseType, EndConnectionsType DEF CloseClient, Go, TypeOK, DueInv
<1>15. ASSUME NEW t \in Clients, CancelClient(t) PROVE Goal
  BY <1>15, EndConnectionsType DEF CancelClient, TypeOK, DueInv
<1>16. ASSUME NEW c \in Clients, AskStatus(c) PROVE Goal
  BY <1>16 DEF AskStatus, TypeOK, DueInv
<1>17. ASSUME NEW c \in Clients, FallSilent(c) \/ Leave(c) PROVE Goal
  BY <1>17 DEF FallSilent, Leave, TypeOK, DueInv, Peers, Present, Gone
<1>18. CASE UNCHANGED vars
  BY <1>18 DEF vars, TypeOK, DueInv
<1> QED
  BY <1>1, <1>2, <1>3, <1>4, <1>5, <1>6, <1>7, <1>8, <1>9, <1>10, <1>11, <1>12, <1>13,
     <1>14, <1>15, <1>16, <1>17, <1>18
  DEF Next, MainThread, ClientThread

-----------------------------------------------------------------------------
(* Every step keeps the order in which the server starts and ends.          *)
LEMMA StartStep ==
    ASSUME TypeOK, StartInv, AwayInv, FdInv, [Next]_vars
    PROVE  StartInv' /\ AwayInv'
<1> DEFINE Goal == StartInv' /\ AwayInv'
<1> USE ServerAssumption DEF main, shared, threads, clients, StartInv, AwayInv, Refers, NoDescriptor
<1>1. CASE CreateSocket
  <2>1. CASE mainAt' = "bind"
    <3>1. /\ Lowest \in Descriptors /\ Lowest # 0
          /\ server_socket' = Lowest /\ table' = [table EXCEPT ![Lowest] = "listener"]
      BY <1>1, <2>1, LowestType DEF CreateSocket, Descriptors
    <3>2. Refers(server_socket)' = "listener"
      BY <3>1 DEF TypeOK
    <3>3. "listener" \notin Clients
      OBVIOUS
    <3> QED
      BY <1>1, <2>1, <3>1, <3>2, <3>3 DEF CreateSocket, TypeOK
  <2>2. CASE mainAt' # "bind"
    BY <1>1, <2>2 DEF CreateSocket, TypeOK
  <2> QED
    BY <2>1, <2>2
<1>2. ASSUME NEW from \in {"bind", "listen"}, NEW to \in {"listen", "create"},
             Prepare(from, to)
      PROVE Goal
  BY <1>2, ReleaseType DEF Prepare, TypeOK
<1>3. CASE CreateServerThread
  BY <1>3, ReleaseType DEF CreateServerThread, TypeOK
<1>4. CASE CreateModbusThread \/ JoinUninitialised \/ JoinModbusThread
        \/ Stop \/ Cancel \/ Join \/ Quit
  BY <1>4 DEF CreateModbusThread, JoinUninitialised, JoinModbusThread, Stop, Cancel, Join,
         Quit, TypeOK
<1>5. CASE CloseListener
  BY <1>5, ReleaseType DEF CloseListener, TypeOK
<1>6. CASE LoopServer
  BY <1>6, ReleaseType, EndConnectionsType DEF LoopServer, TypeOK
<1>7. CASE AcceptFails \/ CancelServer
  BY <1>7 DEF AcceptFails, CancelServer, TypeOK
<1>8. ASSUME NEW c \in Clients, AcceptClient(c) PROVE Goal
  BY <1>8, LowestType DEF AcceptClient, TypeOK
<1>9. ASSUME NEW t \in Clients, Start(t) \/ LoopClient(t) \/ Receive(t) PROVE Goal
  BY <1>9 DEF Start, LoopClient, Receive, Go, TypeOK
<1>12. ASSUME NEW t \in Clients, ReceiveNothing(t) PROVE Goal
  BY <1>12, EndConnectionsType DEF ReceiveNothing, Go, TypeOK
<1>13. ASSUME NEW t \in Clients, Reply(t) PROVE Goal
  BY <1>13 DEF Reply, Replied, Go, PeerAfterSend, TypeOK
<1>14. ASSUME NEW t \in Clients, CloseClient(t) PROVE Goal
  <2>1. Owns(t, fd[t])
    BY <1>14 DEF CloseClient, Go, FdInv, Working, Serving
  <2> QED
    BY <1>14, <2>1, ReleaseType, EndConnectionsType DEF CloseClient, Go, Owns, TypeOK
<1>15. ASSUME NEW t \in Clients, CancelClient(t) PROVE Goal
  BY <1>15, EndConnectionsType DEF CancelClient, TypeOK
<1>16. ASSUME NEW c \in Clients, AskStatus(c) \/ FallSilent(c) \/ Leave(c) PROVE Goal
  BY <1>16 DEF AskStatus, FallSilent, Leave, TypeOK
<1>18. CASE UNCHANGED vars
  BY <1>18 DEF vars, TypeOK
<1> QED
  BY <1>1, <1>2, <1>3, <1>4, <1>5, <1>6, <1>7, <1>8, <1>9, <1>12, <1>13,
     <1>14, <1>15, <1>16, <1>18
  DEF Next, MainThread, ClientThread

(* Every step keeps the ownership of descriptors, if new threads start      *)
(* promptly.                                                                *)
LEMMA OwnStep ==
    ASSUME PromptThreads, TypeOK, StartInv, AwayInv, TableInv, FdInv, [Next]_vars
    PROVE  TableInv' /\ FdInv'
<1> DEFINE Goal == TableInv' /\ FdInv'
<1> USE ServerAssumption DEF main, shared, threads, clients, TableInv, FdInv, Owns, Refers,
        NoDescriptor, Serving, Working
<1>1. CASE \/ CreateSocket \/ CreateServerThread
           \/ \E from \in {"bind", "listen"}, to \in {"listen", "create"} : Prepare(from, to)
  <2>1. /\ \A t \in Clients : at'[t] = "none"
        /\ \A d \in Descriptors : table'[d] \notin Clients
    BY <1>1, LowestType, ReleaseType
    DEF CreateSocket, CreateServerThread, Prepare, StartInv, TypeOK
  <2> QED
    BY <2>1
<1>4. CASE CreateModbusThread \/ JoinUninitialised \/ JoinModbusThread
        \/ Stop \/ Cancel \/ Join \/ Quit
  BY <1>4 DEF CreateModbusThread, JoinUninitialised, JoinModbusThread, Stop, Cancel, Join,
         Quit, TypeOK
<1>5. CASE CloseListener
  BY <1>5, ReleaseType DEF CloseListener, StartInv, TypeOK
<1>6. CASE LoopServer
  BY <1>6, ReleaseType, EndConnectionsType DEF LoopServer, StartInv, TypeOK
<1>7. CASE AcceptFails \/ CancelServer
  BY <1>7 DEF AcceptFails, CancelServer, StartInv, AfterPause, Starting, TypeOK
<1>8. ASSUME NEW c \in Clients, AcceptClient(c) PROVE Goal
  <2>1. pc = "accept" /\ pc' = "top" /\ at[c] = "none" /\ \A t \in Clients : at[t] # "start"
    BY <1>8 DEF AcceptClient, AfterPause, Starting, AwayInv
  <2>2. Lowest \in Descriptors /\ Lowest # 0 /\ table[Lowest] = "free"
    BY <1>8, LowestType DEF AcceptClient, Descriptors
  <2>3. CASE /\ at' = [at EXCEPT ![c] = "start"]
             /\ table' = [table EXCEPT ![Lowest] = c]
    <3>1. client_socket' = Lowest /\ UNCHANGED <<fd, bServerRunning>>
      BY <1>8, <2>3 DEF AcceptClient, Assign, TypeOK
    <3>2. TableInv'
      <4> SUFFICES ASSUME bServerRunning, NEW d \in Descriptors, table'[d] \in Clients
                   PROVE  /\ at'[table'[d]] \in Serving
                          /\ IF at'[table'[d]] = "start" THEN client_socket' = d
                                                         ELSE fd'[table'[d]] = d
        BY <3>1
      <4>1. CASE d = Lowest
        BY <2>2, <2>3, <3>1, <4>1 DEF TypeOK
      <4>2. CASE d # Lowest
        BY <2>1, <2>2, <2>3, <3>1, <4>2 DEF TypeOK
      <4> QED
        BY <4>1, <4>2
    <3>3. FdInv'
      BY <2>1, <2>2, <2>3, <3>1 DEF TypeOK
    <3> QED
      BY <3>2, <3>3
  <2>4. CASE UNCHANGED <<at, table>>
    BY <1>8, <2>1, <2>4 DEF AcceptClient, TypeOK
  <2> QED
    BY <1>8, <2>3, <2>4 DEF AcceptClient
<1>9. ASSUME NEW t \in Clients, Start(t) PROVE Goal
  BY <1>9 DEF Start, Assign, Go, StartInv, TypeOK
<1>10. ASSUME NEW t \in Clients, LoopClient(t) \/ Receive(t) PROVE Goal
  BY <1>10 DEF LoopClient, Receive, Go, TypeOK
<1>12. ASSUME NEW t \in Clients, ReceiveNothing(t) PROVE Goal
  BY <1>12, EndConnectionsType DEF ReceiveNothing, Go, TypeOK
<1>13. ASSUME NEW t \in Clients, Reply(t) PROVE Goal
  BY <1>13 DEF Reply, Replied, Go, TypeOK
<1>14. ASSUME NEW t \in Clients, CloseClient(t) PROVE Goal
  BY <1>14, ReleaseType, EndConnectionsType DEF CloseClient, Go, StartInv, TypeOK
<1>15. ASSUME NEW t \in Clients, CancelClient(t) PROVE Goal
  BY <1>15, EndConnectionsType DEF CancelClient, StartInv, TypeOK
<1>16. ASSUME NEW c \in Clients, AskStatus(c) \/ FallSilent(c) \/ Leave(c) PROVE Goal
  BY <1>16 DEF AskStatus, FallSilent, Leave, TypeOK
<1>18. CASE UNCHANGED vars
  BY <1>18 DEF vars, TypeOK
<1> QED
  BY <1>1, <1>4, <1>5, <1>6, <1>7, <1>8, <1>9, <1>10, <1>12, <1>13, <1>14, <1>15, <1>16, <1>18
  DEF Next, MainThread, ClientThread

-----------------------------------------------------------------------------
(* What a client that is still there, or has left, waits for is at least    *)
(* what has arrived and not been answered; one answer more has been sent to  *)
(* a client from which the refusal has come back.                           *)
OweInv ==
    \A c \in Clients :
        /\ file[c] \in {c, "free"}
        /\ peer[c] \in {"away", "left"} \cup Present => owed[c] >= inbox[c] + due[c]
        /\ peer[c] = "broken" => inbox[c] = 0 /\ owed[c] >= due[c] + 1

(* Every step keeps that account, and so a signal ends the process only if  *)
(* two requests were left behind.                                           *)
LEMMA OweStep ==
    ASSUME TypeOK, DueInv, FdInv, OweInv, SignalNeedsTwoRequests, [Next]_vars
    PROVE  OweInv' /\ SignalNeedsTwoRequests'
<1> DEFINE Goal == ended = "no" => OweInv' /\ SignalNeedsTwoRequests'
<1> USE ServerAssumption DEF main, shared, threads, clients, OweInv, SignalNeedsTwoRequests,
        Present, Gone
<1>1. ASSUME
           \/ CreateSocket \/ CreateServerThread \/ CreateModbusThread
           \/ JoinUninitialised \/ JoinModbusThread \/ Stop \/ CloseListener
           \/ Cancel \/ Join \/ Quit
           \/ \E from \in {"bind", "listen"}, to \in {"listen", "create"} : Prepare(from, to)
      PROVE  Goal
  BY <1>1 DEF CreateSocket, CreateServerThread, CreateModbusThread, JoinUninitialised,
              JoinModbusThread, Stop, CloseListener, Cancel, Join, Quit, Prepare, TypeOK
<1>6. ASSUME LoopServer PROVE Goal
  BY <1>6, EndConnectionsType DEF LoopServer, TypeOK
<1>7. ASSUME AcceptFails \/ CancelServer PROVE Goal
  BY <1>7 DEF AcceptFails, CancelServer, TypeOK
<1>8. ASSUME NEW c \in Clients, AcceptClient(c) PROVE Goal
  BY <1>8 DEF AcceptClient, TypeOK
<1>9. ASSUME NEW t \in Clients, Start(t) PROVE Goal
  BY <1>9 DEF Start, TypeOK
<1>10. ASSUME NEW t \in Clients, LoopClient(t) PROVE Goal
  BY <1>10 DEF LoopClient, Go, FdInv, Owns, Working, Serving, TypeOK
<1>11. ASSUME NEW t \in Clients, Receive(t) PROVE Goal
  BY <1>11 DEF Receive, Go, TypeOK
<1>12. ASSUME NEW t \in Clients, ReceiveNothing(t) PROVE Goal
  BY <1>12, EndConnectionsType DEF ReceiveNothing, Go, TypeOK
<1>13. ASSUME NEW t \in Clients, Reply(t) PROVE Goal
  BY <1>13 DEF Reply, Replied, Go, PeerAfterSend, FdInv, Owns, Working, Serving, DueInv, TypeOK
<1>14. ASSUME NEW t \in Clients, CloseClient(t) PROVE Goal
  BY <1>14, EndConnectionsType DEF CloseClient, Go, TypeOK
<1>15. ASSUME NEW t \in Clients, CancelClient(t) PROVE Goal
  BY <1>15, EndConnectionsType DEF CancelClient, TypeOK
<1>16. ASSUME NEW c \in Clients, AskStatus(c) \/ FallSilent(c) \/ Leave(c) PROVE Goal
  BY <1>16 DEF AskStatus, FallSilent, Leave, TypeOK
<1>18. ASSUME UNCHANGED vars PROVE OweInv' /\ SignalNeedsTwoRequests'
  BY <1>18 DEF vars, TypeOK
<1> QED
  BY <1>1, <1>6, <1>7, <1>8, <1>9, <1>10, <1>11, <1>12, <1>13, <1>14, <1>15, <1>16, <1>18
  DEF Next, MainThread, ClientThread

-----------------------------------------------------------------------------
(* The inductive invariant.                                                 *)
OwnInv == StartInv /\ AwayInv /\ TableInv /\ FdInv

IInv == TypeOK /\ DueInv /\ OwnInv /\ OweInv /\ SignalNeedsTwoRequests

(* It holds when the program starts.                                        *)
LEMMA InitIInv == Init => IInv
<1> SUFFICES ASSUME Init PROVE IInv
  OBVIOUS
<1> USE ServerAssumption DEF Init
<1>1. TypeOK
  <2>1. 0 \in 0..MaxRequests /\ "away" \in Peers
    BY DEF Peers
  <2> QED
    BY <2>1 DEF TypeOK
<1>2. DueInv
  BY DEF DueInv
<1>3. OwnInv
  BY DEF OwnInv, StartInv, AwayInv, TableInv, FdInv, Working, Serving
<1>4. OweInv /\ SignalNeedsTwoRequests
  BY DEF OweInv, SignalNeedsTwoRequests
<1> QED
  BY <1>1, <1>2, <1>3, <1>4 DEF IInv

(* It holds for ever.                                                       *)
LEMMA SpecIInv == ASSUME PromptThreads PROVE Spec => []IInv
<1>1. IInv /\ [Next]_vars => IInv'
  BY TypeStep, StartStep, OwnStep, OweStep DEF IInv, OwnInv
<1> QED
  BY <1>1, InitIInv, PTL DEF Spec

(* Every variable keeps its type, for any clients and descriptors, whether   *)
(* or not new threads start promptly.                                       *)
THEOREM TypeCorrectness == Spec => []TypeOK
<1>1. TypeOK /\ DueInv /\ [Next]_vars => (TypeOK /\ DueInv)'
  BY TypeStep
<1>2. Init => TypeOK /\ DueInv
  BY InitIInv DEF IInv
<1> QED
  BY <1>1, <1>2, PTL DEF Spec

(* If new threads start promptly, then until the server stops each open      *)
(* connection is worked on by its own thread, and no close() hits another.   *)
THEOREM SocketSafety == ASSUME PromptThreads PROVE Spec => []EachSocketHasItsThread
<1>1. IInv => EachSocketHasItsThread
  <2> SUFFICES ASSUME IInv, bServerRunning PROVE EachSocketHasItsThread
    BY DEF EachSocketHasItsThread
  <2>1. pc # "done" /\ Refers(server_socket) = "listener"
    BY DEF IInv, OwnInv, StartInv
  <2>2. \A t \in Clients : at[t] \in Serving \ {"start"} => Refers(fd[t]) = t
    BY <2>1 DEF IInv, OwnInv, FdInv, Owns, Working
  <2> QED
    BY <2>1, <2>2 DEF EachSocketHasItsThread, IInv, OwnInv, TableInv
<1> QED
  BY <1>1, SpecIInv, PTL

(* No connection is read by two threads, at any time: not even at the end,     *)
(* when the accept loop closes a client's descriptor, does another thread     *)
(* come by it.                                                               *)
THEOREM SharingSafety == ASSUME PromptThreads PROVE Spec => []NoConnectionShared
<1>1. IInv => NoConnectionShared
  <2> SUFFICES ASSUME IInv, NEW t \in Clients, NEW u \in Clients,
                      at[t] \in Working, at[u] \in Working,
                      fd[t] = fd[u], Refers(fd[t]) \in Clients
               PROVE  t = u
    BY DEF NoConnectionShared, Working
  <2>1. Owns(t, fd[t]) /\ Owns(u, fd[u])
    BY DEF IInv, OwnInv, FdInv
  <2>2. Refers(fd[t]) # "free"
    BY ServerAssumption
  <2>3. Refers(fd[t]) = t /\ Refers(fd[u]) = u
    BY <2>1, <2>2 DEF Owns
  <2> QED
    BY <2>3
<1> QED
  BY <1>1, SpecIInv, PTL

(* A single outstanding request can never end the controller.               *)
THEOREM SignalSafety == ASSUME PromptThreads PROVE Spec => []SignalNeedsTwoRequests
<1>1. IInv => SignalNeedsTwoRequests
  BY DEF IInv
<1> QED
  BY <1>1, SpecIInv, PTL

-----------------------------------------------------------------------------
(* TcpServer implements StatusService.                                      *)

Ending == mainAt \in {"stop", "close", "cancel", "join"}

(* A thread that is in recv() or answering works on its own client's         *)
(* connection, which no other thread can close; every open connection has a  *)
(* descriptor; and a thread gives up a client that behaves only at the end.  *)
SessionInv ==
    /\ pc # "none" /\ ~bServerRunning => Ending
    /\ pc = "done" => Ending
    /\ \A t \in Clients :
          /\ at[t] \in {"recv", "reply"} => Refers(fd[t]) = t /\ fd[t] # server_socket
          /\ file[t] = IF at[t] = "recv" THEN t ELSE "free"
          /\ at[t] \notin {"reply", "done"} => due[t] = 0
          /\ at[t] = "close" /\ peer[t] = "connected" => Ending
          /\ peer[t] = "away" => inbox[t] = 0
          /\ IsOpen(t) => \E d \in Descriptors : table[d] = t
    /\ \A d, e \in Descriptors : table[d] \in Clients =>
          /\ table[e] = table[d] => e = d
          /\ peer[table[d]] # "away"

(* Unless a descriptor is closed, no connection ends.                       *)
LEMMA NothingEnds ==
    ASSUME TypeOK, SessionInv, table' = table, EndConnections
    PROVE  UNCHANGED <<peer, inbox, owed>>
<1>1. \A c \in Clients : IsOpen(c) => \E d \in Descriptors : table'[d] = c
  BY DEF SessionInv
<1> QED
  BY <1>1 DEF EndConnections, TypeOK

(* Closing a descriptor ends at most the connection that it stands for,      *)
(* which another thread must not be receiving from.                         *)
LEMMA OneEnds ==
    ASSUME TypeOK, SessionInv, NEW d, Release(d), EndConnections,
           Refers(d) \in Clients => \A t \in Clients : file'[t] # Refers(d)
    PROVE  \A c \in Clients :
             /\ \/ UNCHANGED <<peer[c], inbox[c], owed[c]>>
                \/ c = Refers(d) /\ IsOpen(c) /\ peer'[c] = "closed" /\ inbox'[c] = 0
             /\ IsOpen(c)' => \E e \in Descriptors : table'[e] = c
<1> DEFINE open(c) == \/ \E e \in Descriptors : table'[e] = c
                      \/ \E t \in Clients : file'[t] = c
           ends(c) == IsOpen(c) /\ ~open(c)
<1>1. /\ peer'  = [c \in Clients |-> IF ends(c) THEN "closed" ELSE peer[c]]
      /\ inbox' = [c \in Clients |-> IF ends(c) THEN 0 ELSE inbox[c]]
      /\ owed'  = [c \in Clients |-> IF ends(c) THEN 0 ELSE owed[c]]
  BY DEF EndConnections
<1> TAKE c \in Clients
<1>2. IsOpen(c) /\ c # Refers(d) => \E e \in Descriptors : table'[e] = c
  <2> SUFFICES ASSUME IsOpen(c), c # Refers(d) PROVE \E e \in Descriptors : table'[e] = c
    OBVIOUS
  <2>1. PICK e \in Descriptors : table[e] = c
    BY DEF SessionInv
  <2>2. e # d
    BY <2>1, ServerAssumption DEF Refers, NoDescriptor, Descriptors
  <2>3. table'[e] = c
    BY <2>1, <2>2, ReleaseType
  <2> QED
    BY <2>3
<1>3. c = Refers(d) /\ ~ends(c) /\ IsOpen(c) => \E e \in Descriptors : table'[e] = c
  OBVIOUS
<1>4. /\ ends(c) => c = Refers(d) /\ IsOpen(c)
      /\ ~ends(c) /\ IsOpen(c) => \E e \in Descriptors : table'[e] = c
  BY <1>2, <1>3
<1> HIDE DEF ends, open
<1>5. CASE ends(c)
  BY <1>1, <1>4, <1>5 DEF IsOpen, Present, Gone
<1>6. CASE ~ends(c)
  BY <1>1, <1>4, <1>6 DEF IsOpen
<1> QED
  BY <1>5, <1>6

(* Every step keeps what the refinement needs to know of the threads.       *)
LEMMA SessionStep ==
    ASSUME PromptThreads, TypeOK, StartInv, AwayInv, FdInv, DueInv, SessionInv, [Next]_vars
    PROVE  SessionInv'
<1> USE ServerAssumption DEF main, shared, threads, clients, Refers, NoDescriptor,
        IsOpen, Present, Gone, SessionInv, Ending
<1>1. CASE CreateSocket
  BY <1>1, LowestType DEF CreateSocket, StartInv, TypeOK
<1>2. ASSUME NEW from \in {"bind", "listen"}, NEW to \in {"listen", "create"},
             Prepare(from, to)
      PROVE SessionInv'
  BY <1>2, ReleaseType DEF Prepare, StartInv, TypeOK
<1>3. CASE CreateServerThread
  BY <1>3, ReleaseType DEF CreateServerThread, StartInv, TypeOK
<1>4. CASE CreateModbusThread \/ JoinUninitialised \/ JoinModbusThread
        \/ Stop \/ Cancel \/ Join \/ Quit
  BY <1>4 DEF CreateModbusThread, JoinUninitialised, JoinModbusThread, Stop, Cancel, Join,
         Quit, TypeOK
<1>5. CASE CloseListener
  <2>1. Refers(server_socket) \notin Clients
    BY <1>5 DEF CloseListener, StartInv
  <2>2. \A d \in Descriptors : table'[d] = IF d = server_socket THEN "free" ELSE table[d]
    BY <1>5, ReleaseType DEF CloseListener
  <2>3. \A d \in Descriptors : table[d] \in Clients => table'[d] = table[d]
    BY <2>1, <2>2 DEF Descriptors
  <2>4. \A d \in Descriptors : table'[d] \in Clients => table'[d] = table[d]
    BY <2>2
  <2>5. UNCHANGED <<pc, bServerRunning, at, fd, server_socket, file, due, peer, inbox>> /\ Ending'
    BY <1>5 DEF CloseListener
  <2>6. ASSUME NEW t \in Clients, at[t] \in {"recv", "reply"}
        PROVE  Refers(fd[t])' = t /\ fd[t] # server_socket
    BY <2>3, <2>5, <2>6 DEF TypeOK
  <2> QED
    BY <2>3, <2>4, <2>5, <2>6
<1>6. CASE LoopServer
  BY <1>6, ReleaseType, OneEnds DEF LoopServer, StartInv, TypeOK
<1>7. CASE AcceptFails \/ CancelServer
  BY <1>7 DEF AcceptFails, CancelServer, StartInv, TypeOK
<1>8. ASSUME NEW c \in Clients, AcceptClient(c) PROVE SessionInv'
  BY <1>8, LowestType DEF AcceptClient, AwayInv, TypeOK
<1>9. ASSUME NEW t \in Clients, Start(t) PROVE SessionInv'
  BY <1>9 DEF Start, Go, TypeOK
<1>10. ASSUME NEW t \in Clients, LoopClient(t) PROVE SessionInv'
  BY <1>10 DEF LoopClient, Go, StartInv, FdInv, Owns, Working, Serving, TypeOK
<1>11. ASSUME NEW t \in Clients, Receive(t) PROVE SessionInv'
  BY <1>11 DEF Receive, Go, TypeOK
<1>12. ASSUME NEW t \in Clients, ReceiveNothing(t) PROVE SessionInv'
  BY <1>12, NothingEnds DEF ReceiveNothing, NothingComes, Go, TypeOK
<1>13. ASSUME NEW t \in Clients, Reply(t) PROVE SessionInv'
  BY <1>13 DEF Reply, Replied, Go, PeerAfterSend, DueInv, TypeOK
<1>14. ASSUME NEW t \in Clients, CloseClient(t) PROVE SessionInv'
  BY <1>14, ReleaseType, OneEnds DEF CloseClient, Go, FdInv, Owns, Working, Serving, TypeOK
<1>15. ASSUME NEW t \in Clients, CancelClient(t) PROVE SessionInv'
  BY <1>15, NothingEnds DEF CancelClient, TypeOK
<1>16. ASSUME NEW c \in Clients, AskStatus(c) \/ FallSilent(c) \/ Leave(c) PROVE SessionInv'
  BY <1>16 DEF AskStatus, FallSilent, Leave, TypeOK
<1>18. CASE UNCHANGED vars
  BY <1>18 DEF vars, TypeOK
<1> QED
  BY <1>1, <1>2, <1>3, <1>4, <1>5, <1>6, <1>7, <1>8, <1>9, <1>10, <1>11, <1>12, <1>13,
     <1>14, <1>15, <1>16, <1>18
  DEF Next, MainThread, ClientThread

(* The state of StatusService, as TcpServer has it.                         *)
(* What StatusService sees of the server.                                   *)
Session == [c \in Clients |-> IF IsOpen(c) THEN "open" ELSE peer[c]]
Asked   == [c \in Clients |-> IF peer[c] = "connected" THEN inbox[c] + due[c] ELSE 0]
Excused == {c \in Clients : IsOpen(c) /\ peer[c] # "connected"}

(* Every step of the server is one of StatusService, or a stutter.          *)
LEMMA StepSimulation ==
    ASSUME PromptThreads, IInv, SessionInv, [Next]_vars
    PROVE  [Service!Next]_(Service!vars)
<1> USE DEF main, shared, threads, clients
<1>1. ASSUME UNCHANGED <<peer, inbox, due>>, Ending' = Ending
      PROVE  UNCHANGED Service!vars
  BY <1>1 DEF Service!vars, IsOpen, Ending
<1>2. ASSUME \/ CreateSocket \/ CreateServerThread \/ CreateModbusThread
             \/ Quit \/ Stop \/ CloseListener \/ Cancel \/ Join \/ AcceptFails
             \/ CancelServer
      PROVE  UNCHANGED Service!vars
  BY <1>1, <1>2
  DEF CreateSocket, CreateServerThread, CreateModbusThread, Quit, Stop,
      CloseListener, Cancel, Join, AcceptFails, CancelServer, Ending
<1>3. ASSUME NEW from \in {"bind", "listen"}, NEW to \in {"listen", "create"},
             Prepare(from, to)
      PROVE  UNCHANGED Service!vars
  BY <1>1, <1>3 DEF Prepare, Ending
<1>4. ASSUME JoinModbusThread \/ JoinUninitialised
      PROVE  [Service!Next]_(Service!vars)
  <2>1. CASE mainAt' = "stop"
    <3>1. Service!Stop
      BY <1>4, <2>1 DEF JoinModbusThread, JoinUninitialised, Service!Stop, IsOpen
    <3> QED
      BY <3>1 DEF Service!Next
  <2>2. CASE UNCHANGED mainAt
    BY <1>1, <1>4, <2>2 DEF JoinModbusThread, JoinUninitialised, Ending
  <2> QED
    BY <1>4, <2>1, <2>2 DEF JoinModbusThread, JoinUninitialised
<1>5. ASSUME NEW t \in Clients, Start(t) \/ LoopClient(t) PROVE UNCHANGED Service!vars
  BY <1>1, <1>5 DEF Start, LoopClient, Ending
<1>6. ASSUME NEW t \in Clients, ReceiveNothing(t) \/ CancelClient(t)
      PROVE  UNCHANGED Service!vars
  BY <1>1, <1>6, NothingEnds DEF ReceiveNothing, CancelClient, Ending, IInv
<1>7. ASSUME NEW d, Release(d), EndConnections, UNCHANGED <<due, mainAt>>,
             Refers(d) \in Clients => /\ \A t \in Clients : file'[t] # Refers(d)
                                      /\ peer[Refers(d)] = "connected" => Ending
      PROVE  [Service!Next]_(Service!vars)
  <2>4. TypeOK /\ (Refers(d) \in Clients => \A t \in Clients : file'[t] # Refers(d))
    BY <1>7 DEF IInv
  <2>0. \A c \in Clients :
           \/ UNCHANGED <<peer[c], inbox[c]>>
           \/ c = Refers(d) /\ IsOpen(c) /\ peer'[c] = "closed" /\ inbox'[c] = 0
    BY <1>7, <2>4, OneEnds
  <2> USE DEF IInv, TypeOK
  <2>1. peer' \in [Clients -> Peers] /\ inbox' \in [Clients -> 0..MaxRequests]
    BY <1>7, EndConnectionsType
  <2>2. CASE \A c \in Clients : UNCHANGED <<peer[c], inbox[c]>>
    <3>1. UNCHANGED <<peer, inbox>>
      BY <2>1, <2>2
    <3> QED
      BY <1>1, <1>7, <3>1 DEF Ending
  <2>3. ASSUME NEW c \in Clients, c = Refers(d), IsOpen(c), peer'[c] = "closed", inbox'[c] = 0
        PROVE  Service!Close(c)
    <3>1. peer' = [peer EXCEPT ![c] = "closed"] /\ inbox' = [inbox EXCEPT ![c] = 0]
      BY <2>0, <2>1, <2>3
    <3>2. Session[c] = "open" /\ (c \in Excused \/ Ending)
      BY <1>7, <2>3 DEF Session, Excused
    <3>3. Session' = [Session EXCEPT ![c] = "closed"]
      BY <2>3, <3>1 DEF Session, IsOpen, Present, Gone
    <3>4. Asked' = [Asked EXCEPT ![c] = 0]
      BY <1>7, <2>3, <3>1 DEF Asked
    <3>5. Excused' = Excused \ {c}
      BY <2>3, <3>1 DEF Excused, IsOpen, Present, Gone
    <3> QED
      BY <1>7, <3>2, <3>3, <3>4, <3>5 DEF Service!Close, Session, Asked, Excused, Ending
  <2> QED
    BY <2>0, <2>2, <2>3 DEF Service!Next
<1>8. CASE LoopServer
  <2>1. CASE bServerRunning
    BY <1>1, <1>8, <2>1 DEF LoopServer, Ending
  <2>2. CASE ~bServerRunning
    <3>1. Ending
      BY <1>8, <2>2 DEF LoopServer, SessionInv
    <3>2. \A t \in Clients : Refers(server_socket) \in Clients => file[t] # Refers(server_socket)
      BY ServerAssumption DEF SessionInv, Refers, NoDescriptor, Descriptors, IInv, TypeOK
    <3> QED
      BY <1>7, <1>8, <2>2, <3>1, <3>2 DEF LoopServer
  <2> QED
    BY <2>1, <2>2
<1>9. ASSUME NEW t \in Clients, CloseClient(t) PROVE [Service!Next]_(Service!vars)
  <2>1. Refers(fd[t]) \in {t, "free"} /\ at[t] = "close"
    BY <1>9 DEF CloseClient, Go, IInv, OwnInv, FdInv, Owns, Working, Serving
  <2>2. Refers(fd[t]) \in Clients => /\ \A u \in Clients : file[u] # Refers(fd[t])
                                     /\ peer[Refers(fd[t])] = "connected" => Ending
    BY <2>1, ServerAssumption DEF SessionInv
  <2> QED
    BY <1>7, <1>9, <2>2 DEF CloseClient
<1>10. ASSUME NEW c \in Clients, AcceptClient(c) PROVE [Service!Next]_(Service!vars)
  <2> USE DEF IInv, TypeOK
  <2>1. peer[c] = "away" /\ UNCHANGED <<mainAt, inbox, due>> /\ inbox[c] = 0 /\ due[c] = 0
    BY <1>10 DEF AcceptClient, SessionInv, OwnInv, AwayInv
  <2>2. CASE peer' = [peer EXCEPT ![c] = "connected"]
    <3>1. Session[c] = "away" /\ Session' = [Session EXCEPT ![c] = "open"]
      BY <2>1, <2>2 DEF Session, IsOpen, Present, Gone
    <3>2. Asked' = Asked /\ Excused' = Excused
      BY <2>1, <2>2 DEF Asked, Excused, IsOpen, Present, Gone
    <3>3. Service!Open(c)
      BY <2>1, <3>1, <3>2 DEF Service!Open, Session, Asked, Excused
    <3> QED
      BY <3>3 DEF Service!Next
  <2>3. CASE peer' = [peer EXCEPT ![c] = "closed"]
    <3>1. Session[c] = "away" /\ Session' = [Session EXCEPT ![c] = "closed"]
      BY <2>1, <2>3 DEF Session, IsOpen, Present, Gone
    <3>2. Asked' = Asked /\ Excused' = Excused
      BY <2>1, <2>3 DEF Asked, Excused, IsOpen, Present, Gone
    <3>3. Service!Refuse(c)
      BY <2>1, <3>1, <3>2 DEF Service!Refuse, Session, Asked, Excused
    <3> QED
      BY <3>3 DEF Service!Next
  <2> QED
    BY <1>10, <2>2, <2>3 DEF AcceptClient
<1>11. ASSUME NEW t \in Clients, Receive(t) PROVE UNCHANGED Service!vars
  <2> USE DEF IInv, TypeOK
  <2>1. UNCHANGED <<peer, mainAt>> /\ \A c \in Clients : inbox'[c] + due'[c] = inbox[c] + due[c]
    BY <1>11 DEF Receive, Go, SessionInv
  <2>2. Asked' = Asked
    BY <2>1 DEF Asked
  <2> QED
    BY <2>1, <2>2 DEF Service!vars, Asked, IsOpen
<1>12. ASSUME NEW t \in Clients, Reply(t) PROVE [Service!Next]_(Service!vars)
  <2> USE DEF IInv, TypeOK
  <2>1. at[t] = "reply" /\ UNCHANGED mainAt
    BY <1>12 DEF Reply, Replied, Go
  <2>2. Refers(fd[t]) = t /\ due[t] > 0 /\ peer[t] # "away"
    BY <2>1 DEF SessionInv, DueInv, OwnInv, AwayInv
  <2>7. inbox[t] \in Nat /\ due[t] \in Nat
    BY ServerAssumption
  <2>3. CASE UNCHANGED <<peer, inbox, due>>
    BY <1>1, <2>1, <2>3 DEF Ending
  <2>4. CASE peer[t] = "connected"
    <3>1. UNCHANGED <<peer, inbox>> /\ due' = [due EXCEPT ![t] = @ - 1]
      BY <1>12, <2>2, <2>4 DEF Reply, Replied, PeerAfterSend
    <3>2. Session[t] = "open" /\ Asked[t] > 0
      BY <2>2, <2>4 DEF Session, Asked, IsOpen, Present
    <3>3. Session' = Session /\ Excused' = Excused
      BY <3>1 DEF Session, Excused, IsOpen
    <3>4. due'[t] = due[t] - 1 /\ \A c \in Clients \ {t} : due'[c] = due[c]
      BY <3>1
    <3>5. inbox[t] + (due[t] - 1) = (inbox[t] + due[t]) - 1
      BY ServerAssumption, <2>7
    <3>6. Asked' = [c \in Clients |-> IF c = t THEN Asked[t] - 1 ELSE Asked[c]]
      BY <2>4, <3>1, <3>4, <3>5, Zenon DEF Asked
    <3>7. Asked' = [Asked EXCEPT ![t] = @ - 1]
      BY <3>6, Zenon DEF Asked
    <3>8. Service!Answer(t)
      BY <2>1, <3>2, <3>3, <3>7 DEF Service!Answer, Session, Asked, Excused
    <3> QED
      BY <3>8 DEF Service!Next
  <2>5. CASE peer[t] # "connected" /\ peer[t] # "broken" /\ Replied(t)
    <3>1. PICK p \in PeerAfterSend(peer[t]) :
             /\ peer' = [peer EXCEPT ![t] = p]
             /\ inbox' = IF p = "broken" THEN [inbox EXCEPT ![t] = 0] ELSE inbox
      BY <1>12, <2>2, <2>5 DEF Reply
    <3>2. due' = [due EXCEPT ![t] = @ - 1]
      BY <2>5 DEF Replied
    <3>3. p # "connected" /\ (p = peer[t] \/ {p, peer[t]} = {"left", "broken"})
      BY <2>5, <3>1 DEF PeerAfterSend
    <3>4. Session' = Session
      BY <3>1, <3>3 DEF Session, IsOpen, Present, Gone
    <3>5. Asked' = Asked
      BY <2>5, <3>1, <3>2, <3>3 DEF Asked
    <3>6. Excused' = Excused
      BY <2>5, <3>1, <3>3 DEF Excused, IsOpen, Present, Gone
    <3> QED
      BY <2>1, <3>4, <3>5, <3>6 DEF Service!vars, Session, Asked, Excused
  <2>6. \/ UNCHANGED <<peer, inbox, due>>
        \/ peer[t] # "broken" /\ Replied(t)
    BY <1>12, <2>2 DEF Reply
  <2> QED
    BY <2>3, <2>4, <2>5, <2>6
<1>13. ASSUME NEW c \in Clients, AskStatus(c) PROVE [Service!Next]_(Service!vars)
  <2> USE DEF IInv, TypeOK
  <2>1. Session' = Session /\ Excused' = Excused /\ UNCHANGED mainAt
    BY <1>13 DEF AskStatus, Session, Excused, IsOpen
  <2>2. Session[c] = "open" /\ c \notin Excused
    BY <1>13 DEF AskStatus, Session, Excused, IsOpen, Present
  <2>5. /\ UNCHANGED <<peer, due>> /\ peer[c] = "connected"
        /\ inbox' = [inbox EXCEPT ![c] = inbox[c] + 1]
    BY <1>13 DEF AskStatus
  <2>6. inbox[c] + 1 + due[c] = (inbox[c] + due[c]) + 1
    BY ServerAssumption
  <2>7. \A d \in Clients : inbox'[d] = IF d = c THEN inbox[c] + 1 ELSE inbox[d]
    BY <2>5, Zenon
  <2>8. Asked' = [d \in Clients |-> IF d = c THEN Asked[c] + 1 ELSE Asked[d]]
    BY <2>5, <2>6, <2>7, Zenon DEF Asked
  <2>3. Asked' = [Asked EXCEPT ![c] = @ + 1]
    BY <2>8, Zenon DEF Asked
  <2>4. Service!Ask(c)
    BY <2>1, <2>2, <2>3 DEF Service!Ask, Session, Asked, Excused
  <2> QED
    BY <2>4 DEF Service!Next
<1>14. ASSUME NEW c \in Clients, FallSilent(c) \/ Leave(c)
       PROVE  [Service!Next]_(Service!vars)
  <2> USE DEF IInv, TypeOK
  <2>1. PICK p \in {"silent", "left"} : peer' = [peer EXCEPT ![c] = p]
    BY <1>14 DEF FallSilent, Leave
  <2>2. /\ peer[c] \in Present /\ UNCHANGED <<mainAt, due>>
        /\ \A x \in Clients \ {c} : inbox'[x] = inbox[x]
    BY <1>14 DEF FallSilent, Leave, Present
  <2>3. Session[c] = "open" /\ Session' = Session
    BY <2>1, <2>2 DEF Session, IsOpen, Present, Gone
  <2>4. Asked' = [Asked EXCEPT ![c] = 0]
    BY <2>1, <2>2 DEF Asked
  <2>5. Excused' = Excused \cup {c}
    BY <2>1, <2>2 DEF Excused, IsOpen, Present, Gone
  <2>6. Service!Excuse(c)
    BY <2>2, <2>3, <2>4, <2>5 DEF Service!Excuse, Session, Asked, Excused
  <2> QED
    BY <2>6 DEF Service!Next
<1>15. CASE UNCHANGED vars
  BY <1>1, <1>15 DEF vars, Ending
<1> QED
  BY <1>2, <1>3, <1>4, <1>5, <1>6, <1>8, <1>9, <1>10, <1>11, <1>12, <1>13, <1>14, <1>15
  DEF Next, MainThread, ClientThread

(* If new threads start promptly, any number of clients is served as         *)
(* StatusService promises, whatever becomes of them and whenever the server  *)
(* is stopped.                                                              *)
THEOREM Refinement == ASSUME PromptThreads PROVE Spec => ImplementsStatusService
<1>1. Init => SessionInv
  BY ServerAssumption
  DEF Init, SessionInv, IsOpen, Present, Gone, Refers, NoDescriptor
<1>2. IInv /\ SessionInv /\ [Next]_vars => SessionInv'
  BY SessionStep DEF IInv, OwnInv
<1>3. Init => Service!Init
  <2> SUFFICES ASSUME Init PROVE Service!Init
    OBVIOUS
  <2>1. ~Ending /\ Excused = {}
    BY DEF Init, Ending, Excused, IsOpen, Present, Gone
  <2> QED
    BY <2>1 DEF Init, Service!Init, Ending, Excused, IsOpen, Present, Gone
<1>4. IInv /\ SessionInv /\ [Next]_vars => [Service!Next]_(Service!vars)
  BY StepSimulation
<1> QED
  BY <1>1, <1>2, <1>3, <1>4, SpecIInv, PTL DEF Spec, ImplementsStatusService, Service!Spec
===============================================================================
