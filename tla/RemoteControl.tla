---------------------------- MODULE RemoteControl ----------------------------
(***************************************************************************)
(* From a click in the monitor to a change of the controller's state and   *)
(* back to the window: the composition of client/main.cpp, mainwindow.cpp  *)
(* and tcpclient.c with the client threads of server/tcpserver.c, the      *)
(* request callbacks of server/main.c and the controller.  Each is reduced *)
(* to what its own module shows of it: the controller is ModeControl,      *)
(* connections deliver in order as in MessageChannel, a lost connection is *)
(* replaced as in TcpClient, and every connection has a thread of its own  *)
(* as in TcpServer, which may have commands left when the next is made.    *)
(***************************************************************************)
EXTENDS Naturals, Sequences, FiniteSets

CONSTANTS
    MaxConnections, \* bound on the connections that the monitor makes
    MaxClicks,      \* bound on the clicks on a mode button
    MaxInFlight,    \* bound on status requests, replies and queued updates
    MaxFlips        \* bound on how often the clock enters or leaves off-peak

ASSUME RemoteAssumption ==
    /\ MaxConnections \in Nat \ {0} /\ MaxClicks \in Nat /\ MaxInFlight \in Nat \ {0}
    /\ MaxFlips \in Nat

VARIABLES
    (* the controller: see ModeControl *)
    state, offPeak, pending,
    (* the connections, by number *)
    conn,       \* the monitor's latest, 0 before the first
    up,         \* it is connected
    wire,       \* the commands sent on each that its thread has not received
    callback,   \* the request whose callback each thread runs, and where it is
    replies,    \* the statuses on their way to the monitor
    (* the monitor *)
    status,     \* the state in the last status received
    updates,    \* updateStatus invocations in Qt's queue
    view,       \* what the window shows: a state, or that it is changing
    (* history *)
    clicked, served,    \* how often each request was clicked, and served
    newest,     \* the newest request sent since off-peak last began
    orderly,    \* since it was sent no other connection has had a request
                \* under way, its own was not lost with one, and no two
                \* requests were served during one callback
    hurried,    \* a request has been served during a callback still running
    flips

Control == INSTANCE ModeControl

Requests    == Control!Requests
Connections == 0..MaxConnections
States      == {"PEAK", "BYPASS", "OFF_PEAK", "BOOST"}

control  == <<state, offPeak, pending>>
link     == <<conn, up, wire, callback, replies>>
monitor  == <<status, updates, view>>
counts   == <<clicked, served, flips>>
vars     == <<control, link, monitor, counts, newest, orderly, hurried>>

NoCallback == [request |-> "none", at |-> "none"]
Idle(n)    == callback[n] = NoCallback

IsRequest(m) == m \in Requests

(* No connection is made yet; the window shows that the mode is changing, and *)
(* the status, of which every byte is 0, has the number of PEAK.            *)
Init ==
    /\ Control!Init /\ offPeak = FALSE
    /\ conn = 0 /\ up = FALSE
    /\ wire = [n \in Connections |-> << >>]
    /\ callback = [n \in Connections |-> NoCallback]
    /\ replies = << >>
    /\ status = "PEAK" /\ updates = 0 /\ view = "changing"
    /\ clicked = [k \in Requests |-> 0] /\ served = clicked
    /\ newest = "none" /\ orderly = TRUE /\ hurried = FALSE
    /\ flips = 0

-----------------------------------------------------------------------------
(* The monitor.                                                             *)

Polls(w) == {j \in 1..Len(w) : ~IsRequest(w[j])}

InFlight == Cardinality(Polls(wire[conn])) + Len(replies) + updates

Transmit(m) == wire' = [wire EXCEPT ![conn] = Append(@, m)]

(* networkThread(): once a second.                                          *)
Poll ==
    /\ up /\ InFlight < MaxInFlight
    /\ Transmit("status")
    /\ UNCHANGED <<control, conn, up, callback, replies, monitor, counts>>
    /\ UNCHANGED <<newest, orderly, hurried>>

(* The buttons that updateStatus() makes visible.                           *)
Buttons == [PEAK |-> {"Grid", "Boost"}, BYPASS |-> {"Batts", "Boost"},
            OFF_PEAK |-> {}, BOOST |-> {"Grid", "Batts"}, changing |-> {}]

UnderWay(n) == ~Idle(n) \/ \E k \in 1..Len(wire[n]) : IsRequest(wire[n][k])

NoOtherUnderWay == \A n \in Connections \ {conn} : ~UnderWay(n)

(* The buttons vanish, and the command is sent if there is a connection.     *)
Click(k) ==
    /\ k \in Buttons[view]
    /\ clicked[k] < MaxClicks
    /\ clicked' = [clicked EXCEPT ![k] = @ + 1]
    /\ view' = "changing"
    /\ IF up THEN Transmit(k) /\ newest' = k /\ orderly' = NoOtherUnderWay
             ELSE UNCHANGED <<wire, newest, orderly>>
    /\ UNCHANGED <<control, conn, up, callback, replies, status, updates>>
    /\ UNCHANGED <<served, flips, hurried>>

(* Mutant: the window is told only of a status that differs from the last.   *)
ReceiveNewStatus ==
    /\ up /\ replies # << >>
    /\ status' = Head(replies)
    /\ replies' = Tail(replies)
    /\ updates' = IF status' = status THEN updates ELSE updates + 1
    /\ UNCHANGED <<control, conn, up, wire, callback, view, counts>>
    /\ UNCHANGED <<newest, orderly, hurried>>

(* Mutant: a status is announced for its length and again for its payload.   *)
ReceiveStatusTwice ==
    /\ up /\ replies # << >>
    /\ status' = Head(replies)
    /\ replies' = Tail(replies)
    /\ updates' = updates + 2
    /\ UNCHANGED <<control, conn, up, wire, callback, view, counts>>
    /\ UNCHANGED <<newest, orderly, hurried>>

(* Comms_Receive gives a status to _tcpclient_ReceiveStatus, which copies it *)
(* over the previous one and has Qt call updateStatus later.                *)
ReceiveStatus ==
    /\ up /\ replies # << >>
    /\ status' = Head(replies)
    /\ replies' = Tail(replies)
    /\ updates' = updates + 1
    /\ UNCHANGED <<control, conn, up, wire, callback, view, counts>>
    /\ UNCHANGED <<newest, orderly, hurried>>

UpdateStatus ==
    /\ updates > 0
    /\ updates' = updates - 1
    /\ view' = status
    /\ UNCHANGED <<control, link, status, counts, newest, orderly, hurried>>

-----------------------------------------------------------------------------
(* The connection.                                                          *)

(* The monitor closes its socket.  Commands that have reached the server are *)
(* obeyed all the same; the rest is lost, and so are the replies.           *)
LoseLink ==
    /\ up
    /\ up' = FALSE
    /\ \E m \in 0..Len(wire[conn]) : wire' = [wire EXCEPT ![conn] = SubSeq(@, 1, m)]
    /\ replies' = << >>
    /\ orderly' = (orderly /\ ~UnderWay(conn))
    /\ UNCHANGED <<control, conn, callback, monitor, counts, newest, hurried>>

(* Mutant: commands that were not obeyed yet are sent again.                *)
ReconnectResending ==
    /\ ~up /\ conn < MaxConnections
    /\ up' = TRUE /\ conn' = conn + 1
    /\ wire' = [wire EXCEPT ![conn + 1] = SelectSeq(wire[conn], IsRequest)]
    /\ UNCHANGED <<control, callback, replies, monitor, counts, newest>>
    /\ UNCHANGED <<orderly, hurried>>

Reconnect ==
    /\ ~up /\ conn < MaxConnections
    /\ up' = TRUE /\ conn' = conn + 1
    /\ UNCHANGED <<control, wire, callback, replies, monitor, counts, newest>>
    /\ UNCHANGED <<orderly, hurried>>

-----------------------------------------------------------------------------
(* The server's thread for connection n: commandReceived_callback for each   *)
(* command, in order.                                                       *)

First(n) == Head(wire[n])

Received(n) ==
    /\ Idle(n) /\ wire[n] # << >>
    /\ wire' = [wire EXCEPT ![n] = Tail(@)]

(* A reply on a connection that the monitor has closed reaches nobody.       *)
ReplyStatus(n) ==
    /\ Received(n) /\ First(n) = "status"
    /\ replies' = IF n = conn /\ up THEN Append(replies, state) ELSE replies
    /\ UNCHANGED <<control, conn, up, callback, monitor, counts>>
    /\ UNCHANGED <<newest, orderly, hurried>>

CallBack(n) ==
    /\ Received(n) /\ IsRequest(First(n))
    /\ callback' = [callback EXCEPT ![n] = [request |-> First(n), at |-> "Grid"]]
    /\ UNCHANGED <<control, conn, up, replies, monitor, counts>>
    /\ UNCHANGED <<newest, orderly, hurried>>

AfterFlag == [Grid |-> "Batts", Batts |-> "Boost", Boost |-> "none"]

(* Mutant: the callbacks do not clear the flags of the other requests.      *)
AssignFlagOnly(n) ==
    LET k == callback[n].at IN
    /\ k # "none"
    /\ IF k = callback[n].request THEN Control!Ask(k)
                                  ELSE UNCHANGED <<state, offPeak, pending>>
    /\ callback' = [callback EXCEPT ![n] =
                      IF k = "Boost" THEN NoCallback ELSE [@ EXCEPT !.at = AfterFlag[k]]]
    /\ hurried' = (hurried /\ \E m \in Connections : callback'[m] # NoCallback)
    /\ UNCHANGED <<conn, up, wire, replies, monitor, counts, newest, orderly>>

(* _tcpserver_SetGrid, _SetBatts, _SetBoost: three assignments.             *)
AssignFlag(n) ==
    LET k == callback[n].at IN
    /\ k # "none"
    /\ IF k = callback[n].request THEN Control!Ask(k) ELSE Control!Withdraw(k)
    /\ callback' = [callback EXCEPT ![n] =
                      IF k = "Boost" THEN NoCallback ELSE [@ EXCEPT !.at = AfterFlag[k]]]
    /\ hurried' = (hurried /\ \E m \in Connections : callback'[m] # NoCallback)
    /\ UNCHANGED <<conn, up, wire, replies, monitor, counts, newest, orderly>>

ClientThread(n) == ReplyStatus(n) \/ CallBack(n) \/ AssignFlag(n)

-----------------------------------------------------------------------------
(* The controller takes the steps of ModeControl.                           *)

Serve(k) ==
    /\ Control!Serve(k)
    /\ hurried' = (\E n \in Connections : ~Idle(n))
    /\ orderly' = (orderly /\ ~hurried)
    /\ served' = [served EXCEPT ![k] = @ + 1]
    /\ UNCHANGED <<link, monitor, clicked, flips, newest>>

FollowWindow ==
    /\ \/ Control!EnterOffPeak /\ newest' = "none"
       \/ Control!LeaveOffPeak /\ UNCHANGED newest
    /\ UNCHANGED <<link, monitor, counts, orderly, hurried>>

LookAtClock ==
    /\ Control!LookAtClock /\ offPeak' # offPeak
    /\ flips < MaxFlips /\ flips' = flips + 1
    /\ UNCHANGED <<link, monitor, clicked, served, newest, orderly, hurried>>

Controller == FollowWindow \/ \E k \in Requests : Serve(k)

Next ==
    \/ Poll \/ ReceiveStatus \/ UpdateStatus
    \/ LoseLink \/ Reconnect
    \/ Controller \/ LookAtClock
    \/ \E k \in Requests : Click(k)
    \/ \E n \in Connections : ClientThread(n)

(* Every thread goes on; the controller serves what it may (RequestActedOn   *)
(* of InverterControl).  Nobody has to click, and nothing has to connect.   *)
Fairness ==
    /\ WF_vars(Poll) /\ WF_vars(ReceiveStatus) /\ WF_vars(UpdateStatus)
    /\ WF_vars(Controller)
    /\ \A n \in Connections : WF_vars(ClientThread(n))

Spec == Init /\ [][Next]_vars /\ Fairness

-----------------------------------------------------------------------------
(* Properties.                                                              *)

(* Every variable keeps its type; at most one update is queued for a status. *)
TypeOK ==
    /\ state \in States /\ offPeak \in BOOLEAN /\ pending \in SUBSET Requests
    /\ conn \in Connections /\ up \in BOOLEAN
    /\ wire \in [Connections -> Seq(Requests \cup {"status"})]
    /\ callback \in [Connections -> [request : Requests \cup {"none"},
                                     at : Requests \cup {"none"}]]
    /\ replies \in Seq(States)
    /\ status \in States /\ updates \in 0..MaxInFlight
    /\ view \in States \cup {"changing"}
    /\ clicked \in [Requests -> 0..MaxClicks] /\ served \in [Requests -> Nat]
    /\ newest \in Requests \cup {"none"}
    /\ orderly \in BOOLEAN /\ hurried \in BOOLEAN
    /\ flips \in 0..MaxFlips

(* No click is served twice, whatever becomes of its connection.             *)
ServedAtMostOnce == \A k \in Requests : served[k] <= clicked[k]

(* Each button's callback sets its own flag and clears the others, flag by    *)
(* flag: once all commands have been obeyed, only the newest request is      *)
(* pending or nothing is and it has been served, unless it met off-peak or    *)
(* was disordered: by requests of a lost connection that were still under    *)
(* way when it was sent, by the loss of its own, or by a callback so slow     *)
(* that two requests were served during it.  The next click mends it.       *)
NewestStands ==
    newest # "none" /\ orderly /\ (\A n \in Connections : ~UnderWay(n)) =>
        \/ pending = {newest}
        \/ pending = {} /\ state = Control!StateFor[newest]

(* To its user the monitor is what TcpClient shows of it, whatever commands   *)
(* are on the wires and whichever threads are behind with them.             *)
Feed == INSTANCE StatusFeed WITH
    link   <- IF up THEN "up" ELSE "down",
    asked  <- IF up THEN Cardinality(Polls(wire[conn])) + Len(replies) ELSE 0,
    latest <- status, news <- updates, shown <- view

ImplementsStatusFeed == Feed!Spec

(* Once connected for good, the window shows the controller's state.         *)
ViewConverges == <>[]up => <>[](view = state)

(* The last request decides, unless it met off-peak or was disordered.       *)
NewestDecides ==
    <>[](newest # "none" /\ orderly /\ ~offPeak) =>
        <>[](\E k \in Requests : newest = k /\ state = Control!StateFor[k])
==============================================================================
