------------------------- MODULE RemoteControl_proofs -------------------------
(***************************************************************************)
(* From the click to the controller, for any number of clicks, polls and   *)
(* connections: no click is served twice, and the newest request stands.   *)
(***************************************************************************)
EXTENDS RemoteControl, FiniteSetTheorems, TLAPS

(* A thread runs a callback for a request, or none.                          *)
CallbackInv ==
    \A n \in Connections :
        \/ Idle(n)
        \/ callback[n].request \in Requests /\ callback[n].at \in Requests

(* Connections to come are unused, and a connection that is lost carries no  *)
(* replies.                                                                  *)
LinkInv ==
    /\ \A n \in Connections : n > conn => wire[n] = << >> /\ Idle(n)
    /\ ~up => replies = << >>

FlightInv == InFlight <= MaxInFlight

-----------------------------------------------------------------------------
(* The flags that a callback has assigned when it comes to the flag at.      *)
Past(at) == CASE at = "Batts" -> {"Grid"}
              [] at = "Boost" -> {"Grid", "Batts"}
              [] OTHER -> {}

(* The clicks on k that were sent and have not set its flag: the places of   *)
(* the command in the wires, and place 0 for the callback that runs.         *)
Owing(n, k) == callback[n].request = k /\ k \notin Past(callback[n].at)

Sent(k) == {p \in Connections \X Nat :
              \/ p[2] \in 1..Len(wire[p[1]]) /\ wire[p[1]][p[2]] = k
              \/ p[2] = 0 /\ Owing(p[1], k)}

CountInv ==
    \A k \in Requests :
        /\ IsFiniteSet(Sent(k))
        /\ served[k] + (IF k \in pending THEN 1 ELSE 0) + Cardinality(Sent(k)) <= clicked[k]

-----------------------------------------------------------------------------
Requested(w) == \E j \in 1..Len(w) : IsRequest(w[j])

(* The last request in w, if there is one, is k.                             *)
LastIs(w, k) ==
    \A j \in 1..Len(w) :
        IsRequest(w[j]) /\ (\A p \in (j + 1)..Len(w) : ~IsRequest(w[p])) => w[j] = k

Stands(k) ==
    \/ pending = {k}
    \/ pending = {} /\ state = Control!StateFor[k]

(* Requests are under way on the present connection only.                     *)
PresentInv == \A n \in Connections : UnderWay(n) => n = conn /\ up

(* Of the flags that the callback of the last request has come to, only its    *)
(* own may be set.                                                            *)
ClearedInv ==
    ~Idle(conn) /\ ~Requested(wire[conn]) =>
        pending \cap Past(callback[conn].at) \subseteq {callback[conn].request}

(* The newest request is the last one on the wire, or that of the callback,    *)
(* or stands.  Once its callback has set the flag, it may have been served     *)
(* before the callback ends, but then nothing else is.                        *)
NewestInv ==
    newest # "none" =>
        /\ LastIs(wire[conn], newest)
        /\ ~Requested(wire[conn]) =>
              IF Idle(conn) THEN Stands(newest)
              ELSE /\ callback[conn].request = newest
                   /\ newest \in Past(callback[conn].at) =>
                         \/ newest \in pending
                         \/ hurried /\ state = Control!StateFor[newest]

(* This is so while the newest request is in order.                           *)
OrderInv == orderly => PresentInv /\ ClearedInv /\ NewestInv

-----------------------------------------------------------------------------
(* Counting.  What can be sent one-to-one into a finite set is no larger.     *)
LEMMA NoMore ==
    ASSUME NEW S, NEW T, IsFiniteSet(T), NEW f \in [S -> T],
           \A a, b \in S : f[a] = f[b] => a = b
    PROVE  IsFiniteSet(S) /\ Cardinality(S) <= Cardinality(T)
<1>1. f \in Injection(S, T)
  BY DEF Injection, IsInjective
<1> QED
  BY <1>1, FS_Injection

(* Cardinalities that are compared are natural numbers.                      *)
LEMMA Countable == ASSUME NEW S, IsFiniteSet(S) PROVE Cardinality(S) \in Nat
BY FS_CardinalityType

(* The polls in a queue of commands can be counted.                          *)
LEMMA PollsFinite ==
    ASSUME NEW M, NEW w \in Seq(M)
    PROVE  IsFiniteSet(Polls(w)) /\ Cardinality(Polls(w)) \in Nat
<1>1. IsFiniteSet(1..Len(w))
  BY FS_Interval
<1>2. Polls(w) \in SUBSET (1..Len(w))
  BY DEF Polls
<1>3. IsFiniteSet(Polls(w))
  BY <1>1, <1>2, FS_Subset
<1> QED
  BY <1>3, Countable

(* A command that is sent adds itself if it is a poll.                       *)
LEMMA PollsAppend ==
    ASSUME NEW M, NEW w \in Seq(M), NEW m \in M
    PROVE  Cardinality(Polls(Append(w, m)))
             = Cardinality(Polls(w)) + (IF IsRequest(m) THEN 0 ELSE 1)
<1>1. CASE IsRequest(m)
  <2>1. Polls(Append(w, m)) = Polls(w)
    BY <1>1 DEF Polls
  <2> QED
    BY <1>1, <2>1, PollsFinite
<1>2. CASE ~IsRequest(m)
  <2>1. Polls(Append(w, m)) = Polls(w) \cup {Len(w) + 1}
    BY <1>2 DEF Polls
  <2>2. Len(w) + 1 \notin Polls(w)
    BY DEF Polls
  <2> QED
    BY <1>2, <2>1, <2>2, PollsFinite, FS_AddElement
<1> QED
  BY <1>1, <1>2

(* What a lost connection still delivers has no more polls.                  *)
LEMMA PollsPrefix ==
    ASSUME NEW M, NEW w \in Seq(M), NEW i \in 0..Len(w)
    PROVE  Cardinality(Polls(SubSeq(w, 1, i))) <= Cardinality(Polls(w))
<1>1. Polls(SubSeq(w, 1, i)) \in SUBSET Polls(w)
  BY DEF Polls
<1> QED
  BY <1>1, PollsFinite, FS_Subset

(* A command that is received is gone, with its poll: the polls that remain  *)
(* move up one place, and are as many as they were.                          *)
LEMMA PollsTail ==
    ASSUME NEW M, NEW w \in Seq(M), w # << >>
    PROVE  Cardinality(Polls(Tail(w))) + (IF IsRequest(Head(w)) THEN 0 ELSE 1)
             = Cardinality(Polls(w))
<1> DEFINE T == Polls(w) \ {1}
           U == Polls(Tail(w))
           f == [j \in U |-> j + 1]
           g == [j \in T |-> j - 1]
<1>1. IsFiniteSet(T) /\ Cardinality(T) =
        IF 1 \in Polls(w) THEN Cardinality(Polls(w)) - 1 ELSE Cardinality(Polls(w))
  BY PollsFinite, FS_RemoveElement
<1>2. 1 \in Polls(w) <=> ~IsRequest(Head(w))
  BY DEF Polls
<1>3. /\ Tail(w) \in Seq(M) /\ Len(Tail(w)) = Len(w) - 1
      /\ \A j \in 1..Len(Tail(w)) : Tail(w)[j] = w[j + 1]
  OBVIOUS
<1>4. \A j \in U : j \in Nat /\ j + 1 \in T
  BY <1>3 DEF Polls
<1>5. \A j \in T : j \in Nat /\ j - 1 \in U
  <2>1. ASSUME NEW j \in T PROVE j \in Nat /\ j - 1 \in U
    <3>1. j \in 2..Len(w) /\ ~IsRequest(w[j])
      BY DEF Polls
    <3>2. j - 1 \in 1..Len(Tail(w)) /\ Tail(w)[j - 1] = w[j]
      BY <1>3, <3>1
    <3> QED
      BY <3>1, <3>2 DEF Polls
  <2> QED
    BY <2>1
<1>6. f \in [U -> T] /\ g \in [T -> U]
  BY <1>4, <1>5
<1>7. (\A a \in U : f[a] = a + 1) /\ (\A a \in T : g[a] = a - 1)
  OBVIOUS
<1>8. IsFiniteSet(U) /\ Cardinality(U) \in Nat /\ Cardinality(Polls(w)) \in Nat
  BY <1>3, PollsFinite
<1> HIDE DEF f, g, T, U
<1>9. \A a, b \in U : f[a] = f[b] => a = b
  BY <1>4, <1>7
<1>10. \A a, b \in T : g[a] = g[b] => a = b
  BY <1>5, <1>7
<1>11. Cardinality(U) <= Cardinality(T)
  BY <1>1, <1>6, <1>9, NoMore
<1>12. Cardinality(T) <= Cardinality(U)
  BY <1>6, <1>8, <1>10, NoMore
<1>13. Cardinality(T) \in Nat
  BY <1>1, Countable
<1>14. Cardinality(U) = Cardinality(T)
  BY <1>8, <1>11, <1>12, <1>13
<1> QED
  BY <1>1, <1>2, <1>8, <1>14 DEF U

-----------------------------------------------------------------------------
(* Types, and the bound on what is under way.                                *)
Commands == Requests \cup {"status"}

Basics == TypeOK /\ CallbackInv /\ LinkInv /\ FlightInv

(* What is under way, in the next state.                                     *)
LEMMA NextInFlight ==
    InFlight' = Cardinality(Polls(wire'[conn'])) + Len(replies') + updates'
BY DEF InFlight, Polls, IsRequest, Requests, Control!Requests

(* A queue of commands and what is counted of it are well typed.             *)
LEMMA InFlightType ==
    ASSUME TypeOK
    PROVE  /\ wire[conn] \in Seq(Commands)
           /\ Cardinality(Polls(wire[conn])) \in Nat
           /\ Len(replies) \in Nat /\ updates \in Nat
<1>1. wire[conn] \in Seq(Commands)
  BY DEF TypeOK, Commands
<1>2. Len(replies) \in Nat /\ updates \in Nat
  BY RemoteAssumption DEF TypeOK
<1> QED
  BY <1>1, <1>2, PollsFinite

(* A thread that receives a command takes it, and its poll, off its own wire. *)
LEMMA ReceivedStep ==
    ASSUME TypeOK, NEW n \in Connections, Received(n)
    PROVE  /\ wire' \in [Connections -> Seq(Commands)]
           /\ wire[n] \in Seq(Commands) /\ First(n) \in Commands
           /\ wire'[n] = Tail(wire[n])
           /\ \A m \in Connections : m # n => wire'[m] = wire[m]
           /\ \A m \in Connections : wire[m] = << >> => wire'[m] = << >>
           /\ Cardinality(Polls(wire'[conn])) \in Nat
           /\ Cardinality(Polls(wire'[conn]))
                + (IF n = conn /\ ~IsRequest(First(n)) THEN 1 ELSE 0)
                = Cardinality(Polls(wire[conn]))
<1>1. /\ wire' = [wire EXCEPT ![n] = Tail(@)] /\ wire[n] # << >>
      /\ wire \in [Connections -> Seq(Commands)]
  BY DEF Received, TypeOK, Commands
<1>2. wire[n] \in Seq(Commands) /\ wire'[n] = Tail(wire[n]) /\ Tail(wire[n]) \in Seq(Commands)
  BY <1>1
<1>3. \A m \in Connections : m # n => wire'[m] = wire[m]
  BY <1>1
<1>4. wire' \in [Connections -> Seq(Commands)]
  BY <1>1, <1>2
<1>5. First(n) \in Commands
  BY <1>1, <1>2 DEF First
<1>6. /\ Cardinality(Polls(wire'[conn])) \in Nat
      /\ Cardinality(Polls(wire[conn])) \in Nat /\ conn \in Connections
  BY <1>4, InFlightType, PollsFinite DEF TypeOK
<1>7. Cardinality(Polls(wire'[conn]))
        + (IF n = conn /\ ~IsRequest(First(n)) THEN 1 ELSE 0)
        = Cardinality(Polls(wire[conn]))
  <2>1. CASE n = conn
    <3>1. Cardinality(Polls(Tail(wire[n]))) + (IF IsRequest(Head(wire[n])) THEN 0 ELSE 1)
            = Cardinality(Polls(wire[n]))
      BY <1>1, <1>2, PollsTail
    <3> QED
      BY <1>2, <2>1, <3>1 DEF First
  <2>2. CASE n # conn
    BY <1>3, <1>6, <2>2
  <2> QED
    BY <2>1, <2>2
<1> QED
  BY <1>1, <1>2, <1>3, <1>4, <1>5, <1>6, <1>7

(* Every step keeps the types and the bound.                                 *)
LEMMA BasicsStep ==
    ASSUME Basics, [Next]_vars
    PROVE  Basics'
<1> USE RemoteAssumption DEF control, link, monitor, counts
<1>0. /\ wire[conn] \in Seq(Commands)
      /\ Cardinality(Polls(wire[conn])) \in Nat
      /\ Len(replies) \in Nat /\ updates \in Nat
      /\ InFlight = Cardinality(Polls(wire[conn])) + Len(replies) + updates
      /\ InFlight <= MaxInFlight
      /\ conn \in Connections /\ conn \in Nat
  BY InFlightType DEF Basics, FlightInv, InFlight, TypeOK, Connections
<1>1. CASE Poll
  <2>1. /\ wire' = [wire EXCEPT ![conn] = Append(@, "status")]
        /\ wire'[conn] = Append(wire[conn], "status") /\ conn' = conn
        /\ \A n \in Connections : n # conn => wire'[n] = wire[n]
    BY <1>0, <1>1 DEF Poll, Transmit, Basics, TypeOK
  <2>2. TypeOK'
    BY <1>0, <1>1, <2>1, SMTT(30) DEF Poll, Basics, TypeOK, Commands
  <2>3. CallbackInv' /\ LinkInv'
    BY <1>0, <1>1, <2>1 DEF Poll, Basics, CallbackInv, LinkInv, Idle, NoCallback
  <2>4. Cardinality(Polls(wire'[conn'])) = Cardinality(Polls(wire[conn])) + 1
    <3>1. "status" \in Commands /\ ~IsRequest("status")
      BY DEF Commands, IsRequest, Requests, Control!Requests
    <3>2. wire'[conn'] = Append(wire[conn], "status")
      BY <2>1
    <3> QED
      BY <1>0, <3>1, <3>2, PollsAppend
  <2>5. FlightInv'
    BY <1>0, <1>1, <2>4, NextInFlight DEF Poll, FlightInv
  <2> QED
    BY <2>2, <2>3, <2>5 DEF Basics
<1>2. CASE ReceiveStatus
  <2>1. /\ Head(replies) \in States /\ Tail(replies) \in Seq(States)
        /\ Len(Tail(replies)) = Len(replies) - 1
    BY <1>2 DEF ReceiveStatus, Basics, TypeOK
  <2>2. updates + 1 \in 0..MaxInFlight
    BY <1>0, <2>1
  <2>3. TypeOK'
    BY <1>2, <2>1, <2>2 DEF ReceiveStatus, Basics, TypeOK
  <2>4. CallbackInv' /\ LinkInv'
    BY <1>2 DEF ReceiveStatus, Basics, CallbackInv, LinkInv, Idle, NoCallback
  <2>5. FlightInv'
    BY <1>0, <1>2, <2>1, NextInFlight DEF ReceiveStatus, FlightInv
  <2> QED
    BY <2>3, <2>4, <2>5 DEF Basics
<1>3. CASE UpdateStatus
  <2>1. TypeOK'
    <3>1. updates' \in 0..MaxInFlight /\ view' \in States
      BY <1>0, <1>3 DEF UpdateStatus, Basics, TypeOK
    <3> QED
      BY <1>3, <3>1 DEF UpdateStatus, Basics, TypeOK
  <2>2. CallbackInv' /\ LinkInv'
    BY <1>3 DEF UpdateStatus, Basics, CallbackInv, LinkInv, Idle, NoCallback
  <2>3. FlightInv'
    BY <1>0, <1>3, NextInFlight DEF UpdateStatus, FlightInv
  <2> QED
    BY <2>1, <2>2, <2>3 DEF Basics
<1>4. CASE LoseLink
  <2>1. PICK m \in 0..Len(wire[conn]) : wire' = [wire EXCEPT ![conn] = SubSeq(@, 1, m)]
    BY <1>4 DEF LoseLink
  <2>2. /\ wire'[conn] = SubSeq(wire[conn], 1, m) /\ conn' = conn
        /\ \A n \in Connections : n # conn => wire'[n] = wire[n]
        /\ SubSeq(wire[conn], 1, m) \in Seq(Commands)
    BY <1>0, <1>4, <2>1 DEF LoseLink, Basics, TypeOK
  <2>3. orderly' \in BOOLEAN
    BY <1>4 DEF LoseLink, Basics, TypeOK
  <2>4. TypeOK'
    <3>1. wire' \in [Connections -> Seq(Commands)]
      BY <1>0, <2>1, <2>2 DEF Basics, TypeOK, Commands
    <3>2. replies' \in Seq(States)
      BY <1>4 DEF LoseLink
    <3> QED
      BY <1>4, <2>3, <3>1, <3>2 DEF LoseLink, Basics, TypeOK, Commands
  <2>5. CallbackInv' /\ LinkInv'
    BY <1>0, <1>4, <2>2 DEF LoseLink, Basics, CallbackInv, LinkInv, Idle, NoCallback
  <2>6. Cardinality(Polls(wire'[conn'])) <= Cardinality(Polls(wire[conn]))
    BY <1>0, <2>2, PollsPrefix
  <2>7. Cardinality(Polls(wire'[conn'])) \in Nat
    BY <2>2, PollsFinite
  <2>8. FlightInv'
    BY <1>0, <1>4, <2>6, <2>7, NextInFlight DEF LoseLink, FlightInv
  <2> QED
    BY <2>4, <2>5, <2>8 DEF Basics
<1>5. CASE Reconnect
  <2>1. conn + 1 \in Connections /\ conn' = conn + 1 /\ conn' > conn
    BY <1>0, <1>5 DEF Reconnect, Connections
  <2>2. TypeOK'
    BY <1>5, <2>1 DEF Reconnect, Basics, TypeOK
  <2>3. CallbackInv' /\ LinkInv'
    BY <1>0, <1>5, <2>1
    DEF Reconnect, Basics, CallbackInv, LinkInv, Idle, NoCallback, Connections
  <2>4. wire'[conn'] = << >> /\ Len(replies') = 0
    BY <1>5, <2>1 DEF Reconnect, Basics, LinkInv
  <2>5. Cardinality(Polls(wire'[conn'])) = 0
    <3>1. Polls(wire'[conn']) = {}
      BY <2>4 DEF Polls
    <3> QED
      BY <3>1, FS_EmptySet
  <2>6. FlightInv'
    BY <1>0, <1>5, <2>4, <2>5, NextInFlight DEF Reconnect, FlightInv
  <2> QED
    BY <2>2, <2>3, <2>6 DEF Basics
<1>6. CASE Controller
  <2>1. /\ state' \in States /\ pending' \in SUBSET Requests /\ offPeak' = offPeak
        /\ newest' \in Requests \cup {"none"} /\ hurried' \in BOOLEAN
        /\ served' \in [Requests -> Nat] /\ orderly' \in BOOLEAN
        /\ UNCHANGED <<link, monitor, clicked, flips>>
    <3>1. CASE FollowWindow
      BY <3>1 DEF FollowWindow, Basics, TypeOK, States, Control!EnterOffPeak,
                  Control!LeaveOffPeak
    <3>2. ASSUME NEW k \in Requests, Serve(k)
          PROVE  /\ state' \in States /\ pending' \in SUBSET Requests /\ offPeak' = offPeak
                 /\ newest' = newest /\ served' \in [Requests -> Nat]
                 /\ UNCHANGED <<link, monitor, clicked, flips>>
                 /\ orderly' = (orderly /\ ~hurried)
                 /\ hurried' = (\E n \in Connections : ~Idle(n))
      BY <3>2 DEF Serve, Basics, TypeOK, States, Requests, Control!Requests, Control!Serve,
                  Control!StateFor
    <3> QED
      BY <1>6, <3>1, <3>2 DEF Controller, Basics, TypeOK
  <2>2. TypeOK'
    BY <2>1 DEF Basics, TypeOK
  <2>3. CallbackInv' /\ LinkInv'
    BY <2>1 DEF Basics, CallbackInv, LinkInv, Idle, NoCallback
  <2>4. FlightInv'
    BY <1>0, <2>1, NextInFlight DEF FlightInv
  <2> QED
    BY <2>2, <2>3, <2>4 DEF Basics
<1>7. CASE LookAtClock
  <2>1. TypeOK'
    BY <1>7 DEF LookAtClock, Basics, TypeOK, Control!LookAtClock
  <2>2. CallbackInv' /\ LinkInv'
    BY <1>7 DEF LookAtClock, Basics, CallbackInv, LinkInv, Idle, NoCallback
  <2>3. FlightInv'
    BY <1>0, <1>7, NextInFlight DEF LookAtClock, FlightInv
  <2> QED
    BY <2>1, <2>2, <2>3 DEF Basics
<1>8. ASSUME NEW k \in Requests, Click(k) PROVE Basics'
  <2>1. CASE up
    <3>1. /\ wire' = [wire EXCEPT ![conn] = Append(@, k)] /\ newest' = k
          /\ wire'[conn] = Append(wire[conn], k) /\ conn' = conn
          /\ \A n \in Connections : n # conn => wire'[n] = wire[n]
      BY <1>0, <1>8, <2>1, SMTT(30) DEF Click, Transmit, Basics, TypeOK
    <3>2. wire' \in [Connections -> Seq(Commands)]
      BY <1>0, <3>1, SMTT(30) DEF Basics, TypeOK, Commands
    <3>7. orderly' \in BOOLEAN
      BY <1>8, <2>1 DEF Click, NoOtherUnderWay
    <3>3. TypeOK'
      BY <1>8, <3>1, <3>2, <3>7 DEF Click, Basics, TypeOK, Commands
    <3>4. CallbackInv' /\ LinkInv'
      BY <1>0, <1>8, <3>1 DEF Click, Basics, CallbackInv, LinkInv, Idle, NoCallback
    <3>5. Cardinality(Polls(wire'[conn'])) = Cardinality(Polls(wire[conn]))
      <4>1. k \in Commands /\ IsRequest(k)
        BY DEF Commands, IsRequest
      <4>2. wire'[conn'] = Append(wire[conn], k)
        BY <3>1
      <4> QED
        BY <1>0, <4>1, <4>2, PollsAppend
    <3>6. FlightInv'
      BY <1>0, <1>8, <3>5, NextInFlight DEF Click, FlightInv
    <3> QED
      BY <3>3, <3>4, <3>6 DEF Basics
  <2>2. CASE ~up
    <3>1. TypeOK'
      BY <1>8, <2>2, SMTT(30) DEF Click, Basics, TypeOK
    <3>2. CallbackInv' /\ LinkInv'
      BY <1>8, <2>2 DEF Click, Basics, CallbackInv, LinkInv, Idle, NoCallback
    <3>3. FlightInv'
      BY <1>0, <1>8, <2>2, NextInFlight DEF Click, FlightInv
    <3> QED
      BY <3>1, <3>2, <3>3 DEF Basics
  <2> QED
    BY <2>1, <2>2
<1>9. ASSUME NEW n \in Connections, Received(n)
      PROVE  /\ wire' \in [Connections -> Seq(Commands)]
             /\ \A m \in Connections : wire[m] = << >> => wire'[m] = << >>
             /\ Cardinality(Polls(wire'[conn])) \in Nat
             /\ Cardinality(Polls(wire'[conn]))
                  + (IF n = conn /\ ~IsRequest(First(n)) THEN 1 ELSE 0)
                  <= Cardinality(Polls(wire[conn]))
  BY <1>0, <1>9, ReceivedStep DEF Basics
<1>10. ASSUME NEW n \in Connections, ReplyStatus(n) PROVE Basics'
  <2>1. Received(n) /\ First(n) = "status" /\ ~IsRequest(First(n)) /\ conn' = conn
    BY <1>10 DEF ReplyStatus, IsRequest, Requests, Control!Requests
  <2>2. /\ replies' \in Seq(States)
        /\ Len(replies') <= Len(replies) + (IF n = conn THEN 1 ELSE 0)
        /\ Len(replies') \in Nat /\ ~up => replies' = replies
    BY <1>10 DEF ReplyStatus, Basics, TypeOK
  <2>3. TypeOK'
    BY <1>9, <1>10, <2>1, <2>2, SMTT(30) DEF ReplyStatus, Basics, TypeOK, Commands
  <2>4. CallbackInv' /\ LinkInv'
    BY <1>9, <1>10, <2>1, <2>2
    DEF ReplyStatus, Basics, CallbackInv, LinkInv, Idle, NoCallback
  <2>5. Cardinality(Polls(wire'[conn'])) + (IF n = conn THEN 1 ELSE 0)
          <= Cardinality(Polls(wire[conn]))
    BY <1>9, <2>1
  <2>6. updates' = updates /\ Cardinality(Polls(wire'[conn'])) \in Nat
    BY <1>9, <1>10, <2>1 DEF ReplyStatus
  <2>7. FlightInv'
    BY <1>0, <2>2, <2>5, <2>6, NextInFlight, SMTT(30) DEF FlightInv
  <2> QED
    BY <2>3, <2>4, <2>7 DEF Basics
<1>11. ASSUME NEW n \in Connections, CallBack(n) PROVE Basics'
  <2>1. Received(n) /\ conn' = conn /\ First(n) \in Requests /\ replies' = replies
    BY <1>11 DEF CallBack, IsRequest
  <2>2. /\ callback' = [callback EXCEPT ![n] = [request |-> First(n), at |-> "Grid"]]
        /\ "Grid" \in Requests
        /\ callback \in [Connections -> [request : Requests \cup {"none"},
                                        at : Requests \cup {"none"}]]
    BY <1>11 DEF CallBack, Basics, TypeOK, Requests, Control!Requests
  <2>3. TypeOK'
    <3>1. callback' \in [Connections -> [request : Requests \cup {"none"},
                                         at : Requests \cup {"none"}]]
      BY <2>1, <2>2
    <3> QED
      BY <1>9, <1>11, <2>1, <3>1 DEF CallBack, Basics, TypeOK, Commands
  <2>4. n <= conn
    BY <1>0, <2>1 DEF Received, Basics, LinkInv, Connections
  <2>5. CallbackInv' /\ LinkInv'
    <3>1. /\ callback'[n].request \in Requests /\ callback'[n].at \in Requests
          /\ \A m \in Connections : m # n => callback'[m] = callback[m]
      BY <2>1, <2>2
    <3>2. CallbackInv'
      BY <3>1 DEF Basics, CallbackInv, Idle, NoCallback
    <3>3. up' = up /\ \A m \in Connections : m > conn => m # n /\ wire'[m] = << >>
      BY <1>0, <1>9, <1>11, <2>1, <2>4, SMTT(30) DEF CallBack, Basics, LinkInv, Connections
    <3>4. LinkInv'
      BY <2>1, <3>1, <3>3 DEF Basics, LinkInv, Idle, NoCallback
    <3> QED
      BY <3>2, <3>4
  <2>6. updates' = updates /\ Cardinality(Polls(wire'[conn'])) \in Nat
        /\ Cardinality(Polls(wire'[conn'])) <= Cardinality(Polls(wire[conn]))
    BY <1>0, <1>9, <1>11, <2>1 DEF CallBack
  <2>7. FlightInv'
    BY <1>0, <2>1, <2>6, NextInFlight, SMTT(30) DEF FlightInv
  <2> QED
    BY <2>3, <2>5, <2>7 DEF Basics
<1>12. ASSUME NEW n \in Connections, AssignFlag(n) PROVE Basics'
  <2> DEFINE k == callback[n].at
  <2>1. /\ k \in Requests /\ ~Idle(n) /\ AfterFlag[k] \in Requests \cup {"none"}
        /\ k # "Boost" => AfterFlag[k] \in Requests
        /\ callback[n].request \in Requests
    BY <1>12 DEF AssignFlag, Basics, CallbackInv, Idle, NoCallback, AfterFlag, Requests,
                 Control!Requests
  <2>2. /\ pending' \in SUBSET Requests /\ UNCHANGED <<state, offPeak>>
        /\ UNCHANGED <<conn, up, wire, replies, monitor, counts, newest, orderly>>
        /\ hurried' \in BOOLEAN
    BY <1>12, <2>1 DEF AssignFlag, Basics, TypeOK, Control!Ask, Control!Withdraw
  <2>3. /\ callback' \in [Connections -> [request : Requests \cup {"none"},
                                        at : Requests \cup {"none"}]]
        /\ \A m \in Connections : m # n => callback'[m] = callback[m]
        /\ \/ callback'[n] = NoCallback
           \/ callback'[n].request \in Requests /\ callback'[n].at \in Requests
    <3>1. PICK c \in [request : Requests \cup {"none"}, at : Requests \cup {"none"}] :
            /\ callback' = [callback EXCEPT ![n] = c]
            /\ c = NoCallback \/ (c.request \in Requests /\ c.at \in Requests)
      <4>1. CASE callback[n].at = "Boost"
        BY <1>12, <4>1 DEF AssignFlag, NoCallback
      <4>2. CASE callback[n].at # "Boost"
        <5>1. callback' = [callback EXCEPT ![n] = [@ EXCEPT !.at = AfterFlag[callback[n].at]]]
          BY <1>12, <4>2 DEF AssignFlag
        <5>2. /\ AfterFlag[callback[n].at] \in Requests
              /\ callback[n] \in [request : Requests \cup {"none"}, at : Requests \cup {"none"}]
          BY <2>1, <4>2 DEF Basics, TypeOK, AfterFlag, Requests, Control!Requests
        <5>3. PICK c : c = [callback[n] EXCEPT !.at = AfterFlag[callback[n].at]]
          OBVIOUS
        <5>4. /\ c.request \in Requests /\ c.at \in Requests
              /\ c \in [request : Requests \cup {"none"}, at : Requests \cup {"none"}]
          BY <2>1, <5>2, <5>3
        <5> QED
          BY <5>1, <5>3, <5>4
      <4> QED
        BY <4>1, <4>2
    <3> QED
      BY <3>1 DEF Basics, TypeOK
  <2>4. TypeOK'
    BY <2>2, <2>3 DEF Basics, TypeOK
  <2>5. CallbackInv' /\ LinkInv'
    BY <2>1, <2>2, <2>3 DEF Basics, CallbackInv, LinkInv, Idle
  <2>6. FlightInv'
    BY <1>0, <2>2, NextInFlight DEF FlightInv
  <2> QED
    BY <2>4, <2>5, <2>6 DEF Basics
<1>13. CASE UNCHANGED vars
  <2>1. TypeOK'
    BY <1>13 DEF vars, Basics, TypeOK
  <2>2. CallbackInv' /\ LinkInv'
    BY <1>13 DEF vars, Basics, CallbackInv, LinkInv, Idle, NoCallback
  <2>3. FlightInv'
    BY <1>0, <1>13, NextInFlight DEF vars, FlightInv
  <2> QED
    BY <2>1, <2>2, <2>3 DEF Basics
<1> QED
  BY <1>1, <1>2, <1>3, <1>4, <1>5, <1>6, <1>7, <1>8, <1>10, <1>11, <1>12, <1>13
  DEF Next, ClientThread

(* At the start nothing is under way.                                        *)
LEMMA InitBasics == Init => Basics
<1> SUFFICES ASSUME Init PROVE Basics
  OBVIOUS
<1> USE RemoteAssumption DEF Init, Control!Init, Requests, Control!Requests
<1>1. TypeOK
  <2>1. conn \in Connections /\ updates \in 0..MaxInFlight /\ flips \in 0..MaxFlips
    BY DEF Connections
  <2>2. state \in States /\ status \in States /\ view \in States \cup {"changing"}
    BY DEF States
  <2>3. wire \in [Connections -> Seq(Requests \cup {"status"})] /\ replies \in Seq(States)
    OBVIOUS
  <2>4. callback \in [Connections -> [request : Requests \cup {"none"},
                                      at : Requests \cup {"none"}]]
    BY DEF NoCallback
  <2>5. clicked \in [Requests -> 0..MaxClicks] /\ served \in [Requests -> Nat]
    OBVIOUS
  <2> QED
    BY <2>1, <2>2, <2>3, <2>4, <2>5 DEF TypeOK
<1>2. CallbackInv /\ LinkInv
  BY DEF CallbackInv, LinkInv, Idle, Connections
<1>3. Polls(wire[conn]) = {}
  BY DEF Polls, Connections
<1>4. FlightInv
  <2>1. Cardinality(Polls(wire[conn])) = 0 /\ Len(replies) = 0 /\ updates = 0
    BY <1>3, FS_EmptySet
  <2> QED
    BY <2>1 DEF FlightInv, InFlight
<1> QED
  BY <1>1, <1>2, <1>4 DEF Basics

(* Every variable keeps its type; at most one update is queued for a status, *)
(* so the bound on what is under way holds whoever polls.                    *)
THEOREM TypeCorrectness == Spec => []TypeOK
<1>1. Basics /\ [Next]_vars => Basics'
  BY BasicsStep
<1>2. Basics => TypeOK
  BY DEF Basics
<1> QED
  BY InitBasics, <1>1, <1>2, PTL DEF Spec

-----------------------------------------------------------------------------
(* The order in which a callback comes to the flags.                         *)
LEMMA FlagOrder ==
    /\ AfterFlag["Grid"] = "Batts" /\ AfterFlag["Batts"] = "Boost" /\ AfterFlag["Boost"] = "none"
    /\ Past("Grid") = {} /\ Past("Batts") = {"Grid"} /\ Past("Boost") = {"Grid", "Batts"}
    /\ Past("none") = {}
BY DEF AfterFlag, Past

(* A step that loses clicks under way, or leaves them, owes no more.          *)
LEMMA OwesNoMore ==
    ASSUME NEW k \in Requests, IsFiniteSet(Sent(k)),
           wire' \in [Connections -> Seq(Commands)],
           \A n \in Connections : Owing(n, k)' => Owing(n, k),
           \A n \in Connections : \A j \in 1..Len(wire'[n]) :
               wire'[n][j] = k => j \in 1..Len(wire[n]) /\ wire[n][j] = k
    PROVE  IsFiniteSet(Sent(k)') /\ Cardinality(Sent(k)') <= Cardinality(Sent(k))
<1>1. Sent(k)' \in SUBSET Sent(k)
  BY DEF Sent, Connections
<1> QED
  BY <1>1, FS_Subset

(* A thread that takes a command from its wire owes no more: every place has  *)
(* come one nearer, and place 0 is that of the command it took.              *)
LEMMA ReceiveOwes ==
    ASSUME Basics, NEW k \in Requests, IsFiniteSet(Sent(k)),
           NEW n \in Connections, Received(n),
           \A m \in Connections : m # n => callback'[m] = callback[m],
           callback'[n].request = k => First(n) = k
    PROVE  IsFiniteSet(Sent(k)') /\ Cardinality(Sent(k)') <= Cardinality(Sent(k))
<1> DEFINE f == [p \in Sent(k)' |-> IF p[1] = n THEN <<n, p[2] + 1>> ELSE p]
<1>1. /\ wire[n] \in Seq(Commands) /\ wire[n] # << >>
      /\ wire'[n] = Tail(wire[n])
      /\ \A m \in Connections : m # n => wire'[m] = wire[m]
  BY DEF Received, Basics, TypeOK, Commands
<1>2. /\ Len(wire[n]) \in Nat \ {0} /\ Len(wire'[n]) = Len(wire[n]) - 1
      /\ \A j \in 1..Len(wire'[n]) : wire'[n][j] = wire[n][j + 1]
  BY <1>1
<1>3. ASSUME NEW p \in Sent(k)'
      PROVE  /\ p = <<p[1], p[2]>> /\ p[1] \in Connections /\ p[2] \in Nat
             /\ p[1] = n => <<n, p[2] + 1>> \in Sent(k)
             /\ p[1] # n => p \in Sent(k)
  <2>1. /\ p = <<p[1], p[2]>> /\ p[1] \in Connections /\ p[2] \in Nat
        /\ \/ p[2] \in 1..Len(wire'[p[1]]) /\ wire'[p[1]][p[2]] = k
           \/ p[2] = 0 /\ Owing(p[1], k)'
    BY <1>3 DEF Sent, Connections
  <2>2. CASE p[1] # n
    BY <1>1, <2>1, <2>2 DEF Sent, Owing, Past
  <2>3. CASE p[1] = n
    <3>1. CASE p[2] \in 1..Len(wire'[n]) /\ wire'[n][p[2]] = k
      BY <1>2, <2>1, <2>3, <3>1 DEF Sent
    <3>2. CASE p[2] = 0 /\ Owing(n, k)'
      <4>1. wire[n][1] = k
        BY <1>1, <3>2 DEF Owing, First
      <4> QED
        BY <1>2, <2>1, <2>3, <3>2, <4>1 DEF Sent
    <3> QED
      BY <2>1, <2>3, <3>1, <3>2
  <2> QED
    BY <2>1, <2>2, <2>3
<1>4. f \in [Sent(k)' -> Sent(k)]
  BY <1>3
<1>5. \A p \in Sent(k)' : f[p] = IF p[1] = n THEN <<n, p[2] + 1>> ELSE p
  OBVIOUS
<1> HIDE DEF f
<1>6. \A p \in Sent(k)' : f[p][1] = p[1] /\ f[p][2] = IF p[1] = n THEN p[2] + 1 ELSE p[2]
  <2> TAKE p \in Sent(k)'
  <2>1. CASE p[1] = n
    <3>1. f[p] = <<n, p[2] + 1>>
      BY <1>5, <2>1
    <3> QED
      BY <2>1, <3>1
  <2>2. CASE p[1] # n
    BY <1>5, <2>2
  <2> QED
    BY <2>1, <2>2
<1>7. ASSUME NEW a \in Sent(k)', NEW b \in Sent(k)', f[a] = f[b] PROVE a = b
  <2>1. /\ a = <<a[1], a[2]>> /\ a[2] \in Nat /\ b = <<b[1], b[2]>> /\ b[2] \in Nat
    BY <1>3
  <2>2. a[1] = b[1]
    BY <1>6, <1>7
  <2>3. a[2] = b[2]
    BY <1>6, <1>7, <2>1, <2>2
  <2> QED
    BY <2>1, <2>2, <2>3, Zenon
<1> QED
  BY <1>4, <1>7, NoMore

(* No step serves, makes pending or keeps under way more clicks than there    *)
(* were.                                                                     *)
LEMMA CountStep ==
    ASSUME Basics, Basics', CountInv, [Next]_vars
    PROVE  CountInv'
<1> USE DEF control, link, monitor, counts
<1> DEFINE Flag(P, k) == IF k \in P THEN 1 ELSE 0
<1>0. /\ served \in [Requests -> Nat] /\ served' \in [Requests -> Nat]
      /\ clicked \in [Requests -> Nat] /\ clicked' \in [Requests -> Nat]
      /\ wire \in [Connections -> Seq(Commands)] /\ wire' \in [Connections -> Seq(Commands)]
      /\ conn \in Connections
  <2>1. 0..MaxClicks \subseteq Nat
    BY RemoteAssumption
  <2>2. clicked \in [Requests -> 0..MaxClicks] /\ clicked' \in [Requests -> 0..MaxClicks]
    BY DEF Basics, TypeOK
  <2>3. clicked \in [Requests -> Nat] /\ clicked' \in [Requests -> Nat]
    BY <2>1, <2>2
  <2> QED
    BY <2>3 DEF Basics, TypeOK, Commands
<1>1. ASSUME NEW k \in Requests
      PROVE  /\ IsFiniteSet(Sent(k)) /\ Cardinality(Sent(k)) \in Nat
             /\ served[k] + Flag(pending, k) + Cardinality(Sent(k)) <= clicked[k]
  BY Countable DEF CountInv
(* It is enough that what is counted on the left does not grow.               *)
<1>2. ASSUME NEW k \in Requests,
             IsFiniteSet(Sent(k)'), Cardinality(Sent(k)') <= Cardinality(Sent(k)),
             served'[k] + Flag(pending', k) <= served[k] + Flag(pending, k),
             clicked'[k] >= clicked[k]
      PROVE  /\ IsFiniteSet(Sent(k)')
             /\ served'[k] + Flag(pending', k) + Cardinality(Sent(k)') <= clicked'[k]
  <2>1. Cardinality(Sent(k)') \in Nat
    BY <1>2, Countable
  <2> QED
    BY <1>0, <1>1, <1>2, <2>1
<1>3. SUFFICES ASSUME NEW k \in Requests
               PROVE  /\ IsFiniteSet(Sent(k)')
                      /\ served'[k] + Flag(pending', k) + Cardinality(Sent(k)') <= clicked'[k]
  BY DEF CountInv
<1> DEFINE Goal == /\ IsFiniteSet(Sent(k)')
                   /\ served'[k] + Flag(pending', k) + Cardinality(Sent(k)') <= clicked'[k]
<1>4. ASSUME UNCHANGED <<callback, pending, served, clicked>>,
             \A n \in Connections : \A j \in 1..Len(wire'[n]) :
                 wire'[n][j] = k => j \in 1..Len(wire[n]) /\ wire[n][j] = k
      PROVE  Goal
  <2>1. \A n \in Connections : Owing(n, k)' => Owing(n, k)
    BY <1>4 DEF Owing, Past
  <2>2. IsFiniteSet(Sent(k)') /\ Cardinality(Sent(k)') <= Cardinality(Sent(k))
    BY <1>0, <1>1, <1>4, <2>1, OwesNoMore
  <2>3. /\ served'[k] + Flag(pending', k) <= served[k] + Flag(pending, k)
        /\ clicked'[k] >= clicked[k]
    BY <1>0, <1>4
  <2> HIDE DEF Flag
  <2> QED
    BY <1>2, <2>2, <2>3
<1>5. ASSUME UNCHANGED <<wire, callback, pending, served, clicked>> PROVE Goal
  BY <1>4, <1>5, Zenon
<1>6. CASE Poll
  <2>1. \A n \in Connections : \A j \in 1..Len(wire'[n]) :
            wire'[n][j] = k => j \in 1..Len(wire[n]) /\ wire[n][j] = k
    <3>1. k # "status" /\ wire' = [wire EXCEPT ![conn] = Append(@, "status")]
      BY <1>6 DEF Poll, Transmit, Requests, Control!Requests
    <3> QED
      BY <1>0, <3>1
  <2> QED
    BY <1>4, <1>6, <2>1 DEF Poll
<1>7. CASE ReceiveStatus \/ UpdateStatus \/ Reconnect \/ LookAtClock \/ FollowWindow
            \/ UNCHANGED vars
  <2>1. UNCHANGED <<wire, callback, pending, served, clicked>>
    BY <1>7 DEF ReceiveStatus, UpdateStatus, Reconnect, LookAtClock, FollowWindow, vars,
                Control!LookAtClock, Control!EnterOffPeak, Control!LeaveOffPeak
  <2> QED
    BY <1>5, <2>1
<1>8. CASE LoseLink
  <2>1. \A n \in Connections : \A j \in 1..Len(wire'[n]) :
            wire'[n][j] = k => j \in 1..Len(wire[n]) /\ wire[n][j] = k
    <3>1. PICK m \in 0..Len(wire[conn]) : wire' = [wire EXCEPT ![conn] = SubSeq(@, 1, m)]
      BY <1>8 DEF LoseLink
    <3> QED
      BY <1>0, <3>1
  <2> QED
    BY <1>4, <1>8, <2>1 DEF LoseLink
<1>9. ASSUME NEW q \in Requests, Click(q) PROVE Goal
  <2>1. /\ UNCHANGED <<callback, pending, served>>
        /\ clicked' = [clicked EXCEPT ![q] = @ + 1]
    BY <1>9 DEF Click
  <2>2. CASE ~up \/ q # k
    <3>1. \A n \in Connections : \A j \in 1..Len(wire'[n]) :
            wire'[n][j] = k => j \in 1..Len(wire[n]) /\ wire[n][j] = k
      <4>1. \/ wire' = wire
            \/ q # k /\ wire' = [wire EXCEPT ![conn] = Append(@, q)]
        BY <1>9, <2>2 DEF Click, Transmit
      <4>2. CASE q # k /\ wire' = [wire EXCEPT ![conn] = Append(@, q)]
        <5>1. wire[conn] \in Seq(Commands) /\ wire'[conn] = Append(wire[conn], q)
          BY <1>0, <4>2
        <5>2. \A j \in 1..Len(wire'[conn]) :
                 wire'[conn][j] = k => j \in 1..Len(wire[conn]) /\ wire[conn][j] = k
          BY <4>2, <5>1
        <5>3. \A n \in Connections : n # conn => wire'[n] = wire[n]
          BY <1>0, <4>2
        <5> QED
          BY <5>2, <5>3
      <4> QED
        BY <4>1, <4>2
    <3>2. \A n \in Connections : Owing(n, k)' => Owing(n, k)
      BY <2>1 DEF Owing, Past
    <3>3. IsFiniteSet(Sent(k)') /\ Cardinality(Sent(k)') <= Cardinality(Sent(k))
      BY <1>0, <1>1, <3>1, <3>2, OwesNoMore
    <3>4. /\ served'[k] + Flag(pending', k) <= served[k] + Flag(pending, k)
          /\ clicked'[k] >= clicked[k]
      BY <1>0, <2>1
    <3> HIDE DEF Flag
    <3> QED
      BY <1>2, <3>3, <3>4
  <2>3. CASE up /\ q = k
    <3> DEFINE place == <<conn, Len(wire[conn]) + 1>>
    <3>1. wire' = [wire EXCEPT ![conn] = Append(@, k)] /\ wire[conn] \in Seq(Commands)
      BY <1>0, <1>9, <2>3 DEF Click, Transmit
    <3>2. Sent(k)' \in SUBSET (Sent(k) \cup {place})
      <4>1. ASSUME NEW p \in Sent(k)' PROVE p \in Sent(k) \cup {place}
        <5>1. /\ p = <<p[1], p[2]>> /\ p \in Connections \X Nat
              /\ p[1] \in Connections /\ p[2] \in Nat
              /\ \/ p[2] \in 1..Len(wire'[p[1]]) /\ wire'[p[1]][p[2]] = k
                 \/ p[2] = 0 /\ Owing(p[1], k)'
          BY <4>1 DEF Sent, Connections
        <5>2. Owing(p[1], k)' => Owing(p[1], k)
          BY <2>1 DEF Owing, Past
        <5>3. CASE p[1] = conn /\ p[2] = Len(wire[conn]) + 1
          BY <5>1, <5>3
        <5>4. CASE ~(p[1] = conn /\ p[2] = Len(wire[conn]) + 1)
          BY <1>0, <3>1, <5>1, <5>2, <5>4 DEF Sent
        <5> QED
          BY <5>3, <5>4
      <4> QED
        BY <4>1
    <3>3. /\ IsFiniteSet(Sent(k) \cup {place})
          /\ Cardinality(Sent(k) \cup {place}) \in Nat
          /\ Cardinality(Sent(k) \cup {place}) <= Cardinality(Sent(k)) + 1
      <4> HIDE DEF place
      <4>1. IsFiniteSet(Sent(k)) /\ Cardinality(Sent(k)) \in Nat
        BY <1>1
      <4>2. /\ IsFiniteSet(Sent(k) \cup {place})
            /\ Cardinality(Sent(k) \cup {place})
                 = IF place \in Sent(k) THEN Cardinality(Sent(k)) ELSE Cardinality(Sent(k)) + 1
        BY <4>1, FS_AddElement
      <4> QED
        BY <4>1, <4>2
    <3>4. /\ IsFiniteSet(Sent(k)') /\ Cardinality(Sent(k)') \in Nat
          /\ Cardinality(Sent(k)') <= Cardinality(Sent(k) \cup {place})
      BY <3>2, <3>3, FS_Subset, Countable
    <3>5. /\ served'[k] + Flag(pending', k) = served[k] + Flag(pending, k)
          /\ clicked'[k] = clicked[k] + 1
      BY <1>0, <2>1, <2>3
    <3>6. /\ Flag(pending, k) \in Nat /\ Flag(pending', k) \in Nat
          /\ served[k] \in Nat /\ served'[k] \in Nat /\ clicked[k] \in Nat
      BY <1>0
    <3>7. /\ Cardinality(Sent(k)) \in Nat
          /\ served[k] + Flag(pending, k) + Cardinality(Sent(k)) <= clicked[k]
      BY <1>1
    <3> HIDE DEF Flag, place
    <3> QED
      BY <3>3, <3>4, <3>5, <3>6, <3>7
  <2> QED
    BY <2>2, <2>3
<1>10. ASSUME NEW n \in Connections, ReplyStatus(n) \/ CallBack(n) PROVE Goal
  <2>1. /\ Received(n) /\ UNCHANGED <<pending, served, clicked>>
        /\ \A m \in Connections : m # n => callback'[m] = callback[m]
    <3>1. CASE ReplyStatus(n)
      BY <3>1 DEF ReplyStatus
    <3>2. CASE CallBack(n)
      BY <3>2 DEF CallBack, Basics, TypeOK
    <3> QED
      BY <1>10, <3>1, <3>2
  <2>2. callback'[n].request = k => First(n) = k
    <3>1. k # "none" /\ callback[n] = NoCallback
      BY <2>1 DEF Received, Idle, Requests, Control!Requests
    <3>2. CASE ReplyStatus(n)
      BY <3>1, <3>2 DEF ReplyStatus, NoCallback
    <3>3. CASE CallBack(n)
      BY <3>3 DEF CallBack, Basics, TypeOK
    <3> QED
      BY <1>10, <3>2, <3>3
  <2>3. IsFiniteSet(Sent(k)') /\ Cardinality(Sent(k)') <= Cardinality(Sent(k))
    BY <1>1, <2>1, <2>2, ReceiveOwes
  <2>4. /\ served'[k] + Flag(pending', k) <= served[k] + Flag(pending, k)
        /\ clicked'[k] >= clicked[k]
    BY <1>0, <2>1
  <2> HIDE DEF Flag
  <2> QED
    BY <1>2, <2>3, <2>4
<1>11. ASSUME NEW n \in Connections, AssignFlag(n) PROVE Goal
  <2> DEFINE a == callback[n].at
             r == callback[n].request
  <2>1. /\ a \in Requests /\ r \in Requests /\ ~Idle(n)
        /\ AfterFlag[a] \in Requests \cup {"none"}
    BY <1>11 DEF AssignFlag, Basics, CallbackInv, Idle, NoCallback, AfterFlag, Requests,
                 Control!Requests
  <2>2. /\ UNCHANGED <<wire, served, clicked>>
        /\ pending' = IF a = r THEN pending \cup {a} ELSE pending \ {a}
        /\ \A m \in Connections : m # n => callback'[m] = callback[m]
        /\ \/ a = "Boost" /\ callback'[n].request = "none"
           \/ a # "Boost" /\ callback'[n].request = r /\ callback'[n].at = AfterFlag[a]
    BY <1>11, <2>1 DEF AssignFlag, Basics, TypeOK, Control!Ask, Control!Withdraw, NoCallback
  <2>3. \A m \in Connections : Owing(m, k)' => Owing(m, k)
    <3>1. Past(a) \subseteq Past(AfterFlag[a]) \/ a = "Boost"
      BY <2>1, FlagOrder DEF Requests, Control!Requests
    <3> QED
      BY <2>2, <3>1 DEF Owing, Past, Requests, Control!Requests
  <2>4. IsFiniteSet(Sent(k)') /\ Cardinality(Sent(k)') <= Cardinality(Sent(k))
    BY <1>0, <1>1, <2>2, <2>3, OwesNoMore
  <2>5. CASE ~(a = r /\ a = k)
    <3>1. /\ served'[k] + Flag(pending', k) <= served[k] + Flag(pending, k)
          /\ clicked'[k] >= clicked[k]
      BY <1>0, <2>2, <2>5
    <3> HIDE DEF Flag
    <3> QED
      BY <1>2, <2>4, <3>1
(* The callback's own flag: the click is no longer under way, but pending.    *)
  <2>6. CASE a = r /\ a = k
    <3> DEFINE place == <<n, 0>>
    <3>1. place \in Sent(k)
      BY <2>1, <2>6 DEF Sent, Owing, Past, Requests, Control!Requests
    <3>2. ~Owing(n, k)'
      BY <2>1, <2>2, <2>6 DEF Owing, Past, AfterFlag, Requests, Control!Requests
    <3>3. Sent(k)' \in SUBSET (Sent(k) \ {place})
      BY <2>2, <2>3, <3>2 DEF Sent, Connections
    <3> HIDE DEF place
    <3>4. IsFiniteSet(Sent(k) \ {place}) /\ Cardinality(Sent(k) \ {place}) = Cardinality(Sent(k)) - 1
      BY <1>1, <3>1, FS_RemoveElement
    <3>5. Cardinality(Sent(k)') <= Cardinality(Sent(k)) - 1 /\ Cardinality(Sent(k)') \in Nat
      BY <2>4, <3>3, <3>4, FS_Subset, Countable
    <3>6. /\ Flag(pending, k) \in Nat /\ Flag(pending', k) = 1
          /\ served[k] \in Nat /\ served'[k] = served[k]
          /\ clicked[k] \in Nat /\ clicked'[k] = clicked[k]
      BY <1>0, <2>2, <2>6
    <3>7. /\ Cardinality(Sent(k)) \in Nat
          /\ served[k] + Flag(pending, k) + Cardinality(Sent(k)) <= clicked[k]
      BY <1>1
    <3> HIDE DEF Flag
    <3> QED
      BY <2>4, <3>5, <3>6, <3>7
  <2> QED
    BY <2>5, <2>6
<1>12. ASSUME NEW q \in Requests, Serve(q) PROVE Goal
  <2>1. /\ UNCHANGED <<wire, callback, clicked>>
        /\ q \in pending /\ pending' = pending \ {q}
        /\ served' = [served EXCEPT ![q] = @ + 1]
    BY <1>12 DEF Serve, Control!Serve
  <2>2. \A m \in Connections : Owing(m, k)' => Owing(m, k)
    BY <2>1 DEF Owing, Past
  <2>3. IsFiniteSet(Sent(k)') /\ Cardinality(Sent(k)') <= Cardinality(Sent(k))
    BY <1>0, <1>1, <2>1, <2>2, OwesNoMore
  <2>4. /\ served'[k] + Flag(pending', k) <= served[k] + Flag(pending, k)
        /\ clicked'[k] >= clicked[k]
    BY <1>0, <2>1
  <2> HIDE DEF Flag
  <2> QED
    BY <1>2, <2>3, <2>4
<1> QED
  BY <1>6, <1>7, <1>8, <1>9, <1>10, <1>11, <1>12 DEF Next, ClientThread, Controller

(* No click is served twice, whatever becomes of its connection: a flag that  *)
(* is set and a click under way each belong to a click that was not served.   *)
THEOREM ServedOnceSafety == Spec => []ServedAtMostOnce
<1>1. Init => Basics /\ CountInv
  <2> SUFFICES ASSUME Init PROVE CountInv
    BY InitBasics
  <2> USE DEF Init, Control!Init, Requests, Control!Requests
  <2>1. \A k \in Requests : Sent(k) = {}
    BY DEF Sent, Owing, NoCallback
  <2>2. \A k \in Requests : served[k] = 0 /\ clicked[k] = 0 /\ k \notin pending
    OBVIOUS
  <2>3. IsFiniteSet({}) /\ Cardinality({}) = 0
    BY FS_EmptySet
  <2>4. ASSUME NEW k \in Requests
        PROVE  /\ IsFiniteSet(Sent(k))
               /\ served[k] + (IF k \in pending THEN 1 ELSE 0) + Cardinality(Sent(k)) <= clicked[k]
    <3>1. /\ Sent(k) = {} /\ served[k] = 0 /\ clicked[k] = 0
          /\ (IF k \in pending THEN 1 ELSE 0) = 0
      BY <2>1, <2>2
    <3>2. IsFiniteSet(Sent(k)) /\ Cardinality(Sent(k)) = 0
      BY <2>3, <3>1, Zenon
    <3> QED
      BY <3>1, <3>2
  <2> QED
    BY <2>4 DEF CountInv
<1>2. Basics /\ CountInv /\ [Next]_vars => (Basics /\ CountInv)'
  BY BasicsStep, CountStep
<1>3. Basics /\ CountInv => ServedAtMostOnce
  <2> SUFFICES ASSUME Basics, CountInv, NEW k \in Requests PROVE served[k] <= clicked[k]
    BY DEF ServedAtMostOnce
  <2>1. served[k] \in Nat /\ clicked[k] \in Nat
    BY RemoteAssumption DEF Basics, TypeOK
  <2>2. /\ Cardinality(Sent(k)) \in Nat
        /\ served[k] + (IF k \in pending THEN 1 ELSE 0) + Cardinality(Sent(k)) <= clicked[k]
    BY Countable DEF CountInv
  <2> QED
    BY <2>1, <2>2
<1> QED
  BY <1>1, <1>2, <1>3, PTL DEF Spec

-----------------------------------------------------------------------------
(* A request that is sent is the last one.                                    *)
LEMMA ClickIsLast ==
    ASSUME NEW w \in Seq(Commands), NEW k \in Requests
    PROVE  LastIs(Append(w, k), k) /\ Requested(Append(w, k))
BY DEF LastIs, Requested, IsRequest, Commands

(* A poll that is sent changes nothing about the last request.                *)
LEMMA PollIsNoRequest ==
    ASSUME NEW w \in Seq(Commands), NEW k, LastIs(w, k)
    PROVE  /\ LastIs(Append(w, "status"), k)
           /\ Requested(Append(w, "status")) => Requested(w)
<1> DEFINE v == Append(w, "status")
<1>1. /\ Len(v) = Len(w) + 1 /\ Len(w) \in Nat
      /\ \A j \in 1..Len(w) : v[j] = w[j]
      /\ ~IsRequest(v[Len(w) + 1])
  BY DEF Commands, IsRequest, Requests, Control!Requests
<1> HIDE DEF v
<1>2. LastIs(v, k)
  BY <1>1 DEF LastIs
<1>3. Requested(v) => Requested(w)
  BY <1>1 DEF Requested
<1> QED
  BY <1>2, <1>3 DEF v

(* Taking a command away leaves the last request, unless it was that.         *)
LEMMA LastOfTail ==
    ASSUME NEW w \in Seq(Commands), w # << >>
    PROVE  /\ \A k : LastIs(w, k) => LastIs(Tail(w), k)
           /\ Requested(Tail(w)) => Requested(w)
           /\ Requested(w) /\ ~IsRequest(Head(w)) => Requested(Tail(w))
           /\ \A k : LastIs(w, k) /\ IsRequest(Head(w)) /\ ~Requested(Tail(w)) => Head(w) = k
<1> DEFINE v == Tail(w)
<1>1. /\ Len(w) \in Nat \ {0} /\ Len(v) = Len(w) - 1 /\ Head(w) = w[1]
      /\ \A j \in 1..Len(v) : v[j] = w[j + 1]
  OBVIOUS
<1> HIDE DEF v
<1>2. ASSUME NEW k, LastIs(w, k) PROVE LastIs(v, k)
  <2> SUFFICES ASSUME NEW j \in 1..Len(v), IsRequest(v[j]),
                      \A p \in (j + 1)..Len(v) : ~IsRequest(v[p])
               PROVE  v[j] = k
    BY DEF LastIs
  <2>1. j + 1 \in 1..Len(w) /\ IsRequest(w[j + 1]) /\ v[j] = w[j + 1]
    BY <1>1
  <2>2. ASSUME NEW p \in ((j + 1) + 1)..Len(w) PROVE ~IsRequest(w[p])
    <3>1. p - 1 \in (j + 1)..Len(v) /\ v[p - 1] = w[p]
      BY <1>1
    <3> QED
      BY <3>1
  <2> QED
    BY <1>2, <2>1, <2>2 DEF LastIs
<1>3. Requested(v) => Requested(w)
  <2> SUFFICES ASSUME NEW j \in 1..Len(v), IsRequest(v[j]) PROVE Requested(w)
    BY DEF Requested
  <2>1. j + 1 \in 1..Len(w) /\ IsRequest(w[j + 1])
    BY <1>1
  <2> QED
    BY <2>1 DEF Requested
<1>4. ASSUME NEW j \in 2..Len(w), IsRequest(w[j]) PROVE Requested(v)
  <2>1. j - 1 \in 1..Len(v) /\ v[j - 1] = w[j]
    BY <1>1
  <2> QED
    BY <1>4, <2>1 DEF Requested
<1>5. Requested(w) /\ ~IsRequest(Head(w)) => Requested(v)
  BY <1>1, <1>4 DEF Requested
<1>6. ASSUME NEW k, LastIs(w, k), IsRequest(Head(w)), ~Requested(v) PROVE Head(w) = k
  BY <1>1, <1>4, <1>6 DEF LastIs
<1> QED
  BY <1>2, <1>3, <1>5, <1>6 DEF v

(* Of a queue without requests a lost connection delivers none.               *)
LEMMA NoneInPrefix ==
    ASSUME NEW w \in Seq(Commands), ~Requested(w), NEW m \in 0..Len(w), NEW k
    PROVE  ~Requested(SubSeq(w, 1, m)) /\ LastIs(SubSeq(w, 1, m), k)
BY DEF Requested, LastIs

(* A connection carries a request in its callback or on its wire.             *)
LEMMA UnderWayOr == \A n : UnderWay(n) <=> (~Idle(n) \/ Requested(wire[n]))
BY DEF UnderWay, Requested

(* Every step keeps the order, and a click that finds no request of another    *)
(* connection under way restores it.                                          *)
LEMMA OrderStep ==
    ASSUME Basics, Basics', OrderInv, [Next]_vars
    PROVE  OrderInv'
<1> USE DEF control, link, monitor, counts
<1>1. SUFFICES ASSUME orderly' PROVE (PresentInv /\ ClearedInv /\ NewestInv)'
  BY DEF OrderInv
<1>4. /\ wire \in [Connections -> Seq(Commands)] /\ conn \in Connections
      /\ wire[conn] \in Seq(Commands)
      /\ callback \in [Connections -> [request : Requests \cup {"none"},
                                       at : Requests \cup {"none"}]]
      /\ newest \in Requests \cup {"none"} /\ pending \in SUBSET Requests
  BY DEF Basics, TypeOK, Commands
<1> DEFINE Goal == (PresentInv /\ ClearedInv /\ NewestInv)'
(* A click sends the newest request, which all others precede on its wire.    *)
<1>8. ASSUME NEW k \in Requests, Click(k), up PROVE Goal
  <2>1. UNCHANGED <<state, pending, conn, up, callback, hurried>> /\ NoOtherUnderWay
    BY <1>1, <1>8 DEF Click
  <2>2. /\ wire'[conn] = Append(wire[conn], k) /\ newest' = k
        /\ \A n \in Connections : n # conn => wire'[n] = wire[n]
    BY <1>4, <1>8 DEF Click, Transmit
  <2>3. PresentInv'
    <3>1. \A n \in Connections : n # conn => ~UnderWay(n)
      BY <2>1 DEF NoOtherUnderWay
    <3>2. \A n \in Connections : n # conn => ~UnderWay(n)'
      BY <2>1, <2>2, <3>1 DEF UnderWay, Idle, NoCallback
    <3> QED
      BY <1>8, <2>1, <3>2 DEF PresentInv
  <2>4. LastIs(wire'[conn], k) /\ Requested(wire'[conn])
    BY <1>4, <2>2, ClickIsLast
  <2>5. ClearedInv' /\ NewestInv'
    BY <2>1, <2>2, <2>4 DEF ClearedInv, NewestInv, Requested
  <2> QED
    BY <2>3, <2>5
(* Every other step leaves an order that was there.                           *)
<1> SUFFICES ASSUME \A k \in Requests : ~(up /\ Click(k)) PROVE Goal
  BY <1>8
<1>2. orderly
  BY <1>1 DEF Next, Poll, ReceiveStatus, UpdateStatus, LoseLink, Reconnect, Controller,
              FollowWindow, Serve, LookAtClock, Click, ClientThread, ReplyStatus, CallBack,
              AssignFlag, vars
<1>3. PresentInv /\ ClearedInv /\ NewestInv
  BY <1>2 DEF OrderInv
(* Steps away from the wires, the callbacks and the controller.               *)
<1>5. ASSUME UNCHANGED <<state, pending, conn, up, wire, callback, newest, hurried>>
      PROVE  Goal
  <2>1. \A n : UnderWay(n)' <=> UnderWay(n)
    BY <1>5 DEF UnderWay, Idle, NoCallback
  <2>2. PresentInv'
    BY <1>3, <1>5, <2>1 DEF PresentInv
  <2>3. ClearedInv'
    BY <1>3, <1>5 DEF ClearedInv, Idle, NoCallback, Past
  <2>4. NewestInv'
    BY <1>3, <1>5 DEF NewestInv, LastIs, Requested, Idle, NoCallback, Stands, Past
  <2> QED
    BY <2>2, <2>3, <2>4
<1>6. CASE ReceiveStatus \/ UpdateStatus \/ LookAtClock \/ UNCHANGED vars
  <2>1. UNCHANGED <<state, pending, conn, up, wire, callback, newest, hurried>>
    BY <1>6 DEF ReceiveStatus, UpdateStatus, LookAtClock, Control!LookAtClock, vars
  <2> QED
    BY <1>5, <2>1
<1>7. CASE Poll
  <2>1. /\ UNCHANGED <<state, pending, conn, up, callback, newest, hurried>>
        /\ wire'[conn] = Append(wire[conn], "status")
        /\ \A n \in Connections : n # conn => wire'[n] = wire[n]
        /\ up
    BY <1>4, <1>7 DEF Poll, Transmit
  <2>2. PresentInv'
    <3>1. \A n \in Connections : n # conn => ~UnderWay(n)
      BY <1>3 DEF PresentInv
    <3>2. \A n \in Connections : n # conn => ~UnderWay(n)'
      BY <2>1, <3>1 DEF UnderWay, Idle, NoCallback
    <3> QED
      BY <2>1, <3>2 DEF PresentInv
  <2>3. ClearedInv'
    <3>1. Requested(wire[conn]) => Requested(Append(wire[conn], "status"))
      BY <1>4 DEF Requested, Commands
    <3> QED
      BY <1>3, <2>1, <3>1 DEF ClearedInv, Idle, NoCallback, Past, Requested
  <2>4. ASSUME newest # "none"
        PROVE  /\ LastIs(wire'[conn], newest)
               /\ Requested(wire'[conn]) <=> Requested(wire[conn])
    <3>1. LastIs(wire[conn], newest)
      BY <1>3, <2>4 DEF NewestInv
    <3>2. Requested(wire[conn]) => Requested(Append(wire[conn], "status"))
      BY <1>4 DEF Requested, Commands
    <3> QED
      BY <1>4, <2>1, <3>1, <3>2, PollIsNoRequest
  <2>5. NewestInv'
    BY <1>3, <2>1, <2>4
    DEF NewestInv, Idle, NoCallback, Stands, Past
  <2> QED
    BY <2>2, <2>3, <2>5
<1>17. ASSUME NEW k \in Requests, Click(k) PROVE Goal
  <2>1. ~up
    BY <1>17
  <2> QED
    BY <1>5, <1>17, <2>1 DEF Click
<1>9. CASE LoseLink
  <2>1. /\ UNCHANGED <<state, pending, conn, callback, newest, hurried>>
        /\ ~UnderWay(conn)
    BY <1>1, <1>9 DEF LoseLink
  <2>2. Idle(conn) /\ ~Requested(wire[conn])
    BY <2>1, UnderWayOr
  <2>3. PICK m \in 0..Len(wire[conn]) : wire' = [wire EXCEPT ![conn] = SubSeq(@, 1, m)]
    BY <1>9 DEF LoseLink
  <2>4. /\ wire'[conn] = SubSeq(wire[conn], 1, m)
        /\ \A n \in Connections : n # conn => wire'[n] = wire[n]
    BY <1>4, <2>3
  <2>5. ~Requested(wire'[conn]) /\ LastIs(wire'[conn], newest)
    BY <1>4, <2>2, <2>4, NoneInPrefix
  <2>6. PresentInv'
    <3>1. \A n \in Connections : ~UnderWay(n)
      BY <1>3, <2>1 DEF PresentInv
    <3>2. \A n \in Connections : n # conn => ~UnderWay(n)'
      BY <2>1, <2>4, <3>1 DEF UnderWay, Idle, NoCallback
    <3>3. \A n \in Connections : n = conn => ~UnderWay(n)'
      BY <2>1, <2>2, <2>5 DEF UnderWay, Requested, Idle, NoCallback
    <3> QED
      BY <3>2, <3>3 DEF PresentInv
  <2>7. ClearedInv'
    BY <2>1, <2>2 DEF ClearedInv, Idle, NoCallback, Past, Requested
  <2>8. NewestInv'
    BY <1>3, <2>1, <2>2, <2>5 DEF NewestInv, Idle, NoCallback, Stands
  <2> QED
    BY <2>6, <2>7, <2>8
<1>10. CASE Reconnect
  <2>1. /\ UNCHANGED <<state, pending, wire, callback, newest, hurried>>
        /\ ~up /\ conn' = conn + 1 /\ conn' \in Connections
    BY <1>10 DEF Reconnect, Basics, TypeOK
  <2>2. \A n \in Connections : ~UnderWay(n)
    BY <1>3, <2>1 DEF PresentInv
  <2>3. PresentInv'
    BY <2>1, <2>2 DEF PresentInv, UnderWay, Idle, NoCallback
  <2>4. Idle(conn) /\ ~Requested(wire[conn]) /\ callback'[conn'] = NoCallback
    BY <1>4, <2>1, <2>2, UnderWayOr DEF Idle
  <2>5. wire'[conn'] = << >>
    BY <1>4, <2>1 DEF Basics, LinkInv, Connections
  <2>6. ClearedInv'
    BY <2>4 DEF ClearedInv, Idle, NoCallback
  <2>7. NewestInv'
    BY <1>3, <2>1, <2>4, <2>5 DEF NewestInv, LastIs, Requested, Idle, NoCallback, Stands
  <2> QED
    BY <2>3, <2>6, <2>7
<1>11. CASE FollowWindow
  <2>1. UNCHANGED <<pending, conn, up, wire, callback, hurried>>
    BY <1>11 DEF FollowWindow, Control!EnterOffPeak, Control!LeaveOffPeak
  <2>2. PresentInv'
    BY <1>3, <2>1 DEF PresentInv, UnderWay, Idle, NoCallback
  <2>3. ClearedInv'
    BY <1>3, <2>1 DEF ClearedInv, Idle, NoCallback, Past, Requested
  <2>4. NewestInv'
    <3>1. CASE newest' = "none"
      BY <3>1 DEF NewestInv
    <3>2. CASE newest' = newest /\ newest # "none"
      <4>1. \A k \in Requests : Control!StateFor[k] # "OFF_PEAK"
        BY DEF Requests, Control!Requests, Control!StateFor
      <4>2. state = "OFF_PEAK"
        BY <1>11, <3>2 DEF FollowWindow, Control!LeaveOffPeak
      <4> QED
        BY <1>3, <1>4, <2>1, <3>2, <4>1, <4>2
        DEF NewestInv, LastIs, Requested, Idle, NoCallback, Stands, Past
    <3> QED
      BY <1>11, <3>1, <3>2 DEF FollowWindow
  <2> QED
    BY <2>2, <2>3, <2>4
<1>12. ASSUME NEW k \in Requests, Serve(k) PROVE Goal
  <2>1. /\ UNCHANGED <<conn, up, wire, callback, newest>>
        /\ k \in pending /\ pending' = pending \ {k} /\ state' = Control!StateFor[k]
        /\ ~hurried /\ hurried' = (\E n \in Connections : ~Idle(n))
    BY <1>1, <1>12 DEF Serve, Control!Serve
  <2>2. PresentInv'
    BY <1>3, <2>1 DEF PresentInv, UnderWay, Idle, NoCallback
  <2>3. ClearedInv'
    BY <1>3, <2>1 DEF ClearedInv, Idle, NoCallback, Past, Requested
  <2>4. NewestInv'
    <3>1. CASE newest = "none"
      BY <2>1, <3>1 DEF NewestInv
    <3>2. CASE newest # "none" /\ Idle(conn)
      BY <1>3, <2>1, <3>2 DEF NewestInv, LastIs, Requested, Idle, NoCallback, Stands
    <3>3. CASE newest # "none" /\ ~Idle(conn)
      <4>1. hurried'
        BY <1>4, <2>1, <3>3
      <4> QED
        BY <1>3, <2>1, <3>3, <4>1 DEF NewestInv, LastIs, Requested, Idle, NoCallback, Past
    <3> QED
      BY <3>1, <3>2, <3>3
  <2> QED
    BY <2>2, <2>3, <2>4
<1>13. ASSUME NEW n \in Connections, Received(n)
       PROVE  /\ wire[n] \in Seq(Commands) /\ wire[n] # << >> /\ Idle(n)
              /\ wire'[n] = Tail(wire[n])
              /\ \A m \in Connections : m # n => wire'[m] = wire[m]
              /\ \A k : LastIs(wire[n], k) => LastIs(wire'[n], k)
              /\ Requested(wire'[n]) => Requested(wire[n])
  <2>1. /\ wire[n] \in Seq(Commands) /\ wire[n] # << >> /\ Idle(n)
        /\ wire'[n] = Tail(wire[n])
        /\ \A m \in Connections : m # n => wire'[m] = wire[m]
    BY <1>4, <1>13 DEF Received
  <2> QED
    BY <2>1, LastOfTail
<1>14. ASSUME NEW n \in Connections, ReplyStatus(n) PROVE Goal
  <2>1. /\ Received(n) /\ ~IsRequest(Head(wire[n]))
        /\ UNCHANGED <<state, pending, conn, up, callback, newest, hurried>>
    BY <1>14 DEF ReplyStatus, First, IsRequest, Requests, Control!Requests
  <2>2. \A m \in Connections : Requested(wire'[m]) <=> Requested(wire[m])
    BY <1>13, <2>1, LastOfTail
  <2>3. \A m \in Connections : \A k : LastIs(wire[m], k) => LastIs(wire'[m], k)
    BY <1>13, <2>1
  <2>4. PresentInv'
    <3>1. \A m \in Connections : UnderWay(m)' => UnderWay(m)
      BY <2>1, <2>2 DEF UnderWay, Requested, Idle, NoCallback
    <3> QED
      BY <1>3, <2>1, <3>1 DEF PresentInv
  <2>5. ClearedInv'
    BY <1>3, <1>4, <2>1, <2>2 DEF ClearedInv, Idle, NoCallback, Past, Requested
  <2>6. NewestInv'
    BY <1>3, <1>4, <2>1, <2>2, <2>3 DEF NewestInv, Idle, NoCallback, Stands, Past
  <2> QED
    BY <2>4, <2>5, <2>6
<1>15. ASSUME NEW n \in Connections, CallBack(n) PROVE Goal
  <2>1. /\ Received(n) /\ IsRequest(Head(wire[n]))
        /\ UNCHANGED <<state, pending, conn, up, newest, hurried>>
        /\ callback'[n] = [request |-> Head(wire[n]), at |-> "Grid"]
        /\ \A m \in Connections : m # n => callback'[m] = callback[m]
    BY <1>4, <1>15 DEF CallBack, First
  <2>2. n = conn /\ up
    <3>1. Requested(wire[n])
      BY <1>13, <2>1 DEF Requested
    <3> QED
      BY <1>3, <3>1, UnderWayOr DEF PresentInv
  <2>3. PresentInv'
    <3>1. \A m \in Connections : m # conn => ~UnderWay(m)
      BY <1>3 DEF PresentInv
    <3>2. \A m \in Connections : m # conn => ~UnderWay(m)'
      BY <1>13, <2>1, <2>2, <3>1 DEF UnderWay, Idle, NoCallback
    <3> QED
      BY <2>1, <2>2, <3>2 DEF PresentInv
  <2>4. Past(callback'[conn].at) = {} /\ ~Idle(conn)'
    <3>1. Past("Grid") = {}
      BY FlagOrder
    <3>2. Head(wire[n]) # "none"
      BY <2>1 DEF IsRequest, Requests, Control!Requests
    <3> QED
      BY <2>1, <2>2, <3>1, <3>2 DEF Idle, NoCallback
  <2>5. ClearedInv'
    BY <2>1, <2>2, <2>4 DEF ClearedInv, Past
  <2>6. NewestInv'
    <3> SUFFICES ASSUME newest # "none"
                 PROVE  /\ LastIs(wire'[conn], newest)
                        /\ ~Requested(wire'[conn]) => callback'[conn].request = newest
      BY <2>1, <2>4 DEF NewestInv, Past
    <3>1. LastIs(wire[conn], newest)
      BY <1>3 DEF NewestInv
    <3>2. ~Requested(wire'[conn]) => Head(wire[conn]) = newest
      BY <1>13, <2>1, <2>2, <3>1, LastOfTail
    <3> QED
      BY <1>13, <2>1, <2>2, <3>1, <3>2
  <2> QED
    BY <2>3, <2>5, <2>6
<1>16. ASSUME NEW n \in Connections, AssignFlag(n) PROVE Goal
  <2> DEFINE a == callback[n].at
             r == callback[n].request
  <2>1. /\ a \in Requests /\ r \in Requests /\ ~Idle(n)
    BY <1>16 DEF AssignFlag, Basics, CallbackInv, Idle, NoCallback
  <2>2. n = conn /\ up
    BY <1>3, <2>1, UnderWayOr DEF PresentInv
  <2>3. /\ UNCHANGED <<state, conn, up, wire, newest>>
        /\ pending' = IF a = r THEN pending \cup {a} ELSE pending \ {a}
        /\ \A m \in Connections : m # n => callback'[m] = callback[m]
        /\ \/ a = "Boost" /\ callback'[n] = NoCallback
           \/ /\ a # "Boost" /\ callback'[n].request = r /\ callback'[n].at = AfterFlag[a]
              /\ callback'[n] # NoCallback /\ hurried' = hurried
    <3>1. /\ UNCHANGED <<state, conn, up, wire, newest>>
          /\ pending' = IF a = r THEN pending \cup {a} ELSE pending \ {a}
      BY <1>16, <2>1 DEF AssignFlag, Control!Ask, Control!Withdraw
    <3>2. /\ callback' = [callback EXCEPT ![n] =
                           IF a = "Boost" THEN NoCallback ELSE [@ EXCEPT !.at = AfterFlag[a]]]
          /\ hurried' = (hurried /\ \E m \in Connections : callback'[m] # NoCallback)
          /\ hurried \in BOOLEAN
      BY <1>16 DEF AssignFlag, Basics, TypeOK
    <3>3. \A m \in Connections : m # n => callback'[m] = callback[m]
      BY <1>4, <3>2
    <3>4. CASE a = "Boost"
      BY <1>4, <3>1, <3>2, <3>3, <3>4
    <3>5. CASE a # "Boost"
      <4>1. callback'[n].request = r /\ callback'[n].at = AfterFlag[a]
        BY <1>4, <3>2, <3>5
      <4>2. callback'[n] # NoCallback
        BY <2>1, <4>1 DEF NoCallback, Requests, Control!Requests
      <4>3. hurried' = hurried
        BY <3>2, <4>2
      <4> QED
        BY <3>1, <3>3, <3>5, <4>1, <4>2, <4>3
    <3> QED
      BY <3>4, <3>5
  <2>4. PresentInv'
    <3>1. \A m \in Connections : m # conn => ~UnderWay(m)
      BY <1>3 DEF PresentInv
    <3>2. \A m \in Connections : m # conn => ~UnderWay(m)'
      BY <2>2, <2>3, <3>1 DEF UnderWay, Idle, NoCallback
    <3> QED
      BY <2>2, <2>3, <3>2 DEF PresentInv
  <2>5. ~Requested(wire[conn]) => pending \cap Past(a) \subseteq {r}
    BY <1>3, <2>1, <2>2 DEF ClearedInv
  <2>6. ASSUME newest # "none", ~Requested(wire[conn])
        PROVE  /\ r = newest
               /\ newest \in Past(a) => \/ newest \in pending
                                        \/ hurried /\ state = Control!StateFor[newest]
    BY <1>3, <2>1, <2>2, <2>6 DEF NewestInv
(* The callback goes on to the next flag.                                     *)
  <2>7. CASE a # "Boost"
    <3>1. Past(AfterFlag[a]) = Past(a) \cup {a}
      BY <2>1, <2>7, FlagOrder DEF Requests, Control!Requests
    <3>2. ClearedInv'
      BY <2>2, <2>3, <2>5, <2>7, <3>1 DEF ClearedInv, Past, Requested
    <3>3. ASSUME newest # "none", ~Requested(wire[conn])
          PROVE  /\ callback'[conn].request = newest
                 /\ newest \in Past(callback'[conn].at) =>
                       \/ newest \in pending'
                       \/ hurried' /\ state' = Control!StateFor[newest]
      BY <2>2, <2>3, <2>6, <2>7, <3>1, <3>3
    <3>4. NewestInv'
      <4>1. callback'[conn] # NoCallback
        BY <2>2, <2>3, <2>7
      <4> QED
        BY <1>3, <2>3, <3>3, <4>1 DEF NewestInv, LastIs, Requested, Idle, NoCallback, Past
    <3> QED
      BY <2>4, <3>2, <3>4
(* The last flag is assigned: only the callback's own may be set.             *)
  <2>8. CASE a = "Boost"
    <3>1. Past(a) = {"Grid", "Batts"}
      BY <2>8, FlagOrder
    <3>2. /\ ~Requested(wire[conn]) => pending' \subseteq {r}
          /\ r = "Boost" => r \in pending'
      BY <1>4, <2>3, <2>5, <2>8, <3>1 DEF Requests, Control!Requests
    <3>3. callback'[conn] = NoCallback
      BY <2>2, <2>3, <2>8
    <3>4. ClearedInv'
      BY <2>3, <3>3 DEF ClearedInv, Idle
    <3>5. ASSUME newest # "none", ~Requested(wire[conn])
          PROVE  \/ pending' = {newest}
                 \/ pending' = {} /\ state = Control!StateFor[newest]
      <4>1. CASE r = "Boost"
        BY <2>6, <3>2, <3>5, <4>1
      <4>2. CASE r # "Boost"
        <5>1. newest \in Past(a) /\ r = newest
          BY <2>1, <2>6, <3>1, <3>5, <4>2 DEF Requests, Control!Requests
        <5>2. newest \in pending => newest \in pending'
          BY <2>3, <2>8, <4>2, <5>1
        <5> QED
          BY <2>6, <3>2, <3>5, <5>1, <5>2
      <4> QED
        BY <4>1, <4>2
    <3>6. NewestInv'
      BY <1>3, <2>3, <3>3, <3>5 DEF NewestInv, LastIs, Requested, Idle, NoCallback, Stands
    <3> QED
      BY <2>4, <3>4, <3>6
  <2> QED
    BY <2>7, <2>8
<1> QED
  BY <1>6, <1>7, <1>9, <1>10, <1>11, <1>12, <1>14, <1>15, <1>16, <1>17
  DEF Next, ClientThread, Controller

(* Each button's callback sets its own flag and clears the others, flag by     *)
(* flag: once all commands have been obeyed, only the newest request is       *)
(* pending or nothing is and it has been served, unless it met off-peak or     *)
(* was disordered, which the next click mends.                                *)
THEOREM NewestSafety == Spec => []NewestStands
<1>1. Init => Basics /\ OrderInv
  <2> SUFFICES ASSUME Init PROVE OrderInv
    BY InitBasics
  <2> USE DEF Init
  <2>1. \A n \in Connections : Idle(n) /\ ~Requested(wire[n])
    BY DEF Idle, Requested
  <2>2. conn \in Connections /\ newest = "none"
    BY RemoteAssumption DEF Connections
  <2> QED
    BY <2>1, <2>2, UnderWayOr DEF OrderInv, PresentInv, ClearedInv, NewestInv
<1>2. Basics /\ OrderInv /\ [Next]_vars => (Basics /\ OrderInv)'
  BY BasicsStep, OrderStep
<1>3. Basics /\ OrderInv => NewestStands
  <2> SUFFICES ASSUME Basics, OrderInv, newest # "none", orderly,
                      \A n \in Connections : ~UnderWay(n)
               PROVE  Stands(newest)
    BY DEF NewestStands, Stands
  <2>1. Idle(conn) /\ ~Requested(wire[conn])
    BY UnderWayOr DEF Basics, TypeOK
  <2> QED
    BY <2>1 DEF OrderInv, NewestInv
<1> QED
  BY <1>1, <1>2, <1>3, PTL DEF Spec

-----------------------------------------------------------------------------
(* To its user this is StatusFeed, whatever else the wires carry.            *)

(* The statuses asked for on this connection: as polls, or as replies.       *)
Asked == IF up THEN Cardinality(Polls(wire[conn])) + Len(replies) ELSE 0

(* What was asked for, in the next state.                                    *)
LEMMA NextAsked ==
    Asked' = IF up' THEN Cardinality(Polls(wire'[conn'])) + Len(replies') ELSE 0
BY DEF Asked, Polls, IsRequest, Requests, Control!Requests

(* A step that the user cannot tell from none.                               *)
LEMMA FeedStutters ==
    ASSUME UNCHANGED <<up, monitor>>, Asked' = Asked
    PROVE  [Feed!Next]_Feed!vars
<1>1. UNCHANGED Feed!vars
  <2>1. UNCHANGED <<IF up THEN "up" ELSE "down", Asked>>
    BY Zenon
  <2> QED
    BY <2>1 DEF Feed!vars, Asked, monitor
<1> QED
  BY <1>1

LEMMA InitFeed == Init => Feed!Init
<1> SUFFICES ASSUME Init PROVE Feed!Init
  OBVIOUS
<1>1. ~up /\ updates = 0 /\ status \in States /\ view = "changing"
  BY DEF Init, States
<1> QED
  BY <1>1 DEF Feed!Init

(* The monitor's own steps are steps of the feed.                            *)
LEMMA MonitorFeed ==
    ASSUME Basics, Poll \/ ReceiveStatus \/ UpdateStatus \/ \E k \in Requests : Click(k)
    PROVE  [Feed!Next]_Feed!vars
<1>0. /\ wire[conn] \in Seq(Commands) /\ conn \in Connections
      /\ wire \in [Connections -> Seq(Commands)]
      /\ Cardinality(Polls(wire[conn])) \in Nat /\ Len(replies) \in Nat
  BY InFlightType DEF Basics, TypeOK, Commands
<1>1. CASE Poll
  <2>1. /\ up /\ up' = up /\ UNCHANGED <<status, updates, view>>
        /\ conn' = conn /\ replies' = replies
        /\ wire'[conn'] = Append(wire[conn], "status")
    BY <1>0, <1>1 DEF Poll, Transmit, monitor
  <2>2. "status" \in Commands /\ ~IsRequest("status")
    BY DEF Commands, IsRequest, Requests, Control!Requests
  <2>3. Cardinality(Polls(wire'[conn'])) = Cardinality(Polls(wire[conn])) + 1
    BY <1>0, <2>1, <2>2, PollsAppend
  <2>4. Asked' = Asked + 1
    BY <1>0, <2>1, <2>3, NextAsked DEF Asked
  <2>5. Feed!Ask
    BY <2>1, <2>4, Zenon DEF Feed!Ask, Asked
  <2> QED
    BY <2>5 DEF Feed!Next
<1>2. CASE ReceiveStatus
  <2>1. /\ up /\ up' = up /\ conn' = conn /\ wire' = wire /\ view' = view
        /\ updates' = updates + 1
        /\ status' \in States /\ Len(replies) > 0 /\ Len(replies') = Len(replies) - 1
    BY <1>2 DEF ReceiveStatus, Basics, TypeOK
  <2>2. Asked' = Asked - 1 /\ Asked > 0
    BY <1>0, <2>1, NextAsked DEF Asked
  <2>3. "up" # "down"
    OBVIOUS
  <2>4. Feed!Receive
    BY <2>1, <2>2, <2>3, Zenon DEF Feed!Receive, Asked
  <2> QED
    BY <2>4 DEF Feed!Next
<1>3. CASE UpdateStatus
  <2>1. /\ updates > 0 /\ updates' = updates - 1 /\ view' = status /\ status' = status
        /\ UNCHANGED <<up, wire, conn, replies>>
    BY <1>3 DEF UpdateStatus, link
  <2>2. Asked' = Asked
    BY <2>1, NextAsked DEF Asked
  <2>3. Feed!Show
    BY <2>1, <2>2, Zenon DEF Feed!Show, Asked
  <2> QED
    BY <2>3 DEF Feed!Next
<1>4. ASSUME NEW k \in Requests, Click(k) PROVE [Feed!Next]_Feed!vars
  <2>1. /\ view' = "changing" /\ UNCHANGED <<up, status, updates, conn, replies>>
    BY <1>4 DEF Click
  <2>2. up => Cardinality(Polls(wire'[conn'])) = Cardinality(Polls(wire[conn]))
    <3>1. k \in Commands /\ IsRequest(k)
      BY DEF Commands, IsRequest
    <3>2. up => wire'[conn'] = Append(wire[conn], k)
      BY <1>0, <1>4, <2>1 DEF Click, Transmit
    <3>3. Cardinality(Polls(Append(wire[conn], k))) = Cardinality(Polls(wire[conn]))
      BY <1>0, <3>1, PollsAppend
    <3> QED
      BY <3>2, <3>3
  <2>3. Asked' = Asked
    BY <2>1, <2>2, NextAsked DEF Asked
  <2>4. Feed!Hide
    BY <2>1, <2>3, Zenon DEF Feed!Hide, Asked
  <2> QED
    BY <2>4 DEF Feed!Next
<1> QED
  BY <1>1, <1>2, <1>3, <1>4

(* So are the loss of a connection, with all that was asked for on it, and   *)
(* its replacement by one on which nothing has been sent.                    *)
LEMMA LinkFeed ==
    ASSUME Basics, LoseLink \/ Reconnect
    PROVE  [Feed!Next]_Feed!vars
<1>1. CASE LoseLink
  <2>1. up /\ ~up' /\ UNCHANGED <<status, updates, view>>
    BY <1>1 DEF LoseLink, monitor
  <2>2. Asked' = 0
    BY <2>1, NextAsked
  <2>3. "up" # "down"
    OBVIOUS
  <2>4. Feed!Lose
    BY <2>1, <2>2, <2>3, Zenon DEF Feed!Lose, Asked
  <2> QED
    BY <2>4 DEF Feed!Next
<1>2. CASE Reconnect
  <2>1. /\ ~up /\ up' /\ conn' = conn + 1 /\ conn < MaxConnections
        /\ UNCHANGED <<wire, replies, status, updates, view>>
    BY <1>2 DEF Reconnect, monitor
  <2>2. conn' \in Connections /\ conn' > conn
    BY <2>1, RemoteAssumption DEF Basics, TypeOK, Connections
  <2>3. wire'[conn'] = << >> /\ replies' = << >>
    BY <2>1, <2>2 DEF Basics, LinkInv
  <2>4. Polls(wire'[conn']) = {} /\ Len(replies') = 0
    BY <2>3 DEF Polls
  <2>5. Cardinality(Polls(wire'[conn'])) + Len(replies') = 0
    BY <2>4, FS_EmptySet
  <2>6. Asked = 0 /\ Asked' = 0
    BY <2>1, <2>5, NextAsked DEF Asked
  <2>7. Asked' = Asked
    BY <2>6
  <2>8. Feed!Connect
    BY <2>1, <2>7, Zenon DEF Feed!Connect, Asked
  <2> QED
    BY <2>8 DEF Feed!Next
<1> QED
  BY <1>1, <1>2

(* A thread of the server turns a poll into a reply if the connection is      *)
(* still there; everything else it does is hidden from the user.             *)
LEMMA ThreadFeed ==
    ASSUME Basics, NEW n \in Connections, ClientThread(n)
    PROVE  [Feed!Next]_Feed!vars
<1>0. /\ conn \in Connections /\ Len(replies) \in Nat
      /\ Cardinality(Polls(wire[conn])) \in Nat
  BY InFlightType DEF Basics, TypeOK
<1>1. UNCHANGED <<up, monitor, conn>>
  BY DEF ClientThread, ReplyStatus, CallBack, AssignFlag
<1>2. ASSUME Received(n)
      PROVE  /\ Cardinality(Polls(wire'[conn])) \in Nat
             /\ Cardinality(Polls(wire'[conn]))
                  + (IF n = conn /\ ~IsRequest(First(n)) THEN 1 ELSE 0)
                  = Cardinality(Polls(wire[conn]))
  BY <1>2, ReceivedStep DEF Basics
<1>3. CASE ReplyStatus(n)
  <2>1. Received(n) /\ ~IsRequest(First(n))
    BY <1>3 DEF ReplyStatus, IsRequest, Requests, Control!Requests
  <2>2. Len(replies') = IF n = conn /\ up THEN Len(replies) + 1 ELSE Len(replies)
    BY <1>3 DEF ReplyStatus, Basics, TypeOK
  <2>3. Cardinality(Polls(wire'[conn'])) =
          IF n = conn THEN Cardinality(Polls(wire[conn])) - 1
                      ELSE Cardinality(Polls(wire[conn]))
    BY <1>0, <1>1, <1>2, <2>1
  <2>4. Asked' = Asked
    BY <1>0, <1>1, <2>2, <2>3, NextAsked DEF Asked
  <2> QED
    BY <1>1, <2>4, FeedStutters
<1>4. CASE CallBack(n)
  <2>1. Received(n) /\ IsRequest(First(n)) /\ replies' = replies
    BY <1>4 DEF CallBack
  <2>2. Cardinality(Polls(wire'[conn'])) = Cardinality(Polls(wire[conn]))
    BY <1>0, <1>1, <1>2, <2>1
  <2>3. Asked' = Asked
    BY <1>1, <2>1, <2>2, NextAsked DEF Asked
  <2> QED
    BY <1>1, <2>3, FeedStutters
<1>5. CASE AssignFlag(n)
  <2>1. wire' = wire /\ replies' = replies
    BY <1>5 DEF AssignFlag
  <2>2. Asked' = Asked
    BY <1>1, <2>1, NextAsked DEF Asked
  <2> QED
    BY <1>1, <2>2, FeedStutters
<1> QED
  BY <1>3, <1>4, <1>5 DEF ClientThread

LEMMA StepFeed == Basics /\ [Next]_vars => [Feed!Next]_Feed!vars
<1> SUFFICES ASSUME Basics, [Next]_vars PROVE [Feed!Next]_Feed!vars
  OBVIOUS
<1>1. CASE Controller \/ LookAtClock \/ UNCHANGED vars
  <2>1. UNCHANGED <<up, monitor, wire, conn, replies>>
    BY <1>1 DEF Controller, FollowWindow, Serve, LookAtClock, vars, link
  <2>2. Asked' = Asked
    BY <2>1, NextAsked DEF Asked
  <2> QED
    BY <2>1, <2>2, FeedStutters
<1>2. CASE Poll \/ ReceiveStatus \/ UpdateStatus \/ \E k \in Requests : Click(k)
  BY <1>2, MonitorFeed
<1>3. CASE LoseLink \/ Reconnect
  BY <1>3, LinkFeed
<1>4. CASE \E n \in Connections : ClientThread(n)
  BY <1>4, ThreadFeed
<1> QED
  BY <1>1, <1>2, <1>3, <1>4 DEF Next

(* Whatever becomes of connections and commands, the user of the monitor sees  *)
(* a StatusFeed: a status for every one asked for on the connection that      *)
(* lasts, announced once, and nothing else on the window.                     *)
THEOREM Refinement == Spec => ImplementsStatusFeed
<1>1. Basics /\ [Next]_vars => Basics'
  BY BasicsStep
<1> QED
  BY InitBasics, InitFeed, <1>1, StepFeed, PTL DEF Spec, ImplementsStatusFeed, Feed!Spec
==============================================================================
