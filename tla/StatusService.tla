---------------------------- MODULE StatusService ----------------------------
(***************************************************************************)
(* What the TCP server promises a remote client, with neither threads, nor *)
(* descriptors, nor timeouts: a session that was opened stays open as long *)
(* as the client behaves and the server runs; every answer is to a request *)
(* of that session; and once closed a session stays closed.                *)
(* TcpServer implements it as long as new threads start promptly.          *)
(***************************************************************************)
EXTENDS Naturals

CONSTANT Clients

VARIABLES
    session,    \* away, open or closed
    asked,      \* requests not answered yet
    excused,    \* clients still open that left, fell silent or talked nonsense
    stopping    \* the server has been told to end

vars == <<session, asked, excused, stopping>>

Init ==
    /\ session = [c \in Clients |-> "away"]
    /\ asked = [c \in Clients |-> 0]
    /\ excused = {} /\ stopping = FALSE

Open(c) ==
    /\ session[c] = "away"
    /\ session' = [session EXCEPT ![c] = "open"]
    /\ UNCHANGED <<asked, excused, stopping>>

(* No thread could be created for the connection.                           *)
Refuse(c) ==
    /\ session[c] = "away"
    /\ session' = [session EXCEPT ![c] = "closed"]
    /\ UNCHANGED <<asked, excused, stopping>>

Ask(c) ==
    /\ session[c] = "open" /\ c \notin excused
    /\ asked' = [asked EXCEPT ![c] = @ + 1]
    /\ UNCHANGED <<session, excused, stopping>>

Answer(c) ==
    /\ session[c] = "open"
    /\ asked[c] > 0
    /\ asked' = [asked EXCEPT ![c] = @ - 1]
    /\ UNCHANGED <<session, excused, stopping>>

(* Nothing is owed any more to a client that has gone.                      *)
Excuse(c) ==
    /\ session[c] = "open"
    /\ excused' = excused \cup {c}
    /\ asked' = [asked EXCEPT ![c] = 0]
    /\ UNCHANGED <<session, stopping>>

Close(c) ==
    /\ session[c] = "open"
    /\ c \in excused \/ stopping
    /\ session' = [session EXCEPT ![c] = "closed"]
    /\ asked' = [asked EXCEPT ![c] = 0]
    /\ excused' = excused \ {c}
    /\ UNCHANGED <<stopping>>

Stop == stopping' = TRUE /\ UNCHANGED <<session, asked, excused>>

Next ==
    \/ \E c \in Clients :
          Open(c) \/ Refuse(c) \/ Ask(c) \/ Answer(c) \/ Excuse(c) \/ Close(c)
    \/ Stop

Spec == Init /\ [][Next]_vars
==============================================================================
