------------------------------ MODULE StatusFeed ------------------------------
(***************************************************************************)
(* What the monitor promises its user, with neither threads, nor sockets,  *)
(* nor bytes: a status is received only on the connection on which it was  *)
(* asked for, it is announced to the window once, and the window shows no   *)
(* state but the latest received.  TcpClient implements it, and so does    *)
(* RemoteControl, which puts the server's side in the place of chance.     *)
(***************************************************************************)
EXTENDS Naturals

CONSTANT States

VARIABLES
    link,       \* down, up, or left: given up by the server only
    asked,      \* statuses asked for on this connection and not received
    latest,     \* the state in the last status received
    news,       \* statuses received and not yet announced to the window
    shown       \* what the window shows: a state, or that it is changing

vars == <<link, asked, latest, news, shown>>

Init ==
    /\ link \in {"down", "up"} /\ asked = 0
    /\ latest \in States /\ news = 0 /\ shown \in States \cup {"changing"}

Connect ==
    /\ link = "down"
    /\ link' = "up"
    /\ UNCHANGED <<asked, latest, news, shown>>

Ask ==
    /\ link = "up"
    /\ asked' = asked + 1
    /\ UNCHANGED <<link, latest, news, shown>>

Receive ==
    /\ link # "down" /\ asked > 0
    /\ asked' = asked - 1
    /\ latest' \in States /\ news' = news + 1
    /\ UNCHANGED <<link, shown>>

(* The server gives the connection up, and may have requests left.          *)
Leave ==
    /\ link = "up"
    /\ link' = "left" /\ asked' \in 0..asked
    /\ UNCHANGED <<latest, news, shown>>

(* Nothing that was asked for on a connection outlives it.                  *)
Lose ==
    /\ link # "down"
    /\ link' = "down" /\ asked' = 0
    /\ UNCHANGED <<latest, news, shown>>

Show ==
    /\ news > 0
    /\ news' = news - 1 /\ shown' = latest
    /\ UNCHANGED <<link, asked, latest>>

Hide == shown' = "changing" /\ UNCHANGED <<link, asked, latest, news>>

Next == Connect \/ Ask \/ Receive \/ Leave \/ Lose \/ Show \/ Hide

Spec == Init /\ [][Next]_vars
===============================================================================
