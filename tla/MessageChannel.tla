---------------------------- MODULE MessageChannel ----------------------------
(***************************************************************************)
(* What the comms protocol keeps of a promise to its users: the receiver's *)
(* callbacks are given the messages that were sent, unchanged, once each   *)
(* and in the order of sending -- until the channel breaks, which it does  *)
(* as soon as one recv() returns an object together with what follows it.  *)
(* CommsProtocol implements this.                                          *)
(***************************************************************************)
EXTENDS Sequences, Integers

CONSTANT Messages

VARIABLES sent, received, broken

vars == <<sent, received, broken>>

Init == sent = << >> /\ received = << >> /\ broken = FALSE

Send == \E m \in Messages : sent' = Append(sent, m) /\ UNCHANGED <<received, broken>>

Deliver ==
    /\ ~broken
    /\ Len(received) < Len(sent)
    /\ received' = Append(received, sent[Len(received) + 1])
    /\ UNCHANGED <<sent, broken>>

Break == broken' = TRUE /\ UNCHANGED <<sent, received>>

(* A broken channel may deliver anything, but takes nothing back.           *)
Garble ==
    /\ broken
    /\ SubSeq(received', 1, Len(received)) = received
    /\ UNCHANGED <<sent, broken>>

Next == Send \/ Deliver \/ Break \/ Garble

Spec == Init /\ [][Next]_vars
===============================================================================
