---------------------------- MODULE MCCommsProtocol ----------------------------
(* Instances of CommsProtocol for TLC. *)
EXTENDS CommsProtocol

(* Payloads whose bytes could be taken for message types, if misaligned.   *)
TypeLikeBodies == {<<170, 1, 171>>, <<1, 171, 0>>}
================================================================================
