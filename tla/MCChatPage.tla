---------------------------- MODULE MCChatPage ----------------------------
(* ChatPage on a small instance: two members of a unit, one of whom has a   *)
(* profile in another unit as well.                                         *)
EXTENDS ChatPage, TLC

CONSTANTS p1, p2, u1, u2
Accounts3 == {[person |-> p1, unit |-> u1], [person |-> p2, unit |-> u1],
              [person |-> p1, unit |-> u2]}
=============================================================================
