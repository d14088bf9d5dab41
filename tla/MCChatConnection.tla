------------------------- MODULE MCChatConnection -------------------------
(* ChatConnection on a small instance: one page that opens a few sockets.   *)
EXTENDS ChatConnection, TLC
=============================================================================
