------------------------ MODULE MCChatConversations ------------------------
(* ChatConversations on a small instance.  Each request inserts at most one *)
(* conversation, so one id per request and per migrated group is enough.    *)
EXTENDS ChatConversations, TLC

Symmetry == Permutations(Persons) \cup Permutations(Requests) \cup Permutations(ConvIds)
=============================================================================
