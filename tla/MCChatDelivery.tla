-------------------------- MODULE MCChatDelivery ---------------------------
(* ChatDelivery on small instances: conversations that everyone is in, with *)
(* one row in a conversation list.                                          *)
EXTENDS ChatDelivery, TLC

MCMembers == [c \in Convs |-> Users]
OneRow    == [c \in Convs |-> 1]

Symmetry == Permutations(Users) \cup Permutations(Convs) \cup Permutations(Msgs)
            \cup Permutations(Sessions) \cup Permutations(Fetches)
=============================================================================
