---------------------------- MODULE MessageLog ----------------------------
(***************************************************************************)
(* What the chat promises, without sockets, queues, calls and goroutines.  *)
(* Each message is posted in the log of one conversation, once, and is     *)
(* never moved or taken out alone: an erasure cuts off all that was posted *)
(* so far.  What a user sees of a conversation gains one posted message at *)
(* a time, each at most once (also one that was erased while it was under  *)
(* way), or is replaced by a page that was the newest at some moment.      *)
(* ChatDelivery implements this.                                           *)
(***************************************************************************)
EXTENDS Naturals, Sequences, Functions

CONSTANTS Users, Convs, Msgs,
          Page    \* messages per page

VARIABLES log,    \* the messages of each conversation, in the order posted
          cuts,   \* how many messages the log had at each erasure, and 0
          views   \* what each user sees of each conversation

(* The page that was the newest when the log had n messages and the first d *)
(* of them were erased.                                                     *)
PageAt(seq, d, n) == SubSeq(seq, IF n > d + Page THEN n - Page + 1 ELSE d + 1, n)

Init ==
    /\ log = [c \in Convs |-> <<>>]
    /\ cuts = [c \in Convs |-> {0}]
    /\ views = [u \in Users |-> [c \in Convs |-> <<>>]]

Post(c, m) ==
    /\ \A d \in Convs : m \notin Range(log[d])
    /\ log' = [log EXCEPT ![c] = Append(@, m)]
    /\ UNCHANGED <<cuts, views>>

Erase ==
    /\ cuts' = [c \in Convs |-> cuts[c] \cup {Len(log[c])}]
    /\ UNCHANGED <<log, views>>

See(u, c, m) ==
    /\ m \in Range(log[c]) /\ m \notin Range(views[u][c])
    /\ views' = [views EXCEPT ![u][c] = Append(@, m)]
    /\ UNCHANGED <<log, cuts>>

(* Between the erasure at d and the moment of the page there was no other.  *)
Reload(u, c, d, n) ==
    /\ d \in cuts[c] /\ d <= n /\ \A e \in cuts[c] : e <= d \/ n <= e
    /\ views' = [views EXCEPT ![u][c] = PageAt(log[c], d, n)]
    /\ UNCHANGED <<log, cuts>>

Next ==
    \/ \E c \in Convs, m \in Msgs : Post(c, m)
    \/ Erase
    \/ \E u \in Users, c \in Convs, m \in Msgs : See(u, c, m)
    \/ \E u \in Users, c \in Convs : \E d, n \in 0 .. Len(log[c]) : Reload(u, c, d, n)

Spec == Init /\ [][Next]_<<log, cuts, views>>
=============================================================================
