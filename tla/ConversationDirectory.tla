----------------------- MODULE ConversationDirectory -----------------------
(***************************************************************************)
(* What the conversation service promises, without lookups, races, tables  *)
(* and half-made rows.  A workspace gets one room for everybody, once and  *)
(* for good.  A room for two persons is there with both of them in it, and *)
(* stays theirs.  A caller is told of one room: that of the workspace, or  *)
(* of the two persons, it asked for.  ChatConversations implements this.   *)
(***************************************************************************)
CONSTANTS Workspaces, Persons, Callers, Ids,
          Nothing   \* what a caller has been told before it is told of a room

VARIABLES rooms,    \* the rooms there are
          told      \* the room each caller was told of

(* A room for everybody, or for two persons.                                *)
Everybody == {}
Pairs     == {{a, b} : a, b \in Persons} \ {{a} : a \in Persons}
Room      == [id : Ids, ws : Workspaces, who : Pairs \cup {Everybody}]

Init ==
    /\ rooms \subseteq {room \in Room : room.who = Everybody}
    /\ \A x, y \in rooms : x.id = y.id \/ x.ws = y.ws => x = y
    /\ told = [r \in Callers |-> Nothing]

Open(room) ==
    /\ \A x \in rooms : x.id # room.id
    /\ room.who = Everybody =>
         \A x \in rooms : x.who = Everybody => x.ws # room.ws
    /\ rooms' = rooms \cup {room}

Tell(r, room) ==
    /\ told[r] = Nothing
    /\ told' = [told EXCEPT ![r] = room]

(* A caller may be told of a room in the very step that opens it.           *)
Next ==
    /\ (\E room \in Room : Open(room)) \/ UNCHANGED rooms
    /\ (\E r \in Callers, room \in rooms' : Tell(r, room)) \/ UNCHANGED told

Spec == Init /\ [][Next]_<<rooms, told>>
=============================================================================
