---------------------- MODULE ChatConversationsProofs ----------------------
(* Proofs about ChatConversations, for any number of workspaces, persons,   *)
(* requests and conversations.                                              *)
EXTENDS ChatConversations, TLAPS

-----------------------------------------------------------------------------
(* First layer: types, and what the program counter of a request says about *)
(* its arguments and the conversation it holds.                             *)
HoldsConv(r) ==
    \/ pc[r] \in {"dm_addA", "dm_addB"}
    \/ pc[r] \in {"read", "done"} /\ arg[r].op = "dm"

Control ==
    \A r \in Requests :
        /\ pc[r] # "idle" => arg[r] \in Arg
        /\ pc[r] = "idle" => cur[r] = NoConv
        /\ pc[r] \in {"dm_find", "dm_create", "dm_addA", "dm_addB"} => arg[r].op = "dm"
        /\ pc[r] \in {"group_get", "group_create", "list"} => arg[r].op # "dm"
        /\ HoldsConv(r) => cur[r] \in ConvIds

TInv == TypeOK /\ Control

(* The initial states, those migration 000006 leaves, satisfy the first     *)
(* layer.                                                                   *)
LEMMA InitTInv == Init => TInv
<1> SUFFICES ASSUME Init PROVE TInv
  OBVIOUS
<1>1. PICK g \in [Existing -> ConvIds], m \in [Existing -> SUBSET Persons] :
        /\ convs = {[id |-> g[w], ws |-> w, type |-> "group"] : w \in Existing}
        /\ parts = {x \in ConvIds \X Persons :
                       \E w \in Existing : x[1] = g[w] /\ x[2] \in m[w]}
  BY DEF Init
<1>2. convs \subseteq Row
  BY <1>1, ExistingAssumption DEF Row
<1>3. parts \subseteq ConvIds \X Persons
  BY <1>1
<1>4. TypeOK
  BY <1>2, <1>3, ExistingAssumption DEF Init, TypeOK
<1>5. Control
  BY DEF Init, Control, HoldsConv
<1> QED
  BY <1>4, <1>5 DEF TInv

(* Every statement of a request, every failure and every workspace creation *)
(* preserves the first layer.                                               *)
LEMMA NextTInv == TInv /\ [Next]_vars => TInv'
<1> SUFFICES ASSUME TInv, [Next]_vars PROVE TInv'
  OBVIOUS
<1> USE DEF TInv, tables, locals, history
<1>1. CASE UNCHANGED vars
  BY <1>1 DEF vars, TypeOK, Control, HoldsConv
<1>2. ASSUME NEW w \in Workspaces, CreateWorkspace(w) PROVE TInv'
  BY <1>2 DEF CreateWorkspace, TypeOK, Control, HoldsConv
<1>3. ASSUME NEW r \in Requests, Step(r) PROVE TInv'
  <2>1. ASSUME NEW x \in Arg, Begin(r, x) PROVE TInv'
    BY <2>1 DEF Begin, Goto, TypeOK, Control, HoldsConv, Active
  <2>2. CASE Resolve(r)
    BY <2>2 DEF Resolve, Goto, TypeOK, Control, HoldsConv, Active, Ended, Arg
  <2>3. CASE GetGroup(r)
    BY <2>3 DEF GetGroup, UseGroup, Groups, Goto, TypeOK, Control, HoldsConv, Active, Ended, Row
  <2>4. CASE CreateGroup(r)
    BY <2>4 DEF CreateGroup, Insert, UseGroup, Abort, Goto, TypeOK, Control, HoldsConv, Active, Ended, Row, Arg
  <2>5. CASE FindDM(r)
    BY <2>5 DEF FindDM, DMs, Goto, TypeOK, Control, HoldsConv, Active, Ended, Row
  <2>6. CASE CreateDM(r)
    BY <2>6 DEF CreateDM, Insert, Abort, Goto, TypeOK, Control, HoldsConv, Active, Ended, Row, Arg
  <2>7. CASE AddA(r)
    BY <2>7 DEF AddA, AddParticipant, Abort, Goto, TypeOK, Control, HoldsConv, Active, Ended, Arg
  <2>8. CASE AddB(r)
    BY <2>8 DEF AddB, AddParticipant, Abort, Goto, TypeOK, Control, HoldsConv, Active, Ended, Arg
  <2>9. CASE List(r)
    BY <2>9 DEF List, ListRows, Goto, TypeOK, Control, HoldsConv, Active, Ended, Row
  <2>10. CASE Read(r)
    <3>1. /\ UNCHANGED <<workspaces, convs, parts, arg, cur, faulted, known, maker>>
          /\ pc[r] = "read"
          /\ pc' = pc \/ pc' = [pc EXCEPT ![r] = "done"]
      BY <2>10 DEF Read, Goto
    <3>2. Control'
      BY <3>1 DEF TypeOK, Control, HoldsConv
    <3>3. pc' \in [Requests -> {"idle"} \cup Active \cup Ended]
      BY <3>1 DEF TypeOK, Ended
    <3>4. rows' \in [Requests -> SUBSET (Row \X SUBSET Persons)]
      BY <2>10 DEF Read, TypeOK
    <3>5. view' \in [Requests -> SUBSET (ConvIds \X SUBSET Persons)]
      <4>1. CASE arg[r].op = "dm"
        <5>1. <<cur[r], Participants(cur[r])>> \in ConvIds \X SUBSET Persons
          BY <3>1, <4>1 DEF Control, HoldsConv, Participants
        <5> QED
          BY <2>10, <4>1, <5>1 DEF Read, TypeOK
      <4>2. CASE arg[r].op # "dm"
        <5>1. ASSUME NEW row \in rows[r]
              PROVE  <<row[1].id, Participants(row[1].id)>> \in ConvIds \X SUBSET Persons
          <6>1. row \in Row \X SUBSET Persons
            BY <5>1 DEF TypeOK
          <6>2. row[1].id \in ConvIds
            BY <6>1 DEF Row
          <6>3. Participants(row[1].id) \in SUBSET Persons
            BY DEF Participants
          <6> QED
            BY <6>2, <6>3
        <5>2. CASE view' = view
          BY <5>2 DEF TypeOK
        <5>3. CASE \E row \in rows[r] : view' = [view EXCEPT ![r] =
                     @ \cup {<<row[1].id, Participants(row[1].id)>>}]
          <6>1. PICK row \in rows[r] : view' = [view EXCEPT ![r] =
                     @ \cup {<<row[1].id, Participants(row[1].id)>>}]
            BY <5>3
          <6>2. view[r] \cup {<<row[1].id, Participants(row[1].id)>>}
                  \in SUBSET (ConvIds \X SUBSET Persons)
            BY <5>1 DEF TypeOK
          <6> QED
            BY <6>1, <6>2 DEF TypeOK
        <5> QED
          BY <2>10, <4>2, <5>2, <5>3 DEF Read
      <4> QED
        BY <4>1, <4>2
    <3> QED
      BY <3>1, <3>2, <3>3, <3>4, <3>5 DEF TypeOK
  <2>11. CASE Fail(r)
    BY <2>11 DEF Fail, Abort, Goto, TypeOK, Control, HoldsConv, Active, Ended
  <2> QED
    BY <1>3, <2>1, <2>2, <2>3, <2>4, <2>5, <2>6, <2>7, <2>8, <2>9, <2>10, <2>11 DEF Step
<1> QED
  BY <1>1, <1>2, <1>3 DEF Next

(* The tables and the requests keep their types.                            *)
THEOREM TypeCorrect == Spec => []TypeOK
<1>1. Spec => []TInv
  BY InitTInv, NextTInv, PTL DEF Spec
<1> QED
  BY <1>1, PTL DEF TInv

-----------------------------------------------------------------------------
(* What a step does to the table of conversations: nothing, or one row with *)
(* a fresh id, a group only where the workspace has none.                   *)
LEMMA ConvsStep ==
    ASSUME TInv, [Next]_vars
    PROVE  \/ convs' = convs
           \/ \E c \in ConvIds : \E r \in Requests : \E t \in {"group", "dm"} :
                /\ Fresh(c)
                /\ arg[r] \in Arg
                /\ t = "group" => Groups(arg[r].ws) = {}
                /\ convs' = convs \cup {[id |-> c, ws |-> arg[r].ws, type |-> t]}
<1> USE DEF TInv, tables, locals, history
<1>1. CASE UNCHANGED vars
  BY <1>1 DEF vars
<1>2. ASSUME NEW w \in Workspaces, CreateWorkspace(w) PROVE convs' = convs
  BY <1>2 DEF CreateWorkspace
<1>3. ASSUME NEW r \in Requests, Step(r), convs' # convs
      PROVE  \E c \in ConvIds : \E t \in {"group", "dm"} :
                /\ Fresh(c)
                /\ arg[r] \in Arg
                /\ t = "group" => Groups(arg[r].ws) = {}
                /\ convs' = convs \cup {[id |-> c, ws |-> arg[r].ws, type |-> t]}
  <2>1. CASE CreateGroup(r)
    BY <2>1, <1>3 DEF CreateGroup, Insert, Control
  <2>2. CASE CreateDM(r)
    BY <2>2 DEF CreateDM, Insert, Control
  <2>3. CASE ~CreateGroup(r) /\ ~CreateDM(r)
    BY <2>3, <1>3 DEF Step, Begin, Resolve, GetGroup, FindDM, AddA, AddB, AddParticipant, List, Read, Fail
  <2> QED
    BY <2>1, <2>2, <2>3
<1> QED
  BY <1>1, <1>2, <1>3 DEF Next

IdsUnique == \A x, y \in convs : x.id = y.id => x = y

(* The group a request holds is a row of the table. *)
GroupHeld ==
    \A r \in Requests : Started(r) /\ ~IsDM(r) /\ cur[r] # NoConv =>
        [id |-> cur[r], ws |-> arg[r].ws, type |-> "group"] \in convs

GInv == IdsUnique /\ OneGroupPerWorkspace /\ GroupHeld

(* After the migration every workspace has one group, with an id of its own. *)
LEMMA InitGInv == Init => GInv
<1> SUFFICES ASSUME Init PROVE GInv
  OBVIOUS
<1>1. PICK g \in [Existing -> ConvIds] :
        /\ \A v, w \in Existing : g[v] = g[w] => v = w
        /\ convs = {[id |-> g[w], ws |-> w, type |-> "group"] : w \in Existing}
  BY DEF Init
<1>2. IdsUnique /\ OneGroupPerWorkspace
  BY <1>1 DEF IdsUnique, OneGroupPerWorkspace
<1>3. GroupHeld
  BY DEF Init, GroupHeld, Started
<1> QED
  BY <1>2, <1>3 DEF GInv

(* Ids stay unique, a second group is never inserted, and the group handed  *)
(* to a request stays the workspace's group.                                *)
LEMMA NextGInv == TInv /\ TInv' /\ GInv /\ [Next]_vars => GInv'
<1> SUFFICES ASSUME TInv, TInv', GInv, [Next]_vars PROVE GInv'
  OBVIOUS
<1>1. convs \subseteq convs'
  BY ConvsStep
<1>2. IdsUnique' /\ OneGroupPerWorkspace'
  BY ConvsStep DEF GInv, IdsUnique, OneGroupPerWorkspace, Fresh, Groups
<1>3. GroupHeld'
  <2> USE DEF tables, locals, history, GInv, Started, IsDM
  <2>1. CASE UNCHANGED vars
    BY <2>1 DEF vars, GroupHeld
  <2>2. ASSUME NEW w \in Workspaces, CreateWorkspace(w) PROVE GroupHeld'
    BY <2>2 DEF CreateWorkspace, GroupHeld
  <2>3. ASSUME NEW r \in Requests, Step(r) PROVE GroupHeld'
    <3>1. ASSUME NEW x \in Arg, Begin(r, x) PROVE GroupHeld'
      BY <3>1 DEF Begin, Goto, GroupHeld, TInv, TypeOK, Control
    <3>2. CASE GetGroup(r)
      BY <3>2 DEF GetGroup, UseGroup, Groups, Goto, GroupHeld, TInv, TypeOK, Row
    <3>3. CASE CreateGroup(r)
      BY <3>3, <1>1 DEF CreateGroup, Insert, UseGroup, Abort, Goto, GroupHeld, TInv, TypeOK
    <3>4. CASE FindDM(r) \/ CreateDM(r)
      BY <3>4, <1>1 DEF FindDM, CreateDM, Insert, Abort, Goto, GroupHeld, TInv, TypeOK, Control
    <3>5. CASE Resolve(r) \/ AddA(r) \/ AddB(r) \/ List(r) \/ Read(r) \/ Fail(r)
      <4>1. UNCHANGED <<convs, arg, cur>>
        BY <3>5 DEF Resolve, AddA, AddB, AddParticipant, List, Read, Fail
      <4>2. \A q \in Requests : pc'[q] # "idle" => pc[q] # "idle"
        BY <3>5 DEF Resolve, AddA, AddB, AddParticipant, List, Read, Fail, Abort, Goto, TInv, TypeOK, Active
      <4> QED
        BY <4>1, <4>2 DEF GroupHeld
    <3> QED
      BY <2>3, <3>1, <3>2, <3>3, <3>4, <3>5 DEF Step
  <2> QED
    BY <2>1, <2>2, <2>3 DEF Next
<1> QED
  BY <1>2, <1>3 DEF GInv

(* Both layers hold in every reachable state. *)
LEMMA GInvInvariant == Spec => [](TInv /\ GInv)
<1>1. Init => TInv /\ GInv
  BY InitTInv, InitGInv
<1>2. TInv /\ GInv /\ [Next]_vars => (TInv /\ GInv)'
  BY NextTInv, NextGInv
<1> QED
  BY <1>1, <1>2, PTL DEF Spec

(* Only one group conversation per workspace, whatever number of first      *)
(* accesses race between lookup and insert.                                 *)
THEOREM GroupUnique == Spec => []OneGroupPerWorkspace
BY GInvInvariant, PTL DEF GInv

(* All requests that are ever handed the group of a workspace are handed    *)
(* the same conversation.                                                   *)
THEOREM GroupAgreement == Spec => []GroupAnswersAgree
<1>1. TInv /\ GInv => GroupAnswersAgree
  <2> SUFFICES ASSUME GInv, NEW r \in Requests, Started(r), ~IsDM(r), cur[r] # NoConv
               PROVE  Groups(arg[r].ws) =
                        {[id |-> cur[r], ws |-> arg[r].ws, type |-> "group"]}
    BY DEF GroupAnswersAgree
  <2> DEFINE held == [id |-> cur[r], ws |-> arg[r].ws, type |-> "group"]
  <2>1. held \in convs /\ held.ws = arg[r].ws /\ held.type = "group"
    BY DEF GInv, GroupHeld
  <2> HIDE DEF held
  <2>2. \A x \in Groups(arg[r].ws) : x = held
    BY <2>1 DEF GInv, OneGroupPerWorkspace, Groups
  <2>3. held \in Groups(arg[r].ws)
    BY <2>1 DEF Groups
  <2>4. Groups(arg[r].ws) = {held}
    BY <2>2, <2>3
  <2> QED
    BY <2>4 DEF held
<1> QED
  BY <1>1, GInvInvariant, PTL

-----------------------------------------------------------------------------
(* Third layer: who put whom into a DM.  Every DM has the one request that  *)
(* inserted it; only that request adds participants, and only the two       *)
(* persons it was called with.                                              *)
DMRow(r) == [id |-> cur[r], ws |-> arg[r].ws, type |-> "dm"]

PartsHaveRow == \A x \in parts : ~Fresh(x[1])

MadeOnce ==
    \A c \in ConvIds : \A r \in maker[c] :
        /\ maker[c] = {r}
        /\ pc[r] \notin {"idle", "resolve", "group_get", "group_create",
                         "dm_find", "dm_create"}

MadeBy(r, c) ==
    /\ maker[c] = {r}
    /\ IsDM(r)
    /\ \A p \in Persons : <<c, p>> \in parts => p \in Pair(r)
    /\ \/ <<c, arg[r].a>> \in parts /\ <<c, arg[r].b>> \in parts
       \/ r \in faulted
       \/ pc[r] \in {"dm_addA", "dm_addB"} /\ cur[r] = c

MadeByPair ==
    \A row \in convs : row.type = "dm" => \E r \in Requests : MadeBy(r, row.id)

DMHeld ==
    \A r \in Requests :
        /\ pc[r] \in {"dm_addA", "dm_addB"} =>
             DMRow(r) \in convs /\ maker[cur[r]] = {r}
        /\ pc[r] = "dm_addB" => <<cur[r], arg[r].a>> \in parts
        /\ pc[r] \in {"read", "done"} /\ IsDM(r) =>
             /\ DMRow(r) \in convs
             /\ <<cur[r], arg[r].a>> \in parts
             /\ <<cur[r], arg[r].b>> \in parts

DInv == PartsHaveRow /\ MadeOnce /\ MadeByPair /\ DMHeld

IInv == TInv /\ GInv /\ DInv

(* No request has run and the migration creates no DM.                      *)
LEMMA InitDInv == Init => DInv
<1> SUFFICES ASSUME Init PROVE DInv
  OBVIOUS
<1>1. PICK g \in [Existing -> ConvIds], m \in [Existing -> SUBSET Persons] :
        /\ convs = {[id |-> g[w], ws |-> w, type |-> "group"] : w \in Existing}
        /\ parts = {x \in ConvIds \X Persons :
                       \E w \in Existing : x[1] = g[w] /\ x[2] \in m[w]}
  BY DEF Init
<1>2. PartsHaveRow
  <2> SUFFICES ASSUME NEW x \in parts PROVE \E row \in convs : row.id = x[1]
    BY DEF PartsHaveRow, Fresh
  <2>1. PICK w \in Existing : x[1] = g[w]
    BY <1>1
  <2>2. [id |-> g[w], ws |-> w, type |-> "group"] \in convs
    BY <1>1
  <2> QED
    BY <2>1, <2>2
<1>3. MadeByPair
  BY <1>1 DEF MadeByPair
<1>4. MadeOnce /\ DMHeld
  BY DEF Init, MadeOnce, DMHeld, IsDM, Started
<1> QED
  BY <1>2, <1>3, <1>4 DEF DInv

(* A step that touches no table and no maker, and only moves one request    *)
(* to a statement it holds enough for, preserves the third layer.           *)
LEMMA QuietStep ==
    ASSUME IInv, TInv', NEW r \in Requests, NEW next,
           UNCHANGED <<convs, parts, maker>>,
           faulted \subseteq faulted',
           pc' = [pc EXCEPT ![r] = next],
           \A q \in Requests : q # r => arg'[q] = arg[q] /\ cur'[q] = cur[q],
           pc[r] # "idle" => arg'[r] = arg[r],
           next \notin {"idle", "dm_addA", "dm_addB"},
           next \in {"resolve", "group_get", "group_create", "dm_find", "dm_create"} =>
               pc[r] \in {"idle", "resolve", "group_get", "group_create", "dm_find"},
           next \in {"read", "done"} /\ arg'[r].op = "dm" =>
               /\ DMRow(r)' \in convs
               /\ <<cur'[r], arg[r].a>> \in parts
               /\ <<cur'[r], arg[r].b>> \in parts
               /\ pc[r] # "idle",
           next \in {"notfound", "error"} =>
               pc[r] \notin {"dm_addA", "dm_addB"} \/ r \in faulted',
           next \in {"read", "done", "list"} => pc[r] \notin {"dm_addA", "dm_addB"}
    PROVE  DInv'
<1> USE DEF IInv, TInv, DInv, Started, IsDM, Pair
<1>1. PartsHaveRow'
  BY DEF PartsHaveRow, Fresh
<1>2. MadeOnce'
  BY DEF MadeOnce, TypeOK
<1>3. MadeByPair'
  <2> SUFFICES ASSUME NEW row \in convs, row.type = "dm"
               PROVE  \E q \in Requests : MadeBy(q, row.id)'
    BY DEF MadeByPair
  <2>1. PICK q \in Requests : MadeBy(q, row.id)
    BY DEF MadeByPair
  <2>2. arg'[q] = arg[q]
    BY <2>1 DEF MadeBy
  <2>3. row.id \in ConvIds
    BY DEF TypeOK, Row
  <2>4. pc[q] \notin {"idle", "resolve", "group_get", "group_create", "dm_find", "dm_create"}
    BY <2>1, <2>3 DEF MadeOnce, MadeBy
  <2>5. CASE q = r
    BY <2>1, <2>2, <2>4, <2>5 DEF TypeOK, Active, Ended, MadeBy
  <2>6. CASE q # r
    BY <2>1, <2>2, <2>6 DEF TypeOK, MadeBy
  <2> QED
    BY <2>5, <2>6
<1>4. DMHeld'
  BY DEF DMHeld, DMRow, TypeOK
<1> QED
  BY <1>1, <1>2, <1>3, <1>4

(* Inserting a conversation: no participant is waiting for its id, and the  *)
(* request that inserts it has inserted no other.                           *)
LEMMA InsertStep ==
    ASSUME IInv, TInv', NEW r \in Requests, NEW c \in ConvIds, NEW t \in {"group", "dm"},
           NEW next \in {"list", "done", "error", "dm_addA"},
           pc[r] \in {"group_create", "dm_create"},
           Insert(r, c, t),
           UNCHANGED <<parts, arg>>,
           pc' = [pc EXCEPT ![r] = next],
           cur' = cur \/ cur' = [cur EXCEPT ![r] = c],
           faulted \subseteq faulted',
           t = "dm" <=> pc[r] = "dm_create",
           t = "dm" => \/ next = "dm_addA" /\ cur' = [cur EXCEPT ![r] = c]
                       \/ next = "error" /\ r \in faulted',
           t = "group" => next # "dm_addA"
    PROVE  DInv'
<1> USE DEF IInv, TInv, DInv, Started, IsDM, Pair
<1> DEFINE new == [id |-> c, ws |-> arg[r].ws, type |-> t]
<1>1. /\ Fresh(c) /\ convs' = convs \cup {new}
      /\ maker' = [maker EXCEPT ![c] = {r}]
      /\ new.id = c /\ new.type = t
  BY DEF Insert
<1>2. r \notin maker[c] /\ \A d \in ConvIds : r \notin maker[d]
  BY DEF MadeOnce
<1>3. \A p \in Persons : <<c, p>> \notin parts
  BY <1>1 DEF PartsHaveRow
<1>4. \A row \in convs : row.id \in ConvIds /\ row.id # c
  BY <1>1 DEF Fresh, TypeOK, Row
<1> HIDE DEF new
<1>5. PartsHaveRow'
  BY <1>1 DEF PartsHaveRow, Fresh
<1>6. MadeOnce'
  BY <1>1, <1>2 DEF MadeOnce, TypeOK
<1>7. MadeByPair'
  <2> SUFFICES ASSUME NEW row \in convs', row.type = "dm"
               PROVE  \E q \in Requests : MadeBy(q, row.id)'
    BY DEF MadeByPair
  <2>1. CASE row = new
    <3>1. MadeBy(r, c)'
      BY <1>1, <1>3, <2>1 DEF MadeBy, TypeOK, Control
    <3> QED
      BY <1>1, <2>1, <3>1
  <2>2. CASE row # new
    <3>1. row \in convs
      BY <1>1, <2>2
    <3>2. PICK q \in Requests : MadeBy(q, row.id)
      BY <3>1 DEF MadeByPair
    <3>3. q # r
      BY <1>2, <1>4, <3>1, <3>2 DEF MadeBy
    <3>4. MadeBy(q, row.id)'
      BY <1>1, <1>4, <3>1, <3>2, <3>3 DEF MadeBy, TypeOK
    <3> QED
      BY <3>4
  <2> QED
    BY <2>1, <2>2
<1>8. DMHeld'
  <2> SUFFICES ASSUME NEW q \in Requests
               PROVE  /\ pc'[q] \in {"dm_addA", "dm_addB"} =>
                           DMRow(q)' \in convs' /\ maker'[cur'[q]] = {q}
                      /\ pc'[q] = "dm_addB" => <<cur'[q], arg'[q].a>> \in parts'
                      /\ pc'[q] \in {"read", "done"} /\ IsDM(q)' =>
                           /\ DMRow(q)' \in convs'
                           /\ <<cur'[q], arg'[q].a>> \in parts'
                           /\ <<cur'[q], arg'[q].b>> \in parts'
    BY DEF DMHeld
  <2>1. CASE q = r
    <3>1. pc'[r] = next /\ arg'[r] = arg[r] /\ pc'[r] # "dm_addB" /\ pc'[r] # "read"
      BY DEF TypeOK
    <3>2. pc'[r] = "dm_addA" => cur'[r] = c /\ maker'[c] = {r} /\ DMRow(r)' \in convs'
      BY <1>1, <3>1 DEF DMRow, TypeOK, new
    <3>3. pc'[r] = "done" => arg[r].op # "dm"
      BY <3>1 DEF Control
    <3> QED
      BY <2>1, <3>1, <3>2, <3>3
  <2>2. CASE q # r
    <3>1. pc'[q] = pc[q] /\ arg'[q] = arg[q] /\ cur'[q] = cur[q] /\ DMRow(q)' = DMRow(q)
      BY <2>2 DEF TypeOK, DMRow
    <3>2. convs \subseteq convs'
      BY <1>1
    <3>3. DMRow(q) \in convs => cur[q] # c /\ cur[q] \in ConvIds
      BY <1>4 DEF DMRow
    <3> QED
      BY <1>1, <3>1, <3>2, <3>3 DEF DMHeld, TypeOK
  <2> QED
    BY <2>1, <2>2
<1> QED
  BY <1>5, <1>6, <1>7, <1>8

(* Adding a participant: the request adds one of the persons it was called  *)
(* with to the DM it made.                                                  *)
LEMMA AddStep ==
    ASSUME IInv, TInv', NEW r \in Requests,
           AddA(r) \/ AddB(r)
    PROVE  DInv'
<1> USE DEF IInv, TInv, DInv, Started, IsDM, Pair
<1> DEFINE p == IF pc[r] = "dm_addA" THEN arg[r].a ELSE arg[r].b
           next == IF pc[r] = "dm_addA" THEN "dm_addB" ELSE "read"
<1>1. /\ pc[r] \in {"dm_addA", "dm_addB"}
      /\ UNCHANGED <<convs, maker, arg, cur>>
      /\ parts' = parts \cup {<<cur[r], p>>}
      /\ \/ pc' = [pc EXCEPT ![r] = next] /\ faulted' = faulted
         \/ pc' = [pc EXCEPT ![r] = "error"] /\ faulted' = faulted \cup {r}
  BY DEF AddA, AddB, AddParticipant, Abort, Goto, locals
<1>2. /\ DMRow(r) \in convs /\ DMRow(r).id = cur[r] /\ DMRow(r).type = "dm"
      /\ maker[cur[r]] = {r} /\ cur[r] \in ConvIds
      /\ arg[r] \in Arg /\ arg[r].op = "dm" /\ p \in Pair(r)
  BY <1>1 DEF DMHeld, DMRow, Control, HoldsConv
<1>3. \A q \in Requests : q # r => pc'[q] = pc[q]
  BY <1>1 DEF TypeOK
<1>4. faulted \subseteq faulted' /\ parts \subseteq parts'
  BY <1>1
<1>5. \/ pc'[r] = next
      \/ pc'[r] = "error" /\ r \in faulted'
  BY <1>1 DEF TypeOK
<1>6. PartsHaveRow'
  BY <1>1, <1>2 DEF PartsHaveRow, Fresh
<1>7. MadeOnce'
  BY <1>1, <1>3, <1>5 DEF MadeOnce, TypeOK
<1>8. MadeByPair'
  <2> SUFFICES ASSUME NEW row \in convs, row.type = "dm"
               PROVE  \E q \in Requests : MadeBy(q, row.id)'
    BY <1>1 DEF MadeByPair
  <2>1. PICK q \in Requests : MadeBy(q, row.id)
    BY DEF MadeByPair
  <2>2. CASE row.id = cur[r]
    <3>1. q = r
      BY <1>2, <2>1, <2>2 DEF MadeBy
    <3>2. \A x \in Persons : <<row.id, x>> \in parts' => x \in Pair(r)'
      BY <1>1, <1>2, <2>1, <2>2, <3>1 DEF MadeBy
    <3>3. \/ <<row.id, arg[r].a>> \in parts' /\ <<row.id, arg[r].b>> \in parts'
          \/ r \in faulted'
          \/ pc'[r] = "dm_addB" /\ cur'[r] = row.id
      BY <1>1, <1>5, <2>2 DEF DMHeld
    <3> QED
      BY <1>1, <1>2, <1>5, <2>2, <3>2, <3>3 DEF MadeBy
  <2>3. CASE row.id # cur[r]
    <3>1. \A x \in Persons : <<row.id, x>> \in parts' <=> <<row.id, x>> \in parts
      BY <1>1, <2>3
    <3>2. IsDM(q)'
      BY <1>1, <1>3, <1>5, <2>1 DEF MadeBy
    <3> QED
      BY <1>1, <1>3, <1>4, <2>1, <2>3, <3>1, <3>2 DEF MadeBy
  <2> QED
    BY <2>2, <2>3
<1>9. DMHeld'
  <2>1. \A q \in Requests : DMRow(q)' = DMRow(q)
    BY <1>1 DEF DMRow
  <2> QED
    BY <1>1, <1>2, <1>3, <1>4, <1>5, <2>1 DEF DMHeld
<1> QED
  BY <1>6, <1>7, <1>8, <1>9

(* Every step preserves the third layer. *)
LEMMA NextDInv == IInv /\ TInv' /\ [Next]_vars => DInv'
<1> SUFFICES ASSUME IInv, TInv', [Next]_vars PROVE DInv'
  OBVIOUS
<1> USE DEF tables, locals, history
<1>1. ASSUME UNCHANGED <<convs, parts, pc, locals, maker, faulted>> PROVE DInv'
  BY <1>1 DEF IInv, DInv, PartsHaveRow, Fresh, MadeOnce, MadeByPair, MadeBy, DMHeld, DMRow,
              IsDM, Started, Pair
<1>2. ASSUME NEW r \in Requests, Step(r) PROVE DInv'
  <2> USE DEF IInv, TInv
  <2>1. ASSUME NEW x \in Arg, Begin(r, x) PROVE DInv'
    BY <2>1, QuietStep DEF Begin, Goto, TypeOK
  <2>2. CASE Resolve(r)
    BY <2>2, QuietStep DEF Resolve, Goto
  <2>3. CASE GetGroup(r)
    <3>1. /\ UNCHANGED <<convs, parts, maker, faulted, arg>>
          /\ pc[r] = "group_get" /\ arg[r].op # "dm"
          /\ \E next \in {"group_create", "list", "done"} : pc' = [pc EXCEPT ![r] = next]
          /\ \A q \in Requests : q # r => cur'[q] = cur[q]
      BY <2>3 DEF GetGroup, UseGroup, Goto, TypeOK, Control
    <3> QED
      BY <3>1, QuietStep
  <2>4. CASE CreateGroup(r)
    <3>1. CASE convs' = convs /\ maker' = maker
      <4>1. /\ UNCHANGED <<parts, arg>> /\ faulted \subseteq faulted'
            /\ pc[r] = "group_create" /\ arg[r].op # "dm"
            /\ \E next \in {"error", "list", "done"} : pc' = [pc EXCEPT ![r] = next]
            /\ \A q \in Requests : q # r => cur'[q] = cur[q]
        BY <2>4 DEF CreateGroup, UseGroup, Abort, Goto, TypeOK, Control
      <4> QED
        BY <3>1, <4>1, QuietStep
    <3>2. CASE ~(convs' = convs /\ maker' = maker)
      BY <2>4, <3>2, InsertStep DEF CreateGroup, UseGroup, Abort, Goto
    <3> QED
      BY <3>1, <3>2
  <2>5. CASE FindDM(r)
    <3>1. CASE pc' = [pc EXCEPT ![r] = "dm_create"]
      <4>1. /\ UNCHANGED <<convs, parts, maker, arg>> /\ faulted \subseteq faulted'
            /\ pc[r] = "dm_find"
            /\ \A q \in Requests : q # r => cur'[q] = cur[q]
        BY <2>5 DEF FindDM, TypeOK
      <4> QED
        BY <3>1, <4>1, QuietStep
    <3>2. CASE \E row \in DMs(arg[r].ws, arg[r].a, arg[r].b) :
                   cur' = [cur EXCEPT ![r] = row.id] /\ pc' = [pc EXCEPT ![r] = "read"]
      <4>1. PICK row \in DMs(arg[r].ws, arg[r].a, arg[r].b) :
                   cur' = [cur EXCEPT ![r] = row.id] /\ pc' = [pc EXCEPT ![r] = "read"]
        BY <3>2
      <4>2. /\ row \in convs /\ row = [id |-> row.id, ws |-> arg[r].ws, type |-> "dm"]
            /\ <<row.id, arg[r].a>> \in parts /\ <<row.id, arg[r].b>> \in parts
        BY <4>1 DEF DMs, TypeOK, Row
      <4>3. DMRow(r)' \in convs /\ cur'[r] = row.id
        BY <2>5, <4>1, <4>2 DEF DMRow, FindDM, TypeOK
      <4> QED
        BY <2>5, <4>1, <4>2, <4>3, QuietStep DEF FindDM, Goto, TypeOK
    <3> QED
      BY <2>5, <3>1, <3>2 DEF FindDM, Goto
  <2>6. CASE CreateDM(r)
    <3>1. PICK c \in ConvIds :
            /\ Insert(r, c, "dm")
            /\ \/ /\ cur' = [cur EXCEPT ![r] = c]
                  /\ pc' = [pc EXCEPT ![r] = "dm_addA"]
                  /\ faulted' = faulted
               \/ /\ cur' = cur
                  /\ pc' = [pc EXCEPT ![r] = "error"]
                  /\ faulted' = faulted \cup {r}
      BY <2>6 DEF CreateDM, Abort, Goto
    <3>2. pc[r] = "dm_create" /\ UNCHANGED <<parts, arg>>
      BY <2>6 DEF CreateDM
    <3>3. faulted \subseteq faulted'
      BY <3>1
    <3>4. Insert(r, c, "dm")
      BY <3>1
    <3>5. CASE cur' = [cur EXCEPT ![r] = c] /\ pc' = [pc EXCEPT ![r] = "dm_addA"]
      BY <3>2, <3>3, <3>4, <3>5, InsertStep
    <3>6. CASE cur' = cur /\ pc' = [pc EXCEPT ![r] = "error"] /\ r \in faulted'
      BY <3>2, <3>3, <3>4, <3>6, InsertStep
    <3> QED
      BY <3>1, <3>5, <3>6
  <2>7. CASE AddA(r) \/ AddB(r)
    BY <2>7, AddStep
  <2>8. CASE List(r)
    BY <2>8, QuietStep DEF List, Goto, Control
  <2>9. CASE Read(r)
    <3>1. /\ UNCHANGED <<convs, parts, maker, faulted, arg, cur>> /\ pc[r] = "read"
          /\ \E next \in {"read", "done"} : pc' = [pc EXCEPT ![r] = next]
      BY <2>9 DEF Read, Goto, TypeOK
    <3>2. arg'[r].op = "dm" =>
             /\ DMRow(r)' \in convs
             /\ <<cur'[r], arg[r].a>> \in parts
             /\ <<cur'[r], arg[r].b>> \in parts
      BY <3>1 DEF DInv, DMHeld, IsDM, Started, DMRow
    <3> QED
      BY <3>1, <3>2, QuietStep
  <2>10. CASE Fail(r)
    BY <2>10, QuietStep DEF Fail, Abort, Goto, Active
  <2> QED
    BY <1>2, <2>1, <2>2, <2>3, <2>4, <2>5, <2>6, <2>7, <2>8, <2>9, <2>10 DEF Step
<1>3. ASSUME NEW w \in Workspaces, CreateWorkspace(w) PROVE DInv'
  BY <1>1, <1>3 DEF CreateWorkspace
<1>4. CASE UNCHANGED vars
  BY <1>1, <1>4 DEF vars
<1> QED
  BY <1>2, <1>3, <1>4 DEF Next

(* The three layers together are the inductive invariant. *)
LEMMA IInvInvariant == Spec => []IInv
<1>1. Init => IInv
  BY InitTInv, InitGInv, InitDInv DEF IInv
<1>2. IInv /\ [Next]_vars => IInv'
  BY NextTInv, NextGInv, NextDInv DEF IInv
<1> QED
  BY <1>1, <1>2, PTL DEF Spec

(* The DM two different persons are answered is theirs alone: it contains   *)
(* both, and it contains nobody but the pair its maker was called with.     *)
THEOREM DMBelongsToPair == Spec => []DMAnswerIsPair
<1>1. IInv => DMAnswerIsPair
  <2> SUFFICES ASSUME IInv, NEW r \in Requests, IsDM(r), pc[r] \in {"read", "done"},
                      arg[r].a # arg[r].b
               PROVE  Participants(cur[r]) = Pair(r)
    BY DEF DMAnswerIsPair
  <2>1. /\ DMRow(r) \in convs /\ DMRow(r).id = cur[r] /\ DMRow(r).type = "dm"
        /\ <<cur[r], arg[r].a>> \in parts /\ <<cur[r], arg[r].b>> \in parts
        /\ arg[r].a \in Persons /\ arg[r].b \in Persons
    BY DEF IInv, DInv, DMHeld, DMRow, TInv, Control, IsDM, Started, Arg
  <2>2. PICK q \in Requests : MadeBy(q, cur[r])
    BY <2>1 DEF IInv, DInv, MadeByPair
  <2>3. \A p \in Persons : <<cur[r], p>> \in parts => p \in {arg[q].a, arg[q].b}
    BY <2>2 DEF MadeBy, Pair
  <2>4. {arg[q].a, arg[q].b} = {arg[r].a, arg[r].b}
    BY <2>1, <2>3
  <2> QED
    BY <2>1, <2>3, <2>4 DEF Participants, Pair
<1> QED
  BY <1>1, IInvInvariant, PTL

(* A DM has only participants its maker named, and lacks one only while its *)
(* maker is adding them or after its maker was cut short.                   *)
THEOREM PartialDMs == Spec => []PartialDMExplained
<1>1. IInv => PartialDMExplained
  <2> SUFFICES ASSUME IInv, NEW row \in convs, row.type = "dm"
               PROVE  \E r \in maker[row.id] :
                        /\ Participants(row.id) \subseteq Pair(r)
                        /\ \/ Participants(row.id) = Pair(r)
                           \/ r \in faulted
                           \/ pc[r] \in {"dm_addA", "dm_addB"}
    BY DEF PartialDMExplained
  <2>1. PICK r \in Requests : MadeBy(r, row.id)
    BY DEF IInv, DInv, MadeByPair
  <2>2. arg[r].a \in Persons /\ arg[r].b \in Persons
    BY <2>1 DEF MadeBy, IsDM, Started, IInv, TInv, Control, Arg
  <2>3. Participants(row.id) \subseteq Pair(r)
    BY <2>1 DEF MadeBy, Participants
  <2>4. <<row.id, arg[r].a>> \in parts /\ <<row.id, arg[r].b>> \in parts =>
          Participants(row.id) = Pair(r)
    BY <2>2, <2>3 DEF Participants, Pair
  <2> QED
    BY <2>1, <2>3, <2>4 DEF MadeBy
<1> QED
  BY <1>1, IInvInvariant, PTL

-----------------------------------------------------------------------------
(* Fourth layer: what a request has read remains true, for no row of the    *)
(* tables ever goes away and a request keeps what it was called with.       *)
LEMMA TablesGrow ==
    ASSUME TInv, [Next]_vars
    PROVE  /\ convs \subseteq convs' /\ parts \subseteq parts' /\ faulted \subseteq faulted'
           /\ \A r \in Requests : Started(r) => Started(r)' /\ arg'[r] = arg[r]
<1> USE DEF TInv, tables, locals, history
<1>1. CASE UNCHANGED vars
  BY <1>1 DEF vars, Started
<1>2. ASSUME NEW w \in Workspaces, CreateWorkspace(w)
      PROVE  /\ parts \subseteq parts' /\ faulted \subseteq faulted'
             /\ \A r \in Requests : Started(r) => Started(r)' /\ arg'[r] = arg[r]
  BY <1>2 DEF CreateWorkspace, Started
<1>3. ASSUME NEW r \in Requests, Step(r)
      PROVE  /\ parts \subseteq parts' /\ faulted \subseteq faulted'
             /\ \A q \in Requests : Started(q) => Started(q)' /\ arg'[q] = arg[q]
  <2>1. parts \subseteq parts' /\ faulted \subseteq faulted'
    BY <1>3 DEF Step, Begin, Resolve, GetGroup, CreateGroup, FindDM, CreateDM, AddA, AddB,
                AddParticipant, List, Read, Fail, Abort
  <2>2. \A q \in Requests : Started(q) => arg'[q] = arg[q]
    BY <1>3 DEF Step, Begin, Resolve, GetGroup, CreateGroup, FindDM, CreateDM, AddA, AddB,
                AddParticipant, List, Read, Fail, Started, TypeOK
  <2>3. \/ UNCHANGED pc
        \/ \E next \in {"resolve", "notfound", "dm_find", "list", "group_get", "group_create",
                        "done", "error", "dm_create", "read", "dm_addA", "dm_addB"} :
             pc' = [pc EXCEPT ![r] = next]
    BY <1>3 DEF Step, Begin, Resolve, GetGroup, CreateGroup, FindDM, CreateDM, AddA, AddB,
                AddParticipant, List, Read, Fail, Abort, UseGroup, Goto
  <2>4. \A q \in Requests : Started(q) => Started(q)'
    BY <2>3 DEF Started, TypeOK
  <2>5. QED
    BY <2>1, <2>2, <2>4
<1>4. convs \subseteq convs'
  BY ConvsStep
<1>5. QED
  BY <1>1, <1>2, <1>3, <1>4 DEF Next

(* A request whose pair had a DM finds it, unless the lookup fails.         *)
KnownInv ==
    \A r \in known : /\ IsDM(r) /\ DMs(arg[r].ws, arg[r].a, arg[r].b) # {}
                     /\ pc[r] \in {"dm_create", "dm_addA", "dm_addB"} => r \in faulted

KInv == KnownInv /\ NoRedundantDM

LEMMA NextKInv == IInv /\ KInv /\ [Next]_vars => KInv'
<1> SUFFICES ASSUME IInv, KInv, [Next]_vars PROVE KInv'
  OBVIOUS
<1> USE DEF IInv, TInv
<1>1. /\ convs \subseteq convs' /\ parts \subseteq parts' /\ faulted \subseteq faulted'
      /\ \A r \in Requests : Started(r) => Started(r)' /\ arg'[r] = arg[r]
  BY TablesGrow
<1>2. ASSUME NEW r \in known
      PROVE  r \in Requests /\ IsDM(r)' /\ DMs(arg[r].ws, arg[r].a, arg[r].b)' # {}
  <2>1. r \in Requests /\ IsDM(r) /\ DMs(arg[r].ws, arg[r].a, arg[r].b) # {}
    BY DEF KInv, KnownInv, TypeOK
  <2>2. Started(r)' /\ arg'[r] = arg[r]
    BY <1>1, <2>1 DEF IsDM
  <2>3. QED
    BY <1>1, <2>1, <2>2 DEF IsDM, DMs
<1>3. ASSUME known' = known, maker' = maker,
             \A r \in Requests : pc'[r] \in {"dm_create", "dm_addA", "dm_addB"} =>
                pc'[r] = pc[r] \/ pc[r] \in {"dm_create", "dm_addA"} \/ r \notin known
                \/ r \in faulted'
      PROVE  KInv'
  BY <1>1, <1>2, <1>3 DEF KInv, KnownInv, NoRedundantDM
<1>4. ASSUME NEW r \in Requests, Step(r) PROVE KInv'
  <2>1. ASSUME NEW x \in Arg, Begin(r, x) PROVE KInv'
    <3>1. pc[r] = "idle" /\ pc' = [pc EXCEPT ![r] = "resolve"] /\ arg' = [arg EXCEPT ![r] = x]
          /\ UNCHANGED <<tables, faulted, maker>>
      BY <2>1 DEF Begin, Goto
    <3>2. \A c \in ConvIds : r \notin maker[c]
      BY <3>1 DEF DInv, MadeOnce
    <3>3. known' = known \/ (known' = known \cup {r} /\ x.op = "dm" /\ DMs(x.ws, x.a, x.b) # {})
      BY <2>1 DEF Begin
    <3>4. r \notin known
      BY <3>1 DEF KInv, KnownInv, IsDM, Started
    <3>5. NoRedundantDM'
      BY <3>1, <3>2, <3>3 DEF KInv, NoRedundantDM
    <3>6. ASSUME NEW q \in known'
          PROVE  /\ IsDM(q)' /\ DMs(arg[q].ws, arg[q].a, arg[q].b)' # {}
                 /\ pc'[q] \in {"dm_create", "dm_addA", "dm_addB"} => q \in faulted'
      <4>1. CASE q \in known
        BY <1>2, <3>1, <3>4, <4>1 DEF KInv, KnownInv, TypeOK
      <4>2. CASE q = r /\ x.op = "dm" /\ DMs(x.ws, x.a, x.b) # {}
        BY <3>1, <4>2 DEF IsDM, Started, DMs, TypeOK, tables
      <4>3. QED
        BY <3>3, <3>6, <4>1, <4>2
    <3>7. QED
      BY <3>5, <3>6 DEF KInv, KnownInv
  <2>2. CASE Resolve(r) \/ GetGroup(r) \/ AddA(r) \/ AddB(r) \/ List(r) \/ Read(r) \/ Fail(r)
    BY <1>3, <2>2 DEF Resolve, GetGroup, AddA, AddB, AddParticipant, List, Read, Fail, Abort,
                      UseGroup, Goto, TypeOK, history
  <2>3. CASE FindDM(r)
    BY <1>3, <2>3 DEF FindDM, Goto, TypeOK, KInv, KnownInv
  <2>4. CASE CreateGroup(r)
    <3>1. CASE maker' = maker
      BY <1>3, <2>4, <3>1 DEF CreateGroup, UseGroup, Abort, Goto, TypeOK
    <3>2. CASE \E c \in ConvIds : maker' = [maker EXCEPT ![c] = {r}]
      <4>1. r \notin known /\ known' = known
        BY <2>4 DEF CreateGroup, KInv, KnownInv, IsDM, Control
      <4>2. NoRedundantDM'
        BY <1>1, <3>2, <4>1 DEF KInv, NoRedundantDM, TypeOK
      <4>3. \A q \in Requests : q # r => pc'[q] = pc[q]
        BY <2>4 DEF CreateGroup, UseGroup, Abort, Goto, TypeOK
      <4>4. QED
        BY <1>1, <1>2, <4>1, <4>2, <4>3 DEF KInv, KnownInv
    <3>3. QED
      BY <2>4, <3>1, <3>2 DEF CreateGroup, Insert
  <2>5. CASE CreateDM(r)
    <3>1. /\ pc[r] = "dm_create" /\ known' = known
          /\ \E c \in ConvIds : maker' = [maker EXCEPT ![c] = {r}]
          /\ \A q \in Requests : q # r => pc'[q] = pc[q]
      BY <2>5 DEF CreateDM, Insert, Abort, Goto, TypeOK
    <3>2. r \in known => r \in faulted
      BY <3>1 DEF KInv, KnownInv
    <3>3. NoRedundantDM'
      BY <1>1, <3>1, <3>2 DEF KInv, NoRedundantDM, TypeOK
    <3>4. QED
      BY <1>1, <1>2, <3>1, <3>2, <3>3 DEF KInv, KnownInv
  <2>6. QED
    BY <1>4, <2>1, <2>2, <2>3, <2>4, <2>5 DEF Step
<1>5. ASSUME NEW w \in Workspaces, CreateWorkspace(w) PROVE KInv'
  BY <1>3, <1>5 DEF CreateWorkspace, history
<1>6. CASE UNCHANGED vars
  BY <1>3, <1>6 DEF vars, history
<1>7. QED
  BY <1>4, <1>5, <1>6 DEF Next

(* Get-or-create in sequence makes a second DM only after a failure.        *)
THEOREM RedundantDMsHaveFailed == Spec => []NoRedundantDM
<1>1. Init => KInv
  BY DEF Init, KInv, KnownInv, NoRedundantDM
<1>2. Spec => []KInv
  BY <1>1, NextKInv, IInvInvariant, PTL DEF Spec
<1>3. QED
  BY <1>2, PTL DEF KInv

(* What a request for the conversations has of its answer: rows to ask for, *)
(* and the participants of those it has asked for.                          *)
RowSound(r, row) ==
    /\ row[1] \in convs /\ row[1].ws = arg[r].ws
    /\ row[1].type = "dm" => <<row[1].id, arg[r].a>> \in parts
ViewSound(r, v) ==
    /\ v[2] \subseteq Participants(v[1])
    /\ \E row \in convs : /\ row.id = v[1] /\ row.ws = arg[r].ws
                          /\ row.type = "dm" => arg[r].a \in v[2]
AnswerSound(r) ==
    /\ pc[r] \in {"list", "read", "done"} => cur[r] # NoConv
    /\ pc[r] \in {"read", "done"} => \/ \E row \in rows[r] : row[1].id = cur[r]
                                     \/ \E v \in view[r] : v[1] = cur[r]
    /\ pc[r] = "done" => rows[r] = {}
    /\ \A row \in rows[r] : RowSound(r, row)
    /\ \A v \in view[r] : ViewSound(r, v)
LInv ==
    \A r \in Requests :
        /\ ~Started(r) => rows[r] = {} /\ view[r] = {}
        /\ Started(r) /\ arg[r].op = "conversations" => AnswerSound(r)

(* The list a request gets holds the group it made sure of, once for each   *)
(* participant row of the group, or once if there is none.                  *)
LEMMA ListedRows ==
    ASSUME IInv, NEW r \in Requests, Started(r), arg[r].op = "conversations", cur[r] # NoConv
    PROVE  /\ \E row \in ListRows(arg[r].ws, arg[r].a) : row[1].id = cur[r]
           /\ \A row \in ListRows(arg[r].ws, arg[r].a) : RowSound(r, row)
<1> DEFINE g == [id |-> cur[r], ws |-> arg[r].ws, type |-> "group"]
           joined == {c \in convs : c.ws = arg[r].ws} \X ({{q} : q \in Persons} \cup {{}})
<1>1. g \in convs /\ g.ws = arg[r].ws /\ g.id = cur[r] /\ g.type = "group"
  BY DEF IInv, GInv, GroupHeld, IsDM
<1>2. \A row \in joined :
        row \in ListRows(arg[r].ws, arg[r].a) <=>
          /\ IF row[2] = {} THEN Participants(row[1].id) = {}
                            ELSE \A q \in row[2] : <<row[1].id, q>> \in parts
          /\ row[1].type = "group" \/ row[2] = {arg[r].a}
  BY DEF ListRows
<1>3. \A row \in ListRows(arg[r].ws, arg[r].a) : row \in joined
  BY DEF ListRows
<1> HIDE DEF g
<1>4. \E row \in ListRows(arg[r].ws, arg[r].a) : row[1].id = cur[r]
  <2>1. CASE Participants(cur[r]) = {}
    <3>1. <<g, {}>> \in joined
      BY <1>1
    <3>2. <<g, {}>> \in ListRows(arg[r].ws, arg[r].a)
      BY <1>1, <1>2, <2>1, <3>1
    <3>3. QED
      BY <1>1, <3>2
  <2>2. CASE Participants(cur[r]) # {}
    <3>1. PICK q \in Persons : <<cur[r], q>> \in parts
      BY <2>2 DEF Participants
    <3>2. <<g, {q}>> \in joined
      BY <1>1
    <3>3. <<g, {q}>> \in ListRows(arg[r].ws, arg[r].a)
      BY <1>1, <1>2, <3>1, <3>2
    <3>4. QED
      BY <1>1, <3>3
  <2>3. QED
    BY <2>1, <2>2
<1>5. ASSUME NEW row \in ListRows(arg[r].ws, arg[r].a) PROVE RowSound(r, row)
  BY <1>2, <1>3 DEF RowSound
<1>6. QED
  BY <1>4, <1>5

(* A request that reads nothing keeps a sound answer.                       *)
LEMMA AnswerKept ==
    ASSUME IInv, LInv, [Next]_vars, NEW r \in Requests, Started(r),
           arg[r].op = "conversations",
           rows'[r] = rows[r], view'[r] = view[r],
           \/ pc'[r] = pc[r] /\ cur'[r] = cur[r]
           \/ pc'[r] \notin {"list", "read", "done"}
           \/ pc'[r] = "list" /\ cur'[r] # NoConv
    PROVE  AnswerSound(r)'
<1>1. /\ convs \subseteq convs' /\ parts \subseteq parts' /\ arg'[r] = arg[r]
  BY TablesGrow DEF IInv
<1>2. AnswerSound(r)
  BY DEF LInv
<1>3. \A row \in rows'[r] : RowSound(r, row)'
  BY <1>1, <1>2 DEF AnswerSound, RowSound
<1>4. ASSUME NEW v \in view'[r] PROVE ViewSound(r, v)'
  <2>1. ViewSound(r, v)
    BY <1>2, <1>4 DEF AnswerSound
  <2>2. QED
    BY <1>1, <2>1 DEF ViewSound, Participants
<1>5. QED
  BY <1>2, <1>3, <1>4 DEF AnswerSound

LEMMA NextLInv == IInv /\ LInv /\ [Next]_vars => LInv'
<1> SUFFICES ASSUME IInv, LInv, [Next]_vars PROVE LInv'
  OBVIOUS
<1> USE DEF IInv, TInv, locals
<1>1. /\ convs \subseteq convs' /\ parts \subseteq parts'
      /\ \A r \in Requests : Started(r) => Started(r)' /\ arg'[r] = arg[r]
  BY TablesGrow
<1>2. ASSUME UNCHANGED <<rows, view>>,
             \A q \in Requests : ~Started(q)' \/ Started(q) \/ pc'[q] = "resolve",
             \A q \in Requests : Started(q) /\ arg[q].op = "conversations" =>
                \/ pc'[q] = pc[q] /\ cur'[q] = cur[q]
                \/ pc'[q] \notin {"list", "read", "done"}
                \/ pc'[q] = "list" /\ cur'[q] # NoConv
      PROVE  LInv'
  <2>1. ASSUME NEW q \in Requests, Started(q)', arg'[q].op = "conversations" PROVE AnswerSound(q)'
    <3>1. CASE Started(q)
      BY <1>1, <1>2, <2>1, <3>1, AnswerKept
    <3>2. CASE ~Started(q)
      BY <1>2, <2>1, <3>2 DEF AnswerSound, LInv
    <3>3. QED
      BY <3>1, <3>2
  <2>2. QED
    BY <1>1, <1>2, <2>1 DEF LInv
<1>3. ASSUME NEW r \in Requests, Started(r),
             \A q \in Requests : q # r => /\ pc'[q] = pc[q] /\ cur'[q] = cur[q]
                                          /\ rows'[q] = rows[q] /\ view'[q] = view[q]
                                          /\ Started(q)' = Started(q),
             arg[r].op = "conversations" => AnswerSound(r)'
      PROVE  LInv'
  <2>1. ASSUME NEW q \in Requests, Started(q)', arg'[q].op = "conversations" PROVE AnswerSound(q)'
    BY <1>1, <1>3, <2>1, AnswerKept
  <2>2. QED
    BY <1>1, <1>3, <2>1 DEF LInv
<1>4. ASSUME NEW r \in Requests, Step(r) PROVE LInv'
  <2>1. CASE \/ \E x \in Arg : Begin(r, x)
             \/ Resolve(r) \/ AddA(r) \/ AddB(r) \/ FindDM(r) \/ CreateDM(r) \/ Fail(r)
    <3>1. UNCHANGED <<rows, view>>
      BY <2>1 DEF Begin, Resolve, AddA, AddB, AddParticipant, FindDM, CreateDM, Fail
    <3>2. \A q \in Requests : ~Started(q)' \/ Started(q) \/ pc'[q] = "resolve"
      BY <2>1 DEF Begin, Resolve, AddA, AddB, AddParticipant, FindDM, CreateDM, Fail, Abort,
                  Goto, TypeOK, Started, Active
    <3>3. \A q \in Requests : Started(q) /\ arg[q].op = "conversations" =>
                \/ pc'[q] = pc[q] /\ cur'[q] = cur[q]
                \/ pc'[q] \notin {"list", "read", "done"}
                \/ pc'[q] = "list" /\ cur'[q] # NoConv
      BY <2>1 DEF Begin, Resolve, AddA, AddB, AddParticipant, FindDM, CreateDM, Fail, Abort,
                  Goto, TypeOK, Started, Control
    <3>4. QED
      BY <1>2, <3>1, <3>2, <3>3
  <2>2. CASE GetGroup(r) \/ CreateGroup(r)
    <3>1. UNCHANGED <<rows, view>>
      BY <2>2 DEF GetGroup, CreateGroup
    <3>2. \A q \in Requests : ~Started(q)' \/ Started(q) \/ pc'[q] = "resolve"
      BY <2>2 DEF GetGroup, CreateGroup, UseGroup, Abort, Goto, TypeOK, Started
    <3>3. \A q \in Requests : q # r => pc'[q] = pc[q] /\ cur'[q] = cur[q]
      BY <2>2 DEF GetGroup, CreateGroup, UseGroup, Abort, Goto, TypeOK
    <3>4. arg[r].op = "conversations" =>
            \/ pc'[r] \notin {"list", "read", "done"}
            \/ pc'[r] = "list" /\ cur'[r] # NoConv
      BY <2>2, NoConvAssumption DEF GetGroup, CreateGroup, UseGroup, Groups, Abort, Goto, TypeOK, Row
    <3>5. QED
      BY <1>2, <3>1, <3>2, <3>3, <3>4
  <2>3. CASE List(r)
    <3>1. /\ pc[r] = "list" /\ UNCHANGED <<convs, parts, arg, cur, view>>
          /\ rows' = [rows EXCEPT ![r] = ListRows(arg[r].ws, arg[r].a)]
          /\ pc' = [pc EXCEPT ![r] = IF arg[r].op = "stream" THEN "done" ELSE "read"]
      BY <2>3 DEF List, Goto, tables
    <3>2. ASSUME arg[r].op = "conversations" PROVE AnswerSound(r)'
      <4>1. AnswerSound(r) /\ Started(r) /\ cur[r] # NoConv
        BY <3>1, <3>2 DEF LInv, AnswerSound, Started
      <4>2. /\ \E row \in ListRows(arg[r].ws, arg[r].a) : row[1].id = cur[r]
            /\ \A row \in ListRows(arg[r].ws, arg[r].a) : RowSound(r, row)
        BY <3>2, <4>1, ListedRows
      <4>3. rows'[r] = ListRows(arg[r].ws, arg[r].a) /\ pc'[r] = "read"
        BY <3>1, <3>2 DEF TypeOK
      <4>4. \A row : RowSound(r, row)' = RowSound(r, row)
        BY <3>1 DEF RowSound
      <4>5. \A v : ViewSound(r, v)' = ViewSound(r, v)
        BY <3>1 DEF ViewSound, Participants
      <4>6. QED
        BY <3>1, <4>1, <4>2, <4>3, <4>4, <4>5 DEF AnswerSound
    <3>3. QED
      BY <1>3, <3>1, <3>2 DEF TypeOK, Started
  <2>4. CASE Read(r)
    <3>1. /\ pc[r] = "read" /\ UNCHANGED <<convs, parts, arg, cur>>
          /\ \A q \in Requests : q # r => pc'[q] = pc[q] /\ rows'[q] = rows[q] /\ view'[q] = view[q]
      BY <2>4 DEF Read, Goto, TypeOK, tables
    <3>2. ASSUME arg[r].op = "conversations" PROVE AnswerSound(r)'
      <4>1. AnswerSound(r) /\ arg[r].op # "dm"
        BY <3>1, <3>2 DEF LInv, Started
      <4>2. \A row : RowSound(r, row)' = RowSound(r, row)
        BY <3>1 DEF RowSound
      <4>3. \A v : ViewSound(r, v)' = ViewSound(r, v)
        BY <3>1 DEF ViewSound, Participants
      <4>4. CASE rows[r] = {} /\ pc'[r] = "done" /\ UNCHANGED <<rows, view>>
        BY <3>1, <4>1, <4>2, <4>3, <4>4 DEF AnswerSound
      <4>5. ASSUME NEW row \in rows[r], pc'[r] = "read",
                   view'[r] = view[r] \cup {<<row[1].id, Participants(row[1].id)>>},
                   rows'[r] = rows[r] \ {row}
            PROVE  AnswerSound(r)'
        <5> DEFINE v == <<row[1].id, Participants(row[1].id)>>
        <5>1. RowSound(r, row) /\ arg[r].a \in Persons
          BY <3>1, <4>1 DEF AnswerSound, Control, Arg
        <5>2. ViewSound(r, v)
          BY <5>1 DEF ViewSound, RowSound, Participants
        <5>3. (\E x \in rows'[r] : x[1].id = cur[r]) \/ (\E w \in view'[r] : w[1] = cur[r])
          <6>1. CASE row[1].id = cur[r]
            <7>1. v \in view'[r] /\ v[1] = cur[r]
              BY <4>5, <6>1
            <7>2. QED
              BY <7>1
          <6>2. CASE \E x \in rows[r] \ {row} : x[1].id = cur[r]
            BY <4>5, <6>2
          <6>3. CASE \E w \in view[r] : w[1] = cur[r]
            BY <4>5, <6>3
          <6>4. QED
            BY <3>1, <4>1, <6>1, <6>2, <6>3 DEF AnswerSound
        <5> HIDE DEF v
        <5>4. \A x \in rows'[r] : RowSound(r, x)'
          BY <4>1, <4>2, <4>5 DEF AnswerSound
        <5>5. \A w \in view'[r] : ViewSound(r, w)'
          BY <4>1, <4>3, <4>5, <5>2 DEF AnswerSound, v
        <5>6. cur[r] # NoConv /\ cur' = cur
          BY <3>1, <4>1 DEF AnswerSound
        <5>7. QED
          BY <4>5, <5>3, <5>4, <5>5, <5>6 DEF AnswerSound
      <4>6. QED
        BY <2>4, <3>1, <4>1, <4>4, <4>5 DEF Read, Goto, TypeOK
    <3>3. Started(r) /\ \A q \in Requests : q # r => Started(q)' = Started(q)
      BY <3>1 DEF Started
    <3>4. QED
      BY <1>3, <3>1, <3>2, <3>3
  <2>5. QED
    BY <1>4, <2>1, <2>2, <2>3, <2>4 DEF Step
<1>5. ASSUME NEW w \in Workspaces, CreateWorkspace(w) PROVE LInv'
  BY <1>2, <1>5 DEF CreateWorkspace, Started
<1>6. CASE UNCHANGED vars
  BY <1>2, <1>6 DEF vars, Started
<1>7. QED
  BY <1>4, <1>5, <1>6 DEF Next

(* The answer to "conversations" holds the group, only DMs of the caller,   *)
(* and nobody who is not a participant.                                     *)
THEOREM ListsAreSound == Spec => []ConversationListSound
<1>1. Init => LInv
  BY DEF Init, LInv, Started
<1>2. Spec => []LInv
  BY <1>1, NextLInv, IInvInvariant, PTL DEF Spec
<1>3. LInv => ConversationListSound
  BY DEF LInv, AnswerSound, ViewSound, ConversationListSound
<1>4. QED
  BY <1>2, <1>3, PTL

-----------------------------------------------------------------------------
(* The service implements ConversationDirectory.                            *)

(* A group is a room, and so is a DM with two persons in it; it is a room   *)
(* for the pair its maker was called with.                                  *)
IsRoom(room) ==
    \/ \E row \in convs : /\ row.type = "group"
                          /\ room = [id |-> row.id, ws |-> row.ws, who |-> {}]
    \/ \E row \in convs, p, q \in Persons :
          /\ row.type = "dm" /\ p # q /\ <<row.id, p>> \in parts /\ <<row.id, q>> \in parts
          /\ room = [id |-> row.id, ws |-> row.ws, who |-> {p, q}]

RoomsAre   == \A room : room \in Rooms <=> IsRoom(room)
GivenRooms == \A r \in Requests : Given(r) => Told[r] \in Rooms

LEMMA TheRooms == IInv => RoomsAre
<1> SUFFICES ASSUME IInv, NEW room PROVE room \in Rooms <=> IsRoom(room)
  BY DEF RoomsAre
<1>1. ASSUME NEW row \in convs, row.type = "dm", NEW p \in Persons, NEW q \in Persons, p # q,
             <<row.id, p>> \in parts, <<row.id, q>> \in parts
      PROVE  Participants(row.id) = {p, q}
  <2>1. PICK r \in Requests : MadeBy(r, row.id)
    BY <1>1 DEF IInv, DInv, MadeByPair
  <2>2. \A x \in Persons : <<row.id, x>> \in parts => x \in {arg[r].a, arg[r].b}
    BY <2>1 DEF MadeBy, Pair
  <2>3. {arg[r].a, arg[r].b} = {p, q}
    BY <1>1, <2>2
  <2>4. QED
    BY <1>1, <2>2, <2>3 DEF Participants
<1>2. \A c, p : p \in Participants(c) <=> p \in Persons /\ <<c, p>> \in parts
  BY DEF Participants
<1>3. room \in Rooms <=>
        \/ \E row \in convs : row.type = "group"
                              /\ room = [id |-> row.id, ws |-> row.ws, who |-> {}]
        \/ \E row \in convs : /\ row.type = "dm" /\ \E p, q \in Participants(row.id) : p # q
                              /\ room = [id |-> row.id, ws |-> row.ws,
                                         who |-> Participants(row.id)]
  BY DEF Rooms
<1>4. ASSUME NEW row \in convs, row.type = "dm"
      PROVE  ((\E p, q \in Participants(row.id) : p # q)
                /\ room = [id |-> row.id, ws |-> row.ws, who |-> Participants(row.id)])
             <=> \E p, q \in Persons :
                   /\ p # q /\ <<row.id, p>> \in parts /\ <<row.id, q>> \in parts
                   /\ room = [id |-> row.id, ws |-> row.ws, who |-> {p, q}]
  <2>1. ASSUME NEW p \in Participants(row.id), NEW q \in Participants(row.id), p # q
        PROVE  Participants(row.id) = {p, q} /\ p \in Persons /\ q \in Persons
               /\ <<row.id, p>> \in parts /\ <<row.id, q>> \in parts
    BY <1>1, <1>2, <1>4, <2>1
  <2>2. ASSUME NEW p \in Persons, NEW q \in Persons, p # q,
               <<row.id, p>> \in parts, <<row.id, q>> \in parts
        PROVE  Participants(row.id) = {p, q}
               /\ p \in Participants(row.id) /\ q \in Participants(row.id)
    BY <1>1, <1>2, <1>4, <2>2
  <2>3. QED
    BY <2>1, <2>2
<1>5. QED
  BY <1>3, <1>4 DEF IsRoom

(* What a request was given is a room.                                      *)
LEMMA GivenAreRooms == IInv => GivenRooms
<1> SUFFICES ASSUME IInv, NEW r \in Requests, Given(r) PROVE Told[r] \in Rooms
  BY DEF GivenRooms
<1>0. RoomsAre
  BY TheRooms
<1>1. CASE ~IsDM(r)
  <2>1. [id |-> cur[r], ws |-> arg[r].ws, type |-> "group"] \in convs
    BY <1>1 DEF IInv, GInv, GroupHeld, Given, Started
  <2>2. Told[r] = [id |-> cur[r], ws |-> arg[r].ws, who |-> {}]
    BY <1>1 DEF Told
  <2>3. QED
    BY <1>0, <2>1, <2>2 DEF RoomsAre, IsRoom
<1>2. CASE IsDM(r)
  <2>1. /\ DMRow(r) \in convs /\ DMRow(r).id = cur[r] /\ DMRow(r).ws = arg[r].ws
        /\ DMRow(r).type = "dm" /\ arg[r].a # arg[r].b
        /\ <<cur[r], arg[r].a>> \in parts /\ <<cur[r], arg[r].b>> \in parts
        /\ arg[r].a \in Persons /\ arg[r].b \in Persons
    BY <1>2 DEF IInv, DInv, DMHeld, DMRow, TInv, Control, IsDM, Started, Arg, Given
  <2>2. Told[r] = [id |-> cur[r], ws |-> arg[r].ws, who |-> {arg[r].a, arg[r].b}]
    BY <1>2 DEF Told, Pair
  <2>3. QED
    BY <1>0, <2>1, <2>2 DEF RoomsAre, IsRoom
<1>3. QED
  BY <1>1, <1>2

(* Both hold of the state after a step as well.                             *)
LEMMA RoomsAfter == IInv' => RoomsAre' /\ GivenRooms'
BY TheRooms, GivenAreRooms, PTL

(* A step gives a conversation to the one request it is a step of, if any,  *)
(* and to it for the first time.                                            *)
LEMMA ToldStep ==
    ASSUME IInv, IInv', [Next]_vars
    PROVE  (\E r \in Requests, room \in Rooms' : Directory!Tell(r, room)) \/ UNCHANGED Told
<1> USE DEF tables, locals, history
<1>1. CASE UNCHANGED vars
  BY <1>1 DEF vars, Told, Given, IsDM, Started, Pair
<1>2. ASSUME NEW w \in Workspaces, CreateWorkspace(w) PROVE UNCHANGED Told
  BY <1>2 DEF CreateWorkspace, Told, Given, IsDM, Started, Pair
<1>3. ASSUME NEW r \in Requests, Step(r)
      PROVE  (\E room \in Rooms' : Directory!Tell(r, room)) \/ UNCHANGED Told
  <2>1. pc[r] # "done"
    BY <1>3 DEF Step, Begin, Resolve, GetGroup, CreateGroup, FindDM, CreateDM, AddA, AddB,
                List, Read, Fail, Active
  <2>2. \A q \in Requests \ {r} : pc'[q] = pc[q] /\ arg'[q] = arg[q] /\ cur'[q] = cur[q]
    <3>1. \A q \in Requests \ {r} : pc'[q] = pc[q]
      BY <1>3 DEF Step, Begin, Resolve, GetGroup, CreateGroup, FindDM, CreateDM, AddA, AddB,
                  AddParticipant, List, Read, Fail, Abort, UseGroup, Goto, IInv, TInv, TypeOK
    <3>2. \A q \in Requests \ {r} : arg'[q] = arg[q]
      BY <1>3 DEF Step, Begin, Resolve, GetGroup, CreateGroup, FindDM, CreateDM, AddA, AddB,
                  AddParticipant, List, Read, Fail, IInv, TInv, TypeOK
    <3>3. \A q \in Requests \ {r} : cur'[q] = cur[q]
      BY <1>3 DEF Step, Begin, Resolve, GetGroup, CreateGroup, FindDM, CreateDM, AddA, AddB,
                  AddParticipant, List, Read, Fail, UseGroup, IInv, TInv, TypeOK
    <3>4. QED
      BY <3>1, <3>2, <3>3
  <2>3. Told[r] = NoArg /\ \A q \in Requests \ {r} : Told'[q] = Told[q]
    BY <2>1, <2>2 DEF Told, Given, IsDM, Started, Pair
  <2>4. Told' = [Told EXCEPT ![r] = Told'[r]]
    BY <2>3 DEF Told
  <2>5. CASE Given(r)'
    <3>1. Told'[r] \in Rooms'
      BY <2>5, RoomsAfter DEF GivenRooms
    <3>2. QED
      BY <2>3, <2>4, <3>1 DEF Directory!Tell
  <2>6. CASE ~Given(r)'
    <3>1. Told'[r] = NoArg
      BY <2>6 DEF Told
    <3>2. QED
      BY <2>3, <2>4, <3>1 DEF Told
  <2>7. QED
    BY <2>5, <2>6
<1>4. QED
  BY <1>1, <1>2, <1>3 DEF Next

(* A step opens the room of the group it inserts, or of the DM whose second *)
(* person it adds.                                                          *)
LEMMA RoomsStep ==
    ASSUME IInv, IInv', [Next]_vars
    PROVE  (\E room \in Directory!Room : Directory!Open(room)) \/ UNCHANGED Rooms
<1> USE DEF tables, locals, history
<1>0. RoomsAre /\ RoomsAre'
  BY TheRooms, RoomsAfter
<1>1. ASSUME UNCHANGED <<convs, parts>> PROVE UNCHANGED Rooms
  BY <1>1 DEF Rooms, Participants
<1>2. ASSUME NEW r \in Requests, NEW c \in ConvIds, NEW t \in {"group", "dm"}, Insert(r, c, t),
             UNCHANGED parts, arg[r] \in Arg, t = "group" => Groups(arg[r].ws) = {}
      PROVE  (\E room \in Directory!Room : Directory!Open(room)) \/ UNCHANGED Rooms
  <2> DEFINE new == [id |-> c, ws |-> arg[r].ws, type |-> t]
             room == [id |-> c, ws |-> arg[r].ws, who |-> {}]
  <2>1. /\ Fresh(c) /\ convs' = convs \cup {new} /\ arg[r].ws \in Workspaces
        /\ new.id = c /\ new.ws = arg[r].ws /\ new.type = t
    BY <1>2 DEF Insert, Arg
  <2>2. \A p \in Persons : <<c, p>> \notin parts
    BY <2>1 DEF IInv, DInv, PartsHaveRow
  <2>3. \A x \in Rooms : x.id # c /\ (t = "group" /\ x.who = {} => x.ws # arg[r].ws)
    <3>1. SUFFICES ASSUME NEW x \in Rooms
                   PROVE  x.id # c /\ (t = "group" /\ x.who = {} => x.ws # arg[r].ws)
      OBVIOUS
    <3>2. \E row \in convs : row.id = x.id /\ row.ws = x.ws /\ (x.who = {} => row.type = "group")
      <4>1. IsRoom(x)
        BY <1>0, <3>1 DEF RoomsAre
      <4>2. CASE \E row \in convs : /\ row.type = "group"
                                    /\ x = [id |-> row.id, ws |-> row.ws, who |-> {}]
        BY <4>2
      <4>3. ASSUME NEW row \in convs, NEW p \in Persons, NEW q \in Persons,
                   x = [id |-> row.id, ws |-> row.ws, who |-> {p, q}]
            PROVE  row.id = x.id /\ row.ws = x.ws /\ x.who # {}
        BY <4>3
      <4>4. QED
        BY <4>1, <4>2, <4>3 DEF IsRoom
    <3>3. QED
      BY <1>2, <2>1, <3>2 DEF Fresh, Groups
  <2> HIDE DEF new
  <2>4. CASE t = "group"
    <3>1. Rooms' = Rooms \cup {room}
      <4>1. SUFFICES ASSUME NEW x PROVE x \in Rooms' <=> x \in Rooms \/ x = room
        OBVIOUS
      <4>2. (x \in Rooms' <=> IsRoom(x)') /\ (x \in Rooms <=> IsRoom(x))
        BY <1>0 DEF RoomsAre
      <4>3. QED
        BY <1>2, <2>1, <2>4, <4>2 DEF IsRoom
    <3>2. room \in Directory!Room
      BY <2>1 DEF Directory!Room, Directory!Everybody
    <3>3. Directory!Open(room)
      BY <2>3, <2>4, <3>1 DEF Directory!Open, Directory!Everybody
    <3>4. QED
      BY <3>2, <3>3
  <2>5. CASE t = "dm"
    <3>1. Rooms' = Rooms
      <4>1. SUFFICES ASSUME NEW x PROVE x \in Rooms' <=> x \in Rooms
        OBVIOUS
      <4>2. (x \in Rooms' <=> IsRoom(x)') /\ (x \in Rooms <=> IsRoom(x))
        BY <1>0 DEF RoomsAre
      <4>3. QED
        BY <1>2, <2>1, <2>2, <2>5, <4>2 DEF IsRoom
    <3>2. QED
      BY <3>1
  <2>6. QED
    BY <2>4, <2>5
<1>3. ASSUME NEW r \in Requests, AddA(r) \/ AddB(r)
      PROVE  (\E room \in Directory!Room : Directory!Open(room)) \/ UNCHANGED Rooms
  <2>0. PICK c, w, a, b : c = cur[r] /\ w = arg[r].ws /\ a = arg[r].a /\ b = arg[r].b
    OBVIOUS
  <2> DEFINE room == [id |-> c, ws |-> w, who |-> {a, b}]
             both == a # b /\ <<c, a>> \in parts' /\ <<c, b>> \in parts'
  <2>1. PICK z \in {a, b} : parts' = parts \cup {<<c, z>>}
    BY <1>3, <2>0 DEF AddA, AddB, AddParticipant
  <2>2. convs' = convs /\ DMRow(r) \in convs /\ maker[c] = {r}
    BY <1>3, <2>0 DEF AddA, AddB, AddParticipant, IInv, DInv, DMHeld
  <2>3. a \in Persons /\ b \in Persons /\ c \in ConvIds /\ w \in Workspaces
    BY <1>3, <2>0 DEF AddA, AddB, IInv, TInv, Control, Arg, HoldsConv
  <2>4. DMRow(r).id = c /\ DMRow(r).ws = w /\ DMRow(r).type = "dm"
    BY <2>0 DEF DMRow
  <2>5. \A row \in convs : row.id = c => row = DMRow(r)
    BY <2>2, <2>4 DEF IInv, GInv, IdsUnique
  <2>6. \A p \in Persons : <<c, p>> \in parts => p \in {a, b}
    <3>1. PICK q \in Requests : MadeBy(q, c)
      BY <2>2, <2>4 DEF IInv, DInv, MadeByPair
    <3>2. q = r
      BY <2>2, <3>1 DEF MadeBy
    <3>3. QED
      BY <2>0, <3>1, <3>2 DEF MadeBy, Pair
  <2>7. \A x : (x \in Rooms' <=> IsRoom(x)') /\ (x \in Rooms <=> IsRoom(x))
    BY <1>0 DEF RoomsAre
  <2>8. ASSUME NEW x PROVE x \in Rooms' <=> x \in Rooms \/ (both /\ x = room)
    <3>1. ASSUME x \in Rooms PROVE x \in Rooms'
      BY <2>1, <2>2, <2>7, <3>1 DEF IsRoom
    <3>2. ASSUME both, x = room PROVE x \in Rooms'
      BY <2>2, <2>3, <2>4, <2>7, <3>2 DEF IsRoom
    <3>3. ASSUME x \in Rooms', x \notin Rooms PROVE both /\ x = room
      <4>1. PICK row \in convs, p \in Persons, q \in Persons :
              /\ row.type = "dm" /\ p # q /\ <<row.id, p>> \in parts' /\ <<row.id, q>> \in parts'
              /\ x = [id |-> row.id, ws |-> row.ws, who |-> {p, q}]
        BY <2>2, <2>7, <3>3 DEF IsRoom
      <4>2. ~(<<row.id, p>> \in parts /\ <<row.id, q>> \in parts)
        BY <2>7, <3>3, <4>1 DEF IsRoom
      <4>3. row.id = c
        BY <2>1, <4>1, <4>2
      <4>4. row = DMRow(r) /\ {p, q} = {a, b}
        BY <2>1, <2>5, <2>6, <4>1, <4>3
      <4>5. QED
        BY <2>4, <4>1, <4>3, <4>4
    <3>4. QED
      BY <3>1, <3>2, <3>3
  <2>9. CASE both /\ room \notin Rooms
    <3>1. Rooms' = Rooms \cup {room}
      BY <2>8, <2>9
    <3>2. \A x \in Rooms : x.id # c
      <4>1. SUFFICES ASSUME NEW x \in Rooms, x.id = c PROVE FALSE
        OBVIOUS
      <4>2. PICK row \in convs :
              /\ row.id = c
              /\ \/ row.type = "group"
                 \/ \E p, q \in Persons :
                      /\ p # q /\ <<c, p>> \in parts /\ <<c, q>> \in parts
                      /\ x = [id |-> c, ws |-> row.ws, who |-> {p, q}]
        <5>1. IsRoom(x)
          BY <2>7, <4>1
        <5>2. CASE \E row \in convs : /\ row.type = "group"
                                      /\ x = [id |-> row.id, ws |-> row.ws, who |-> {}]
          BY <4>1, <5>2
        <5>3. ASSUME NEW row \in convs, NEW p \in Persons, NEW q \in Persons, p # q,
                     <<row.id, p>> \in parts, <<row.id, q>> \in parts,
                     x = [id |-> row.id, ws |-> row.ws, who |-> {p, q}]
              PROVE  row.id = c
          BY <4>1, <5>3
        <5>4. QED
          BY <5>1, <5>2, <5>3 DEF IsRoom
      <4>3. row = DMRow(r)
        BY <2>5, <4>2
      <4>4. PICK p \in Persons, q \in Persons :
              /\ p # q /\ <<c, p>> \in parts /\ <<c, q>> \in parts
              /\ x = [id |-> c, ws |-> w, who |-> {p, q}]
        BY <2>4, <4>2, <4>3
      <4>5. {p, q} = {a, b}
        BY <2>6, <4>4
      <4>6. QED
        BY <2>9, <4>1, <4>4, <4>5
    <3>3. room \in Directory!Room /\ room.who # Directory!Everybody
      BY <2>3, <2>9 DEF Directory!Room, Directory!Pairs, Directory!Everybody
    <3>4. Directory!Open(room)
      BY <3>1, <3>2, <3>3 DEF Directory!Open
    <3>5. QED
      BY <3>3, <3>4
  <2>10. CASE ~(both /\ room \notin Rooms)
    <3>1. Rooms' = Rooms
      BY <2>8, <2>10
    <3>2. QED
      BY <3>1
  <2>11. QED
    BY <2>9, <2>10
<1>4. CASE UNCHANGED vars
  BY <1>1, <1>4 DEF vars
<1>5. ASSUME NEW w \in Workspaces, CreateWorkspace(w) PROVE UNCHANGED Rooms
  BY <1>1, <1>5 DEF CreateWorkspace
<1>6. ASSUME NEW r \in Requests, Step(r)
      PROVE  (\E room \in Directory!Room : Directory!Open(room)) \/ UNCHANGED Rooms
  <2>1. CASE CreateGroup(r)
    BY <1>1, <1>2, <2>1 DEF CreateGroup, IInv, TInv, Control
  <2>2. CASE CreateDM(r)
    BY <1>2, <2>2 DEF CreateDM, IInv, TInv, Control
  <2>3. CASE ~(CreateGroup(r) \/ CreateDM(r) \/ AddA(r) \/ AddB(r))
    <3>1. UNCHANGED <<convs, parts>>
      BY <1>6, <2>3 DEF Step, Begin, Resolve, GetGroup, FindDM, List, Read, Fail
    <3>2. QED
      BY <1>1, <3>1
  <2>4. QED
    BY <1>3, <2>1, <2>2, <2>3
<1>7. QED
  BY <1>4, <1>5, <1>6 DEF Next

(* The migrated groups are the rooms at the beginning.                      *)
LEMMA InitDirectory == Init => Directory!Init
<1> SUFFICES ASSUME Init PROVE Directory!Init
  OBVIOUS
<1>1. IInv /\ convs \subseteq Row /\ \A row \in convs : row.type = "group"
  BY InitTInv, InitGInv, InitDInv DEF IInv, TInv, TypeOK, Init
<1>2. \A room \in Rooms : \E row \in convs : row.type = "group" /\ room = [id |-> row.id, ws |-> row.ws, who |-> {}]
  BY <1>1, TheRooms DEF RoomsAre, IsRoom
<1>3. Rooms \subseteq {room \in Directory!Room : room.who = Directory!Everybody}
  BY <1>1, <1>2 DEF Row, Directory!Room, Directory!Everybody
<1>4. \A x, y \in Rooms : x.id = y.id \/ x.ws = y.ws => x = y
  BY <1>1, <1>2 DEF IInv, GInv, IdsUnique, OneGroupPerWorkspace
<1>5. Told = [r \in Requests |-> NoArg]
  BY DEF Init, Told, Given
<1>6. QED
  BY <1>3, <1>4, <1>5 DEF Directory!Init

(* Whatever races, failures and half-made DMs there are, every behaviour of *)
(* the conversation service is one of the directory.                        *)
THEOREM ImplementsTheDirectory == Spec => ImplementsDirectory
<1>1. Init => IInv
  BY InitTInv, InitGInv, InitDInv DEF IInv
<1>2. IInv /\ [Next]_vars => IInv'
  BY NextTInv, NextGInv, NextDInv DEF IInv
<1>3. IInv /\ IInv' /\ [Next]_vars => [Directory!Next]_<<Rooms, Told>>
  BY ToldStep, RoomsStep DEF Directory!Next
<1>4. QED
  BY <1>1, <1>2, <1>3, InitDirectory, PTL DEF Spec, ImplementsDirectory, Directory!Spec
=============================================================================
