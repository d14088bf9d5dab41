------------------------- MODULE ChatConversations -------------------------
(***************************************************************************)
(* The conversation half of chat-service and the backend requests that     *)
(* drive it.  The tables chat_workspaces, chat_conversations and           *)
(* chat_conversation_participants are shared by every request in flight;   *)
(* a request runs one SQL statement per step, since no handler opens a     *)
(* transaction.  Between two statements any other request may run, the     *)
(* service may crash, and the caller may go away.                          *)
(***************************************************************************)
EXTENDS Naturals, FiniteSets

CONSTANTS
    Workspaces,   \* ids of chat workspaces
    Persons,      \* ids of persons
    Requests,     \* ids of backend requests; each runs at most once
    ConvIds,      \* ids the database can give to a conversation
    Existing,     \* workspaces that existed before migration 000006
    NoConv,       \* "no conversation yet"
    NoArg         \* "not called yet"

ASSUME ExistingAssumption == Existing \subseteq Workspaces
ASSUME NoConvAssumption   == NoConv \notin ConvIds

VARIABLES
    workspaces,   \* chat_workspaces: the ids present
    convs,        \* chat_conversations: a set of rows
    parts,        \* chat_conversation_participants: pairs <<conversation, person>>
    pc,           \* the statement each request runs next
    arg,          \* what each request was called with
    cur,          \* the conversation a request holds (conv, created)
    rows,         \* the rows ListConversations returned to a request
    view,         \* the participants read so far, per returned row
    faulted,      \* history: requests hit by an error, a crash or a cancellation
    known,        \* history: DM requests whose pair had a complete DM when they began
    maker         \* history: the request that inserted each conversation

tables  == <<workspaces, convs, parts>>
locals  == <<arg, cur, rows, view>>
history == <<faulted, known, maker>>
vars    == <<tables, pc, locals, history>>

(* The backend calls that reach the conversation service:                  *)
(*   "conversations"  ChatAccessService.GetConversationsAsync              *)
(*   "legacy"         GetMessagesAsync / SendMessageAsync, up to the group *)
(*   "dm"             GetOrCreateDMAsync                                   *)
(*   "stream"         the conversation list a WebSocket session starts with *)
Ops == {"conversations", "legacy", "dm", "stream"}

Active == {"resolve", "group_get", "group_create", "dm_find", "dm_create",
           "dm_addA", "dm_addB", "list", "read"}
Ended  == {"done", "notfound", "error"}

Row == [id : ConvIds, ws : Workspaces, type : {"group", "dm"}]
Arg == [op : Ops, ws : Workspaces, a : Persons, b : Persons]

Participants(c) == {p \in Persons : <<c, p>> \in parts}
Fresh(c)        == \A row \in convs : row.id # c

(* GetGroupByWorkspace's WHERE clause. *)
Groups(w) == {row \in convs : row.ws = w /\ row.type = "group"}

(* GetDMByParticipants' WHERE clause: both EXISTS tests, nothing about who  *)
(* else takes part, and satisfied by one row of parts when a = b.           *)
DMs(w, a, b) ==
    {row \in convs : /\ row.ws = w /\ row.type = "dm"
                     /\ <<row.id, a>> \in parts
                     /\ <<row.id, b>> \in parts}

(* The rows of ListByWorkspaceAndPerson: a LEFT JOIN with the participants, *)
(* so a group with k > 1 participant rows is returned k times.  A row is a  *)
(* conversation and the participant set of size at most one it was joined   *)
(* with.                                                                    *)
ListRows_InnerJoin(w, p) ==
    {row \in {c \in convs : c.ws = w} \X {{q} : q \in Persons} :
        /\ \A q \in row[2] : <<row[1].id, q>> \in parts
        /\ row[1].type = "group" \/ row[2] = {p}}
ListRows(w, p) ==
    LET joined == {c \in convs : c.ws = w} \X
                  ({{q} : q \in Persons} \cup {{}})
    IN {row \in joined :
          /\ IF row[2] = {} THEN Participants(row[1].id) = {}
                            ELSE \A q \in row[2] : <<row[1].id, q>> \in parts
          /\ row[1].type = "group" \/ row[2] = {p}}

-----------------------------------------------------------------------------
(* Migration 000006 gives every existing workspace one group conversation   *)
(* whose participants are the members it then had; workspaces created later *)
(* start without one, and their groups never get participant rows.          *)
Init ==
    /\ workspaces = Existing
    /\ \E g \in [Existing -> ConvIds] : \E m \in [Existing -> SUBSET Persons] :
         /\ \A v, w \in Existing : g[v] = g[w] => v = w
         /\ convs = {[id |-> g[w], ws |-> w, type |-> "group"] : w \in Existing}
         /\ parts = {x \in ConvIds \X Persons :
                        \E w \in Existing : x[1] = g[w] /\ x[2] \in m[w]}
    /\ pc = [r \in Requests |-> "idle"]
    /\ arg = [r \in Requests |-> NoArg]
    /\ cur = [r \in Requests |-> NoConv]
    /\ rows = [r \in Requests |-> {}]
    /\ view = [r \in Requests |-> {}]
    /\ faulted = {}
    /\ known = {}
    /\ maker = [c \in ConvIds |-> {}]

(* WorkspaceService.CreateWorkspace inserts one row; bu_id is unique. *)
CreateWorkspace(w) ==
    /\ w \notin workspaces
    /\ workspaces' = workspaces \cup {w}
    /\ UNCHANGED <<convs, parts, pc, locals, history>>

Goto(r, next) == pc' = [pc EXCEPT ![r] = next]

(* A fault ends the handler: an error is returned, nothing more is run. *)
Abort(r) == Goto(r, "error") /\ faulted' = faulted \cup {r}

Pair(r) == {arg[r].a, arg[r].b}

(* A request arrives; only a DM request names a second person. *)
Begin(r, x) ==
    /\ pc[r] = "idle"
    /\ x.op # "dm" => x.b = x.a
    /\ arg' = [arg EXCEPT ![r] = x]
    /\ Goto(r, "resolve")
    /\ known' = IF x.op = "dm" /\ DMs(x.ws, x.a, x.b) # {}
                THEN known \cup {r} ELSE known
    /\ UNCHANGED <<tables, cur, rows, view, faulted, maker>>

(* GetWorkspaceByBuId: NotFound becomes null, and the call returns null. *)
Resolve(r) ==
    /\ pc[r] = "resolve"
    /\ \/ arg[r].ws \notin workspaces /\ Goto(r, "notfound")
       \/ /\ arg[r].ws \in workspaces
          /\ \/ arg[r].op = "dm"     /\ Goto(r, "dm_find")
             \/ arg[r].op = "stream" /\ Goto(r, "list")
             \/ arg[r].op \in {"conversations", "legacy"} /\ Goto(r, "group_get")
    /\ UNCHANGED <<tables, locals, history>>

(* What the backend does with the group conversation it is given. *)
UseGroup(r, c) ==
    /\ cur' = [cur EXCEPT ![r] = c]
    /\ Goto(r, IF arg[r].op = "conversations" THEN "list" ELSE "done")

GetGroup_OfAnyWorkspace(r) ==
    /\ pc[r] = "group_get"
    /\ \/ \E row \in convs : row.type = "group" /\ UseGroup(r, row.id)
       \/ /\ Groups(arg[r].ws) = {}
          /\ Goto(r, "group_create")
          /\ UNCHANGED cur
    /\ UNCHANGED <<tables, arg, rows, view, history>>
GetGroup(r) ==
    /\ pc[r] = "group_get"
    /\ \/ \E row \in Groups(arg[r].ws) : UseGroup(r, row.id)
       \/ /\ Groups(arg[r].ws) = {}
          /\ Goto(r, "group_create")
          /\ UNCHANGED cur
    /\ UNCHANGED <<tables, arg, rows, view, history>>

Insert(r, c, t) ==
    /\ Fresh(c)
    /\ convs' = convs \cup {[id |-> c, ws |-> arg[r].ws, type |-> t]}
    /\ maker' = [maker EXCEPT ![c] = {r}]

(* Create("group") runs against the partial unique index: a request that    *)
(* lost the race gets a unique violation, which is returned as an error.    *)
(* In the last case the row is committed and the answer is lost.            *)
CreateGroup_NoIndex(r) ==
    /\ pc[r] = "group_create"
    /\ \E c \in ConvIds : Insert(r, c, "group") /\ UseGroup(r, c)
    /\ UNCHANGED <<workspaces, parts, arg, rows, view, faulted, known>>
CreateGroup(r) ==
    /\ pc[r] = "group_create"
    /\ \/ /\ Groups(arg[r].ws) # {}
          /\ Goto(r, "error")
          /\ UNCHANGED <<convs, maker, cur, faulted>>
       \/ /\ Groups(arg[r].ws) = {}
          /\ \E c \in ConvIds :
               /\ Insert(r, c, "group")
               /\ \/ UseGroup(r, c) /\ UNCHANGED faulted
                  \/ Abort(r) /\ UNCHANGED cur
    /\ UNCHANGED <<workspaces, parts, arg, rows, view, known>>

(* GetOrCreateDMConversation goes on to create a DM on ANY error of the     *)
(* lookup, not only on "no rows".                                           *)
FindDM_NeverLooks(r) ==
    /\ pc[r] = "dm_find"
    /\ Goto(r, "dm_create")
    /\ UNCHANGED <<tables, locals, history>>
FindDM(r) ==
    /\ pc[r] = "dm_find"
    /\ \/ /\ \E row \in DMs(arg[r].ws, arg[r].a, arg[r].b) :
               cur' = [cur EXCEPT ![r] = row.id]
          /\ Goto(r, "read")
          /\ UNCHANGED faulted
       \/ /\ DMs(arg[r].ws, arg[r].a, arg[r].b) = {}
          /\ Goto(r, "dm_create")
          /\ UNCHANGED <<cur, faulted>>
       \/ /\ Goto(r, "dm_create")
          /\ faulted' = faulted \cup {r}
          /\ UNCHANGED cur
    /\ UNCHANGED <<tables, arg, rows, view, known, maker>>

CreateDM_NoParticipants(r) ==
    /\ pc[r] = "dm_create"
    /\ \E c \in ConvIds : /\ Insert(r, c, "dm")
                         /\ cur' = [cur EXCEPT ![r] = c]
                         /\ Goto(r, "read")
    /\ UNCHANGED <<workspaces, parts, arg, rows, view, faulted, known>>
CreateDM_HoldsNothing(r) ==
    /\ pc[r] = "dm_create"
    /\ \E c \in ConvIds : Insert(r, c, "dm")
    /\ Goto(r, "dm_addA")
    /\ UNCHANGED <<workspaces, parts, locals, faulted, known>>
CreateDM(r) ==
    /\ pc[r] = "dm_create"
    /\ \E c \in ConvIds :
         /\ Insert(r, c, "dm")
         /\ \/ /\ cur' = [cur EXCEPT ![r] = c]
               /\ Goto(r, "dm_addA")
               /\ UNCHANGED faulted
            \/ Abort(r) /\ UNCHANGED cur
    /\ UNCHANGED <<workspaces, parts, arg, rows, view, known>>

(* AddParticipant: ON CONFLICT DO NOTHING. *)
AddParticipant(r, p, next) ==
    /\ parts' = parts \cup {<<cur[r], p>>}
    /\ \/ Goto(r, next) /\ UNCHANGED faulted
       \/ Abort(r)
    /\ UNCHANGED <<workspaces, convs, locals, known, maker>>

AddA(r) == pc[r] = "dm_addA" /\ AddParticipant(r, arg[r].a, "dm_addB")

AddB_AddsA(r) == pc[r] = "dm_addB" /\ AddParticipant(r, arg[r].a, "read")
AddB(r) == pc[r] = "dm_addB" /\ AddParticipant(r, arg[r].b, "read")

(* ListConversations.  The WebSocket session subscribes to what it gets;    *)
(* the backend goes on to ask for the participants of every row.            *)
List(r) ==
    /\ pc[r] = "list"
    /\ rows' = [rows EXCEPT ![r] = ListRows(arg[r].ws, arg[r].a)]
    /\ Goto(r, IF arg[r].op = "stream" THEN "done" ELSE "read")
    /\ UNCHANGED <<tables, arg, cur, view, history>>

(* GetConversationParticipants, one call per row, each seeing the table as  *)
(* it then is; for a DM request the one conversation it holds.              *)
Read(r) ==
    /\ pc[r] = "read"
    /\ IF arg[r].op = "dm"
       THEN /\ view' = [view EXCEPT ![r] = {<<cur[r], Participants(cur[r])>>}]
            /\ Goto(r, "done")
            /\ UNCHANGED rows
       ELSE \/ \E row \in rows[r] :
                 /\ view' = [view EXCEPT ![r] =
                        @ \cup {<<row[1].id, Participants(row[1].id)>>}]
                 /\ rows' = [rows EXCEPT ![r] = @ \ {row}]
                 /\ UNCHANGED pc
            \/ /\ rows[r] = {}
               /\ Goto(r, "done")
               /\ UNCHANGED <<rows, view>>
    /\ UNCHANGED <<tables, arg, cur, history>>

(* The statement fails, the context is cancelled or the process dies before *)
(* the next statement takes effect.                                         *)
Fail(r) ==
    /\ pc[r] \in Active
    /\ Abort(r)
    /\ UNCHANGED <<tables, locals, known, maker>>

Step(r) == \/ \E x \in Arg : Begin(r, x)
           \/ Resolve(r) \/ GetGroup(r) \/ CreateGroup(r)
           \/ FindDM(r)   \/ CreateDM(r) \/ AddA(r)    \/ AddB(r)
           \/ List(r)     \/ Read(r)    \/ Fail(r)

Next == \/ \E w \in Workspaces : CreateWorkspace(w)
        \/ \E r \in Requests : Step(r)

Spec == Init /\ [][Next]_vars

-----------------------------------------------------------------------------
(* Types of the tables and of the requests' local state. *)
TypeOK ==
    /\ workspaces \subseteq Workspaces
    /\ convs \subseteq Row
    /\ parts \subseteq ConvIds \X Persons
    /\ pc \in [Requests -> {"idle"} \cup Active \cup Ended]
    /\ arg \in [Requests -> Arg \cup {NoArg}]
    /\ cur \in [Requests -> ConvIds \cup {NoConv}]
    /\ rows \in [Requests -> SUBSET (Row \X SUBSET Persons)]
    /\ view \in [Requests -> SUBSET (ConvIds \X SUBSET Persons)]
    /\ faulted \subseteq Requests
    /\ known \subseteq Requests
    /\ maker \in [ConvIds -> SUBSET Requests]

Started(r) == pc[r] # "idle"
IsDM(r)    == Started(r) /\ arg[r].op = "dm"

(* Only one group conversation per workspace, however many first accesses   *)
(* race between the SELECT and the INSERT of GetOrCreateGroupConversation.  *)
OneGroupPerWorkspace ==
    \A x, y \in convs : x.type = "group" /\ y.type = "group" /\ x.ws = y.ws => x = y

(* Every request that was given a group conversation of a workspace was     *)
(* given the same one, and it is still the workspace's group.               *)
GroupAnswersAgree ==
    \A r \in Requests : Started(r) /\ ~IsDM(r) /\ cur[r] # NoConv =>
        Groups(arg[r].ws) = {[id |-> cur[r], ws |-> arg[r].ws, type |-> "group"]}

(* A DM that GetOrCreateDMConversation answers to two different persons     *)
(* belongs to exactly those two, although neither the lookup nor the table  *)
(* says that a DM has two participants.                                     *)
DMAnswerIsPair ==
    \A r \in Requests : IsDM(r) /\ pc[r] \in {"read", "done"} /\ arg[r].a # arg[r].b =>
        Participants(cur[r]) = Pair(r)

(* A DM conversation never has a participant its creator did not name, and  *)
(* one that lacks a participant is either still being set up or was left    *)
(* behind by a request that failed part-way.                                *)
PartialDMExplained ==
    \A row \in convs : row.type = "dm" =>
        \E r \in maker[row.id] :
            /\ Participants(row.id) \subseteq Pair(r)
            /\ \/ Participants(row.id) = Pair(r)
               \/ r \in faulted
               \/ pc[r] \in {"dm_addA", "dm_addB"}

(* Get-or-create in sequence: a DM request that arrives when the pair       *)
(* already has a DM creates another only if one of its statements failed.   *)
NoRedundantDM ==
    \A c \in ConvIds : \A r \in maker[c] : r \in known => r \in faulted

(* What GetConversationsAsync answers: the group it made sure of is listed, *)
(* the caller is among the participants shown for every DM, and nobody is   *)
(* shown who is not a participant, though each list entry is completed by a *)
(* later read than the list itself.                                         *)
ConversationListSound ==
    \A r \in Requests :
        Started(r) /\ arg[r].op = "conversations" /\ pc[r] = "done" =>
            /\ \E v \in view[r] : v[1] = cur[r]
            /\ \A v \in view[r] :
                 /\ v[2] \subseteq Participants(v[1])
                 /\ \E row \in convs : /\ row.id = v[1] /\ row.ws = arg[r].ws
                                       /\ row.type = "dm" => arg[r].a \in v[2]

(* The conversations as ConversationDirectory has them: the groups, and the *)
(* DMs that two persons take part in.  What a request that has ended well   *)
(* was given, next to what it had asked for; a DM asked for with oneself is *)
(* left out, since the lookup may find any DM of that person.               *)
Rooms ==
    {[id |-> row.id, ws |-> row.ws, who |-> {}] : row \in {x \in convs : x.type = "group"}}
    \cup {[id |-> row.id, ws |-> row.ws, who |-> Participants(row.id)] :
            row \in {x \in convs : x.type = "dm" /\ \E p, q \in Participants(x.id) : p # q}}

Given(r) == pc[r] = "done" /\ cur[r] # NoConv /\ (IsDM(r) => arg[r].a # arg[r].b)
Told == [r \in Requests |->
            IF Given(r) THEN [id |-> cur[r], ws |-> arg[r].ws,
                              who |-> IF IsDM(r) THEN Pair(r) ELSE {}]
            ELSE NoArg]

(* With its racing lookups and inserts, and a DM that comes to be in three  *)
(* statements any of which may be the last, the service is the directory:   *)
(* one group per workspace, for good; a DM of two persons has both of them, *)
(* and nobody else ever; and every request is given what it asked for.      *)
Directory == INSTANCE ConversationDirectory
             WITH Callers <- Requests, Ids <- ConvIds, Nothing <- NoArg,
                  rooms <- Rooms, told <- Told

ImplementsDirectory == Directory!Spec

(* The claim below does not hold; a run shows how.                          *)

(* conversation_service.go: "Try to find existing DM", else create one: a   *)
(* pair of persons has one DM in a workspace.                               *)
OneDMPerPair ==
    \A w \in Workspaces : \A a, b \in Persons :
        a # b => Cardinality(DMs(w, a, b)) <= 1

=============================================================================
