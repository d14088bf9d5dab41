------------------------- MODULE ChatDeliveryProofs -------------------------
(***************************************************************************)
(* Proofs about ChatDelivery: its types, and that no message is stored     *)
(* whose sender had no access while it was under way.                      *)
(***************************************************************************)
EXTENDS ChatDelivery, FiniteSetTheorems, SequenceTheorems, TLAPS

(* The parts of TypeOK, so that an action need only be looked at where it   *)
(* changes something.                                                       *)
ServerTypes ==
    /\ exists \in SUBSET Convs /\ access \in [Users -> BOOLEAN]
    /\ db \in [Convs -> Seq(Msgs)] /\ wiped \in [Convs -> Nat] /\ msg \in [Msgs -> MsgType]
    /\ st \in [Msgs -> Stages]
    /\ pub \in [Msgs -> {"none", "pending", "done", "lost"}]
WireTypes ==
    /\ phase \in [Sessions -> Phases] /\ owner \in [Sessions -> Users \cup {None}]
    /\ subs \in [Sessions -> SUBSET Subs] /\ live \in [Sessions -> SUBSET Subs]
    /\ up \in [Sessions -> Seq(Msgs)]
    /\ inq \in [Sessions -> [Subs -> Seq(Msgs)]] /\ down \in [Sessions -> Seq(Msgs)]
BrowserTypes ==
    /\ cur \in [Users -> Sessions \cup {None}] /\ active \in [Users -> Convs \cup {None}]
    /\ sending \in [Users -> Msgs \cup {None}]
    /\ list \in [Users -> [Convs -> Seq(Msgs)]] /\ fetch \in [Fetches -> FetchStages]
    /\ fetcher \in [Fetches -> Fetcher] /\ snap \in [Fetches -> Snapshot]
HistoryTypes ==
    /\ granted \in SUBSET Msgs /\ owed \in [Sessions -> SUBSET Msgs]
    /\ missed \in [Sessions -> SUBSET Msgs] /\ cuts \in [Convs -> SUBSET Nat]
    /\ toggles \in 0 .. MaxToggles /\ crashes \in 0 .. MaxCrashes

(* TypeOK is its parts. *)
LEMMA TypeParts == TypeOK <=> ServerTypes /\ WireTypes /\ BrowserTypes /\ HistoryTypes
BY DEF TypeOK, ServerTypes, WireTypes, BrowserTypes, HistoryTypes

(* A page of a sequence, and what is left of one, are sequences of the same *)
(* elements.                                                                *)
LEMMA SubSeqType ==
    ASSUME NEW S, NEW s \in Seq(S), NEW a \in Nat \ {0}, NEW b \in 0 .. Len(s)
    PROVE  /\ SubSeq(s, a, b) \in Seq(S)
           /\ Range(SubSeq(s, a, b)) \subseteq Range(s)
<1>1. \A i \in 1 .. Len(s) : s[i] \in S
  OBVIOUS
<1>2. a \in Int /\ b \in Int /\ \A i \in a .. b : i \in 1 .. Len(s)
  OBVIOUS
<1>3. SubSeq(s, a, b) \in Seq(S)
  BY <1>1, <1>2, SubSeqProperties
<1>4. QED
  BY <1>1, <1>2, <1>3, SubSeqProperties DEF Range

(* Adding a message to a list keeps its type. *)
LEMMA AppendType ==
    ASSUME NEW s \in Seq(Msgs), NEW m \in Msgs
    PROVE  AppendMessage(s, m) \in Seq(Msgs)
BY DEF AppendMessage

(* The newest page of a conversation is a sequence of messages. *)
LEMMA RecentType ==
    ASSUME ServerTypes, NEW c \in Convs
    PROVE  Recent(c) \in Seq(Msgs)
<1>1. db[c] \in Seq(Msgs) /\ Len(db[c]) \in Nat /\ wiped[c] \in Nat
  BY DEF ServerTypes
<1>2. Page \in Nat \ {0}
  BY PageAssumption
<1>3. QED
  BY <1>1, <1>2, SubSeqType DEF Recent

(* How many messages were sent is a number: there are finitely many.        *)
LEMMA SentCount == Cardinality(Sent) \in Nat
<1>1. IsFiniteSet(Sent)
  BY MsgsAssumption, FS_Subset DEF Sent
<1>2. QED
  BY <1>1, FS_CardinalityType

(* A message added to one list of one user leaves the lists lists.          *)
LEMMA ListUpdateType ==
    ASSUME list \in [Users -> [Convs -> Seq(Msgs)]], NEW m \in Msgs, NEW u, NEW c
    PROVE  [list EXCEPT ![u][c] = AppendMessage(@, m)] \in [Users -> [Convs -> Seq(Msgs)]]
<1> DEFINE row == [list[u] EXCEPT ![c] = AppendMessage(list[u][c], m)]
<1>1. ASSUME u \in Users PROVE row \in [Convs -> Seq(Msgs)]
  <2>1. CASE c \in Convs
    BY <1>1, <2>1, AppendType
  <2>2. CASE c \notin Convs
    BY <1>1, <2>2
  <2>3. QED
    BY <2>1, <2>2
<1> HIDE DEF row
<1>2. [list EXCEPT ![u] = row] \in [Users -> [Convs -> Seq(Msgs)]]
  BY <1>1
<1>3. QED
  BY <1>2 DEF row

(* A request that was made names its user and its conversation, so that     *)
(* what it reads are the rows of a conversation.                            *)
Addressed == \A f \in Fetches : fetch[f] # "unused" =>
                 fetcher[f].user \in Users /\ fetcher[f].conv \in Convs

TypeInv == ServerTypes /\ WireTypes /\ BrowserTypes /\ HistoryTypes /\ Addressed

(* Every step keeps the types.                                              *)
LEMMA TypeStep == ASSUME TypeInv, [Next]_vars PROVE TypeInv'
<1> USE DEF TypeInv, ServerTypes, WireTypes, BrowserTypes, HistoryTypes, Addressed,
            tables, server, wire, session, browser, fetches, history, bounds
<1>1. ASSUME NEW c \in Convs, AddConversation(c) PROVE TypeInv'
  BY <1>1 DEF AddConversation
<1>2. ASSUME NEW u \in Users, UpdateAccess(u) PROVE TypeInv'
  <2>1. access' \in [Users -> BOOLEAN]
    BY <1>2, Zenon DEF UpdateAccess
  <2>2. granted' \in SUBSET Msgs
    BY <1>2 DEF UpdateAccess, Sent
  <2>3. toggles' \in 0 .. MaxToggles
    BY <1>2, BoundsAssumption DEF UpdateAccess
  <2>4. QED
    BY <1>2, <2>1, <2>2, <2>3 DEF UpdateAccess
<1>3. ASSUME NEW u \in Users, NEW s \in Sessions, Connect(u, s) PROVE TypeInv'
  BY <1>3 DEF Connect, Phases
<1>4. ASSUME NEW s \in Sessions, ListConversations(s) PROVE TypeInv'
  BY <1>4 DEF ListConversations, Phases
<1>5. ASSUME NEW s \in Sessions, Upgrade(s) PROVE TypeInv'
  BY <1>5 DEF Upgrade, Phases
<1>6. ASSUME NEW s \in Sessions, NEW b \in Subs, Confirm(s, b) PROVE TypeInv'
  BY <1>6 DEF Confirm
<1>7. ASSUME NEW s \in Sessions, ProxyOpen(s) PROVE TypeInv'
  BY <1>7 DEF ProxyOpen, Phases
<1>8. ASSUME NEW u \in Users, CloseSocket(u) PROVE TypeInv'
  BY <1>8 DEF CloseSocket, Phases, Stages
<1>9. ASSUME Crash PROVE TypeInv'
  <2>1. st' \in [Msgs -> Stages] /\ pub' \in [Msgs -> {"none", "pending", "done", "lost"}]
    BY <1>9 DEF Crash, Stages
  <2>2. phase' \in [Sessions -> Phases] /\ live' \in [Sessions -> SUBSET Subs]
    BY <1>9 DEF Crash, Phases
  <2>3. up' \in [Sessions -> Seq(Msgs)] /\ inq' \in [Sessions -> [Subs -> Seq(Msgs)]]
    BY <1>9 DEF Crash
  <2>4. crashes' \in 0 .. MaxCrashes
    BY <1>9, BoundsAssumption DEF Crash
  <2>5. QED
    BY <1>9, <2>1, <2>2, <2>3, <2>4 DEF Crash
<1>10. ASSUME NEW u \in Users, NEW m \in Msgs, SendWs(u, m) PROVE TypeInv'
  <2>1. msg' \in [Msgs -> MsgType]
    BY <1>10, SentCount DEF SendWs, CanSend, Compose, MsgType
  <2>2. st' \in [Msgs -> Stages]
    BY <1>10 DEF SendWs, Compose, Stages
  <2>3. granted' \in SUBSET Msgs
    BY <1>10 DEF SendWs, Compose
  <2>4. up' \in [Sessions -> Seq(Msgs)]
    BY <1>10 DEF SendWs
  <2>5. QED
    BY <1>10, <2>1, <2>2, <2>3, <2>4 DEF SendWs, Compose
<1>11. ASSUME NEW u \in Users, NEW m \in Msgs, SendRest(u, m) PROVE TypeInv'
  <2>1. msg' \in [Msgs -> MsgType]
    BY <1>11, SentCount DEF SendRest, CanSend, Compose, MsgType
  <2>2. st' \in [Msgs -> Stages]
    BY <1>11 DEF SendRest, Compose, Stages
  <2>3. granted' \in SUBSET Msgs
    BY <1>11 DEF SendRest, Compose
  <2>4. QED
    BY <1>11, <2>1, <2>2, <2>3 DEF SendRest, Compose
<1>12. ASSUME NEW m \in Msgs, BackendCheck(m) PROVE TypeInv'
  BY <1>12 DEF BackendCheck, Advance, Stages
<1>13. ASSUME NEW s \in Sessions, ReadFrame(s) PROVE TypeInv'
  BY <1>13 DEF ReadFrame, Advance, Stages
<1>14. ASSUME NEW m \in Msgs, CheckAccess(m) PROVE TypeInv'
  BY <1>14 DEF CheckAccess, Advance, Stages
<1>15. ASSUME NEW m \in Msgs, SendFails(m) PROVE TypeInv'
  BY <1>15 DEF SendFails, Advance, Stages
<1>16. ASSUME NEW m \in Msgs, Save(m) \/ SaveUnanswered(m) PROVE TypeInv'
  <2>1. PICK stage \in {"saved", "unanswered"} : Store(m, stage)
    BY <1>16 DEF Save, SaveUnanswered
  <2>2. db' \in [Convs -> Seq(Msgs)]
    <3>1. \A c \in Convs : Append(db[c], m) \in Seq(Msgs)
      OBVIOUS
    <3>2. db' = [c \in Convs |-> IF c = msg[m].conv THEN Append(db[c], m) ELSE db[c]]
      BY <2>1 DEF Store
    <3>3. QED
      BY <3>1, <3>2
  <2>3. owed' \in [Sessions -> SUBSET Msgs]
    <3>1. \A s \in Sessions : owed'[s] \in SUBSET Msgs
      BY <2>1 DEF Store
    <3>2. owed' = [s \in Sessions |-> owed'[s]]
      BY <2>1 DEF Store
    <3>3. QED
      BY <3>1, <3>2
  <2>4. st' \in [Msgs -> Stages]
    BY <2>1 DEF Store, Stages
  <2>5. pub' \in [Msgs -> {"none", "pending", "done", "lost"}]
    BY <1>16 DEF Save, SaveUnanswered
  <2>6. QED
    BY <2>1, <2>2, <2>3, <2>4, <2>5 DEF Store
<1>17. ASSUME NEW u \in Users, RestAnswer(u) PROVE TypeInv'
  <2>1. list' \in [Users -> [Convs -> Seq(Msgs)]]
    BY <1>17, ListUpdateType, NoneAssumption DEF RestAnswer
  <2>2. QED
    BY <1>17, <2>1 DEF RestAnswer
<1>18. ASSUME NEW u \in Users, RestFails(u) PROVE TypeInv'
  BY <1>18 DEF RestFails
<1>19. ASSUME NEW m \in Msgs, Publish(m) PROVE TypeInv'
  <2>1. missed' \in [Sessions -> SUBSET Msgs]
    BY <1>19 DEF Publish
  <2>2. QED
    BY <1>19, <2>1 DEF Publish
<1>20. ASSUME NEW m \in Msgs, PublishFails(m) PROVE TypeInv'
  BY <1>20 DEF PublishFails
<1>21. ASSUME NEW s \in Sessions, NEW b \in Subs, Pump(s, b) PROVE TypeInv'
  BY <1>21 DEF Pump
<1>22. ASSUME NEW s \in Sessions, Receive(s) PROVE TypeInv'
  <2>1. Head(down[s]) \in Msgs
    BY <1>22 DEF Receive
  <2>2. list' \in [Users -> [Convs -> Seq(Msgs)]]
    BY <1>22, <2>1, ListUpdateType DEF Receive
  <2>3. QED
    BY <1>22, <2>2 DEF Receive
<1>23. ASSUME NEW u \in Users, NEW c \in Convs, NEW f \in Fetches, SelectConversation(u, c, f)
       PROVE TypeInv'
  BY <1>23 DEF SelectConversation, FetchStages, Fetcher, Listed
<1>24. ASSUME NEW f \in Fetches, FetchCheck(f) PROVE TypeInv'
  BY <1>24 DEF FetchCheck, FetchTo, FetchStages
<1>25. ASSUME NEW f \in Fetches, FetchRead(f) PROVE TypeInv'
  <2>1. fetcher[f].conv \in Convs
    BY <1>25 DEF FetchRead
  <2>2. /\ Recent(fetcher[f].conv) \in Seq(Msgs) /\ Len(db[fetcher[f].conv]) \in Nat
        /\ wiped[fetcher[f].conv] \in Nat
    BY <2>1, RecentType
  <2>3. snap' \in [Fetches -> Snapshot]
    BY <1>25, <2>2 DEF FetchRead, Snapshot
  <2>4. QED
    BY <1>25, <2>3 DEF FetchRead, FetchTo, FetchStages
<1>26. ASSUME NEW f \in Fetches, FetchReply(f) PROVE TypeInv'
  BY <1>26 DEF FetchReply, FetchTo, FetchStages, Snapshot, Fetcher
<1>27. ASSUME NEW f \in Fetches, FetchFails(f) PROVE TypeInv'
  BY <1>27 DEF FetchFails, FetchTo, FetchStages
<1>28. ASSUME UNCHANGED vars PROVE TypeInv'
  BY <1>28 DEF vars
<1>29. ASSUME NEW s \in Sessions, NEW b \in Subs, LoseSubscription(s, b) PROVE TypeInv'
  BY <1>29 DEF LoseSubscription
<1>30. ASSUME DeleteMessages PROVE TypeInv'
  <2>1. wiped' \in [Convs -> Nat]
    BY <1>30 DEF DeleteMessages
  <2>2. cuts' \in [Convs -> SUBSET Nat]
    BY <1>30, <2>1 DEF DeleteMessages
  <2>3. QED
    BY <1>30, <2>1, <2>2 DEF DeleteMessages
<1>31. QED
  BY <1>1, <1>2, <1>3, <1>4, <1>5, <1>6, <1>7, <1>8, <1>9, <1>10, <1>11,
     <1>12, <1>13, <1>14, <1>15, <1>16, <1>17, <1>18, <1>19, <1>20, <1>21,
     <1>22, <1>23, <1>24, <1>25, <1>26, <1>27, <1>28, <1>29, <1>30, TypeParts, Zenon DEF
     Next, TypeInv

(* The initial state has the types.                                         *)
LEMMA InitTypes == Init => TypeInv
BY BoundsAssumption DEF Init, TypeInv, ServerTypes, WireTypes, BrowserTypes, HistoryTypes,
   Addressed, MsgType, Stages, Phases, FetchStages, Fetcher, Snapshot, Listed

(* Every variable keeps its type, whatever the interleaving of sessions,    *)
(* calls, publishes and fetches.                                            *)
THEOREM TypeCorrect == Spec => []TypeOK
<1>1. Init => TypeInv
  BY InitTypes
<1>2. TypeInv /\ [Next]_vars => TypeInv'
  BY TypeStep
<1>3. TypeInv => TypeOK
  BY TypeParts DEF TypeInv
<1>4. QED
  BY <1>1, <1>2, <1>3, PTL DEF Spec

(* What is needed to know that every stored message was allowed: the sender *)
(* of a sent message is known; frames on the way hold sent messages;        *)
(* whoever has access now had it at some moment since each of his messages; *)
(* and a message that passed CheckAccess was allowed at that moment.        *)
Named    == \A m \in Sent : msg[m].from \in Users
Framed   == \A s \in Sessions : Range(up[s]) \subseteq Sent
Entitled == \A m \in Sent : access[msg[m].from] => m \in granted
Checked  == \A m \in Msgs : st[m] \in {"checked", "saved", "unanswered"} => m \in granted

AccessInv == Named /\ Framed /\ Entitled /\ Checked /\ AccessChecked

(* The actions that have no part in it.                                     *)
Quiet == UNCHANGED <<access, db, msg, st, up, granted>>

LEMMA QuietActions ==
    ASSUME \/ \E c \in Convs : AddConversation(c)
           \/ \E u \in Users : RestAnswer(u) \/ RestFails(u)
           \/ \E u \in Users, s \in Sessions : Connect(u, s)
           \/ \E s \in Sessions : \/ ListConversations(s) \/ Upgrade(s) \/ ProxyOpen(s)
                                  \/ Receive(s)
           \/ \E s \in Sessions, b \in Subs : Confirm(s, b) \/ LoseSubscription(s, b) \/ Pump(s, b)
           \/ DeleteMessages
           \/ \E m \in Msgs : Publish(m) \/ PublishFails(m)
           \/ \E u \in Users, c \in Convs, f \in Fetches : SelectConversation(u, c, f)
           \/ \E f \in Fetches : FetchCheck(f) \/ FetchRead(f) \/ FetchReply(f) \/ FetchFails(f)
           \/ UNCHANGED vars
    PROVE  Quiet
BY DEF Quiet, vars, tables, server, wire, session, browser, fetches, history, bounds,
       AddConversation, RestAnswer, RestFails, Connect, ListConversations, Upgrade,
       ProxyOpen, Receive, Confirm, LoseSubscription, DeleteMessages, Pump, Publish, PublishFails, SelectConversation,
       FetchCheck, FetchRead, FetchReply, FetchFails, FetchTo

(* Only Compose makes a message sent, and no step takes that back.          *)
LEMMA AccessStep == ASSUME TypeInv, AccessInv, [Next]_vars PROVE AccessInv'
<1> USE DEF AccessInv
<1>1. ASSUME Quiet PROVE AccessInv'
  BY <1>1 DEF Quiet, Named, Framed, Entitled, Checked, AccessChecked, Sent
<1>2. ASSUME NEW u \in Users, UpdateAccess(u) PROVE AccessInv'
  <2> USE <1>2 DEF UpdateAccess, wire
  <2>1. Sent' = Sent /\ granted \subseteq granted'
    BY DEF Sent
  <2>2. Entitled'
    <3>1. SUFFICES ASSUME NEW m \in Sent, access'[msg[m].from] PROVE m \in granted'
      BY <2>1 DEF Entitled
    <3>2. CASE msg[m].from = u
      BY <3>1, <3>2 DEF Entitled
    <3>3. CASE msg[m].from # u
      <4>1. access'[msg[m].from] = access[msg[m].from]
        BY <3>3 DEF Named, TypeInv, ServerTypes
      <4>2. QED
        BY <2>1, <3>1, <4>1 DEF Entitled
    <3>4. QED
      BY <3>2, <3>3
  <2>3. Named' /\ Framed' /\ Checked' /\ AccessChecked'
    BY <2>1 DEF Named, Framed, Checked, AccessChecked
  <2>4. QED
    BY <2>2, <2>3
<1>3. ASSUME NEW u \in Users, CloseSocket(u) PROVE AccessInv'
  <2> DEFINE s == cur[u]
  <2>1. s \in Sessions
    BY <1>3 DEF CloseSocket, TypeInv, BrowserTypes
  <2>2. PICK k \in 0 .. Len(up[s]) :
          /\ up' = [up EXCEPT ![s] = SubSeq(@, 1, k)]
          /\ st' = [m \in Msgs |-> IF m \in Range(SubSeq(up[s], k + 1, Len(up[s])))
                                   THEN "dropped" ELSE st[m]]
    BY <1>3 DEF CloseSocket
  <2>3. up[s] \in Seq(Msgs) /\ up \in [Sessions -> Seq(Msgs)] /\ st \in [Msgs -> Stages]
    BY <2>1 DEF TypeInv, WireTypes, ServerTypes
  <2> HIDE DEF s
  <2>4. /\ Range(SubSeq(up[s], 1, k)) \subseteq Range(up[s])
        /\ Range(SubSeq(up[s], k + 1, Len(up[s]))) \subseteq Range(up[s])
    <3>1. k + 1 \in Nat \ {0} /\ Len(up[s]) \in 0 .. Len(up[s]) /\ 1 \in Nat \ {0}
      BY <2>3
    <3>2. QED
      BY <2>3, <3>1, SubSeqType
  <2>5. Range(up[s]) \subseteq Sent
    BY <2>1 DEF Framed
  <2>6. Sent' = Sent
    BY <2>2, <2>4, <2>5 DEF Sent
  <2>7. Framed'
    BY <2>1, <2>2, <2>3, <2>4, <2>6 DEF Framed
  <2>8. UNCHANGED <<access, db, msg, granted>>
    BY <1>3 DEF CloseSocket, tables, history
  <2>9. Checked'
    BY <2>2, <2>8 DEF Checked
  <2>10. QED
    BY <2>6, <2>7, <2>8, <2>9 DEF Named, Entitled, AccessChecked
<1>4. ASSUME Crash PROVE AccessInv'
  <2> USE <1>4 DEF Crash, tables, history
  <2>1. Sent' = Sent
    BY DEF Sent
  <2>2. Framed'
    BY <2>1 DEF Framed, Range
  <2>3. QED
    BY <2>1, <2>2 DEF Named, Entitled, Checked, AccessChecked
<1>5. ASSUME NEW u \in Users, NEW m \in Msgs, NEW via,
             NEW stage \in {"wire", "dropped", "posted"}, st[m] = "none",
             Compose(u, m, via, stage), UNCHANGED <<access, db>>,
             \A s \in Sessions : Range(up'[s]) \subseteq Range(up[s]) \cup {m}
      PROVE  AccessInv'
  <2>1. msg \in [Msgs -> MsgType] /\ st \in [Msgs -> Stages]
    BY DEF TypeInv, ServerTypes
  <2>2. Sent' = Sent \cup {m} /\ m \notin Sent
    BY <1>5, <2>1 DEF Sent, Compose
  <2>3. msg'[m].from = u /\ \A n \in Sent : msg'[n] = msg[n]
    BY <1>5, <2>1, <2>2 DEF Compose, Sent
  <2>4. Named' /\ Entitled'
    BY <1>5, <2>2, <2>3 DEF Named, Entitled, Compose
  <2>5. Framed' /\ Checked' /\ AccessChecked'
    BY <1>5, <2>1, <2>2 DEF Framed, Checked, AccessChecked, Compose
  <2>6. QED
    BY <2>4, <2>5
<1>6. ASSUME NEW u \in Users, NEW m \in Msgs, SendWs(u, m) PROVE AccessInv'
  <2>1. \A s \in Sessions : Range(up'[s]) \subseteq Range(up[s]) \cup {m}
    BY <1>6 DEF SendWs, Range, TypeInv, WireTypes
  <2>2. st[m] = "none" /\ UNCHANGED <<access, db>>
    BY <1>6 DEF SendWs, CanSend, tables
  <2>3. CASE phase[cur[u]] = "open"
    BY <1>5, <1>6, <2>1, <2>2, <2>3 DEF SendWs
  <2>4. CASE phase[cur[u]] # "open"
    BY <1>5, <1>6, <2>1, <2>2, <2>4 DEF SendWs
  <2>5. QED
    BY <2>3, <2>4
<1>7. ASSUME NEW u \in Users, NEW m \in Msgs, SendRest(u, m) PROVE AccessInv'
  BY <1>5, <1>7 DEF SendRest, CanSend, tables, wire
<1>8. ASSUME NEW m \in Sent, NEW stage, stage # "none", Advance(m, stage),
             stage \in {"checked", "saved", "unanswered"} => m \in granted,
             \A s \in Sessions : Range(up'[s]) \subseteq Range(up[s])
      PROVE  AccessInv'
  <2>1. st' = [st EXCEPT ![m] = stage] /\ UNCHANGED <<access, db, msg, granted>>
    BY <1>8 DEF Advance, tables, history
  <2>2. st \in [Msgs -> Stages] /\ m \in Msgs
    BY DEF TypeInv, ServerTypes, Sent
  <2>3. Sent' = Sent
    BY <1>8, <2>1, <2>2 DEF Sent
  <2>4. Framed'
    BY <1>8, <2>3 DEF Framed
  <2>5. Checked'
    BY <1>8, <2>1, <2>2 DEF Checked
  <2>6. QED
    BY <2>1, <2>3, <2>4, <2>5 DEF Named, Entitled, AccessChecked
<1>9. ASSUME NEW m \in Msgs, BackendCheck(m) \/ SendFails(m) PROVE AccessInv'
  <2>1. m \in Sent /\ UNCHANGED up
    BY <1>9 DEF BackendCheck, SendFails, Sent
  <2>2. PICK stage \in {"asked", "refused", "failed"} : Advance(m, stage)
    BY <1>9 DEF BackendCheck, SendFails
  <2>3. QED
    BY <1>8, <2>1, <2>2
<1>10. ASSUME NEW m \in Msgs, CheckAccess(m) PROVE AccessInv'
  <2>1. m \in Sent /\ UNCHANGED up
    BY <1>10 DEF CheckAccess, Sent
  <2>2. access[msg[m].from] => m \in granted
    BY <2>1 DEF Entitled
  <2>3. PICK stage \in {"checked", "refused"} :
          Advance(m, stage) /\ (stage = "checked" => access[msg[m].from])
    BY <1>10 DEF CheckAccess
  <2>4. QED
    BY <1>8, <2>1, <2>2, <2>3
<1>11. ASSUME NEW s \in Sessions, ReadFrame(s) PROVE AccessInv'
  <2>1. up[s] \in Seq(Msgs) /\ up[s] # <<>> /\ up \in [Sessions -> Seq(Msgs)]
    BY <1>11 DEF ReadFrame, TypeInv, WireTypes
  <2>2. Head(up[s]) \in Range(up[s]) /\ Range(Tail(up[s])) \subseteq Range(up[s])
    BY <2>1 DEF Range
  <2>3. Head(up[s]) \in Sent
    BY <2>2 DEF Framed
  <2>4. \A r \in Sessions : Range(up'[r]) \subseteq Range(up[r])
    BY <1>11, <2>1, <2>2 DEF ReadFrame
  <2>5. Advance(Head(up[s]), "asked")
    BY <1>11 DEF ReadFrame
  <2>6. QED
    BY <1>8, <2>3, <2>4, <2>5
<1>12. ASSUME NEW m \in Msgs, Save(m) \/ SaveUnanswered(m) PROVE AccessInv'
  <2>1. /\ st[m] = "checked" /\ m \in granted
        /\ \E stage \in {"saved", "unanswered"} : st' = [st EXCEPT ![m] = stage]
        /\ db' = [db EXCEPT ![msg[m].conv] = Append(@, m)]
        /\ UNCHANGED <<access, msg, up, granted>>
    BY <1>12 DEF Save, SaveUnanswered, Store, Checked, wire
  <2>2. st \in [Msgs -> Stages] /\ db \in [Convs -> Seq(Msgs)]
    BY DEF TypeInv, ServerTypes
  <2>3. Sent' = Sent
    BY <2>1, <2>2 DEF Sent
  <2>4. \A c \in Convs : Range(Append(db[c], m)) \subseteq Range(db[c]) \cup {m}
    BY <2>2 DEF Range
  <2>5. \A c \in Convs : Range(db'[c]) \subseteq Range(db[c]) \cup {m}
    BY <2>1, <2>2, <2>4
  <2>6. AccessChecked'
    BY <2>1, <2>5 DEF AccessChecked
  <2>7. Checked'
    BY <2>1, <2>2 DEF Checked
  <2>8. QED
    BY <2>1, <2>3, <2>6, <2>7 DEF Named, Framed, Entitled
<1>13. QED
  BY <1>1, <1>2, <1>3, <1>4, <1>6, <1>7, <1>9, <1>10, <1>11, <1>12, QuietActions DEF Next

(* A stored message was sent by someone who had chat access at some moment  *)
(* between sending it and its insertion, whichever path it took and however *)
(* often access changed.                                                    *)
THEOREM OnlyAllowedStored == Spec => []AccessChecked
<1>1. Init => TypeInv /\ AccessInv
  BY InitTypes DEF Init, AccessInv, Named, Framed, Entitled, Checked, AccessChecked, Sent, Range
<1>2. TypeInv /\ AccessInv /\ [Next]_vars => (TypeInv /\ AccessInv)'
  BY TypeStep, AccessStep
<1>3. TypeInv /\ AccessInv => AccessChecked
  BY DEF AccessInv
<1>4. QED
  BY <1>1, <1>2, <1>3, PTL DEF Spec

=============================================================================
