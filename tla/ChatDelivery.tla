---------------------------- MODULE ChatDelivery ----------------------------
(***************************************************************************)
(* How a chat message travels: from the browser over the WebSocket proxy   *)
(* (or over REST when the socket is not open) to chat-service, into        *)
(* chat_messages, through Redis to the WebSocket sessions, and from there  *)
(* into the message lists of the browsers' chat stores, which a history    *)
(* fetch replaces.  Sessions may close, the service may crash, a publish   *)
(* may fail, Redis may lose a subscription, a reset may delete the stored  *)
(* messages, and access may be granted and revoked meanwhile.              *)
(***************************************************************************)
EXTENDS Naturals, FiniteSets, Sequences, Functions

CONSTANTS
    Users,       \* persons with a chat page open
    Convs,       \* conversations of the workspace
    Members,     \* who takes part in each conversation
    Rows,        \* rows ListConversations returns for each conversation
    Msgs,        \* messages that may be sent, each once
    Sessions,    \* WebSocket connections, each used once
    Fetches,     \* history requests, each used once
    Page,        \* messages per page (50 in the code)
    MaxToggles,  \* bound on access changes
    MaxCrashes,  \* bound on crashes of chat-service
    None         \* no session, message, user or conversation

ASSUME MembersAssumption == Members \in [Convs -> SUBSET Users]
ASSUME RowsAssumption    == Rows \in [Convs -> Nat \ {0}]
ASSUME PageAssumption    == Page \in Nat \ {0}
ASSUME MsgsAssumption    == IsFiniteSet(Msgs)
ASSUME BoundsAssumption  == MaxToggles \in Nat /\ MaxCrashes \in Nat
ASSUME NoneAssumption    == None \notin Users \cup Convs \cup Msgs \cup Sessions

VARIABLES
    exists,    \* conversations in the database
    access,    \* chat_workspace_members.has_access of each user
    db,        \* the rows chat_messages has had of each conversation, in
               \* created_at order
    wiped,     \* how many of them, the oldest, a reset has deleted
    msg,       \* what was sent: sender, conversation, session (None: REST), order
    st,        \* how far chat-service has come with each message
    pub,       \* the publishing goroutine of each message
    phase, owner, subs, live, \* the WebSocket sessions: progress, user,
               \* subscriptions asked for, subscriptions Redis serves
    up,        \* frames on their way from the browser, per session
    inq,       \* events queued per session and subscription
    down,      \* frames on their way to the browser, per session
    cur,       \* the session a browser holds (wsRef.current)
    active,    \* activeConversationId
    sending,   \* the message a REST call is outstanding for
    list,      \* messages[conversationId] of each user's chat store
    fetch, fetcher, snap, \* the history requests: progress, who asked for which
               \* conversation, the rows read, wiped and Len(db) at that moment
    granted,   \* history: messages whose sender had access after sending
    owed,      \* history: messages each session had subscribed for when stored
    missed,    \* history: those Redis did not serve it when they were published
    cuts,      \* history: the values wiped has had
    toggles, crashes

tables  == <<exists, access, db, wiped>>
server  == <<tables, msg, st, pub>>
session == <<phase, owner, subs, live>>
wire    == <<session, up, inq, down>>
fetches == <<fetch, fetcher, snap>>
browser == <<cur, active, sending, list, fetches>>
history == <<granted, owed, missed, cuts>>
bounds  == <<toggles, crashes>>
vars    == <<server, wire, browser, history, bounds>>

(* A subscription of a session: ServeWS subscribes once per listed row.     *)
Subs == UNION {{c} \X (1 .. Rows[c]) : c \in Convs}

(* A message is "posted" to the backend or on the "wire" as a frame, then   *)
(* "asked" of SendMessage, "checked", and "saved"; or its row is stored but *)
(* SendMessage was not told and fails ("unanswered"); or it ended before.   *)
Stages == {"none", "wire", "posted", "asked", "checked", "saved",
           "unanswered", "dropped", "refused", "failed"}

(* A session: the proxy is "dialing" chat-service although the browser's    *)
(* socket is already open; chat-service has "listed" the conversations,     *)
(* has upgraded and "subscribed"; the proxy forwards ("open"); the browser  *)
(* has gone and the read loop is "draining"; chat-service has gone.         *)
Phases == {"unused", "dialing", "listed", "subscribed", "open",
           "draining", "closed"}

(* A history request: asked of the backend, allowed by its membership       *)
(* check, rows read, and the answer applied or the request failed.          *)
FetchStages == {"unused", "asked", "allowed", "read", "done", "failed"}

Sent       == {m \in Msgs : st[m] # "none"}
Shown(s, m) == \E u \in Users, c \in Convs :
                   owner[s] = u /\ m \in Range(list[u][c])
Listed(u)  == {c \in exists : u \in Members[c]}
Busy(s)    == \E m \in Sent : msg[m].via = s /\ st[m] \in {"asked", "checked"}

(* chatStore.appendMessage: a message already listed is not added again.    *)
AppendMessage_NoDedup(seq, m) == Append(seq, m)
AppendMessage(seq, m) == IF m \in Range(seq) THEN seq ELSE Append(seq, m)

(* messageRepo.List without a cursor: the newest Page rows, oldest first.   *)
Recent_Oldest(c) == SubSeq(db[c], wiped[c] + 1,
                           IF Len(db[c]) > wiped[c] + Page THEN wiped[c] + Page ELSE Len(db[c]))
Recent(c) == LET n == Len(db[c])
             IN SubSeq(db[c], IF n > wiped[c] + Page THEN n - Page + 1 ELSE wiped[c] + 1, n)

-----------------------------------------------------------------------------
(* Conversations without messages, some of them already selected.           *)
Init ==
    /\ exists \in SUBSET Convs
    /\ access \in [Users -> BOOLEAN]
    /\ db = [c \in Convs |-> <<>>] /\ wiped = [c \in Convs |-> 0]
    /\ msg = [m \in Msgs |-> [from |-> None, conv |-> None, via |-> None, n |-> 0]]
    /\ st = [m \in Msgs |-> "none"]
    /\ pub = [m \in Msgs |-> "none"]
    /\ phase = [s \in Sessions |-> "unused"]
    /\ owner = [s \in Sessions |-> None]
    /\ subs = [s \in Sessions |-> {}] /\ live = [s \in Sessions |-> {}]
    /\ up = [s \in Sessions |-> <<>>]
    /\ inq = [s \in Sessions |-> [b \in Subs |-> <<>>]]
    /\ down = [s \in Sessions |-> <<>>]
    /\ cur = [u \in Users |-> None]
    /\ active \in [Users -> exists \cup {None}]
    /\ \A u \in Users : active[u] # None => active[u] \in Listed(u)
    /\ sending = [u \in Users |-> None]
    /\ list = [u \in Users |-> [c \in Convs |-> <<>>]]
    /\ fetch = [f \in Fetches |-> "unused"]
    /\ fetcher = [f \in Fetches |-> [user |-> None, conv |-> None]]
    /\ snap = [f \in Fetches |-> [rows |-> <<>>, from |-> 0, upto |-> 0]]
    /\ granted = {}
    /\ owed = [s \in Sessions |-> {}] /\ missed = [s \in Sessions |-> {}]
    /\ cuts = [c \in Convs |-> {0}]
    /\ toggles = 0 /\ crashes = 0

-----------------------------------------------------------------------------
(* The environment: conversations appear (ChatConversations models how), an *)
(* owner changes a member's access, and the last statement of an owner's    *)
(* database reset (Provisioning has the others) deletes every message.      *)

AddConversation(c) ==
    /\ c \notin exists
    /\ exists' = exists \cup {c}
    /\ UNCHANGED <<access, db, wiped, msg, st, pub, wire, browser, history, bounds>>

UpdateAccess(u) ==
    /\ toggles < MaxToggles
    /\ toggles' = toggles + 1
    /\ access' = [access EXCEPT ![u] = ~@]
    /\ granted' = IF access[u] THEN granted
                  ELSE granted \cup {m \in Sent : msg[m].from = u}
    /\ UNCHANGED <<exists, db, wiped, msg, st, pub, wire, browser, owed, missed, cuts, crashes>>

DeleteMessages ==
    /\ wiped' = [c \in Convs |-> Len(db[c])]
    /\ cuts' = [c \in Convs |-> cuts[c] \cup {wiped'[c]}]
    /\ UNCHANGED <<exists, access, db, msg, st, pub, wire, browser, granted, owed, missed, bounds>>

-----------------------------------------------------------------------------
(* The life of a session.                                                   *)

(* useChatWebSocket's connect and the proxy's handleUpgrade: the browser's  *)
(* socket is open before the proxy has reached chat-service.                *)
Connect(u, s) ==
    /\ cur[u] = None /\ phase[s] = "unused"
    /\ cur' = [cur EXCEPT ![u] = s]
    /\ phase' = [phase EXCEPT ![s] = "dialing"]
    /\ owner' = [owner EXCEPT ![s] = u]
    /\ UNCHANGED <<server, subs, live, up, inq, down, active, sending, list, fetches,
                   history, bounds>>

(* ServeWS before the upgrade: the conversations are listed once.           *)
ListConversations_WorkspaceId(s) ==
    /\ phase[s] = "dialing"
    /\ phase' = [phase EXCEPT ![s] = "listed"]
    /\ subs' = [subs EXCEPT ![s] = {<<None, 1>>}]
    /\ UNCHANGED <<server, owner, live, up, inq, down, browser, history, bounds>>
ListConversations(s) ==
    /\ phase[s] = "dialing"
    /\ phase' = [phase EXCEPT ![s] = "listed"]
    /\ subs' = [subs EXCEPT ![s] = {b \in Subs : b[1] \in Listed(owner[s])}]
    /\ UNCHANGED <<server, owner, live, up, inq, down, browser, history, bounds>>

(* ServeWS upgrades and sends SUBSCRIBE for each listed row; Redis serves a *)
(* subscription from some later moment, Confirm.  When a subscription's     *)
(* connection breaks go-redis dials and subscribes again, and what is       *)
(* published meanwhile does not come.                                       *)
Upgrade(s) ==
    /\ phase[s] = "listed"
    /\ phase' = [phase EXCEPT ![s] = "subscribed"]
    /\ UNCHANGED <<server, owner, subs, live, up, inq, down, browser, history, bounds>>

Confirm(s, b) ==
    /\ phase[s] \in {"subscribed", "open"}
    /\ b \in subs[s] \ live[s]
    /\ live' = [live EXCEPT ![s] = @ \cup {b}]
    /\ UNCHANGED <<server, phase, owner, subs, up, inq, down, browser, history, bounds>>

LoseSubscription(s, b) ==
    /\ b \in live[s]
    /\ live' = [live EXCEPT ![s] = @ \ {b}]
    /\ UNCHANGED <<server, phase, owner, subs, up, inq, down, browser, history, bounds>>

(* The proxy's backendWs 'open' handler: only now are frames forwarded.     *)
ProxyOpen(s) ==
    /\ phase[s] = "subscribed"
    /\ phase' = [phase EXCEPT ![s] = "open"]
    /\ UNCHANGED <<server, owner, subs, live, up, inq, down, browser, history, bounds>>

(* The browser loses or closes its socket.  Frames to it are gone; of the   *)
(* frames it sent, a prefix still reaches chat-service, whose read loop     *)
(* handles them before it sees the close.                                   *)
CloseSocket(u) ==
    /\ cur[u] # None
    /\ cur' = [cur EXCEPT ![u] = None]
    /\ LET s == cur[u]
       IN \E k \in 0 .. Len(up[s]) :
            /\ up' = [up EXCEPT ![s] = SubSeq(@, 1, k)]
            /\ st' = [m \in Msgs |-> IF m \in Range(SubSeq(up[s], k + 1, Len(up[s])))
                                     THEN "dropped" ELSE st[m]]
            /\ inq' = [inq EXCEPT ![s] = [b \in Subs |-> <<>>]]
            /\ down' = [down EXCEPT ![s] = <<>>]
            /\ phase' = [phase EXCEPT ![s] = IF @ = "open" THEN "draining" ELSE "closed"]
            /\ live' = [live EXCEPT ![s] = {}]
    /\ UNCHANGED <<tables, msg, pub, owner, subs, active, sending, list,
                   fetches, history, bounds>>

(* chat-service stops: calls in progress fail, publishes not yet made are   *)
(* lost, its sessions end.  Frames already past it may still be received.   *)
Crash ==
    /\ crashes < MaxCrashes
    /\ crashes' = crashes + 1
    /\ st' = [m \in Msgs |-> IF st[m] = "wire" THEN "dropped"
                             ELSE IF st[m] \in {"asked", "checked"} THEN "failed"
                             ELSE st[m]]
    /\ pub' = [m \in Msgs |-> IF pub[m] = "pending" THEN "lost" ELSE pub[m]]
    /\ phase' = [s \in Sessions |-> IF phase[s] = "unused" THEN "unused" ELSE "closed"]
    /\ live' = [s \in Sessions |-> {}]
    /\ up' = [s \in Sessions |-> <<>>]
    /\ inq' = [s \in Sessions |-> [b \in Subs |-> <<>>]]
    /\ UNCHANGED <<tables, msg, owner, subs, down, browser, history, toggles>>

-----------------------------------------------------------------------------
(* Sending.  The page sends to the active conversation, over the socket if  *)
(* that is open and over REST otherwise, and one REST call at a time.       *)

CanSend(u, m) == st[m] = "none" /\ active[u] # None /\ sending[u] = None

Compose(u, m, via, stage) ==
    /\ msg' = [msg EXCEPT ![m] = [from |-> u, conv |-> active[u], via |-> via,
                             n |-> Cardinality(Sent)]]
    /\ st' = [st EXCEPT ![m] = stage]
    /\ granted' = IF access[u] THEN granted \cup {m} ELSE granted
    /\ UNCHANGED <<owed, missed, cuts>>

(* A frame the proxy gets before its backend socket is open, or after that  *)
(* closed, is not forwarded.                                                *)
SendWs(u, m) ==
    /\ CanSend(u, m) /\ cur[u] # None
    /\ LET s == cur[u]
           forwarded == phase[s] = "open"
       IN /\ Compose(u, m, s, IF forwarded THEN "wire" ELSE "dropped")
          /\ up' = IF forwarded THEN [up EXCEPT ![s] = Append(@, m)] ELSE up
    /\ UNCHANGED <<tables, pub, session, inq, down, browser, bounds>>

SendRest(u, m) ==
    /\ CanSend(u, m) /\ cur[u] = None
    /\ Compose(u, m, None, "posted")
    /\ sending' = [sending EXCEPT ![u] = m]
    /\ UNCHANGED <<tables, pub, wire, cur, active, list, fetches, bounds>>

Advance(m, stage) ==
    /\ st' = [st EXCEPT ![m] = stage]
    /\ UNCHANGED <<tables, msg, session, inq, down, browser, history, bounds>>

(* SendConversationMessageAsync: the backend's own membership check.        *)
BackendCheck(m) ==
    /\ st[m] = "posted"
    /\ Advance(m, IF access[msg[m].from] THEN "asked" ELSE "refused")
    /\ UNCHANGED <<up, pub>>

(* The read loop takes the next frame once SendMessage has returned from    *)
(* the previous one.                                                        *)
ReadFrame_Concurrent(s) ==
    /\ phase[s] \in {"open", "draining"} /\ up[s] # <<>>
    /\ Advance(Head(up[s]), "asked")
    /\ up' = [up EXCEPT ![s] = Tail(@)]
    /\ UNCHANGED pub
ReadFrame(s) ==
    /\ phase[s] \in {"open", "draining"} /\ up[s] # <<>> /\ ~Busy(s)
    /\ Advance(Head(up[s]), "asked")
    /\ up' = [up EXCEPT ![s] = Tail(@)]
    /\ UNCHANGED pub

(* MessagingService.SendMessage: the membership is read, the row inserted,  *)
(* and a goroutine started that will publish it; each statement may fail,   *)
(* and the INSERT may be committed although its answer is lost or cannot be *)
(* scanned: then SendMessage fails and no goroutine is started.             *)
CheckAccess_Skipped(m) ==
    /\ st[m] = "asked"
    /\ Advance(m, "checked")
    /\ UNCHANGED <<up, pub>>
CheckAccess(m) ==
    /\ st[m] = "asked"
    /\ Advance(m, IF access[msg[m].from] THEN "checked" ELSE "refused")
    /\ UNCHANGED <<up, pub>>

SendFails(m) ==
    /\ st[m] \in {"posted", "asked", "checked"}
    /\ Advance(m, "failed")
    /\ UNCHANGED <<up, pub>>

Listens(s, c) == phase[s] \in {"subscribed", "open"} /\ \E b \in subs[s] : b[1] = c

Store(m, stage) ==
    /\ st[m] = "checked"
    /\ st' = [st EXCEPT ![m] = stage]
    /\ db' = [db EXCEPT ![msg[m].conv] = Append(@, m)]
    /\ owed' = [s \in Sessions |-> IF Listens(s, msg[m].conv) THEN owed[s] \cup {m}
                                  ELSE owed[s]]
    /\ UNCHANGED <<exists, access, wiped, msg, wire, browser, granted, missed, cuts, bounds>>

Save(m) == Store(m, "saved") /\ pub' = [pub EXCEPT ![m] = "pending"]

SaveUnanswered(m) == Store(m, "unanswered") /\ UNCHANGED pub

(* The answer of a REST send: the page appends the message itself.  Any     *)
(* error, a lost answer included, only shows an error text.                 *)
RestAnswer(u) ==
    /\ sending[u] # None
    /\ st[sending[u]] = "saved"
    /\ sending' = [sending EXCEPT ![u] = None]
    /\ list' = [list EXCEPT ![u][msg[sending[u]].conv] = AppendMessage(@, sending[u])]
    /\ UNCHANGED <<server, wire, cur, active, fetches, history, bounds>>

RestFails(u) ==
    /\ sending[u] # None
    /\ sending' = [sending EXCEPT ![u] = None]
    /\ UNCHANGED <<server, wire, cur, active, list, fetches, history, bounds>>

-----------------------------------------------------------------------------
(* Delivery.                                                                *)

Served(s, m) == \E b \in live[s] : b[1] = msg[m].conv

Publish_SkipsSender(m) ==
    /\ pub[m] = "pending"
    /\ pub' = [pub EXCEPT ![m] = "done"]
    /\ inq' = [s \in Sessions |-> [b \in Subs |->
                 IF b \in live[s] /\ b[1] = msg[m].conv /\ owner[s] # msg[m].from
                 THEN Append(inq[s][b], m) ELSE inq[s][b]]]
    /\ missed' = [s \in Sessions |-> IF m \in owed[s] /\ ~Served(s, m)
                                    THEN missed[s] \cup {m} ELSE missed[s]]
    /\ UNCHANGED <<tables, msg, st, session, up, down, browser, granted, owed, cuts, bounds>>
Publish(m) ==
    /\ pub[m] = "pending"
    /\ pub' = [pub EXCEPT ![m] = "done"]
    /\ inq' = [s \in Sessions |-> [b \in Subs |->
                 IF b \in live[s] /\ b[1] = msg[m].conv
                 THEN Append(inq[s][b], m) ELSE inq[s][b]]]
    /\ missed' = [s \in Sessions |-> IF m \in owed[s] /\ ~Served(s, m)
                                    THEN missed[s] \cup {m} ELSE missed[s]]
    /\ UNCHANGED <<tables, msg, st, session, up, down, browser, granted, owed, cuts, bounds>>

(* Redis is out of reach: the goroutine drops the error.                    *)
PublishFails(m) ==
    /\ pub[m] = "pending"
    /\ pub' = [pub EXCEPT ![m] = "lost"]
    /\ UNCHANGED <<tables, msg, st, wire, browser, history, bounds>>

(* One subscription's goroutines: subscriber channel, StreamMessages,       *)
(* WriteJSON under the write mutex.                                         *)
Pump(s, b) ==
    /\ inq[s][b] # <<>>
    /\ inq' = [inq EXCEPT ![s][b] = Tail(@)]
    /\ down' = [down EXCEPT ![s] = Append(@, Head(inq[s][b]))]
    /\ UNCHANGED <<server, session, up, browser, history, bounds>>

(* The hook's onmessage: the frame goes to the list of its conversation.    *)
Receive_WhenIdle(s) ==
    /\ down[s] # <<>> /\ phase[s] \in {"open", "closed"}
    /\ sending[owner[s]] = None
    /\ down' = [down EXCEPT ![s] = Tail(@)]
    /\ LET m == Head(down[s])  u == owner[s]
       IN list' = [list EXCEPT ![u][msg[m].conv] = AppendMessage(@, m)]
    /\ UNCHANGED <<server, session, up, inq, cur, active, sending, fetches, history, bounds>>
Receive(s) ==
    /\ down[s] # <<>> /\ phase[s] \in {"open", "closed"}
    /\ down' = [down EXCEPT ![s] = Tail(@)]
    /\ LET m == Head(down[s])  u == owner[s]
       IN list' = [list EXCEPT ![u][msg[m].conv] = AppendMessage(@, m)]
    /\ UNCHANGED <<server, session, up, inq, cur, active, sending, fetches, history, bounds>>

-----------------------------------------------------------------------------
(* History.  Opening the page or selecting a conversation fetches its       *)
(* newest page; the answer replaces the list, whatever it then holds.       *)

SelectConversation(u, c, f) ==
    /\ c \in Listed(u) /\ fetch[f] = "unused"
    /\ active' = [active EXCEPT ![u] = c]
    /\ fetch' = [fetch EXCEPT ![f] = "asked"]
    /\ fetcher' = [fetcher EXCEPT ![f] = [user |-> u, conv |-> c]]
    /\ UNCHANGED <<server, wire, cur, sending, list, snap, history, bounds>>

FetchTo(f, stage) ==
    /\ fetch' = [fetch EXCEPT ![f] = stage]
    /\ UNCHANGED <<server, wire, cur, active, sending, fetcher, granted, missed, cuts, bounds>>

(* GetConversationMessagesAsync: the membership check, then ListMessages.   *)
FetchCheck(f) ==
    /\ fetch[f] = "asked"
    /\ FetchTo(f, IF access[fetcher[f].user] THEN "allowed" ELSE "failed")
    /\ UNCHANGED <<list, snap, owed>>

FetchRead(f) ==
    /\ fetch[f] = "allowed"
    /\ FetchTo(f, "read")
    /\ LET c == fetcher[f].conv
       IN snap' = [snap EXCEPT ![f] = [rows |-> Recent(c), from |-> wiped[c], upto |-> Len(db[c])]]
    /\ UNCHANGED <<list, owed>>

FetchReply(f) ==
    /\ fetch[f] = "read"
    /\ FetchTo(f, "done")
    /\ LET u == fetcher[f].user  c == fetcher[f].conv
           erased == Range(list[u][c]) \ Range(snap[f].rows)
       IN /\ list' = [list EXCEPT ![u][c] = snap[f].rows]
          /\ owed' = [s \in Sessions |-> IF owner[s] = u THEN owed[s] \ erased
                                         ELSE owed[s]]
    /\ UNCHANGED snap

(* Any failure is swallowed and the list stays as it is.                    *)
FetchFails(f) ==
    /\ fetch[f] \in {"asked", "allowed", "read"}
    /\ FetchTo(f, "failed")
    /\ UNCHANGED <<list, snap, owed>>

-----------------------------------------------------------------------------
Next ==
    \/ \E c \in Convs : AddConversation(c)
    \/ \E u \in Users : UpdateAccess(u) \/ CloseSocket(u) \/ RestAnswer(u) \/ RestFails(u)
    \/ \E u \in Users, s \in Sessions : Connect(u, s)
    \/ \E s \in Sessions : \/ ListConversations(s) \/ Upgrade(s) \/ ProxyOpen(s)
                           \/ ReadFrame(s) \/ Receive(s)
    \/ \E s \in Sessions, b \in Subs : Confirm(s, b) \/ LoseSubscription(s, b) \/ Pump(s, b)
    \/ Crash \/ DeleteMessages
    \/ \E u \in Users, m \in Msgs : SendWs(u, m) \/ SendRest(u, m)
    \/ \E m \in Msgs : \/ BackendCheck(m) \/ CheckAccess(m) \/ SendFails(m)
                       \/ Save(m) \/ SaveUnanswered(m) \/ Publish(m) \/ PublishFails(m)
    \/ \E u \in Users, c \in Convs, f \in Fetches : SelectConversation(u, c, f)
    \/ \E f \in Fetches : FetchCheck(f) \/ FetchRead(f) \/ FetchReply(f) \/ FetchFails(f)

Spec == Init /\ [][Next]_vars

(* The goroutines and the browser's event loop run; nothing is assumed of   *)
(* users, of access changes or of the requests a page has outstanding.      *)
Fairness ==
    /\ \A m \in Msgs : WF_vars(Publish(m) \/ PublishFails(m))
    /\ \A s \in Sessions : WF_vars(ProxyOpen(s)) /\ WF_vars(Receive(s))
    /\ \A s \in Sessions, b \in Subs : WF_vars(Pump(s, b))

FairSpec == Spec /\ Fairness

-----------------------------------------------------------------------------
MsgType   == [from : Users \cup {None}, conv : Convs \cup {None},
              via : Sessions \cup {None}, n : Nat]
Fetcher   == [user : Users \cup {None}, conv : Convs \cup {None}]
Snapshot  == [rows : Seq(Msgs), from : Nat, upto : Nat]

(* The types of the variables of the message path.                          *)
TypeOK ==
    /\ exists \in SUBSET Convs
    /\ access \in [Users -> BOOLEAN]
    /\ db \in [Convs -> Seq(Msgs)] /\ wiped \in [Convs -> Nat]
    /\ msg \in [Msgs -> MsgType]
    /\ st \in [Msgs -> Stages]
    /\ pub \in [Msgs -> {"none", "pending", "done", "lost"}]
    /\ phase \in [Sessions -> Phases] /\ owner \in [Sessions -> Users \cup {None}]
    /\ subs \in [Sessions -> SUBSET Subs] /\ live \in [Sessions -> SUBSET Subs]
    /\ up \in [Sessions -> Seq(Msgs)]
    /\ inq \in [Sessions -> [Subs -> Seq(Msgs)]]
    /\ down \in [Sessions -> Seq(Msgs)]
    /\ cur \in [Users -> Sessions \cup {None}]
    /\ active \in [Users -> Convs \cup {None}]
    /\ sending \in [Users -> Msgs \cup {None}]
    /\ list \in [Users -> [Convs -> Seq(Msgs)]]
    /\ fetch \in [Fetches -> FetchStages] /\ fetcher \in [Fetches -> Fetcher]
    /\ snap \in [Fetches -> Snapshot]
    /\ granted \in SUBSET Msgs
    /\ owed \in [Sessions -> SUBSET Msgs] /\ missed \in [Sessions -> SUBSET Msgs]
    /\ cuts \in [Convs -> SUBSET Nat]
    /\ toggles \in 0 .. MaxToggles /\ crashes \in 0 .. MaxCrashes

(* No message appears twice in a list, although it may arrive as the answer *)
(* of the REST call that sent it, as a pushed frame, once more for every    *)
(* further subscription to its conversation, and in a fetched page: the     *)
(* test by messageId in appendMessage is enough.                            *)
NoDuplicates ==
    \A u \in Users, c \in Convs : \A i, j \in DOMAIN list[u][c] :
        list[u][c][i] = list[u][c][j] => i = j

(* What a browser shows in a conversation has been stored in that           *)
(* conversation, whichever statement of SendMessage failed: nothing is      *)
(* published, answered or listed that the database never held.  (It may     *)
(* have been deleted by a reset since, before or after it was published.)   *)
ShownWasStored ==
    \A u \in Users, c \in Convs : Range(list[u][c]) \subseteq Range(db[c])

(* Messages of one socket to one conversation are stored in the order they  *)
(* were sent: the read loop handles one frame at a time.                    *)
SessionOrder ==
    \A c \in Convs : \A i, j \in DOMAIN db[c] :
        LET a == msg[db[c][i]]  b == msg[db[c][j]]
        IN i < j /\ a.via = b.via /\ a.via # None => a.n < b.n

(* A stored message was sent by someone who had chat access at some moment  *)
(* between sending it and its insertion, so nothing sent after a lasting    *)
(* revocation is stored, over either path.                                  *)
AccessChecked ==
    \A c \in Convs : Range(db[c]) \subseteq granted

(* A message that was stored while an open session was subscribed to its    *)
(* conversation is being published or under way to the browser, or it is in *)
(* the list (or was, until a fetched page replaced the list).  There are    *)
(* three ways to lose it: SendMessage did not learn that the row was        *)
(* stored, the publish failed, or Redis was not serving the subscription    *)
(* at that moment.  Nothing else between the insertion and the chat store   *)
(* does, whatever the user looks at meanwhile.                              *)
Lost(s, m) == st[m] = "unanswered" \/ pub[m] = "lost" \/ m \in missed[s]

InTransit(s, m) ==
    m \in Range(down[s]) \cup UNION {Range(inq[s][b]) : b \in Subs}

Accounted ==
    \A s \in Sessions : phase[s] \in {"subscribed", "open"} =>
        \A m \in owed[s] : \/ Lost(s, m)
                           \/ pub[m] = "pending" \/ InTransit(s, m)
                           \/ Shown(s, m)

(* A message leaves a list only when the answer to a fetch replaces it, and *)
(* then only if it was stored after that fetch read the table, was older    *)
(* than the page it read, or had been deleted by a reset before the read.   *)
VanishExplained ==
    [][\A u \in Users, c \in Convs :
         \A m \in Range(list[u][c]) \ Range(list'[u][c]) :
           \E f \in Fetches, i \in DOMAIN db[c] :
             /\ fetch[f] = "read" /\ fetch'[f] = "done"
             /\ fetcher[f] = [user |-> u, conv |-> c]
             /\ db[c][i] = m
             /\ i > snap[f].upto \/ i + Page <= snap[f].upto \/ i <= snap[f].from]_vars

(* A message stored while a session was subscribed to its conversation      *)
(* reaches the list of the session's user, unless it is lost in one of the  *)
(* three ways above or the session ends first: no queue between Redis and   *)
(* the browser waits for anything but its own goroutine.                    *)
Delivered ==
    \A s \in Sessions, m \in Msgs :
        m \in owed[s] ~> \/ Lost(s, m)
                         \/ phase[s] \in {"draining", "closed"}
                         \/ Shown(s, m)

(* The message path implements the log of MessageLog: a message is stored   *)
(* once, in one conversation, and whatever the order in which answers,      *)
(* pushed frames and fetched pages arrive, a browser adds a stored message  *)
(* it does not list yet or takes a page that was once the newest; only a    *)
(* reset takes messages out of the pages, and then all of them.             *)
Log == INSTANCE MessageLog WITH log <- db, views <- list

ImplementsLog == Log!Spec

=============================================================================
