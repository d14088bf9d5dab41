----------------------------- MODULE ChatPage -----------------------------
(***************************************************************************)
(* The chat page around its message list: the first load, the list of      *)
(* conversations, the direct conversations a user starts from the members  *)
(* without one, and the text being typed.  What the page shows lies in     *)
(* chatStore, which is the tab's: it survives leaving the page and signing *)
(* out, as do the calls that fill it.  Sockets and message lists are those *)
(* of ChatDelivery; the race of two get-or-creates is in ChatConversations.*)
(***************************************************************************)
EXTENDS Naturals, FiniteSets

CONSTANTS
    Accounts,  \* bu_staff_profiles: records [person, unit]
    AtOnce,    \* bound on the calls in progress
    MaxSteps,  \* bound on what the user and others do
    MaxTexts,  \* bound on the texts typed
    None

ASSUME NoneAssumption  == None \notin Accounts /\ \A a \in Accounts : None # a.person
ASSUME BoundAssumption == AtOnce \in Nat /\ MaxSteps \in Nat /\ MaxTexts \in Nat

VARIABLES
    made,      \* the direct conversations there are
    user,      \* useAuthStore.user
    convs,     \* chatStore.conversations, None where nothing was loaded
    people,    \* chatStore.workspaces: the persons with access, or None
    active,    \* chatStore.activeConversationId
    open,      \* whether the chat page is mounted, and its
    loading,   \* initialLoading
    sending,
    draft,     \* and draft
    calls,     \* the calls in progress
    steps,     \* how much the user and others have done
    typed,     \* how many texts have been typed
    behind,    \* history: the list was last written for another user, or an
               \* answer took from it what the user had
    inherited, \* history: the active conversation is one of an earlier user's
    sent,      \* history: the last message handed over
    fate       \* history: what became of the texts

store   == <<convs, people, active>>
page    == <<open, loading, sending, draft>>
vars    == <<made, user, store, page, calls, steps, typed, behind, inherited, sent, fate>>

Persons == {a.person : a \in Accounts}
Units   == {a.unit : a \in Accounts}
Members(u) == {a.person : a \in {b \in Accounts : b.unit = u}}
Texts   == 1..MaxTexts

(* A conversation: the group of a unit, or the one of two persons in it.    *)
Conversation(u, who) == [unit |-> u, who |-> who]
Group(u)  == Conversation(u, {})
Pairs(u)  == {w \in SUBSET Members(u) : Cardinality(w) = 2}
DMs       == UNION {{Conversation(u, w) : w \in Pairs(u)} : u \in Units}
Convs     == DMs \cup {Group(u) : u \in Units}

(* What GetConversations answers: the group is created on the way.          *)
Mine(a) == {c \in made \cup {Group(a.unit)} :
              c.unit = a.unit /\ (c.who = {} \/ a.person \in c.who)}

Calls == [op : {"workspace", "list", "dm", "send"}, by : Accounts, here : BOOLEAN,
          conv : Convs \cup {None}, text : Texts \cup {None},
          state : {"sent", "ok", "failed"}, list : SUBSET Convs, who : SUBSET Persons]
Call(op, conv, text) ==
    [op |-> op, by |-> user, here |-> TRUE, conv |-> conv, text |-> text,
     state |-> "sent", list |-> {}, who |-> {}]

(* A text: the conversation the header named when it was begun, and whether *)
(* the header or the choice was not the user's own.                         *)
Drafts   == [text : Texts, under : Convs, excused : BOOLEAN]
Messages == [to : Convs, under : Convs, excused : BOOLEAN]

(* undefined and null are no conversation, list, call or text.              *)
ASSUME AbsentAssumption == /\ None \notin Convs /\ \A list \in SUBSET Convs : list # None
                           /\ None \notin Calls /\ None \notin Drafts

Pending == {i \in DOMAIN calls : calls[i] # None}
Listed  == IF convs[user.unit] = None THEN {} ELSE convs[user.unit]
Label   == IF active \in Listed /\ active.who # {} THEN active ELSE Group(user.unit)
Partners == UNION {c.who : c \in Listed} \ {user.person}
Targets == IF people[user.unit] = None THEN {}
           ELSE people[user.unit] \ (Partners \cup {user.person})

Init ==
    /\ made = {}
    /\ user \in Accounts
    /\ convs = [u \in Units |-> None] /\ people = [u \in Units |-> None]
    /\ active = None
    /\ open = FALSE /\ loading = FALSE /\ sending = FALSE /\ draft = None
    /\ calls = [i \in 1..AtOnce |-> None] /\ steps = 0 /\ typed = 0
    /\ behind = TRUE /\ inherited = FALSE /\ sent = None
    /\ fate = [stored |-> [n \in Texts |-> 0], given |-> {}, dropped |-> {}, broken |-> {}]

-----------------------------------------------------------------------------
Step == steps < MaxSteps /\ steps' = steps + 1

Free(cs)   == {i \in DOMAIN cs : cs[i] = None}
Add(cs, c) == [cs EXCEPT ![CHOOSE i \in Free(cs) : TRUE] = c]

(* Text that is still in the draft goes when the draft is emptied.          *)
Clear ==
    /\ draft' = None
    /\ fate' = IF draft = None \/ draft.text \in fate.given THEN fate
               ELSE [fate EXCEPT !.dropped = @ \cup {draft.text}]

(* The callbacks of a page that was left find its component gone.           *)
Unmount ==
    /\ loading' = FALSE /\ sending' = FALSE /\ Clear
    /\ calls' = [i \in DOMAIN calls |-> IF calls[i] = None THEN None
                                        ELSE [calls[i] EXCEPT !.here = FALSE]]

(* Signing out and in again, in the same tab, empties useAuthStore only.    *)
SignInAs(a) ==
    /\ Step /\ a # user
    /\ user' = a /\ open' = FALSE /\ Unmount
    /\ behind' = TRUE /\ inherited' = (active # None)
    /\ UNCHANGED <<made, store, typed, sent>>

OpenChat ==
    /\ Step /\ ~open /\ Cardinality(Free(calls)) > 1
    /\ open' = TRUE /\ loading' = TRUE
    /\ calls' = Add(Add(calls, Call("workspace", None, None)), Call("list", None, None))
    /\ UNCHANGED <<made, user, store, sending, draft, typed, behind, inherited, sent, fate>>

LeaveChat ==
    /\ Step /\ open
    /\ open' = FALSE /\ Unmount
    /\ UNCHANGED <<made, user, store, typed, behind, inherited, sent>>

Shown == open /\ ~loading

(* The text area is disabled while sending.                                 *)
Type ==
    /\ Shown /\ draft = None /\ ~sending /\ typed < MaxTexts
    /\ typed' = typed + 1
    /\ draft' = [text |-> typed + 1, under |-> Label, excused |-> behind \/ inherited]
    /\ UNCHANGED <<made, user, store, open, loading, sending, calls, steps, behind, inherited, sent, fate>>

Select_KeepsDraft(c) ==
    /\ Step /\ Shown /\ c \in Listed
    /\ active' = c /\ inherited' = (c \notin Mine(user))
    /\ UNCHANGED <<made, user, convs, people, page, calls, typed, behind, sent, fate>>
Select(c) ==
    /\ Step /\ Shown /\ c \in Listed
    /\ active' = c /\ inherited' = (c \notin Mine(user)) /\ Clear
    /\ UNCHANGED <<made, user, convs, people, open, loading, sending, calls, typed, behind, sent>>

(* Nothing stops a second click while the first is under way.               *)
StartDM(p) ==
    /\ Step /\ Shown /\ p \in Targets /\ Free(calls) # {}
    /\ calls' = Add(calls, Call("dm", Conversation(user.unit, {user.person, p}), None))
    /\ UNCHANGED <<made, user, store, page, typed, behind, inherited, sent, fate>>

Ready == Shown /\ draft # None /\ ~sending /\ active # None
Hand  == sent' = [to |-> active, under |-> draft.under,
                  excused |-> draft.excused \/ inherited]

(* With an open socket the text is handed to it and the draft emptied.      *)
SendSocket ==
    /\ Step /\ Ready /\ Hand
    /\ draft' = None /\ fate' = [fate EXCEPT !.given = @ \cup {draft.text}]
    /\ UNCHANGED <<made, user, store, open, loading, sending, calls, typed, behind, inherited>>

(* Without one it is posted, and stays in the draft until the answer.       *)
SendRest_Empties ==
    /\ Step /\ Ready /\ Hand /\ Free(calls) # {}
    /\ sending' = TRUE /\ draft' = None
    /\ calls' = Add(calls, Call("send", active, draft.text))
    /\ UNCHANGED <<made, user, store, open, loading, typed, behind, inherited, fate>>
SendRest_NotBlocked ==
    /\ Step /\ Ready /\ Hand /\ Free(calls) # {}
    /\ calls' = Add(calls, Call("send", active, draft.text))
    /\ UNCHANGED <<made, user, store, page, typed, behind, inherited, fate>>
SendRest ==
    /\ Step /\ Ready /\ Hand /\ Free(calls) # {}
    /\ sending' = TRUE
    /\ calls' = Add(calls, Call("send", active, draft.text))
    /\ UNCHANGED <<made, user, store, open, loading, draft, typed, behind, inherited, fate>>

-----------------------------------------------------------------------------
(* The backend.  Who has access at the moment is left open: all the members *)
(* or none, and a message may be refused.                                   *)

Answered(i, c) == calls' = [calls EXCEPT ![i] = c]

ServeRead(i, c) ==
    /\ \/ c.op = "list" /\ Answered(i, [c EXCEPT !.list = Mine(c.by), !.state = "ok"])
       \/ /\ c.op = "workspace"
          /\ \E who \in {{}, Members(c.by.unit)} :
               Answered(i, [c EXCEPT !.who = who, !.state = "ok"])
    /\ UNCHANGED <<made, fate>>

(* The answer to a write may be lost after it took effect.                  *)
ServeDM(i, c) ==
    /\ c.op = "dm" /\ made' = made \cup {c.conv}
    /\ \E x \in {"ok", "failed"} : Answered(i, [c EXCEPT !.state = x])
    /\ UNCHANGED fate
ServeSend(i, c) ==
    /\ c.op = "send"
    /\ \E x \in {"ok", "failed"} :
         /\ Answered(i, [c EXCEPT !.state = x])
         /\ fate' = [fate EXCEPT !.stored[c.text] = @ + 1,
                                 !.broken = IF x = "ok" THEN @ ELSE @ \cup {c.text}]
    /\ UNCHANGED made
Refused(i, c) == Answered(i, [c EXCEPT !.state = "failed"]) /\ UNCHANGED <<made, fate>>

Serve(i) ==
    /\ i \in Pending /\ calls[i].state = "sent"
    /\ \/ ServeRead(i, calls[i]) \/ ServeDM(i, calls[i])
       \/ ServeSend(i, calls[i]) \/ Refused(i, calls[i])
    /\ UNCHANGED <<user, store, page, steps, typed, behind, inherited, sent>>

(* Others start conversations too.                                          *)
OthersAct ==
    /\ Step
    /\ \E c \in DMs \ made : made' = made \cup {c}
    /\ UNCHANGED <<user, store, page, calls, typed, behind, inherited, sent, fate>>

-----------------------------------------------------------------------------
(* The answers.                                                             *)

(* Promise.all settles when both loads have, or when the list's fails;      *)
(* fetchWorkspace swallows its errors.                                      *)
LastLoad(i) == \A j \in Pending \ {i} : ~(calls[j].here /\ calls[j].op \in {"workspace", "list"})
ListFails(c) == c.op = "list" /\ c.state = "failed"
Loaded_OnSuccess(i, c) ==
    loading' = (loading /\ ~(c.here /\ LastLoad(i) /\ ~ListFails(c)))
Loaded(i, c) ==
    loading' = (loading /\ ~(c.here /\ (LastLoad(i) \/ ListFails(c))))

ReceiveWorkspace(i, c) ==
    /\ c.op = "workspace" /\ Loaded(i, c)
    /\ people' = IF c.state = "ok" THEN [people EXCEPT ![c.by.unit] = c.who] ELSE people
    /\ UNCHANGED <<convs, active, sending, draft, behind, inherited, fate>>

(* The list replaces the one shown; the group is selected if nothing is.    *)
ReceiveList(i, c) ==
    /\ c.op = "list" /\ Loaded(i, c)
    /\ IF c.state = "failed" THEN UNCHANGED <<convs, active, behind, inherited>>
       ELSE /\ convs' = [convs EXCEPT ![c.by.unit] = c.list]
            /\ behind' = IF c.by = user
                         THEN ~((Listed \cup {active}) \cap Mine(user) \subseteq c.list)
                         ELSE behind \/ c.by.unit = user.unit
            /\ IF active = None THEN active' = Group(c.by.unit) /\ inherited' = (c.by # user)
               ELSE UNCHANGED <<active, inherited>>
    /\ UNCHANGED <<people, sending, draft, fate>>

(* A conversation that was made is listed and becomes the active one.       *)
Chosen_Target(c) == CHOOSE p \in c.conv.who : p # c.by.person
Chosen(c) == c.conv
Append(c) ==
    convs' = [convs EXCEPT ![c.by.unit] = (IF @ = None THEN {} ELSE @) \cup {c.conv}]
ReceiveDM(i, c) ==
    /\ c.op = "dm"
    /\ IF c.state = "failed" THEN UNCHANGED <<convs, active, draft, behind, inherited, fate>>
       ELSE /\ Append(c)
            /\ active' = Chosen(c) /\ inherited' = (c.by # user)
            /\ behind' = (behind \/ (c.by # user /\ c.by.unit = user.unit))
            /\ IF c.here THEN Clear
               ELSE /\ draft' = IF draft = None THEN None ELSE [draft EXCEPT !.excused = TRUE]
                    /\ UNCHANGED fate
    /\ UNCHANGED <<people, loading, sending>>

ReceiveSend(i, c) ==
    /\ c.op = "send"
    /\ sending' = IF c.here THEN FALSE ELSE sending
    /\ IF c.state = "failed" THEN UNCHANGED <<draft, fate>>
       ELSE /\ draft' = IF c.here THEN None ELSE draft
            /\ fate' = [fate EXCEPT !.given = @ \cup {c.text}]
    /\ UNCHANGED <<store, loading, behind, inherited>>

Receive(i) ==
    /\ i \in Pending /\ calls[i].state # "sent"
    /\ calls' = [calls EXCEPT ![i] = None]
    /\ \/ ReceiveWorkspace(i, calls[i]) \/ ReceiveList(i, calls[i])
       \/ ReceiveDM(i, calls[i]) \/ ReceiveSend(i, calls[i])
    /\ UNCHANGED <<made, user, open, steps, typed, sent>>

Next ==
    \/ \E a \in Accounts : SignInAs(a)
    \/ OpenChat \/ LeaveChat \/ Type \/ SendSocket \/ SendRest
    \/ \E c \in Convs : Select(c)
    \/ \E p \in Persons : StartDM(p)
    \/ \E i \in DOMAIN calls : Serve(i) \/ Receive(i)
    \/ OthersAct

Spec == Init /\ [][Next]_vars

(* A call ends, with an answer or an error, and the event loop handles it.  *)
FairSpec ==
    /\ Spec
    /\ \A i \in 1..AtOnce : WF_vars(Serve(i)) /\ WF_vars(Receive(i))

-----------------------------------------------------------------------------
TypeOK ==
    /\ made \subseteq DMs /\ user \in Accounts
    /\ convs \in [Units -> (SUBSET Convs) \cup {None}]
    /\ people \in [Units -> (SUBSET Persons) \cup {None}]
    /\ active \in Convs \cup {None}
    /\ open \in BOOLEAN /\ loading \in BOOLEAN /\ sending \in BOOLEAN
    /\ draft \in Drafts \cup {None}
    /\ \A i \in Pending : calls[i] \in Calls
    /\ steps \in 0..MaxSteps /\ typed \in 0..MaxTexts
    /\ behind \in BOOLEAN /\ inherited \in BOOLEAN /\ sent \in Messages \cup {None}
    /\ fate \in [stored : [Texts -> 0..MaxSteps], given : SUBSET Texts,
                 dropped : SUBSET Texts, broken : SUBSET Texts]

(* A message goes to the conversation the header named when its first key   *)
(* was typed, although answers list and select conversations meanwhile.     *)
(* Excused are a conversation of an earlier user of the tab, a list that an *)
(* older answer or an earlier user's had replaced when the user began, and  *)
(* a conversation started on an earlier visit to the page whose answer      *)
(* comes while the user is typing.                                          *)
SentAsLabelled == sent # None /\ ~sent.excused => sent.to = sent.under

(* A text that was typed is in the draft, on its way, handed over, or was   *)
(* dropped where the page empties the draft: never by a call that failed.   *)
TextAccounted ==
    \A n \in 1..typed :
        \/ draft # None /\ draft.text = n
        \/ n \in fate.given \cup fate.dropped
        \/ \E i \in Pending : calls[i].op = "send" /\ calls[i].text = n

(* A text posted over REST is stored once, unless an answer was lost and    *)
(* the user sent it again.                                                  *)
StoredOnce == \A n \in Texts : fate.stored[n] > 1 => n \in fate.broken

(* The page stops loading, and the text area is given back.                 *)
PageSettles == (loading ~> ~loading) /\ (sending ~> ~sending)
=============================================================================
