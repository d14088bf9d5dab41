--------------------------- MODULE ChatPageProofs ---------------------------
(***************************************************************************)
(* Proofs about ChatPage: its types, that a text is sent where the header  *)
(* said it would go, that no text is lost unnoticed, and that one posted   *)
(* over REST is stored once.                                               *)
(***************************************************************************)
EXTENDS ChatPage, FiniteSetTheorems, TLAPS

-----------------------------------------------------------------------------
(* The operators.                                                           *)

(* A conversation of a unit is its group or one of two of its members.      *)
LEMMA ConvShape ==
    ASSUME NEW c \in Convs
    PROVE  c.unit \in Units /\ c = [unit |-> c.unit, who |-> c.who]
  BY DEF Convs, DMs, Group, Conversation, Units

LEMMA GroupIsConv ==
    ASSUME NEW u \in Units
    PROVE  Group(u) \in Convs /\ Group(u).unit = u /\ Group(u).who = {}
  BY DEF Convs, Group, Conversation

LEMMA UnitOf == ASSUME NEW a \in Accounts PROVE a.unit \in Units /\ a.person \in Persons
  BY DEF Units, Persons

LEMMA MembersArePersons == ASSUME NEW u PROVE Members(u) \subseteq Persons
  BY DEF Members, Persons

LEMMA PairIsConv ==
    ASSUME NEW a \in Accounts, NEW p \in Members(a.unit), p # a.person
    PROVE  /\ Conversation(a.unit, {a.person, p}) \in DMs
           /\ Conversation(a.unit, {a.person, p}).unit = a.unit
           /\ a.person \in Conversation(a.unit, {a.person, p}).who
<1>1. Cardinality({a.person} \cup {p}) = 2
  <2>1. IsFiniteSet({a.person}) /\ Cardinality({a.person}) = 1
    BY FS_Singleton
  <2> QED
    BY <2>1, FS_AddElement
<1>2. {a.person, p} = {a.person} \cup {p}
  OBVIOUS
<1>3. {a.person, p} \in Pairs(a.unit)
  BY <1>1, <1>2 DEF Pairs, Members
<1>4. Conversation(a.unit, {a.person, p}) \in DMs
  BY <1>3, UnitOf DEF DMs
<1> QED
  BY <1>4 DEF Conversation

LEMMA MineAreConvs ==
    ASSUME made \subseteq DMs, NEW a \in Accounts
    PROVE  Mine(a) \subseteq Convs
  BY GroupIsConv, UnitOf DEF Mine, Convs

(* Adding a call fills a free place.                                        *)
LEMMA AddFills ==
    ASSUME NEW S, NEW cs \in [1..AtOnce -> S], NEW c, Free(cs) # {}
    PROVE  \E k \in 1..AtOnce : cs[k] = None /\ Add(cs, c) = [cs EXCEPT ![k] = c]
<1> DEFINE k == CHOOSE i \in Free(cs) : TRUE
<1>1. k \in Free(cs)
  OBVIOUS
<1>2. k \in 1..AtOnce /\ cs[k] = None
  BY <1>1 DEF Free
<1> QED
  BY <1>2 DEF Add

-----------------------------------------------------------------------------
(* Types.  A call in progress is what its kind allows, and its answer names *)
(* only what there is.                                                      *)
GoodCalls ==
    {c \in Calls :
        /\ c.who \subseteq Members(c.by.unit)
        /\ c.op = "send" => c.text \in Texts /\ c.text <= typed /\ c.conv \in Convs
        /\ c.op = "dm" => /\ c.conv \in DMs /\ c.conv.unit = c.by.unit
                          /\ c.by.person \in c.conv.who
        /\ c.op = "dm" /\ c.state = "ok" => c.conv \in made
        /\ c.op = "list" /\ c.state = "ok" => c.list \subseteq Mine(c.by)}

WorldTypes == made \subseteq DMs /\ user \in Accounts
CallTypes  == calls \in [1..AtOnce -> GoodCalls \cup {None}]
StoreTypes ==
    /\ convs \in [Units -> (SUBSET Convs) \cup {None}]
    /\ people \in [Units -> (SUBSET Persons) \cup {None}]
    /\ \A u \in Units : people[u] = None \/ people[u] \subseteq Members(u)
    /\ active \in Convs \cup {None}
PageTypes ==
    /\ open \in BOOLEAN /\ loading \in BOOLEAN /\ sending \in BOOLEAN
    /\ draft \in Drafts \cup {None} /\ (draft # None => draft.text <= typed)
NoteTypes ==
    /\ steps \in 0..MaxSteps /\ typed \in 0..MaxTexts
    /\ behind \in BOOLEAN /\ inherited \in BOOLEAN /\ sent \in Messages \cup {None}
    /\ fate \in [stored : [Texts -> Nat], given : SUBSET Texts,
                 dropped : SUBSET Texts, broken : SUBSET Texts]
TInv == WorldTypes /\ CallTypes /\ StoreTypes /\ PageTypes /\ NoteTypes

LEMMA GoodIsConstant ==
    ASSUME NoteTypes, made \subseteq made', typed' \in Nat, typed <= typed'
    PROVE  GoodCalls \subseteq GoodCalls'
<1> SUFFICES ASSUME NEW c \in GoodCalls PROVE c \in GoodCalls'
  OBVIOUS
<1>1. c.op = "send" => c.text <= typed'
  <2> SUFFICES ASSUME c.op = "send" PROVE c.text <= typed'
    OBVIOUS
  <2>1. c.text \in Texts /\ c.text <= typed
    BY DEF GoodCalls
  <2>2. c.text \in Int /\ typed \in Int
    BY <2>1 DEF Texts, NoteTypes
  <2> QED
    BY <2>1, <2>2
<1>2. Mine(c.by) \subseteq Mine(c.by)'
  BY DEF Mine
<1> QED
  BY <1>1, <1>2 DEF GoodCalls

(* The conversations a user sees.                                           *)
LEMMA ListedAreConvs == TInv => Listed \subseteq Convs
<1> SUFFICES ASSUME TInv PROVE Listed \subseteq Convs
  OBVIOUS
<1>1. convs[user.unit] \in (SUBSET Convs) \cup {None}
  BY UnitOf DEF TInv, WorldTypes, StoreTypes
<1> QED
  BY <1>1 DEF Listed

LEMMA LabelIsConv == TInv => Label \in Convs
<1> SUFFICES ASSUME TInv PROVE Label \in Convs
  OBVIOUS
<1>1. Listed \subseteq Convs /\ Group(user.unit) \in Convs
  BY ListedAreConvs, GroupIsConv, UnitOf DEF TInv, WorldTypes
<1> QED
  BY <1>1 DEF Label

(* A person without a conversation yet is another member of the unit.       *)
LEMMA TargetsAreOthers ==
    ASSUME TInv, NEW p \in Targets PROVE p \in Members(user.unit) /\ p # user.person
<1>1. user.unit \in Units /\ (people[user.unit] = None \/ people[user.unit] \subseteq Members(user.unit))
  BY UnitOf DEF TInv, WorldTypes, StoreTypes
<1> QED
  BY <1>1 DEF Targets

(* Opening the page finds two free places.                                  *)
LEMMA TwoFree ==
    ASSUME CallTypes, Cardinality(Free(calls)) > 1,
           NEW c \in GoodCalls, NEW d \in GoodCalls
    PROVE  \E k, l \in 1..AtOnce :
             /\ k # l /\ calls[k] = None /\ calls[l] = None
             /\ Add(Add(calls, c), d) = [[calls EXCEPT ![k] = c] EXCEPT ![l] = d]
<1>1. Free(calls) # {}
  BY FS_EmptySet
<1>2. PICK k \in 1..AtOnce : calls[k] = None /\ Add(calls, c) = [calls EXCEPT ![k] = c]
  BY <1>1, AddFills DEF CallTypes
<1> DEFINE cs == [calls EXCEPT ![k] = c]
<1>3. cs \in [1..AtOnce -> GoodCalls \cup {None}]
  BY <1>2 DEF CallTypes
<1>4. Free(calls) \subseteq {k} \cup Free(cs)
  BY <1>2 DEF Free, CallTypes
<1>5. Free(cs) # {}
  <2> SUFFICES ASSUME Free(cs) = {} PROVE FALSE
    OBVIOUS
  <2>1. Free(calls) = {k}
    BY <1>1, <1>4
  <2>2. Cardinality(Free(calls)) = 1
    BY <2>1, FS_Singleton
  <2> QED
    BY <2>2
<1>6. PICK l \in 1..AtOnce : cs[l] = None /\ Add(cs, d) = [cs EXCEPT ![l] = d]
  <2> HIDE DEF cs
  <2> QED
    BY <1>3, <1>5, AddFills
<1>7. c # None
  BY AbsentAssumption DEF GoodCalls
<1>8. l # k /\ calls[l] = None
  BY <1>2, <1>6, <1>7 DEF CallTypes
<1> QED
  BY <1>2, <1>6, <1>8

LEMMA FreshCalls ==
    ASSUME TInv
    PROVE  /\ Call("workspace", None, None) \in GoodCalls
           /\ Call("list", None, None) \in GoodCalls
           /\ \A p \in Targets :
                Call("dm", Conversation(user.unit, {user.person, p}), None) \in GoodCalls
           /\ (draft # None /\ active # None) => Call("send", active, draft.text) \in GoodCalls
<1>1. user \in Accounts
  BY DEF TInv, WorldTypes
<1>2. Call("workspace", None, None) \in GoodCalls /\ Call("list", None, None) \in GoodCalls
  BY <1>1 DEF Call, Calls, GoodCalls
<1>3. ASSUME NEW p \in Targets
      PROVE  Call("dm", Conversation(user.unit, {user.person, p}), None) \in GoodCalls
  <2> DEFINE c == Conversation(user.unit, {user.person, p})
  <2>1. c \in DMs /\ c.unit = user.unit /\ user.person \in c.who
    BY <1>1, TargetsAreOthers, PairIsConv
  <2>2. c \in Convs
    BY <2>1 DEF Convs
  <2> HIDE DEF c
  <2>3. /\ Call("dm", c, None) \in Calls /\ Call("dm", c, None).who = {}
        /\ Call("dm", c, None).op = "dm" /\ Call("dm", c, None).state = "sent"
        /\ Call("dm", c, None).by = user /\ Call("dm", c, None).conv = c
    BY <1>1, <2>2 DEF Call, Calls
  <2> DEFINE d == Call("dm", c, None)
  <2>4. d \in Calls /\ d.who = {} /\ d.op = "dm" /\ d.state = "sent" /\ d.by = user /\ d.conv = c
    BY <2>3
  <2>5. d \in GoodCalls
    <3> HIDE DEF d
    <3> QED
      BY <2>1, <2>4 DEF GoodCalls
  <2> QED
    BY <2>5 DEF c
<1>4. ASSUME draft # None, active # None PROVE Call("send", active, draft.text) \in GoodCalls
  <2>1. active \in Convs /\ draft.text \in Texts /\ draft.text <= typed
    BY <1>4 DEF TInv, StoreTypes, PageTypes, Drafts
  <2> QED
    BY <1>1, <2>1 DEF Call, Calls, GoodCalls
<1> QED
  BY <1>2, <1>3, <1>4

(* What becomes of a call keeps it good: its page is left, it is answered.  *)
LEMMA LeftIsGood ==
    ASSUME NEW c \in GoodCalls PROVE [c EXCEPT !.here = FALSE] \in GoodCalls
  BY DEF GoodCalls, Calls

LEMMA FailedIsGood ==
    ASSUME NEW c \in GoodCalls PROVE [c EXCEPT !.state = "failed"] \in GoodCalls
  BY DEF GoodCalls, Calls

LEMMA ListIsGood ==
    ASSUME WorldTypes, NEW c \in GoodCalls
    PROVE  c.op = "list" => [c EXCEPT !.list = Mine(c.by), !.state = "ok"] \in GoodCalls
<1>1. c.by \in Accounts
  BY DEF GoodCalls, Calls
<1>2. Mine(c.by) \subseteq Convs
  BY <1>1, MineAreConvs DEF WorldTypes
<1> QED
  BY <1>2 DEF GoodCalls, Calls

LEMMA WorkspaceIsGood ==
    ASSUME NEW c \in GoodCalls, c.op = "workspace",
           NEW who, who = {} \/ who = Members(c.by.unit)
    PROVE  [c EXCEPT !.who = who, !.state = "ok"] \in GoodCalls
<1>1. who \subseteq Persons /\ who \subseteq Members(c.by.unit)
  BY MembersArePersons
<1> QED
  BY <1>1 DEF GoodCalls, Calls

LEMMA SendIsGood ==
    ASSUME NEW c \in GoodCalls, c.op = "send"
    PROVE  [c EXCEPT !.state = "ok"] \in GoodCalls
  BY DEF GoodCalls, Calls

LEMMA DMIsGood ==
    ASSUME NEW c \in GoodCalls, c.op = "dm", c.conv \in made
    PROVE  [c EXCEPT !.state = "ok"] \in GoodCalls
  BY DEF GoodCalls, Calls

LEMMA TypesClear ==
    ASSUME PageTypes, NoteTypes, Clear
    PROVE  /\ draft' = None
           /\ fate' \in [stored : [Texts -> Nat], given : SUBSET Texts,
                         dropped : SUBSET Texts, broken : SUBSET Texts]
<1>1. CASE draft = None \/ draft.text \in fate.given
  BY <1>1 DEF Clear, NoteTypes
<1>2. CASE ~(draft = None \/ draft.text \in fate.given)
  <2>1. draft.text \in Texts
    BY <1>2 DEF PageTypes, Drafts
  <2> QED
    BY <1>2, <2>1 DEF Clear, NoteTypes
<1> QED
  BY <1>1, <1>2

LEMMA TypesUnmount ==
    ASSUME CallTypes, Unmount PROVE calls' \in [1..AtOnce -> GoodCalls \cup {None}]
  BY LeftIsGood DEF CallTypes, Unmount

LEMMA TypesPut ==
    ASSUME CallTypes, NEW i \in 1..AtOnce, NEW c \in GoodCalls \cup {None},
           calls' = [calls EXCEPT ![i] = c]
    PROVE  calls' \in [1..AtOnce -> GoodCalls \cup {None}]
  BY DEF CallTypes

LEMMA TypesUser ==
    ASSUME TInv,
           \/ \E a \in Accounts : SignInAs(a)
           \/ OpenChat \/ LeaveChat \/ Type \/ SendSocket \/ SendRest
           \/ \E c \in Convs : Select(c)
           \/ \E p \in Persons : StartDM(p)
    PROVE  TInv'
<1> USE BoundAssumption DEF TInv
<1>g. made' = made /\ typed' = typed => GoodCalls' = GoodCalls
  BY DEF GoodCalls, Mine
<1>1. ASSUME NEW a \in Accounts, SignInAs(a) PROVE TInv'
  <2> USE <1>1 DEF SignInAs
  <2>1. GoodCalls' = GoodCalls
    BY <1>g
  <2>2. CallTypes'
    BY <2>1, TypesUnmount DEF CallTypes
  <2>3. WorldTypes' /\ StoreTypes'
    BY DEF WorldTypes, StoreTypes, store
  <2>4. PageTypes' /\ NoteTypes'
    <3>1. /\ draft' = None
          /\ fate' \in [stored : [Texts -> Nat], given : SUBSET Texts,
                        dropped : SUBSET Texts, broken : SUBSET Texts]
      BY TypesClear DEF Unmount
    <3>2. loading' = FALSE /\ sending' = FALSE
      BY DEF Unmount
    <3>3. PageTypes'
      BY <3>1, <3>2 DEF PageTypes
    <3>4. inherited' \in BOOLEAN /\ behind' \in BOOLEAN
      BY DEF NoteTypes
    <3>5. NoteTypes'
      BY <3>1, <3>4 DEF NoteTypes, Step
    <3> QED
      BY <3>3, <3>5
  <2> QED
    BY <2>2, <2>3, <2>4
<1>2. CASE OpenChat
  <2> USE <1>2 DEF OpenChat
  <2>1. GoodCalls' = GoodCalls
    BY <1>g
  <2>2. CallTypes'
    <3>1. PICK k, l \in 1..AtOnce :
            calls' = [[calls EXCEPT ![k] = Call("workspace", None, None)]
                         EXCEPT ![l] = Call("list", None, None)]
      BY FreshCalls, TwoFree
    <3> QED
      BY <2>1, <3>1, FreshCalls DEF CallTypes
  <2>3. WorldTypes' /\ StoreTypes'
    BY DEF WorldTypes, StoreTypes, store
  <2>4. PageTypes' /\ NoteTypes'
    BY DEF PageTypes, NoteTypes, Step
  <2> QED
    BY <2>2, <2>3, <2>4
<1>3. CASE LeaveChat
  <2> USE <1>3 DEF LeaveChat
  <2>1. GoodCalls' = GoodCalls
    BY <1>g
  <2>2. CallTypes'
    BY <2>1, TypesUnmount DEF CallTypes
  <2>3. WorldTypes' /\ StoreTypes'
    BY DEF WorldTypes, StoreTypes, store
  <2>4. PageTypes' /\ NoteTypes'
    <3>1. /\ draft' = None
          /\ fate' \in [stored : [Texts -> Nat], given : SUBSET Texts,
                        dropped : SUBSET Texts, broken : SUBSET Texts]
      BY TypesClear DEF Unmount
    <3>2. loading' = FALSE /\ sending' = FALSE
      BY DEF Unmount
    <3>3. PageTypes'
      BY <3>1, <3>2 DEF PageTypes
    <3>4. inherited' \in BOOLEAN /\ behind' \in BOOLEAN
      BY DEF NoteTypes
    <3>5. NoteTypes'
      BY <3>1, <3>4 DEF NoteTypes, Step
    <3> QED
      BY <3>3, <3>5
  <2> QED
    BY <2>2, <2>3, <2>4
<1>4. CASE Type
  <2> USE <1>4 DEF Type
  <2>1. CallTypes'
    <3>1. GoodCalls \subseteq GoodCalls'
      BY GoodIsConstant DEF NoteTypes
    <3> QED
      BY <3>1 DEF CallTypes
  <2>2. WorldTypes' /\ StoreTypes'
    BY DEF WorldTypes, StoreTypes, store
  <2>3. typed + 1 \in Texts /\ typed' \in 0..MaxTexts
    BY DEF NoteTypes, Texts
  <2>4. PageTypes'
    <3>1. draft' \in Drafts
      BY <2>3, LabelIsConv DEF Drafts, NoteTypes
    <3> QED
      BY <2>3, <3>1 DEF PageTypes
  <2>5. NoteTypes'
    BY <2>3 DEF NoteTypes
  <2> QED
    BY <2>1, <2>2, <2>4, <2>5
<1>5. CASE SendSocket
  <2> USE <1>5 DEF SendSocket
  <2>1. GoodCalls' = GoodCalls
    BY <1>g
  <2>2. WorldTypes' /\ StoreTypes' /\ CallTypes'
    BY <2>1 DEF WorldTypes, StoreTypes, CallTypes, store
  <2>3. draft \in Drafts /\ active \in Convs
    BY DEF PageTypes, StoreTypes, Ready
  <2>4. sent' \in Messages
    BY <2>3 DEF Hand, Messages, Drafts, NoteTypes
  <2>5. PageTypes' /\ NoteTypes'
    BY <2>3, <2>4 DEF PageTypes, NoteTypes, Step, Drafts
  <2> QED
    BY <2>2, <2>5
<1>6. CASE SendRest
  <2> USE <1>6 DEF SendRest
  <2>1. GoodCalls' = GoodCalls
    BY <1>g
  <2>2. WorldTypes' /\ StoreTypes'
    BY DEF WorldTypes, StoreTypes, store
  <2>3. draft \in Drafts /\ active \in Convs /\ draft # None /\ active # None
    BY DEF PageTypes, StoreTypes, Ready
  <2>4. sent' \in Messages
    BY <2>3 DEF Hand, Messages, Drafts, NoteTypes
  <2>5. CallTypes'
    <3>1. PICK k \in 1..AtOnce : calls' = [calls EXCEPT ![k] = Call("send", active, draft.text)]
      BY AddFills DEF CallTypes
    <3> QED
      BY <2>1, <2>3, <3>1, FreshCalls, TypesPut DEF CallTypes
  <2>6. PageTypes' /\ NoteTypes'
    BY <2>3, <2>4 DEF PageTypes, NoteTypes, Step
  <2> QED
    BY <2>2, <2>5, <2>6
<1>7. ASSUME NEW c \in Convs, Select(c) PROVE TInv'
  <2> USE <1>7 DEF Select
  <2>1. GoodCalls' = GoodCalls
    BY <1>g
  <2>2. WorldTypes' /\ StoreTypes' /\ CallTypes'
    BY <2>1 DEF WorldTypes, StoreTypes, CallTypes
  <2>3. PageTypes' /\ NoteTypes'
    BY TypesClear DEF PageTypes, NoteTypes, Step
  <2> QED
    BY <2>2, <2>3
<1>8. ASSUME NEW p \in Persons, StartDM(p) PROVE TInv'
  <2> USE <1>8 DEF StartDM
  <2>1. GoodCalls' = GoodCalls
    BY <1>g
  <2>2. WorldTypes' /\ StoreTypes'
    BY DEF WorldTypes, StoreTypes, store
  <2>3. CallTypes'
    <3>1. PICK k \in 1..AtOnce :
            calls' = [calls EXCEPT ![k] =
                        Call("dm", Conversation(user.unit, {user.person, p}), None)]
      BY AddFills DEF CallTypes
    <3> QED
      BY <2>1, <3>1, FreshCalls, TypesPut DEF CallTypes
  <2>4. PageTypes' /\ NoteTypes'
    BY DEF PageTypes, NoteTypes, Step, page
  <2> QED
    BY <2>2, <2>3, <2>4
<1> QED
  BY <1>1, <1>2, <1>3, <1>4, <1>5, <1>6, <1>7, <1>8

(* The backend's answers.                                                   *)
LEMMA TypesServed ==
    ASSUME TInv, NEW i \in 1..AtOnce, Serve(i)
    PROVE  /\ i \in Pending /\ calls[i] \in GoodCalls
           /\ made \subseteq made' /\ made' \subseteq DMs
           /\ \E c \in GoodCalls' : calls' = [calls EXCEPT ![i] = c]
           /\ fate' \in [stored : [Texts -> Nat], given : SUBSET Texts,
                         dropped : SUBSET Texts, broken : SUBSET Texts]
<1> USE BoundAssumption
<1> DEFINE c == calls[i]
<1>1. i \in Pending /\ c \in GoodCalls /\ UNCHANGED typed
  BY DEF Serve, Pending, TInv, CallTypes
<1>2. fate \in [stored : [Texts -> Nat], given : SUBSET Texts,
                dropped : SUBSET Texts, broken : SUBSET Texts]
  BY DEF TInv, NoteTypes
<1>3. made \subseteq DMs /\ typed \in Nat
  BY DEF TInv, WorldTypes, NoteTypes
<1>g. made \subseteq made' => GoodCalls \subseteq GoodCalls'
  BY <1>1, <1>3, GoodIsConstant DEF TInv
<1>m. made' = made => GoodCalls' = GoodCalls
  BY <1>1 DEF GoodCalls, Mine
<1>4. CASE ServeRead(i, c)
  <2>1. made' = made /\ fate' = fate
    BY <1>4 DEF ServeRead
  <2>2. CASE c.op = "list" /\ Answered(i, [c EXCEPT !.list = Mine(c.by), !.state = "ok"])
    BY <2>1, <2>2, <1>1, <1>2, <1>3, <1>m, ListIsGood DEF Answered, TInv
  <2>3. ASSUME c.op = "workspace", NEW who \in {{}, Members(c.by.unit)},
               Answered(i, [c EXCEPT !.who = who, !.state = "ok"])
        PROVE  \E d \in GoodCalls' : calls' = [calls EXCEPT ![i] = d]
    BY <2>1, <2>3, <1>1, <1>m, WorkspaceIsGood DEF Answered
  <2> QED
    BY <2>1, <2>2, <2>3, <1>1, <1>2, <1>3, <1>4 DEF ServeRead
<1>5. CASE ServeDM(i, c)
  <2>1. c.op = "dm" /\ c.conv \in DMs /\ fate' = fate
    BY <1>1, <1>5 DEF ServeDM, GoodCalls
  <2>2. made' = made \cup {c.conv}
    BY <1>5 DEF ServeDM
  <2>3. c \in GoodCalls' /\ c.conv \in made'
    BY <1>1, <1>g, <2>2
  <2>4. [c EXCEPT !.state = "ok"] \in GoodCalls' /\ [c EXCEPT !.state = "failed"] \in GoodCalls'
    <3> HIDE DEF c
    <3> QED
      BY <2>1, <2>3 DEF GoodCalls, Calls
  <2> QED
    BY <1>1, <1>2, <1>3, <1>5, <2>1, <2>2, <2>4 DEF ServeDM, Answered
<1>6. CASE ServeSend(i, c)
  <2>1. c.op = "send" /\ c.text \in Texts /\ made' = made
    BY <1>1, <1>6 DEF ServeSend, GoodCalls
  <2>2. PICK x \in {"ok", "failed"} :
          /\ calls' = [calls EXCEPT ![i] = [c EXCEPT !.state = x]]
          /\ fate' = [fate EXCEPT !.stored[c.text] = @ + 1,
                                  !.broken = IF x = "ok" THEN @ ELSE @ \cup {c.text}]
    BY <1>6 DEF ServeSend, Answered
  <2>3. [c EXCEPT !.state = x] \in GoodCalls'
    BY <1>1, <1>m, <2>1, SendIsGood, FailedIsGood
  <2>4. fate' \in [stored : [Texts -> Nat], given : SUBSET Texts,
                   dropped : SUBSET Texts, broken : SUBSET Texts]
    <3>1. /\ [fate.stored EXCEPT ![c.text] = @ + 1] \in [Texts -> Nat]
          /\ (IF x = "ok" THEN fate.broken ELSE fate.broken \cup {c.text}) \in SUBSET Texts
      BY <1>2, <2>1
    <3> QED
      BY <1>2, <2>2, <3>1
  <2> QED
    BY <1>1, <1>3, <2>1, <2>2, <2>3, <2>4
<1>7. CASE Refused(i, c)
  BY <1>1, <1>2, <1>3, <1>7, <1>m, FailedIsGood DEF Refused, Answered
<1> QED
  BY <1>4, <1>5, <1>6, <1>7 DEF Serve

LEMMA TypesServe ==
    ASSUME TInv, NEW i \in 1..AtOnce, Serve(i)
    PROVE  TInv'
<1>1. /\ made \subseteq made' /\ made' \subseteq DMs
      /\ UNCHANGED <<user, store, page, steps, typed, behind, inherited, sent>>
      /\ fate' \in [stored : [Texts -> Nat], given : SUBSET Texts,
                    dropped : SUBSET Texts, broken : SUBSET Texts]
  BY TypesServed DEF Serve
<1>2. GoodCalls \subseteq GoodCalls'
  BY <1>1, BoundAssumption, GoodIsConstant DEF TInv, NoteTypes
<1>3. PICK c \in GoodCalls' : calls' = [calls EXCEPT ![i] = c]
  BY TypesServed
<1>4. CallTypes'
  BY <1>2, <1>3 DEF TInv, CallTypes
<1>5. WorldTypes' /\ StoreTypes'
  BY <1>1 DEF TInv, WorldTypes, StoreTypes, store
<1>6. PageTypes' /\ NoteTypes'
  BY <1>1 DEF TInv, PageTypes, NoteTypes, page
<1> QED
  BY <1>4, <1>5, <1>6 DEF TInv

LEMMA TypesOthers == TInv /\ OthersAct => TInv'
<1> SUFFICES ASSUME TInv, OthersAct PROVE TInv'
  OBVIOUS
<1>1. /\ made \subseteq made' /\ made' \subseteq DMs
      /\ UNCHANGED <<user, store, page, calls, typed, behind, inherited, sent, fate>>
  BY DEF OthersAct, TInv, WorldTypes
<1>2. GoodCalls \subseteq GoodCalls'
  BY <1>1, BoundAssumption, GoodIsConstant DEF TInv, NoteTypes
<1>3. CallTypes'
  BY <1>1, <1>2 DEF TInv, CallTypes
<1>4. WorldTypes' /\ StoreTypes'
  BY <1>1 DEF TInv, WorldTypes, StoreTypes, store
<1>5. PageTypes' /\ NoteTypes'
  BY <1>1, BoundAssumption DEF TInv, PageTypes, NoteTypes, page, OthersAct, Step
<1> QED
  BY <1>3, <1>4, <1>5 DEF TInv

(* The answers' arrival.                                                    *)
LEMMA TypesReceived ==
    ASSUME TInv, NEW c \in GoodCalls, NEW i \in 1..AtOnce,
           \/ ReceiveWorkspace(i, c) \/ ReceiveList(i, c)
           \/ ReceiveDM(i, c) \/ ReceiveSend(i, c),
           UNCHANGED <<made, user, open, steps, typed, sent>>
    PROVE  StoreTypes' /\ PageTypes' /\ NoteTypes'
<1>c. c \in Calls /\ c.by \in Accounts /\ c.by.unit \in Units
  BY UnitOf DEF GoodCalls, Calls
<1>b. loading \in BOOLEAN /\ \A p \in BOOLEAN : (loading /\ ~p) \in BOOLEAN
  BY DEF TInv, PageTypes
<1>1. CASE ReceiveWorkspace(i, c)
  <2>1. loading' \in BOOLEAN
    BY <1>1 DEF ReceiveWorkspace, Loaded
  <2>2. c.who \subseteq Persons /\ c.who \subseteq Members(c.by.unit)
    BY DEF GoodCalls, Calls
  <2>3. StoreTypes'
    BY <1>1, <1>c, <2>2 DEF ReceiveWorkspace, TInv, StoreTypes
  <2> QED
    BY <1>1, <2>1, <2>3 DEF ReceiveWorkspace, TInv, PageTypes, NoteTypes
<1>2. CASE ReceiveList(i, c)
  <2>1. loading' \in BOOLEAN
    BY <1>2 DEF ReceiveList, Loaded
  <2>2. c.list \subseteq Convs /\ Group(c.by.unit) \in Convs
    BY <1>c, GroupIsConv DEF Calls
  <2>3. StoreTypes'
    BY <1>2, <1>c, <2>2 DEF ReceiveList, TInv, StoreTypes
  <2>4. inherited' \in BOOLEAN /\ behind' \in BOOLEAN
    <3>1. inherited \in BOOLEAN /\ behind \in BOOLEAN
      BY DEF TInv, NoteTypes
    <3>2. CASE c.state = "failed"
      BY <1>2, <3>1, <3>2 DEF ReceiveList
    <3>3. CASE c.state # "failed"
      <4>1. inherited' \in BOOLEAN
        BY <1>2, <3>1, <3>3 DEF ReceiveList
      <4>2. behind' \in BOOLEAN
        BY <1>2, <3>1, <3>3, Zenon DEF ReceiveList
      <4> QED
        BY <4>1, <4>2
    <3> QED
      BY <3>2, <3>3
  <2> QED
    BY <1>2, <2>1, <2>3, <2>4 DEF ReceiveList, TInv, PageTypes, NoteTypes
<1>3. CASE ReceiveDM(i, c)
  <2>1. c.conv \in Convs
    BY <1>3 DEF ReceiveDM, GoodCalls, Convs
  <2>2. CASE c.state = "failed"
    BY <1>3, <2>2 DEF ReceiveDM, TInv, StoreTypes, PageTypes, NoteTypes
  <2>3. CASE c.state # "failed"
    <3>1. StoreTypes'
      <4>1. convs' \in [Units -> (SUBSET Convs) \cup {None}]
        <5>1. (IF convs[c.by.unit] = None THEN {} ELSE convs[c.by.unit]) \cup {c.conv} \subseteq Convs
          BY <1>c, <2>1 DEF TInv, StoreTypes
        <5> QED
          BY <1>3, <1>c, <2>3, <5>1 DEF ReceiveDM, Append, TInv, StoreTypes
      <4> QED
        BY <1>3, <2>1, <2>3, <4>1 DEF ReceiveDM, Chosen, TInv, StoreTypes
    <3>2. inherited' \in BOOLEAN
      BY <1>3, <2>3 DEF ReceiveDM
    <3>3. behind' \in BOOLEAN
      BY <1>3, <2>3, Zenon DEF ReceiveDM
    <3>4. CASE c.here
      <4>1. Clear
        BY <1>3, <2>3, <3>4 DEF ReceiveDM
      <4>2. /\ draft' = None
            /\ fate' \in [stored : [Texts -> Nat], given : SUBSET Texts,
                          dropped : SUBSET Texts, broken : SUBSET Texts]
        BY <4>1, TypesClear DEF TInv
      <4> QED
        BY <1>3, <3>1, <3>2, <3>3, <4>2 DEF ReceiveDM, TInv, PageTypes, NoteTypes
    <3>5. CASE ~c.here
      <4>1. /\ draft' = IF draft = None THEN None ELSE [draft EXCEPT !.excused = TRUE]
            /\ fate' = fate
        BY <1>3, <2>3, <3>5 DEF ReceiveDM
      <4>2. draft' \in Drafts \cup {None} /\ (draft' # None => draft'.text <= typed)
        BY <4>1 DEF TInv, PageTypes, Drafts
      <4> QED
        BY <1>3, <3>1, <3>2, <3>3, <4>1, <4>2 DEF ReceiveDM, TInv, PageTypes, NoteTypes
    <3> QED
      BY <3>4, <3>5
  <2> QED
    BY <2>2, <2>3
<1>4. CASE ReceiveSend(i, c)
  <2>1. c.text \in Texts
    BY <1>4 DEF ReceiveSend, GoodCalls
  <2>2. fate' \in [stored : [Texts -> Nat], given : SUBSET Texts,
                   dropped : SUBSET Texts, broken : SUBSET Texts]
    BY <1>4, <2>1 DEF ReceiveSend, TInv, NoteTypes
  <2>3. draft' \in Drafts \cup {None} /\ (draft' # None => draft'.text <= typed)
    BY <1>4 DEF ReceiveSend, TInv, PageTypes
  <2>4. sending' \in BOOLEAN
    BY <1>4 DEF ReceiveSend, TInv, PageTypes
  <2> QED
    BY <1>4, <2>2, <2>3, <2>4 DEF ReceiveSend, TInv, StoreTypes, PageTypes, NoteTypes, store
<1> QED
  BY <1>1, <1>2, <1>3, <1>4

LEMMA TypesReceive ==
    ASSUME TInv, NEW i \in 1..AtOnce, Receive(i)
    PROVE  TInv'
<1>1. UNCHANGED <<made, user, open, steps, typed, sent>> /\ calls' = [calls EXCEPT ![i] = None]
  BY DEF Receive
<1>2. calls[i] \in GoodCalls
  BY DEF Receive, Pending, TInv, CallTypes
<1>3. StoreTypes' /\ PageTypes' /\ NoteTypes'
  BY <1>1, <1>2, TypesReceived DEF Receive
<1>4. GoodCalls' = GoodCalls
  BY <1>1 DEF GoodCalls, Mine
<1>5. WorldTypes' /\ CallTypes'
  BY <1>1, <1>4 DEF TInv, WorldTypes, CallTypes
<1> QED
  BY <1>3, <1>5 DEF TInv

LEMMA InitTypes == Init => TInv
<1> SUFFICES ASSUME Init PROVE TInv
  OBVIOUS
<1> USE BoundAssumption DEF Init
<1>1. WorldTypes /\ StoreTypes /\ CallTypes
  BY DEF WorldTypes, StoreTypes, CallTypes
<1>2. PageTypes
  BY DEF PageTypes
<1>3. fate \in [stored : [Texts -> Nat], given : SUBSET Texts,
                dropped : SUBSET Texts, broken : SUBSET Texts]
  OBVIOUS
<1>4. NoteTypes
  <2>1. steps \in 0..MaxSteps /\ typed \in 0..MaxTexts
    OBVIOUS
  <2>2. behind \in BOOLEAN /\ inherited \in BOOLEAN /\ sent \in Messages \cup {None}
    BY Zenon
  <2> QED
    BY ONLY <1>3, <2>1, <2>2 DEF NoteTypes
<1> QED
  BY <1>1, <1>2, <1>4 DEF TInv

LEMMA NextTypes == TInv /\ [Next]_vars => TInv'
<1> SUFFICES ASSUME TInv, [Next]_vars PROVE TInv'
  OBVIOUS
<1>1. CASE UNCHANGED vars
  <2> USE <1>1 DEF vars, store, page
  <2>1. GoodCalls' = GoodCalls
    BY DEF GoodCalls, Mine
  <2>2. WorldTypes' /\ StoreTypes' /\ CallTypes'
    BY <2>1 DEF TInv, WorldTypes, StoreTypes, CallTypes
  <2>3. PageTypes' /\ NoteTypes'
    BY DEF TInv, PageTypes, NoteTypes
  <2> QED
    BY <2>2, <2>3 DEF TInv
<1>2. ASSUME NEW i \in DOMAIN calls, Serve(i) \/ Receive(i) PROVE TInv'
  <2>1. i \in 1..AtOnce
    BY DEF TInv, CallTypes
  <2> QED
    BY <1>2, <2>1, TypesServe, TypesReceive
<1> QED
  BY <1>1, <1>2, TypesUser, TypesOthers DEF Next

(* The page and its store keep their types.                                 *)
LEMMA AlwaysTyped == Spec => []TInv
  BY InitTypes, NextTypes, PTL DEF Spec

-----------------------------------------------------------------------------
(* Texts.  A text posted from this visit to the page is the draft's, if     *)
(* there is one, and blocks the next; no text is in two calls, and one that *)
(* was posted on an earlier visit is in the draft no more.                  *)
Sends      == {i \in Pending : calls[i].op = "send"}
HasText(n) == draft # None /\ draft.text = n

HereBlocks == \A i \in Sends : calls[i].here =>
                 sending /\ (draft # None => draft.text = calls[i].text)
OneHere    == \A i, j \in Sends : calls[i].here /\ calls[j].here => i = j
OnePerText == \A i, j \in Sends : calls[i].text = calls[j].text => i = j
DraftIsHere == \A i \in Sends : HasText(calls[i].text) => calls[i].here
OInv == HereBlocks /\ OneHere /\ OnePerText /\ DraftIsHere

(* What the backend has stored of a text, against what the page still has   *)
(* of it.                                                                   *)
NotYetStored == \A n \in Texts : n > typed => fate.stored[n] = 0
StoredInStep == /\ \A n \in Texts : fate.stored[n] <= steps
                /\ \A i \in Sends : calls[i].state = "sent" => fate.stored[calls[i].text] < steps
CallIsFirst  == \A i \in Sends :
                  calls[i].state # "ok" /\ calls[i].text \notin fate.broken
                     => fate.stored[calls[i].text] = 0
DraftIsFirst == \A n \in Texts :
                  n \notin fate.broken /\ HasText(n) /\ fate.stored[n] # 0
                     => \E i \in Sends : calls[i].text = n /\ calls[i].state = "ok"
DraftOrGone  == \A n \in 1..typed : HasText(n) \/ n \in fate.given \cup fate.dropped
FInv == /\ NotYetStored /\ StoredInStep /\ CallIsFirst /\ DraftIsFirst
        /\ StoredOnce /\ DraftOrGone

DraftKept == \/ draft' = None
             \/ draft # None /\ draft' # None /\ draft'.text = draft.text
KeepSends(field) ==
    Sends' = Sends /\ \A i \in Sends : calls'[i].text = calls[i].text
                                        /\ calls'[i][field] = calls[i][field]
Emptied == /\ fate'.stored = fate.stored /\ fate'.broken = fate.broken
           /\ fate.given \subseteq fate'.given /\ fate.dropped \subseteq fate'.dropped
           /\ \/ draft # None /\ draft' # None /\ draft'.text = draft.text
              \/ /\ draft' = None
                 /\ draft = None \/ draft.text \in fate'.given \cup fate'.dropped

LEMMA SendTexts ==
    ASSUME TInv, NEW i \in Sends
    PROVE  calls[i] \in GoodCalls /\ calls[i].text \in Texts /\ calls[i].text <= typed
  BY DEF TInv, CallTypes, Sends, Pending, GoodCalls

LEMMA OwnKept ==
    ASSUME OInv, KeepSends("here"), sending' = sending, DraftKept PROVE OInv'
<1> USE DEF KeepSends, DraftKept, HasText
<1>1. HereBlocks'
  BY DEF OInv, HereBlocks
<1>2. OneHere'
  BY DEF OInv, OneHere
<1>3. OnePerText'
  BY DEF OInv, OnePerText
<1>4. DraftIsHere'
  BY DEF OInv, DraftIsHere
<1> QED
  BY <1>1, <1>2, <1>3, <1>4 DEF OInv

LEMMA FateKept ==
    ASSUME TInv, FInv, KeepSends("state"), Emptied, UNCHANGED typed,
           steps' \in Nat, steps <= steps'
    PROVE  FInv'
<1> USE DEF KeepSends, Emptied, HasText
<1>t. /\ fate.stored \in [Texts -> Nat] /\ steps \in Nat /\ typed \in Nat
  BY BoundAssumption DEF TInv, NoteTypes
<1>1. NotYetStored'
  BY DEF FInv, NotYetStored
<1>2. StoredInStep'
  <2>1. \A n \in Texts : fate.stored[n] <= steps'
    BY <1>t DEF FInv, StoredInStep
  <2>2. \A i \in Sends : calls[i].state = "sent" => fate.stored[calls[i].text] < steps'
    BY <1>t, SendTexts DEF FInv, StoredInStep
  <2> QED
    BY <2>1, <2>2 DEF StoredInStep
<1>3. CallIsFirst'
  BY DEF FInv, CallIsFirst
<1>4. DraftIsFirst'
  BY DEF FInv, DraftIsFirst
<1>5. StoredOnce'
  BY DEF FInv, StoredOnce
<1>6. DraftOrGone'
  BY DEF FInv, DraftOrGone
<1> QED
  BY <1>1, <1>2, <1>3, <1>4, <1>5, <1>6 DEF FInv

LEMMA ClearEmpties == ASSUME TInv, Clear PROVE DraftKept /\ Emptied
<1>1. draft' = None
  BY DEF Clear
<1>2. CASE draft = None \/ draft.text \in fate.given
  BY <1>1, <1>2 DEF Clear, Emptied, DraftKept
<1>3. CASE ~(draft = None \/ draft.text \in fate.given)
  BY <1>1, <1>3 DEF Clear, Emptied, DraftKept, TInv, NoteTypes
<1> QED
  BY <1>2, <1>3

(* A page that is left lets go of its calls.                                *)
LEMMA TextsUnmount ==
    ASSUME TInv, OInv, FInv, Unmount, UNCHANGED typed, steps' \in Nat, steps <= steps'
    PROVE  OInv' /\ FInv'
<1>1. /\ DOMAIN calls = 1..AtOnce
      /\ \A i \in 1..AtOnce : calls[i] # None => calls[i] \in GoodCalls
  BY DEF TInv, CallTypes
<1>2. \A c \in GoodCalls : [c EXCEPT !.here = FALSE] # None
  BY LeftIsGood, AbsentAssumption DEF GoodCalls
<1>3. ASSUME NEW i \in 1..AtOnce
      PROVE  /\ calls[i] = None => calls'[i] = None
             /\ calls[i] # None => calls'[i] = [calls[i] EXCEPT !.here = FALSE]
  BY <1>1, <1>3 DEF Unmount
<1>4. ASSUME NEW c \in GoodCalls
      PROVE  /\ [c EXCEPT !.here = FALSE].op = c.op /\ [c EXCEPT !.here = FALSE].text = c.text
             /\ [c EXCEPT !.here = FALSE].state = c.state /\ [c EXCEPT !.here = FALSE].here = FALSE
  BY DEF GoodCalls, Calls
<1>5. DOMAIN calls' = 1..AtOnce
  BY <1>1 DEF Unmount
<1>p. ASSUME NEW i \in 1..AtOnce
      PROVE  /\ i \in Sends <=> calls[i] # None /\ calls[i].op = "send"
             /\ i \in Sends' <=> calls'[i] # None /\ calls'[i].op = "send"
  BY <1>1, <1>5 DEF Sends, Pending
<1>q. Sends \subseteq 1..AtOnce /\ Sends' \subseteq 1..AtOnce
  BY <1>1, <1>5 DEF Sends, Pending
<1>s. ASSUME NEW i \in 1..AtOnce
      PROVE  /\ i \in Sends <=> i \in Sends'
             /\ i \in Sends => /\ calls'[i].text = calls[i].text
                               /\ calls'[i].state = calls[i].state /\ calls'[i].here = FALSE
  <2>1. CASE calls[i] = None
    BY <1>3, <1>p, <2>1
  <2>2. CASE calls[i] # None
    <3>1. calls[i] \in GoodCalls /\ calls'[i] = [calls[i] EXCEPT !.here = FALSE]
      BY <1>1, <1>3, <2>2
    <3> QED
      BY <1>2, <1>4, <1>p, <2>2, <3>1
  <2> QED
    BY <2>1, <2>2
<1>6. Sends' = Sends
  BY <1>q, <1>s
<1>7. \A i \in Sends : /\ calls'[i].text = calls[i].text /\ calls'[i].state = calls[i].state
                       /\ calls'[i].here = FALSE
  BY <1>q, <1>s
<1>8. KeepSends("state")
  BY <1>6, <1>7 DEF KeepSends
<1>9. DraftKept /\ Emptied /\ draft' = None
  BY ClearEmpties DEF Unmount, Clear
<1>10. FInv'
  BY <1>8, <1>9, FateKept
<1>11. HereBlocks' /\ OneHere' /\ DraftIsHere'
  BY <1>6, <1>7, <1>9 DEF HereBlocks, OneHere, DraftIsHere, HasText
<1>12. OnePerText'
  BY <1>6, <1>7 DEF OInv, OnePerText
<1> QED
  BY <1>10, <1>11, <1>12 DEF OInv

LEMMA SendsPut ==
    ASSUME TInv, NEW k \in 1..AtOnce, NEW c, calls' = [calls EXCEPT ![k] = c]
    PROVE  /\ Sends \subseteq 1..AtOnce /\ Sends' \subseteq 1..AtOnce
           /\ \A i \in 1..AtOnce : i # k => calls'[i] = calls[i] /\ (i \in Sends' <=> i \in Sends)
           /\ calls'[k] = c
           /\ k \in Sends' <=> c # None /\ c.op = "send"
           /\ k \in Sends <=> calls[k] # None /\ calls[k].op = "send"
  BY DEF TInv, CallTypes, Sends, Pending

LEMMA SendsSame == calls' = calls => Sends' = Sends
  BY DEF Sends, Pending

LEMMA TextsPosted ==
    ASSUME TInv, OInv, FInv, SendRest
    PROVE  OInv' /\ FInv'
<1> DEFINE c == Call("send", active, draft.text)
<1>1. PICK k \in 1..AtOnce : calls[k] = None /\ calls' = [calls EXCEPT ![k] = c]
  BY AddFills DEF TInv, CallTypes, SendRest
<1>2. /\ draft # None /\ ~sending /\ sending' = TRUE /\ draft' = draft
      /\ fate' = fate /\ typed' = typed /\ steps' = steps + 1
      /\ active # None
  BY DEF SendRest, Ready, Step
<1>3. c \in GoodCalls /\ c # None
  BY <1>2, FreshCalls, AbsentAssumption DEF GoodCalls
<1>4. c.op = "send" /\ c.text = draft.text /\ c.here = TRUE /\ c.state = "sent"
  BY DEF Call
<1> HIDE DEF c
<1>5. /\ Sends' = Sends \cup {k} /\ k \notin Sends /\ calls'[k] = c
      /\ \A i \in Sends : calls'[i] = calls[i]
  BY <1>1, <1>3, <1>4, SendsPut
<1>6. \A i \in Sends : ~calls[i].here
  BY <1>2 DEF OInv, HereBlocks
<1>7. \A i \in Sends : calls[i].text # draft.text
  BY <1>2, <1>6 DEF OInv, DraftIsHere, HasText
<1>8. OInv'
  <2>1. HereBlocks'
    BY <1>2, <1>4, <1>5, <1>6 DEF HereBlocks
  <2>2. OneHere'
    BY <1>5, <1>6 DEF OneHere
  <2>3. OnePerText'
    BY <1>4, <1>5, <1>7 DEF OInv, OnePerText
  <2>4. DraftIsHere'
    BY <1>2, <1>4, <1>5 DEF OInv, DraftIsHere, HasText
  <2> QED
    BY <2>1, <2>2, <2>3, <2>4 DEF OInv
<1>t. /\ fate.stored \in [Texts -> Nat] /\ steps \in Nat /\ typed \in Nat
      /\ draft.text \in Texts
  BY <1>2, BoundAssumption DEF TInv, NoteTypes, PageTypes, Drafts
<1>9. FInv'
  <2>1. NotYetStored' /\ StoredOnce'
    BY <1>2 DEF FInv, NotYetStored, StoredOnce
  <2>2. StoredInStep'
    <3>1. \A n \in Texts : fate.stored[n] <= steps' /\ fate.stored[n] < steps'
      BY <1>2, <1>t DEF FInv, StoredInStep
    <3> QED
      BY <1>2, <1>4, <1>5, <1>t, <3>1, SendTexts DEF StoredInStep
  <2>3. CallIsFirst'
    <3>1. draft.text \notin fate.broken => fate.stored[draft.text] = 0
      BY <1>2, <1>7, <1>t DEF FInv, DraftIsFirst, HasText
    <3> QED
      BY <1>2, <1>4, <1>5, <3>1 DEF FInv, CallIsFirst
  <2>4. DraftIsFirst'
    BY <1>2, <1>5 DEF FInv, DraftIsFirst, HasText
  <2>5. DraftOrGone'
    BY <1>2 DEF FInv, DraftOrGone, HasText
  <2> QED
    BY <2>1, <2>2, <2>3, <2>4, <2>5 DEF FInv
<1> QED
  BY <1>8, <1>9

LEMMA TextsTyped ==
    ASSUME TInv, OInv, FInv, Type
    PROVE  OInv' /\ FInv'
<1>1. /\ draft = None /\ ~sending /\ typed' = typed + 1 /\ typed < MaxTexts
      /\ draft' = [text |-> typed + 1, under |-> Label, excused |-> behind \/ inherited]
      /\ sending' = sending /\ calls' = calls /\ steps' = steps /\ fate' = fate
  BY DEF Type
<1>2. Sends' = Sends
  BY <1>1, SendsSame
<1>t. /\ fate.stored \in [Texts -> Nat] /\ steps \in Nat /\ typed \in Nat /\ MaxTexts \in Nat
      /\ fate.given \subseteq Texts /\ fate.dropped \subseteq Texts
  BY BoundAssumption DEF TInv, NoteTypes
<1>3. draft' # None /\ draft'.text = typed + 1
  <2>1. typed + 1 \in Texts
    BY <1>1, <1>t DEF Texts
  <2>2. draft' \in Drafts
    BY <1>1, <2>1, LabelIsConv DEF Drafts, TInv, NoteTypes
  <2> QED
    BY <1>1, <2>2, AbsentAssumption
<1>4. \A i \in Sends : ~calls[i].here
  BY <1>1 DEF OInv, HereBlocks
<1>5. \A i \in Sends : calls[i].text # typed + 1
  BY <1>t, SendTexts DEF Texts
<1>6. OInv'
  <2>1. HereBlocks' /\ OneHere'
    BY <1>1, <1>2, <1>4 DEF HereBlocks, OneHere
  <2>2. OnePerText'
    BY <1>1, <1>2 DEF OInv, OnePerText
  <2>3. DraftIsHere'
    BY <1>1, <1>2, <1>3, <1>5 DEF DraftIsHere, HasText
  <2> QED
    BY <2>1, <2>2, <2>3 DEF OInv
<1>7. FInv'
  <2>1. NotYetStored'
    BY <1>1, <1>t DEF FInv, NotYetStored, Texts
  <2>2. StoredOnce' /\ StoredInStep' /\ CallIsFirst'
    BY <1>1, <1>2 DEF FInv, StoredOnce, StoredInStep, CallIsFirst
  <2>3. DraftIsFirst'
    <3>1. fate.stored[typed + 1] = 0
      <4>1. typed + 1 \in Texts /\ typed + 1 > typed
        BY <1>1, <1>t DEF Texts
      <4> QED
        BY <4>1 DEF FInv, NotYetStored
    <3> QED
      BY <1>1, <1>3, <3>1 DEF DraftIsFirst, HasText
  <2>4. DraftOrGone'
    <3>1. \A n \in 1..typed' : n = typed + 1 \/ n \in 1..typed
      BY <1>1, <1>t
    <3> QED
      BY <1>1, <1>3, <3>1 DEF FInv, DraftOrGone, HasText
  <2> QED
    BY <2>1, <2>2, <2>3, <2>4 DEF FInv
<1> QED
  BY <1>6, <1>7

(* Opening the page, choosing, handing a text to the socket.                *)
LEMMA TextsQuiet ==
    ASSUME TInv, OInv, FInv,
           OpenChat \/ SendSocket \/ (\E c \in Convs : Select(c))
              \/ (\E p \in Persons : StartDM(p)) \/ OthersAct
    PROVE  OInv' /\ FInv'
<1>t. steps \in Nat /\ (steps' = steps + 1 => steps' \in Nat /\ steps <= steps')
  BY BoundAssumption DEF TInv, NoteTypes
<1>0. steps' = steps + 1 /\ typed' = typed
  BY DEF OpenChat, SendSocket, Select, StartDM, OthersAct, Step
<1>1. sending' = sending
  BY DEF OpenChat, SendSocket, Select, StartDM, OthersAct, page
<1>2. DraftKept /\ Emptied
  <2>1. CASE OpenChat \/ (\E p \in Persons : StartDM(p)) \/ OthersAct
    <3>1. draft' = draft /\ fate' = fate
      BY <2>1 DEF OpenChat, StartDM, OthersAct, page
    <3> QED
      BY <3>1 DEF DraftKept, Emptied
  <2>2. CASE SendSocket
    BY <2>2 DEF SendSocket, DraftKept, Emptied, TInv, NoteTypes
  <2>3. CASE \E c \in Convs : Select(c)
    BY <2>3, ClearEmpties DEF Select
  <2> QED
    BY <2>1, <2>2, <2>3
<1>3. Sends' = Sends /\ \A i \in Sends : calls'[i] = calls[i]
  <2>1. CASE SendSocket \/ (\E c \in Convs : Select(c)) \/ OthersAct
    <3>1. calls' = calls
      BY <2>1 DEF SendSocket, Select, OthersAct
    <3> QED
      BY <3>1, SendsSame
  <2>2. CASE OpenChat
    <3>1. PICK k, l \in 1..AtOnce :
            /\ k # l /\ calls[k] = None /\ calls[l] = None
            /\ calls' = [[calls EXCEPT ![k] = Call("workspace", None, None)]
                            EXCEPT ![l] = Call("list", None, None)]
      BY <2>2, FreshCalls, TwoFree DEF OpenChat, TInv
    <3>2. Call("workspace", None, None).op # "send" /\ Call("list", None, None).op # "send"
      BY DEF Call
    <3> QED
      BY <3>1, <3>2 DEF TInv, CallTypes, Sends, Pending
  <2>3. ASSUME NEW p \in Persons, StartDM(p)
        PROVE  Sends' = Sends /\ \A i \in Sends : calls'[i] = calls[i]
    <3> DEFINE c == Call("dm", Conversation(user.unit, {user.person, p}), None)
    <3>1. PICK k \in 1..AtOnce : calls[k] = None /\ calls' = [calls EXCEPT ![k] = c]
      BY <2>3, AddFills DEF StartDM, TInv, CallTypes
    <3>2. c.op # "send"
      BY DEF Call
    <3> HIDE DEF c
    <3>3. /\ Sends \subseteq 1..AtOnce /\ Sends' \subseteq 1..AtOnce
          /\ \A i \in 1..AtOnce : i # k => calls'[i] = calls[i] /\ (i \in Sends' <=> i \in Sends)
          /\ k \notin Sends' /\ k \notin Sends
      BY <3>1, <3>2, SendsPut
    <3>4. \A i \in 1..AtOnce : i \in Sends' <=> i \in Sends
      BY <3>3
    <3>5. Sends' = Sends
      BY <3>3, <3>4
    <3>6. \A i \in Sends : i \in 1..AtOnce /\ i # k
      BY <3>3
    <3> QED
      BY <3>3, <3>5, <3>6
  <2> QED
    BY <2>1, <2>2, <2>3
<1>4. KeepSends("here") /\ KeepSends("state")
  BY <1>3 DEF KeepSends
<1> QED
  BY <1>0, <1>1, <1>2, <1>4, <1>t, OwnKept, FateKept

(* The backend's answer to a send, and to anything else.                    *)
LEMMA TextsServed ==
    ASSUME TInv, OInv, FInv, NEW i \in 1..AtOnce, Serve(i)
    PROVE  OInv' /\ FInv'
<1> DEFINE c == calls[i]
<1>1. /\ i \in Pending /\ c \in GoodCalls /\ c.state = "sent"
      /\ UNCHANGED <<sending, draft, steps, typed>>
  BY TypesServed DEF Serve, page
<1>2. PICK d : /\ calls' = [calls EXCEPT ![i] = d] /\ d # None
               /\ d.op = c.op /\ d.text = c.text /\ d.here = c.here
  <2>1. ServeRead(i, c) \/ ServeDM(i, c) \/ ServeSend(i, c) \/ Refused(i, c)
    BY DEF Serve
  <2>2. \E d : /\ calls' = [calls EXCEPT ![i] = d]
               /\ d.op = c.op /\ d.text = c.text /\ d.here = c.here
    <3>0. c \in Calls
      BY <1>1 DEF GoodCalls
    <3>1. \A x : /\ [c EXCEPT !.state = x].op = c.op /\ [c EXCEPT !.state = x].text = c.text
                  /\ [c EXCEPT !.state = x].here = c.here
      BY <3>0 DEF Calls
    <3>2. CASE ServeDM(i, c) \/ ServeSend(i, c) \/ Refused(i, c)
      <4>1. PICK x : calls' = [calls EXCEPT ![i] = [c EXCEPT !.state = x]]
        BY <3>2 DEF ServeDM, ServeSend, Refused, Answered
      <4> DEFINE d == [c EXCEPT !.state = x]
      <4>2. d.op = c.op /\ d.text = c.text /\ d.here = c.here /\ calls' = [calls EXCEPT ![i] = d]
        BY <3>1, <4>1
      <4> HIDE DEF d
      <4> QED
        BY <4>2
    <3>3. CASE ServeRead(i, c)
      <4>1. \A x : /\ [c EXCEPT !.list = x, !.state = "ok"].op = c.op
                    /\ [c EXCEPT !.list = x, !.state = "ok"].text = c.text
                    /\ [c EXCEPT !.list = x, !.state = "ok"].here = c.here
                    /\ [c EXCEPT !.who = x, !.state = "ok"].op = c.op
                    /\ [c EXCEPT !.who = x, !.state = "ok"].text = c.text
                    /\ [c EXCEPT !.who = x, !.state = "ok"].here = c.here
        BY <3>0 DEF Calls
      <4>2. PICK x : \/ calls' = [calls EXCEPT ![i] = [c EXCEPT !.list = x, !.state = "ok"]]
                    \/ calls' = [calls EXCEPT ![i] = [c EXCEPT !.who = x, !.state = "ok"]]
        BY <3>3 DEF ServeRead, Answered
      <4> DEFINE l == [c EXCEPT !.list = x, !.state = "ok"]
                 w == [c EXCEPT !.who = x, !.state = "ok"]
      <4>3. /\ l.op = c.op /\ l.text = c.text /\ l.here = c.here
            /\ w.op = c.op /\ w.text = c.text /\ w.here = c.here
            /\ calls' = [calls EXCEPT ![i] = l] \/ calls' = [calls EXCEPT ![i] = w]
        BY <4>1, <4>2
      <4> HIDE DEF l, w
      <4> QED
        BY <4>3
    <3> QED
      BY <2>1, <3>2, <3>3
  <2>3. PICK d : /\ calls' = [calls EXCEPT ![i] = d]
                 /\ d.op = c.op /\ d.text = c.text /\ d.here = c.here
    BY <2>2
  <2>4. calls'[i] \in GoodCalls' /\ calls'[i] = d
    BY <2>3, TypesServed DEF TInv, CallTypes
  <2> QED
    BY <2>3, <2>4, AbsentAssumption DEF GoodCalls
<1>3. /\ Sends' = Sends /\ Sends \subseteq 1..AtOnce
      /\ \A j \in Sends : /\ calls'[j].text = calls[j].text /\ calls'[j].here = calls[j].here
                          /\ j # i => calls'[j] = calls[j]
      /\ calls'[i] = d /\ (i \in Sends <=> c.op = "send")
  <2> HIDE DEF c
  <2> SUFFICES /\ Sends \subseteq 1..AtOnce /\ Sends' \subseteq 1..AtOnce
               /\ \A j \in 1..AtOnce : j # i => calls'[j] = calls[j] /\ (j \in Sends' <=> j \in Sends)
               /\ calls'[i] = d
               /\ i \in Sends' <=> c.op = "send"
               /\ i \in Sends <=> c.op = "send"
    <3>1. \A j \in 1..AtOnce : j \in Sends' <=> j \in Sends
      OBVIOUS
    <3>2. Sends' = Sends
      BY <3>1
    <3>3. \A j \in Sends : j \in 1..AtOnce /\ (j # i => calls'[j] = calls[j])
      OBVIOUS
    <3> QED
      BY <1>2, <3>2, <3>3 DEF c
  <2>1. calls[i] # None
    BY <1>1 DEF Pending
  <2> QED
    BY <1>2, <2>1, SendsPut DEF c
<1>4. KeepSends("here")
  BY <1>3 DEF KeepSends
<1>5. OInv'
  BY <1>1, <1>4, OwnKept DEF DraftKept
<1>t. /\ fate.stored \in [Texts -> Nat] /\ steps \in Nat /\ typed \in Nat
      /\ fate.broken \subseteq Texts
  BY BoundAssumption DEF TInv, NoteTypes
<1>6. CASE fate' = fate /\ (c.op = "send" => d.state # "ok")
  <2>1. Sends' = Sends /\ \A j \in Sends : calls'[j].text = calls[j].text
    BY <1>3
  <2>2. \A j \in Sends : \/ calls'[j].state = calls[j].state
                         \/ calls[j].state = "sent" /\ calls'[j].state # "ok"
    BY <1>1, <1>3, <1>6
  <2>3. NotYetStored' /\ StoredOnce' /\ DraftOrGone'
    BY <1>1, <1>6 DEF FInv, NotYetStored, StoredOnce, DraftOrGone, HasText
  <2>4. StoredInStep'
    <3>1. \A j \in Sends : calls'[j].state = "sent" => calls[j].state = "sent"
      BY <2>2
    <3> QED
      BY <1>1, <1>6, <2>1, <3>1 DEF FInv, StoredInStep
  <2>5. CallIsFirst'
    <3>1. \A j \in Sends : calls'[j].state # "ok" => calls[j].state # "ok"
      BY <2>2
    <3> QED
      BY <1>6, <2>1, <3>1 DEF FInv, CallIsFirst
  <2>6. DraftIsFirst'
    <3>1. \A j \in Sends : calls[j].state = "ok" => calls'[j].state = "ok"
      BY <2>2
    <3> QED
      BY <1>1, <1>6, <2>1, <3>1 DEF FInv, DraftIsFirst, HasText
  <2> QED
    BY <1>5, <2>3, <2>4, <2>5, <2>6 DEF FInv
<1>7. CASE ServeSend(i, c)
  <2>1. PICK x \in {"ok", "failed"} :
          /\ calls' = [calls EXCEPT ![i] = [c EXCEPT !.state = x]]
          /\ fate' = [fate EXCEPT !.stored[c.text] = @ + 1,
                                  !.broken = IF x = "ok" THEN @ ELSE @ \cup {c.text}]
    BY <1>7 DEF ServeSend, Answered
  <2>2. /\ i \in Sends /\ calls'[i].state = x /\ c.text \in Texts
    <3>1. i \in Sends
      BY <1>3, <1>7 DEF ServeSend
    <3>2. calls'[i] = [c EXCEPT !.state = x]
      BY <2>1 DEF TInv, CallTypes
    <3>3. [c EXCEPT !.state = x].state = x
      BY <1>1 DEF GoodCalls, Calls
    <3> QED
      BY <3>1, <3>2, <3>3, SendTexts
  <2> DEFINE t == c.text
  <2>3. /\ fate'.stored = [fate.stored EXCEPT ![t] = @ + 1]
        /\ fate'.broken = IF x = "ok" THEN fate.broken ELSE fate.broken \cup {t}
        /\ fate'.given = fate.given /\ fate'.dropped = fate.dropped
    BY <2>1 DEF TInv, NoteTypes
  <2>4. /\ t \in Texts /\ t <= typed /\ calls[i].text = t /\ calls[i].state = "sent"
        /\ \A j \in Sends : j # i => calls[j].text # t
    BY <1>1, <2>2, SendTexts DEF OInv, OnePerText
  <2>5. fate.stored[t] < steps /\ (t \notin fate.broken => fate.stored[t] = 0)
    <3>1. calls[i].state # "ok"
      BY <2>4
    <3> QED
      BY <2>2, <2>4, <3>1 DEF FInv, StoredInStep, CallIsFirst
  <2> HIDE DEF t, c
  <2>6. NotYetStored'
    BY <1>1, <1>t, <2>3, <2>4 DEF FInv, NotYetStored, Texts
  <2>7. StoredInStep'
    <3>1. \A n \in Texts : fate'.stored[n] <= steps
      BY <1>t, <2>3, <2>4, <2>5 DEF FInv, StoredInStep
    <3>2. \A j \in Sends : calls'[j].state = "sent" => j # i
      BY <2>2
    <3>3. \A j \in Sends : j # i => fate'.stored[calls[j].text] = fate.stored[calls[j].text]
      BY <1>t, <2>3, <2>4, SendTexts
    <3> QED
      BY <1>1, <1>3, <3>1, <3>2, <3>3 DEF FInv, StoredInStep
  <2>8. CallIsFirst'
    <3>1. \A j \in Sends : j # i => fate'.stored[calls[j].text] = fate.stored[calls[j].text]
      BY <1>t, <2>3, <2>4, SendTexts
    <3>2. calls'[i].state # "ok" => calls'[i].text \in fate'.broken
      BY <1>3, <2>2, <2>3, <2>4
    <3> QED
      BY <1>3, <2>3, <3>1, <3>2 DEF FInv, CallIsFirst
  <2>9. DraftIsFirst'
    <3> SUFFICES ASSUME NEW n \in Texts, n \notin fate'.broken, HasText(n)', fate'.stored[n] # 0
                 PROVE  \E j \in Sends : calls'[j].text = n /\ calls'[j].state = "ok"
      BY <1>3 DEF DraftIsFirst
    <3>1. CASE n = t
      BY <1>3, <2>2, <2>3, <2>4, <3>1
    <3>2. CASE n # t
      <4>1. n \notin fate.broken /\ HasText(n) /\ fate.stored[n] # 0
        BY <1>1, <1>t, <2>3, <3>2 DEF HasText
      <4>2. PICK j \in Sends : calls[j].text = n /\ calls[j].state = "ok"
        BY <4>1 DEF FInv, DraftIsFirst
      <4> QED
        BY <1>3, <2>4, <3>2, <4>2
    <3> QED
      BY <3>1, <3>2
  <2>10. StoredOnce'
    <3> SUFFICES ASSUME NEW n \in Texts, n \notin fate'.broken PROVE ~(fate'.stored[n] > 1)
      BY DEF StoredOnce
    <3>1. n \notin fate.broken
      BY <2>3
    <3>2. CASE n = t
      BY <1>t, <2>3, <2>4, <2>5, <3>1, <3>2
    <3>3. CASE n # t
      BY <1>t, <2>3, <3>1, <3>3 DEF FInv, StoredOnce
    <3> QED
      BY <3>2, <3>3
  <2>11. DraftOrGone'
    BY <1>1, <2>3 DEF FInv, DraftOrGone, HasText
  <2> QED
    BY <1>5, <2>6, <2>7, <2>8, <2>9, <2>10, <2>11 DEF FInv
<1>8. CASE ServeRead(i, c) \/ ServeDM(i, c)
  <2>1. fate' = fate /\ c.op # "send"
    BY <1>8 DEF ServeRead, ServeDM
  <2> QED
    BY <1>6, <2>1
<1>9. CASE Refused(i, c)
  <2>1. fate' = fate /\ calls' = [calls EXCEPT ![i] = [c EXCEPT !.state = "failed"]]
    BY <1>9 DEF Refused, Answered
  <2>2. d = [c EXCEPT !.state = "failed"]
    BY <1>3, <2>1 DEF TInv, CallTypes
  <2>3. d.state = "failed"
    BY <1>1, <2>2 DEF GoodCalls, Calls
  <2> QED
    BY <1>6, <2>1, <2>3
<1> QED
  BY <1>7, <1>8, <1>9 DEF Serve

(* The arrival of an answer.                                                *)
LEMMA TextsReceived ==
    ASSUME TInv, OInv, FInv, NEW i \in 1..AtOnce, Receive(i)
    PROVE  OInv' /\ FInv'
<1> DEFINE c == calls[i]
<1>1. /\ i \in Pending /\ c \in GoodCalls /\ c.state # "sent"
      /\ calls' = [calls EXCEPT ![i] = None] /\ steps' = steps /\ typed' = typed
  BY DEF Receive, Pending, TInv, CallTypes
<1>2. /\ Sends' = Sends \ {i} /\ (i \in Sends <=> c.op = "send")
      /\ \A j \in Sends \ {i} : calls'[j] = calls[j]
  <2>1. /\ Sends \subseteq 1..AtOnce /\ Sends' \subseteq 1..AtOnce
        /\ \A j \in 1..AtOnce : j # i => calls'[j] = calls[j] /\ (j \in Sends' <=> j \in Sends)
        /\ i \notin Sends' /\ (i \in Sends <=> calls[i] # None /\ calls[i].op = "send")
    BY <1>1, SendsPut
  <2>2. calls[i] # None
    BY <1>1 DEF Pending
  <2>3. \A j \in 1..AtOnce : j \in Sends' <=> j \in Sends \ {i}
    BY <2>1
  <2>4. Sends' = Sends \ {i}
    BY <2>1, <2>3
  <2>5. \A j \in Sends \ {i} : j \in 1..AtOnce /\ j # i
    BY <2>1
  <2> QED
    BY <2>1, <2>2, <2>4, <2>5
<1>t. steps \in Nat
  BY BoundAssumption DEF TInv, NoteTypes
<1>3. CASE c.op # "send"
  <2>1. Sends' = Sends /\ \A j \in Sends : calls'[j] = calls[j]
    BY <1>2, <1>3
  <2>2. KeepSends("here") /\ KeepSends("state")
    BY <2>1 DEF KeepSends
  <2>3. ReceiveWorkspace(i, c) \/ ReceiveList(i, c) \/ ReceiveDM(i, c)
    BY <1>3 DEF Receive, ReceiveSend
  <2>4. sending' = sending
    BY <2>3 DEF ReceiveWorkspace, ReceiveList, ReceiveDM
  <2>5. DraftKept /\ Emptied
    <3>1. CASE draft' = draft /\ fate' = fate
      BY <3>1 DEF DraftKept, Emptied
    <3>2. CASE ReceiveDM(i, c)
      <4>1. CASE c.state = "failed"
        BY <3>1, <3>2, <4>1 DEF ReceiveDM
      <4>2. CASE c.state # "failed" /\ c.here
        BY <3>2, <4>2, ClearEmpties DEF ReceiveDM
      <4>3. CASE c.state # "failed" /\ ~c.here
        <5>1. /\ draft' = IF draft = None THEN None ELSE [draft EXCEPT !.excused = TRUE]
              /\ fate' = fate
          BY <3>2, <4>3 DEF ReceiveDM
        <5>2. CASE draft = None
          BY <3>1, <5>1, <5>2
        <5>3. CASE draft # None
          <6>1. draft' \in Drafts /\ draft'.text = draft.text
            BY <5>1, <5>3 DEF TInv, PageTypes, Drafts
          <6> QED
            BY <5>1, <5>3, <6>1, AbsentAssumption DEF DraftKept, Emptied
        <5> QED
          BY <5>2, <5>3
      <4> QED
        BY <4>1, <4>2, <4>3
    <3>3. CASE ReceiveWorkspace(i, c) \/ ReceiveList(i, c)
      BY <3>1, <3>3 DEF ReceiveWorkspace, ReceiveList
    <3> QED
      BY <2>3, <3>2, <3>3
  <2> QED
    BY <1>1, <1>t, <2>2, <2>4, <2>5, OwnKept, FateKept
<1>4. CASE c.op = "send"
  <2>1. /\ sending' = IF c.here THEN FALSE ELSE sending
        /\ IF c.state = "failed" THEN UNCHANGED <<draft, fate>>
           ELSE /\ draft' = IF c.here THEN None ELSE draft
                /\ fate' = [fate EXCEPT !.given = @ \cup {c.text}]
    BY <1>4 DEF Receive, ReceiveWorkspace, ReceiveList, ReceiveDM, ReceiveSend
  <2>2. i \in Sends /\ c.text \in Texts
    BY <1>2, <1>4, SendTexts
  <2>3. draft' = draft \/ (draft' = None /\ c.here)
    <3>1. CASE c.state = "failed"
      BY <2>1, <3>1
    <3>2. CASE c.state # "failed"
      BY <2>1, <3>2
    <3> QED
      BY <3>1, <3>2
  <2>4. OInv'
    <3>1. HereBlocks'
      <4>1. CASE c.here
        BY <1>2, <2>2, <4>1 DEF OInv, HereBlocks, OneHere
      <4>2. CASE ~c.here
        BY <1>2, <2>1, <4>2 DEF OInv, HereBlocks
      <4> QED
        BY <4>1, <4>2
    <3>2. OneHere' /\ OnePerText'
      BY <1>2 DEF OInv, OneHere, OnePerText
    <3>3. DraftIsHere'
      BY <1>2, <2>3 DEF OInv, DraftIsHere, HasText
    <3> QED
      BY <3>1, <3>2, <3>3 DEF OInv
  <2>5. /\ fate'.stored = fate.stored /\ fate'.broken = fate.broken
        /\ fate.given \subseteq fate'.given /\ fate'.dropped = fate.dropped
        /\ c.state # "failed" => c.text \in fate'.given
    BY <2>1 DEF TInv, NoteTypes
  <2>6. NotYetStored' /\ StoredOnce' /\ StoredInStep' /\ CallIsFirst'
    BY <1>1, <1>2, <2>5 DEF FInv, NotYetStored, StoredOnce, StoredInStep, CallIsFirst
  <2>7. DraftIsFirst'
    <3> SUFFICES ASSUME NEW n \in Texts, n \notin fate'.broken, HasText(n)', fate'.stored[n] # 0
                 PROVE  \E j \in Sends' : calls'[j].text = n /\ calls'[j].state = "ok"
      BY DEF DraftIsFirst
    <3>1. n \notin fate.broken /\ HasText(n) /\ fate.stored[n] # 0 /\ draft' = draft /\ draft' # None
      BY <2>3, <2>5 DEF HasText
    <3>2. PICK j \in Sends : calls[j].text = n /\ calls[j].state = "ok"
      BY <3>1 DEF FInv, DraftIsFirst
    <3>3. j # i
      <4> SUFFICES ASSUME j = i PROVE FALSE
        OBVIOUS
      <4>1. c.here /\ c.state = "ok"
        BY <2>2, <3>1, <3>2 DEF OInv, DraftIsHere
      <4> QED
        BY <2>1, <3>1, <4>1
    <3> QED
      BY <1>2, <3>2, <3>3
  <2>8. DraftOrGone'
    <3>1. CASE draft' = draft
      BY <1>1, <2>5, <3>1 DEF FInv, DraftOrGone, HasText
    <3>2. CASE c.here /\ c.state # "failed"
      <4>1. draft # None => draft.text \in fate'.given
        BY <2>2, <2>5, <3>2 DEF OInv, HereBlocks
      <4> QED
        BY <1>1, <2>5, <4>1 DEF FInv, DraftOrGone, HasText
    <3> QED
      BY <2>1, <3>1, <3>2
  <2> QED
    BY <2>4, <2>6, <2>7, <2>8 DEF FInv
<1> QED
  BY <1>3, <1>4

LEMMA TextsInit == Init => OInv /\ FInv
<1> SUFFICES ASSUME Init PROVE OInv /\ FInv
  OBVIOUS
<1>1. Sends = {} /\ typed = 0 /\ steps = 0 /\ \A n \in Texts : fate.stored[n] = 0
  BY DEF Init, Sends, Pending
<1>2. OInv
  BY <1>1 DEF OInv, HereBlocks, OneHere, OnePerText, DraftIsHere
<1>3. NotYetStored /\ StoredInStep /\ CallIsFirst /\ DraftIsFirst /\ StoredOnce
  BY <1>1 DEF NotYetStored, StoredInStep, CallIsFirst, DraftIsFirst, StoredOnce
<1>4. DraftOrGone
  BY <1>1 DEF DraftOrGone
<1> QED
  BY <1>2, <1>3, <1>4 DEF FInv

LEMMA TextsNext == TInv /\ OInv /\ FInv /\ [Next]_vars => OInv' /\ FInv'
<1> SUFFICES ASSUME TInv, OInv, FInv, [Next]_vars PROVE OInv' /\ FInv'
  OBVIOUS
<1>t. steps \in Nat /\ steps + 1 \in Nat /\ steps <= steps + 1 /\ steps <= steps
  BY BoundAssumption DEF TInv, NoteTypes
<1>1. CASE UNCHANGED vars
  <2>1. /\ calls' = calls /\ draft' = draft /\ fate' = fate /\ sending' = sending
        /\ steps' = steps /\ typed' = typed
    BY <1>1 DEF vars, page
  <2>2. KeepSends("here") /\ KeepSends("state") /\ DraftKept /\ Emptied
    BY <2>1, SendsSame DEF KeepSends, DraftKept, Emptied
  <2> QED
    BY <1>t, <2>1, <2>2, OwnKept, FateKept
<1>2. CASE (\E a \in Accounts : SignInAs(a)) \/ LeaveChat
  <2>1. Unmount /\ typed' = typed /\ steps' = steps + 1
    BY <1>2 DEF SignInAs, LeaveChat, Step
  <2> QED
    BY <1>t, <2>1, TextsUnmount
<1>3. ASSUME NEW i \in DOMAIN calls, Serve(i) \/ Receive(i) PROVE OInv' /\ FInv'
  <2>1. i \in 1..AtOnce
    BY DEF TInv, CallTypes
  <2> QED
    BY <1>3, <2>1, TextsServed, TextsReceived
<1> QED
  BY <1>1, <1>2, <1>3, TextsQuiet, TextsPosted, TextsTyped DEF Next

LEMMA AlwaysOwned == Spec => [](TInv /\ OInv /\ FInv)
<1>1. Init => TInv /\ OInv /\ FInv
  BY InitTypes, TextsInit
<1>2. TInv /\ OInv /\ FInv /\ [Next]_vars => (TInv /\ OInv /\ FInv)'
  BY NextTypes, TextsNext
<1> QED
  BY <1>1, <1>2, PTL DEF Spec

(* The page, its store and its calls keep their types; in particular no     *)
(* text is stored more often than the user has acted.                       *)
THEOREM TypeCorrect == Spec => []TypeOK
<1>1. TInv /\ OInv /\ FInv => TypeOK
  <2> SUFFICES ASSUME TInv, FInv PROVE TypeOK
    BY DEF OInv
  <2>1. \A i \in Pending : calls[i] \in Calls
    BY DEF TInv, CallTypes, Pending, GoodCalls
  <2>2. fate \in [stored : [Texts -> 0..MaxSteps], given : SUBSET Texts,
                  dropped : SUBSET Texts, broken : SUBSET Texts]
    <3>1. \A n \in Texts : fate.stored[n] \in 0..MaxSteps
      BY BoundAssumption DEF TInv, NoteTypes, FInv, StoredInStep
    <3>2. fate.stored \in [Texts -> 0..MaxSteps]
      BY <3>1 DEF TInv, NoteTypes
    <3> QED
      BY <3>2 DEF TInv, NoteTypes
  <2> QED
    BY <2>1, <2>2 DEF TInv, WorldTypes, StoreTypes, PageTypes, NoteTypes, TypeOK
<1> QED
  BY <1>1, AlwaysOwned, PTL

(* A text that was typed is in the draft, on its way, handed over, or was   *)
(* dropped where the page empties the draft: never by a call that failed.   *)
THEOREM NoTextIsLost == Spec => []TextAccounted
<1>1. TInv /\ OInv /\ FInv => TextAccounted
  BY DEF FInv, DraftOrGone, TextAccounted, HasText
<1> QED
  BY <1>1, AlwaysOwned, PTL

(* A text posted over REST is stored once, unless an answer was lost and    *)
(* the user sent it again.                                                  *)
THEOREM PostedTextsAreStoredOnce == Spec => []StoredOnce
<1>1. TInv /\ OInv /\ FInv => StoredOnce
  BY DEF FInv
<1> QED
  BY <1>1, AlwaysOwned, PTL

-----------------------------------------------------------------------------
(* Labels.  A conversation that is not an earlier user's is the user's own, *)
(* the list shows it unless an answer took it away, and the header named it *)
(* when the draft was begun.                                                *)
Aim == IF active = None THEN Group(user.unit) ELSE active

InheritedIsSome == inherited => active # None
ActiveIsMine    == ~inherited /\ active # None => active \in Mine(user)
ActiveIsListed  == ~inherited /\ ~behind /\ active # None
                      => active \in Listed \cup {Group(user.unit)}
DraftIsAimed    == draft # None /\ ~draft.excused /\ ~inherited => draft.under = Aim
LInv == /\ InheritedIsSome /\ ActiveIsMine /\ ActiveIsListed /\ DraftIsAimed
        /\ SentAsLabelled

(* The header names the conversation a message would go to.                 *)
LEMMA LabelIsAim == TInv /\ LInv /\ ~behind /\ ~inherited => Label = Aim
<1> SUFFICES ASSUME TInv, LInv, ~behind, ~inherited PROVE Label = Aim
  OBVIOUS
<1>1. user \in Accounts /\ Group(user.unit) \in Convs /\ Group(user.unit).who = {}
  BY UnitOf, GroupIsConv DEF TInv, WorldTypes
<1>2. CASE active = None
  <2>1. Listed \subseteq Convs
    BY ListedAreConvs
  <2> QED
    BY <1>2, <2>1, AbsentAssumption DEF Label, Aim
<1>3. CASE active # None
  <2>1. active \in Convs /\ active \in Mine(user) /\ active \in Listed \cup {Group(user.unit)}
    BY <1>3 DEF TInv, StoreTypes, LInv, ActiveIsMine, ActiveIsListed
  <2>2. active = [unit |-> active.unit, who |-> active.who]
    BY <2>1, ConvShape
  <2>3. active.unit = user.unit
    BY <1>1, <2>1, GroupIsConv, UnitOf DEF Mine
  <2>4. active.who = {} => active = Group(user.unit)
    BY <2>2, <2>3 DEF Group, Conversation
  <2>5. active.who # {} => active \in Listed
    BY <1>1, <2>1
  <2> QED
    BY <1>3, <2>4, <2>5 DEF Label, Aim
<1> QED
  BY <1>2, <1>3

LEMMA LabelsKept ==
    ASSUME LInv, UNCHANGED <<user, store, behind, inherited>>, made \subseteq made',
           draft' = draft \/ draft' = None, SentAsLabelled'
    PROVE  LInv'
<1> USE DEF store
<1>1. InheritedIsSome' /\ ActiveIsListed'
  BY DEF LInv, InheritedIsSome, ActiveIsListed, Listed
<1>2. ActiveIsMine'
  <2>1. Mine(user) \subseteq Mine(user)'
    BY DEF Mine
  <2> QED
    BY <2>1 DEF LInv, ActiveIsMine
<1>3. DraftIsAimed'
  BY DEF LInv, DraftIsAimed, Aim
<1> QED
  BY <1>1, <1>2, <1>3 DEF LInv

LEMMA LabelsUser ==
    ASSUME TInv, LInv,
           \/ \E a \in Accounts : SignInAs(a)
           \/ OpenChat \/ LeaveChat \/ Type \/ SendSocket \/ SendRest
           \/ \E c \in Convs : Select(c)
           \/ \E p \in Persons : StartDM(p)
    PROVE  LInv'
<1>s. sent' = sent => SentAsLabelled'
  BY DEF LInv, SentAsLabelled
<1>1. CASE \E a \in Accounts : SignInAs(a)
  <2>1. draft' = None /\ active' = active /\ inherited' = (active # None) /\ sent' = sent
    BY <1>1 DEF SignInAs, Unmount, Clear, store
  <2> QED
    BY <1>s, <2>1 DEF LInv, InheritedIsSome, ActiveIsMine, ActiveIsListed, DraftIsAimed
<1>2. CASE OpenChat \/ LeaveChat \/ \E p \in Persons : StartDM(p)
  <2>1. /\ UNCHANGED <<user, store, behind, inherited>> /\ made' = made /\ sent' = sent
        /\ draft' = draft \/ draft' = None
    BY <1>2 DEF OpenChat, LeaveChat, StartDM, Unmount, Clear, page
  <2> QED
    BY <1>s, <2>1, LabelsKept
<1>3. CASE SendSocket \/ SendRest
  <2>1. /\ UNCHANGED <<user, store, behind, inherited>> /\ made' = made
        /\ draft' = draft \/ draft' = None
        /\ draft # None /\ active # None
        /\ sent' = [to |-> active, under |-> draft.under, excused |-> draft.excused \/ inherited]
    BY <1>3 DEF SendSocket, SendRest, Ready, Hand
  <2>2. SentAsLabelled'
    BY <2>1 DEF LInv, DraftIsAimed, Aim, SentAsLabelled
  <2> QED
    BY <2>1, <2>2, LabelsKept
<1>4. CASE Type
  <2>1. /\ UNCHANGED <<made, user, store, behind, inherited, sent>>
        /\ draft' = [text |-> typed + 1, under |-> Label, excused |-> behind \/ inherited]
    BY <1>4 DEF Type
  <2>2. /\ InheritedIsSome' /\ ActiveIsMine' /\ ActiveIsListed' /\ Aim' = Aim
    BY <2>1 DEF LInv, InheritedIsSome, ActiveIsMine, ActiveIsListed, Listed, Mine, Aim, store
  <2>3. DraftIsAimed'
    <3>1. ~draft'.excused => ~behind /\ ~inherited
      BY <2>1
    <3>2. draft'.under = Label
      BY <2>1
    <3> QED
      BY <2>2, <3>1, <3>2, LabelIsAim DEF DraftIsAimed
  <2> QED
    BY <1>s, <2>1, <2>2, <2>3 DEF LInv
<1>5. ASSUME NEW c \in Convs, Select(c) PROVE LInv'
  <2>1. /\ UNCHANGED <<made, user, convs, behind, sent>> /\ c \in Listed
        /\ active' = c /\ inherited' = (c \notin Mine(user)) /\ draft' = None
    BY <1>5 DEF Select, Clear
  <2>2. c # None
    BY AbsentAssumption
  <2>3. Listed' = Listed /\ Mine(user)' = Mine(user)
    BY <2>1 DEF Listed, Mine
  <2>4. InheritedIsSome' /\ ActiveIsMine' /\ ActiveIsListed' /\ DraftIsAimed'
    BY <2>1, <2>2, <2>3 DEF InheritedIsSome, ActiveIsMine, ActiveIsListed, DraftIsAimed
  <2> QED
    BY <1>s, <2>1, <2>4 DEF LInv
<1> QED
  BY <1>1, <1>2, <1>3, <1>4, <1>5

LEMMA LabelsListed ==
    ASSUME TInv, LInv, NEW i \in 1..AtOnce, NEW c \in GoodCalls, c.state # "sent",
           ReceiveList(i, c), UNCHANGED <<made, user, sent>>
    PROVE  LInv'
<1>0. /\ c.by \in Accounts /\ c.by.unit \in Units /\ user.unit \in Units
      /\ Group(c.by.unit) \in Convs /\ Group(c.by.unit) # None
  BY UnitOf, GroupIsConv, AbsentAssumption DEF GoodCalls, Calls, TInv, WorldTypes
<1>s. SentAsLabelled' /\ Mine(user)' = Mine(user) /\ Group(user.unit)' = Group(user.unit)
  BY DEF LInv, SentAsLabelled, Mine
<1>1. CASE c.state = "failed"
  <2>1. UNCHANGED <<user, store, behind, inherited, draft, made>>
    BY <1>1 DEF ReceiveList, store
  <2> QED
    BY <1>s, <2>1, LabelsKept
<1>2. CASE c.state # "failed"
  <2>1. /\ convs' = [convs EXCEPT ![c.by.unit] = c.list] /\ draft' = draft
        /\ c.by = user => behind' = ~((Listed \cup {active}) \cap Mine(user) \subseteq c.list)
        /\ c.by # user => behind' = (behind \/ c.by.unit = user.unit)
        /\ active = None => active' = Group(c.by.unit) /\ inherited' = (c.by # user)
        /\ active # None => active' = active /\ inherited' = inherited
    BY <1>2 DEF ReceiveList
  <2>2. c.list \subseteq Convs /\ c.list # None
    BY AbsentAssumption DEF GoodCalls, Calls
  <2>3. /\ c.by = user => Listed' = c.list
        /\ c.by.unit # user.unit => Listed' = Listed
    BY <1>0, <2>1, <2>2 DEF Listed, TInv, StoreTypes
  <2>4. CASE active = None
    <3>1. ~inherited
      BY <2>4 DEF LInv, InheritedIsSome
    <3>2. active' = Group(c.by.unit) /\ inherited' = (c.by # user)
      BY <2>1, <2>4
    <3>3. ~inherited' => active' = Group(user.unit)
      BY <3>2
    <3>4. InheritedIsSome' /\ ActiveIsListed'
      BY <1>0, <1>s, <3>2, <3>3 DEF InheritedIsSome, ActiveIsListed
    <3>5. ActiveIsMine'
      <4>1. Group(user.unit) \in Mine(user)
        BY <1>0, GroupIsConv DEF Mine
      <4> QED
        BY <1>s, <3>3, <4>1 DEF ActiveIsMine
    <3>6. DraftIsAimed'
      <4>1. draft # None /\ ~draft.excused => draft.under = Group(user.unit)
        BY <2>4, <3>1 DEF LInv, DraftIsAimed, Aim
      <4>2. active' # None
        BY <1>0, <3>2
      <4> QED
        BY <2>1, <3>3, <4>1, <4>2 DEF DraftIsAimed, Aim
    <3> QED
      BY <1>s, <3>4, <3>5, <3>6 DEF LInv
  <2>5. CASE active # None
    <3>1. active' = active /\ inherited' = inherited
      BY <2>1, <2>5
    <3>2. InheritedIsSome' /\ ActiveIsMine' /\ DraftIsAimed'
      BY <1>s, <2>1, <3>1 DEF LInv, InheritedIsSome, ActiveIsMine, DraftIsAimed, Aim
    <3>3. ActiveIsListed'
      <4>1. CASE c.by = user
        BY <1>s, <2>1, <2>3, <3>1, <4>1 DEF LInv, ActiveIsMine, ActiveIsListed
      <4>2. CASE c.by # user
        <5>1. ~behind' => ~behind /\ c.by.unit # user.unit
          BY <2>1, <4>2
        <5> QED
          BY <1>s, <2>3, <3>1, <5>1 DEF LInv, ActiveIsListed
      <4> QED
        BY <4>1, <4>2
    <3> QED
      BY <1>s, <3>2, <3>3 DEF LInv
  <2> QED
    BY <2>4, <2>5
<1> QED
  BY <1>1, <1>2

LEMMA LabelsStarted ==
    ASSUME TInv, LInv, NEW i \in 1..AtOnce, NEW c \in GoodCalls, c.state # "sent",
           ReceiveDM(i, c), UNCHANGED <<made, user, sent>>
    PROVE  LInv'
<1>0. /\ c.by \in Accounts /\ c.by.unit \in Units /\ user.unit \in Units /\ c.op = "dm"
      /\ c.conv \in DMs /\ c.conv \in Convs /\ c.conv.unit = c.by.unit
      /\ c.by.person \in c.conv.who /\ c.conv # None
  BY UnitOf, AbsentAssumption DEF GoodCalls, Calls, TInv, WorldTypes, ReceiveDM, Convs
<1>s. SentAsLabelled' /\ Mine(user)' = Mine(user) /\ Group(user.unit)' = Group(user.unit)
  BY DEF LInv, SentAsLabelled, Mine
<1>1. CASE c.state = "failed"
  <2>1. UNCHANGED <<user, store, behind, inherited, draft, made>>
    BY <1>1 DEF ReceiveDM, store
  <2> QED
    BY <1>s, <2>1, LabelsKept
<1>2. CASE c.state # "failed"
  <2>1. Append(c) /\ active' = c.conv /\ inherited' = (c.by # user)
    BY <1>2 DEF ReceiveDM, Chosen
  <2>2. draft' = None \/ (draft # None /\ draft' = [draft EXCEPT !.excused = TRUE])
    <3>1. CASE c.here
      BY <1>2, <3>1 DEF ReceiveDM, Clear
    <3>2. CASE ~c.here
      BY <1>2, <3>2 DEF ReceiveDM
    <3> QED
      BY <3>1, <3>2
  <2>3. c.conv \in made
    <3>1. c.state = "ok"
      BY <1>2 DEF GoodCalls, Calls
    <3> QED
      BY <1>0, <3>1 DEF GoodCalls
  <2>4. InheritedIsSome'
    BY <1>0, <2>1 DEF InheritedIsSome
  <2>5. ActiveIsMine'
    <3>1. c.by = user => c.conv \in Mine(user)
      BY <1>0, <2>3 DEF Mine
    <3> QED
      BY <1>s, <2>1, <3>1 DEF ActiveIsMine
  <2>6. ActiveIsListed'
    <3>1. c.by = user => c.conv \in Listed'
      <4> SUFFICES ASSUME c.by = user PROVE c.conv \in Listed'
        OBVIOUS
      <4> DEFINE new == (IF convs[user.unit] = None THEN {} ELSE convs[user.unit]) \cup {c.conv}
      <4>1. convs'[user.unit] = new
        BY <1>0, <2>1 DEF Append, TInv, StoreTypes
      <4>2. new \subseteq Convs
        BY <1>0 DEF TInv, StoreTypes
      <4>3. new # None
        <5> HIDE DEF new
        <5> QED
          BY <4>2, AbsentAssumption
      <4> QED
        BY <4>1, <4>3 DEF Listed
    <3> QED
      BY <2>1, <3>1 DEF ActiveIsListed
  <2>7. DraftIsAimed'
    <3>1. CASE draft' = None
      BY <3>1 DEF DraftIsAimed
    <3>2. CASE draft # None /\ draft' = [draft EXCEPT !.excused = TRUE]
      <4>1. draft'.excused = TRUE
        BY <3>2 DEF TInv, PageTypes, Drafts
      <4> QED
        BY <4>1 DEF DraftIsAimed
    <3> QED
      BY <2>2, <3>1, <3>2
  <2> QED
    BY <1>s, <2>4, <2>5, <2>6, <2>7 DEF LInv
<1> QED
  BY <1>1, <1>2

LEMMA LabelsNext == TInv /\ LInv /\ [Next]_vars => LInv'
<1> SUFFICES ASSUME TInv, LInv, [Next]_vars PROVE LInv'
  OBVIOUS
<1>s. sent' = sent => SentAsLabelled'
  BY DEF LInv, SentAsLabelled
<1>1. CASE UNCHANGED vars
  BY <1>1, <1>s, LabelsKept DEF vars, page
<1>2. CASE OthersAct
  <2>1. /\ UNCHANGED <<user, store, behind, inherited, sent, draft>>
        /\ made \subseteq made'
    BY <1>2 DEF OthersAct, page
  <2> QED
    BY <1>s, <2>1, LabelsKept
<1>3. ASSUME NEW i \in DOMAIN calls, Serve(i) PROVE LInv'
  <2>1. i \in 1..AtOnce
    BY DEF TInv, CallTypes
  <2>2. /\ UNCHANGED <<user, store, behind, inherited, sent, draft>>
        /\ made \subseteq made'
    BY <1>3, <2>1, TypesServed DEF Serve, page
  <2> QED
    BY <1>s, <2>2, LabelsKept
<1>4. ASSUME NEW i \in DOMAIN calls, Receive(i) PROVE LInv'
  <2> DEFINE c == calls[i]
  <2>1. /\ i \in 1..AtOnce /\ c \in GoodCalls /\ c.state # "sent"
        /\ UNCHANGED <<made, user, sent>>
    BY <1>4 DEF Receive, Pending, TInv, CallTypes
  <2>2. CASE ReceiveList(i, c)
    BY <2>1, <2>2, LabelsListed
  <2>3. CASE ReceiveDM(i, c)
    BY <2>1, <2>3, LabelsStarted
  <2>4. CASE ReceiveWorkspace(i, c) \/ ReceiveSend(i, c)
    <3>1. /\ active' = active /\ convs' = convs /\ behind' = behind /\ inherited' = inherited
          /\ draft' = draft \/ draft' = None
      BY <2>4 DEF ReceiveWorkspace, ReceiveSend, store
    <3>2. InheritedIsSome' /\ ActiveIsMine' /\ ActiveIsListed'
      BY <2>1, <3>1 DEF LInv, InheritedIsSome, ActiveIsMine, ActiveIsListed, Listed, Mine
    <3>3. DraftIsAimed'
      BY <2>1, <3>1 DEF LInv, DraftIsAimed, Aim
    <3> QED
      BY <1>s, <2>1, <3>2, <3>3 DEF LInv
  <2> QED
    BY <1>4, <2>2, <2>3, <2>4 DEF Receive
<1> QED
  BY <1>1, <1>2, <1>3, <1>4, LabelsUser DEF Next

(* A message goes to the conversation the header named when its first key   *)
(* was typed, although answers list and select conversations meanwhile,     *)
(* unless the choice was an earlier user's, the list had lost it already,   *)
(* or a conversation started on an earlier visit took the draft over.       *)
THEOREM MessagesGoWhereLabelled == Spec => []SentAsLabelled
<1>1. Init => TInv /\ LInv
  BY InitTypes DEF Init, LInv, InheritedIsSome, ActiveIsMine, ActiveIsListed,
                   DraftIsAimed, SentAsLabelled
<1>2. TInv /\ LInv /\ [Next]_vars => (TInv /\ LInv)'
  BY NextTypes, LabelsNext
<1>3. TInv /\ LInv => SentAsLabelled
  BY DEF LInv
<1> QED
  BY <1>1, <1>2, <1>3, PTL DEF Spec
=============================================================================
