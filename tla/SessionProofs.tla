--------------------------- MODULE SessionProofs ---------------------------
(***************************************************************************)
(* Proofs about Session: its types, that a tab in step shows the user of   *)
(* the cookies and is refused nothing it offers, that signing in is        *)
(* verified, that only a request with a token, or signing out, ends a      *)
(* session, and that a tab changes the password of the profile it shows.   *)
(***************************************************************************)
EXTENDS Session, TLAPS

(* The parts of TypeOK; the answers a request may have.                     *)
Answers == {"none", "ok", "400", "401", "expired", "403", "503"}
(* A form is sent when its fields are filled, and the cookies are cleared   *)
(* only by an answer to a request that carried one.                         *)
SoundRequests ==
    {r \in Requests : /\ r.op \in {"onboard", "password"} => r.pw \in Passwords
                      /\ r.op = "password" => r.new \in Passwords
                      /\ r.answer = "expired" => r.tok # None}
CookieTypes == token \in Users \cup {None} /\ info \in Users \cup {None}
DbTypes     == db \in [Accounts -> Profiles \cup {None}]
CountTypes  == changes \in 0..MaxChanges /\ asks \in 0..MaxAsks
ShownTypes  == /\ page \in [Tabs -> Pages]
               /\ layout \in [Tabs -> Users \cup {None}] /\ store \in [Tabs -> Users \cup {None}]
               /\ choices \in [Tabs -> SUBSET Accounts]
NoteTypes   == foreign \in [Tabs -> BOOLEAN] /\ strayed \in [Tabs -> BOOLEAN]
ReqTypes    == req \in [Tabs -> SoundRequests \cup {None}]
TypeInv == CookieTypes /\ DbTypes /\ CountTypes /\ ShownTypes /\ NoteTypes /\ ReqTypes

LEMMA TypeParts == TypeInv => TypeOK
<1> SUFFICES ASSUME TypeInv PROVE TypeOK
  OBVIOUS
<1>1. \A t \in Tabs : req[t] = None \/ req[t] \in Requests
  BY DEF TypeInv, ReqTypes, SoundRequests
<1>2. QED
  BY <1>1, Zenon DEF TypeOK, TypeInv, CookieTypes, DbTypes, CountTypes, ShownTypes, NoteTypes

(* What an action leaves alone keeps its types.                             *)
LEMMA Frames ==
    /\ CookieTypes /\ UNCHANGED cookies => CookieTypes'
    /\ DbTypes /\ UNCHANGED db => DbTypes'
    /\ CountTypes /\ UNCHANGED <<changes, asks>> => CountTypes'
    /\ ShownTypes /\ NoteTypes /\ UNCHANGED tabs => ShownTypes' /\ NoteTypes'
    /\ ReqTypes /\ UNCHANGED req => ReqTypes'
<1>1. CookieTypes /\ UNCHANGED cookies => CookieTypes'
  BY Zenon DEF CookieTypes, cookies
<1>2. DbTypes /\ UNCHANGED db => DbTypes'
  BY Zenon DEF DbTypes
<1>3. CountTypes /\ UNCHANGED <<changes, asks>> => CountTypes'
  BY Zenon DEF CountTypes
<1>4. ShownTypes /\ NoteTypes /\ UNCHANGED tabs => ShownTypes' /\ NoteTypes'
  BY Zenon DEF ShownTypes, NoteTypes, tabs
<1>5. ReqTypes /\ UNCHANGED req => ReqTypes'
  BY Zenon DEF ReqTypes
<1>6. QED
  BY <1>1, <1>2, <1>3, <1>4, <1>5

(* Answering a request changes its answer, and for login its profiles.      *)
LEMMA AnswersAre ==
    ASSUME TypeInv, NEW t \in Tabs, NEW a \in Answers, req[t] # None, Answer(t, a),
           a = "expired" => req[t].tok # None
    PROVE  /\ ReqTypes'
           /\ req'[t] = [req[t] EXCEPT !.answer = a]
           /\ \A u \in Tabs : u # t => req'[u] = req[u]
<1>1. req[t] \in SoundRequests /\ req \in [Tabs -> SoundRequests \cup {None}]
  BY DEF TypeInv, ReqTypes
<1>2. req' = [req EXCEPT ![t] = [req[t] EXCEPT !.answer = a]]
  BY <1>1 DEF Answer
<1>3. [req[t] EXCEPT !.answer = a] \in SoundRequests
  BY <1>1 DEF SoundRequests, Requests, Answers
<1>4. QED
  BY <1>1, <1>2, <1>3 DEF ReqTypes

(* A new request.                                                           *)
LEMMA AskTypes ==
    ASSUME TypeInv, NEW t \in Tabs, NEW r \in SoundRequests, Ask(t, r)
    PROVE  TypeInv'
<1>1. ReqTypes'
  BY DEF Ask, TypeInv, ReqTypes
<1>2. CountTypes'
  BY BoundAssumption DEF Ask, TypeInv, CountTypes
<1>3. UNCHANGED cookies /\ UNCHANGED db /\ UNCHANGED tabs
  BY DEF Ask
<1>4. QED
  BY <1>1, <1>2, <1>3, Frames, Zenon DEF TypeInv

LEMMA RequestTypes ==
    ASSUME TypeInv, NEW t \in Tabs, Request(t)
    PROVE  TypeInv'
<1>0. Blank(t) \in SoundRequests
  <2>1. token \in Users \cup {None} /\ layout[t] \in Users \cup {None} /\ foreign[t] \in BOOLEAN
    BY DEF TypeInv, CookieTypes, ShownTypes, NoteTypes
  <2>2. QED
    BY <2>1 DEF Blank, SoundRequests, Requests, Ops
<1>1. ASSUME NEW e \in Emails, NEW pw \in Passwords, NEW u \in Units \cup {None},
             SubmitLogin(t, e, pw, u)
      PROVE  TypeInv'
  <2>1. [Blank(t) EXCEPT !.op = "login", !.email = e, !.pw = pw, !.unit = u] \in SoundRequests
    BY <1>0 DEF SoundRequests, Requests, Ops
  <2>2. QED
    BY <1>1, <2>1, AskTypes DEF SubmitLogin
<1>2. ASSUME NEW e \in Emails, NEW pw \in Passwords, SubmitOnboard(t, e, pw) PROVE TypeInv'
  <2>1. [Blank(t) EXCEPT !.op = "onboard", !.email = e, !.pw = pw] \in SoundRequests
    BY <1>0 DEF SoundRequests, Requests, Ops
  <2>2. QED
    BY <1>2, <2>1, AskTypes DEF SubmitOnboard
<1>3. ASSUME NEW cur \in Passwords, NEW new \in Passwords, SubmitPassword(t, cur, new)
      PROVE  TypeInv'
  <2>1. [Blank(t) EXCEPT !.op = "password", !.pw = cur, !.new = new] \in SoundRequests
    BY <1>0 DEF SoundRequests, Requests, Ops
  <2>2. QED
    BY <1>3, <2>1, AskTypes DEF SubmitPassword
<1>4. CASE SignOut(t)
  BY <1>0, <1>4, AskTypes DEF SignOut
<1>5. CASE ResetDb(t)
  <2>1. [Blank(t) EXCEPT !.op = "reset"] \in SoundRequests
    BY <1>0 DEF SoundRequests, Requests, Ops
  <2>2. QED
    BY <1>5, <2>1, AskTypes DEF ResetDb
<1>6. CASE Toggle(t)
  <2>1. (foreign[t] \/ strayed[t]) \in BOOLEAN
    BY Zenon
  <2>2. \A b \in BOOLEAN : [Blank(t) EXCEPT !.op = "access", !.behind = b] \in SoundRequests
    BY <1>0 DEF SoundRequests, Requests, Ops
  <2>3. [Blank(t) EXCEPT !.op = "access", !.behind = foreign[t] \/ strayed[t]] \in SoundRequests
    BY <2>1, <2>2, Zenon
  <2>4. QED
    BY <1>6, <2>3, AskTypes DEF Toggle
<1>7. QED
  BY <1>1, <1>2, <1>3, <1>4, <1>5, <1>6, Zenon DEF Request

(* Serving a page.                                                          *)
LEMMA ServedType == ASSUME NEW path \in Protected \cup Public PROVE Served(path) \in Pages
BY DEF Served, Middleware, Pages, Public, Protected

LEMMA ShowTypes ==
    ASSUME TypeInv, NEW t \in Tabs, NEW path \in Protected \cup Public, NEW refresh \in BOOLEAN,
           Show(t, path, refresh)
    PROVE  ShownTypes' /\ foreign' \in [Tabs -> BOOLEAN]
<1>1. Prop(t, path, refresh) \in Users \cup {None}
  <2>1. info \in Users \cup {None} /\ layout[t] \in Users \cup {None}
    BY DEF TypeInv, CookieTypes, ShownTypes
  <2>2. QED
    BY <2>1, Zenon DEF Prop
<1>2. page' \in [Tabs -> Pages] /\ choices' \in [Tabs -> SUBSET Accounts]
  BY ServedType DEF Show, TypeInv, ShownTypes
<1>3. layout' = [layout EXCEPT ![t] = Prop(t, path, refresh)]
  BY Zenon DEF Show
<1>4. store' = store \/ store' = [store EXCEPT ![t] = Prop(t, path, refresh)]
  BY Zenon DEF Show
<1>5. layout' \in [Tabs -> Users \cup {None}] /\ store' \in [Tabs -> Users \cup {None}]
  BY <1>1, <1>3, <1>4 DEF TypeInv, ShownTypes
<1>6. (foreign[t] /\ layout[t] # None /\ Served(path) \notin Public) \in BOOLEAN
  BY Zenon
<1>7. foreign' = [foreign EXCEPT ![t] = foreign[t] /\ layout[t] # None /\ Served(path) \notin Public]
  BY DEF Show, TypeInv, NoteTypes
<1>8. foreign' \in [Tabs -> BOOLEAN]
  BY <1>6, <1>7 DEF TypeInv, NoteTypes
<1>9. QED
  BY <1>2, <1>5, <1>8, Zenon DEF ShownTypes

LEMMA BrowseTypes ==
    ASSUME TypeInv, NEW t \in Tabs, Browse(t)
    PROVE  TypeInv'
<1>1. ASSUME NEW path \in Protected \cup Public, NEW refresh \in BOOLEAN,
             Show(t, path, refresh), strayed' = [strayed EXCEPT ![t] = FALSE],
             UNCHANGED <<cookies, db, changes, asks, req>>
      PROVE  TypeInv'
  <2>1. ShownTypes' /\ foreign' \in [Tabs -> BOOLEAN]
    BY <1>1, ShowTypes
  <2>2. strayed' \in [Tabs -> BOOLEAN]
    BY <1>1 DEF TypeInv, NoteTypes
  <2>3. UNCHANGED cookies /\ UNCHANGED db /\ UNCHANGED <<changes, asks>> /\ UNCHANGED req
    BY <1>1
  <2>4. QED
    BY <2>1, <2>2, <2>3, Frames, Zenon DEF TypeInv, NoteTypes
<1>2. ASSUME NEW path \in Protected, Navigate(t, path) PROVE TypeInv'
  BY <1>1, <1>2 DEF Navigate
<1>3. CASE Link(t)
  <2>1. (IF page[t] = "login" THEN "onboard" ELSE "login") \in Protected \cup Public
    BY DEF Public
  <2>2. QED
    BY <1>1, <1>3, <2>1 DEF Link
<1>4. CASE Arrive(t)
  <2>1. (IF page[t] = "to_login" THEN "login" ELSE "dashboard") \in Protected \cup Public
    BY DEF Public, Protected
  <2>2. QED
    BY <1>1, <1>4, <2>1 DEF Arrive
<1>5. ASSUME NEW path \in Public \cup Protected, Load(t, path) PROVE TypeInv'
  <2>1. (IF Served(path) \in Protected THEN info ELSE None) \in Users \cup {None}
    BY Zenon DEF TypeInv, CookieTypes
  <2>2. ShownTypes' /\ ReqTypes' /\ foreign' \in [Tabs -> BOOLEAN]
    BY <1>5, <2>1, ServedType DEF Load, TypeInv, ShownTypes, ReqTypes, NoteTypes
  <2>3. strayed' \in [Tabs -> BOOLEAN]
    <3>1. (token # None /\ Strays(path, info)) \in BOOLEAN
      BY Zenon
    <3>2. strayed' = [strayed EXCEPT ![t] = token # None /\ Strays(path, info)]
      BY <1>5, Zenon DEF Load
    <3>3. QED
      BY <3>1, <3>2 DEF TypeInv, NoteTypes
  <2>4. UNCHANGED cookies /\ UNCHANGED db /\ UNCHANGED <<changes, asks>>
    BY <1>5, Zenon DEF Load
  <2>5. QED
    BY <2>2, <2>3, <2>4, Frames, Zenon DEF TypeInv, NoteTypes
<1>6. QED
  BY <1>2, <1>3, <1>4, <1>5, Zenon DEF Browse

(* The routes and the backend.                                              *)
LEMMA ServeTypes ==
    ASSUME TypeInv, NEW t \in Tabs, Serve(t)
    PROVE  TypeInv'
<1>1. /\ UNCHANGED cookies /\ UNCHANGED <<changes, asks>> /\ UNCHANGED tabs
      /\ req[t] # None
  BY DEF Serve
<1>2. req[t] \in SoundRequests /\ db \in [Accounts -> Profiles \cup {None}]
  BY <1>1 DEF TypeInv, ReqTypes, DbTypes
<1>3. ASSUME DbTypes', ReqTypes' PROVE TypeInv'
  BY <1>1, <1>3, Frames, Zenon DEF TypeInv
<1>4. ASSUME NEW a \in Answers \ {"expired"}, Answer(t, a) PROVE ReqTypes'
  BY <1>1, <1>4, AnswersAre
<1>5. {"503", "401", "ok", "400", "403"} \subseteq Answers \ {"expired"}
  BY DEF Answers
<1>6. UNCHANGED db => DbTypes'
  BY Frames DEF TypeInv
<1>7. ASSUME LoginRoute(t) PROVE DbTypes' /\ ReqTypes'
  <2>1. UNCHANGED db
    BY <1>7 DEF LoginRoute
  <2> DEFINE valid == LoginAsync(req[t].email, req[t].pw, req[t].unit)
             found == {[acct |-> a, role |-> db[a].role] : a \in valid}
  <2>2. ASSUME req' = [req EXCEPT ![t].answer = "ok", ![t].profiles = found] PROVE ReqTypes'
    <3>1. \A a \in valid : a \in Accounts /\ db[a] \in Profiles
      BY <1>2 DEF LoginAsync, Exists
    <3>2. found \in SUBSET Users
      BY <3>1 DEF Users, Profiles
    <3> HIDE DEF found
    <3>3. [req[t] EXCEPT !.answer = "ok", !.profiles = found] \in SoundRequests
      BY <1>2, <3>2 DEF SoundRequests, Requests
    <3>4. req' = [req EXCEPT ![t] = [req[t] EXCEPT !.answer = "ok", !.profiles = found]]
      BY <2>2 DEF TypeInv, ReqTypes
    <3>5. QED
      BY <3>3, <3>4 DEF TypeInv, ReqTypes
  <2>3. QED
    BY <1>4, <1>5, <1>6, <1>7, <2>1, <2>2 DEF LoginRoute
<1>8. ASSUME OnboardRoute(t) PROVE DbTypes' /\ ReqTypes'
  <2>1. req[t].op = "onboard" /\ req[t].pw \in Passwords
    BY <1>2, <1>8 DEF OnboardRoute, SoundRequests
  <2>2. [role |-> "Owner", password |-> req[t].pw] \in Profiles
    BY <2>1 DEF Profiles, Roles
  <2>3. ASSUME NEW a \in Accounts,
               db' = [db EXCEPT ![a] = [role |-> "Owner", password |-> req[t].pw]]
        PROVE  DbTypes'
    BY <1>2, <2>2, <2>3 DEF DbTypes
  <2>4. QED
    BY <1>4, <1>5, <1>6, <1>8, <2>3 DEF OnboardRoute
<1>9. ASSUME LogoutRoute(t) PROVE DbTypes' /\ ReqTypes'
  BY <1>4, <1>5, <1>6, <1>9 DEF LogoutRoute
<1>10. ASSUME ChangePassword(t), req[t].op = "password", req[t].tok # None
       PROVE  DbTypes' /\ ReqTypes'
  <2>1. req[t].new \in Passwords
    BY <1>2, <1>10 DEF SoundRequests, Requests
  <2>2. ASSUME Answer(t, "expired") PROVE ReqTypes'
    BY <1>1, <1>10, <2>2, AnswersAre DEF Answers
  <2>3. ASSUME NEW a \in Accounts, Exists(a), db' = [db EXCEPT ![a].password = req[t].new]
        PROVE  DbTypes'
    <3>1. db[a] \in Profiles
      BY <1>2, <2>3 DEF Exists
    <3>2. [db[a] EXCEPT !.password = req[t].new] \in Profiles
      BY <2>1, <3>1 DEF Profiles
    <3>3. db' = [db EXCEPT ![a] = [db[a] EXCEPT !.password = req[t].new]]
      BY <1>2, <2>3
    <3>4. QED
      BY <1>2, <3>2, <3>3 DEF DbTypes
  <2>4. QED
    BY <1>4, <1>5, <1>6, <1>10, <2>2, <2>3 DEF ChangePassword, Held
<1>11. ASSUME OwnerCall(t) PROVE DbTypes' /\ ReqTypes'
  <2>1. Reseeded \in [Accounts -> Profiles \cup {None}]
    BY AccountAssumption DEF Reseeded, SeedRow, Profiles, Roles
  <2>2. db' = db \/ db' = Reseeded
    BY <1>11, Zenon DEF OwnerCall
  <2>3. DbTypes'
    BY <1>2, <2>1, <2>2 DEF DbTypes
  <2>4. QED
    BY <1>4, <1>5, <1>11, <2>3 DEF OwnerCall
<1>12. ASSUME ProxyRequest(t) PROVE DbTypes' /\ ReqTypes'
  BY <1>4, <1>5, <1>6, <1>10, <1>11, <1>12 DEF ProxyRequest
<1>13. QED
  BY <1>3, <1>7, <1>8, <1>9, <1>12 DEF Serve

(* The answers.                                                             *)
LEMMA SetCookiesTypes ==
    ASSUME TypeInv, NEW t \in Tabs, NEW user \in Users \cup {None}, SetCookies(t, user)
    PROVE  CookieTypes' /\ foreign' \in [Tabs -> BOOLEAN]
<1>1. CookieTypes'
  BY Zenon DEF SetCookies, CookieTypes
<1>2. \A u \in Tabs : (IF u = t THEN user = None /\ foreign[t]
                       ELSE foreign[u] \/ layout[u] # None) \in BOOLEAN
  BY Zenon
<1>3. foreign' \in [Tabs -> BOOLEAN]
  BY <1>2, Zenon DEF SetCookies
<1>4. QED
  BY <1>1, <1>3

LEMMA ReceiveTypes ==
    ASSUME TypeInv, NEW t \in Tabs, Receive(t)
    PROVE  TypeInv'
<1>1. /\ UNCHANGED db /\ UNCHANGED <<changes, asks>> /\ req[t] # None
      /\ req' = [req EXCEPT ![t] = None]
  BY DEF Receive
<1>2. req[t] \in SoundRequests /\ ReqTypes'
  BY <1>1 DEF TypeInv, ReqTypes
<1>3. ASSUME CookieTypes', ShownTypes', NoteTypes' PROVE TypeInv'
  BY <1>1, <1>2, <1>3, Frames, Zenon DEF TypeInv
<1>4. ASSUME NEW p \in Pages, Goes(t, p) PROVE page' \in [Tabs -> Pages]
  BY <1>4 DEF Goes, TypeInv, ShownTypes
<1>5. ASSUME UNCHANGED strayed, foreign' \in [Tabs -> BOOLEAN] PROVE NoteTypes'
  BY <1>5 DEF TypeInv, NoteTypes
<1>6. {"to_dashboard", "to_login", "reload", "registered"} \subseteq Pages
  BY DEF Pages
<1>7. CASE SignedIn(t)
  <2>1. PICK user \in Users : SetCookies(t, user) /\ store' = [store EXCEPT ![t] = user]
    BY <1>2, <1>7 DEF SignedIn, SoundRequests, Requests
  <2>2. ShownTypes'
    BY <1>4, <1>6, <1>7, <2>1 DEF SignedIn, TypeInv, ShownTypes
  <2>3. QED
    BY <1>3, <1>5, <1>7, <2>1, <2>2, SetCookiesTypes DEF SignedIn
<1>8. CASE Offered(t)
  <2>1. {u.acct : u \in req[t].profiles} \in SUBSET Accounts
    BY <1>2 DEF SoundRequests, Requests, Users
  <2>2. choices' \in [Tabs -> SUBSET Accounts]
    BY <1>8, <2>1 DEF Offered, TypeInv, ShownTypes
  <2>3. UNCHANGED cookies /\ UNCHANGED <<page, layout, store, foreign, strayed>>
    BY <1>8, Zenon DEF Offered
  <2>4. CookieTypes' /\ ShownTypes' /\ NoteTypes'
    BY <2>2, <2>3, Frames, Zenon DEF TypeInv, ShownTypes, NoteTypes
  <2>5. QED
    BY <1>3, <2>4
<1>9. CASE Registered(t)
  <2>1. page' \in [Tabs -> Pages]
    BY <1>4, <1>6, <1>9 DEF Registered, TypeInv, ShownTypes
  <2>2. UNCHANGED cookies /\ UNCHANGED <<layout, store, choices, foreign, strayed>>
    BY <1>9, Zenon DEF Registered
  <2>3. CookieTypes' /\ ShownTypes' /\ NoteTypes'
    BY <2>1, <2>2, Frames, Zenon DEF TypeInv, ShownTypes, NoteTypes
  <2>4. QED
    BY <1>3, <2>3
<1>10. CASE SignedOut(t)
  <2>1. ShownTypes'
    BY <1>4, <1>6, <1>10 DEF SignedOut, TypeInv, ShownTypes
  <2>2. QED
    BY <1>3, <1>5, <1>10, <2>1, SetCookiesTypes DEF SignedOut
<1>11. CASE Expelled(t)
  <2>1. ShownTypes'
    BY <1>4, <1>6, <1>11 DEF Expelled, TypeInv, ShownTypes
  <2>2. CookieTypes' /\ foreign' \in [Tabs -> BOOLEAN]
    BY <1>11, SetCookiesTypes, Frames DEF Expelled, TypeInv, NoteTypes
  <2>3. QED
    BY <1>3, <1>5, <1>11, <2>1, <2>2 DEF Expelled
<1>12. CASE Refreshed(t)
  <2>1. UNCHANGED cookies /\ UNCHANGED strayed
    BY <1>12, Zenon DEF Refreshed
  <2>2. CASE Show(t, page[t], TRUE) /\ page[t] \in Protected
    BY <1>3, <1>5, <2>1, <2>2, ShowTypes, Frames DEF TypeInv
  <2>3. CASE UNCHANGED <<page, layout, store, choices, foreign>>
    <3>1. UNCHANGED tabs
      BY <2>1, <2>3 DEF tabs
    <3>2. QED
      BY <1>3, <2>1, <3>1, Frames, Zenon DEF TypeInv
  <2>4. QED
    BY <1>12, <2>2, <2>3 DEF Refreshed
<1>13. CASE Told(t)
  <2>1. UNCHANGED cookies /\ UNCHANGED tabs
    BY <1>13 DEF Told
  <2>2. QED
    BY <1>3, <2>1, Frames, Zenon DEF TypeInv
<1>14. QED
  BY <1>7, <1>8, <1>9, <1>10, <1>11, <1>12, <1>13 DEF Receive

(* Every step keeps the types.                                              *)
LEMMA TypeStep == ASSUME TypeInv, [Next]_vars PROVE TypeInv'
<1>1. ASSUME NEW t \in Tabs, Fails(t) PROVE TypeInv'
  <2>1. UNCHANGED cookies /\ UNCHANGED db /\ UNCHANGED <<changes, asks>> /\ UNCHANGED tabs
    BY <1>1 DEF Fails
  <2>2. ReqTypes'
    BY <1>1 DEF Fails, TypeInv, ReqTypes
  <2>3. QED
    BY <2>1, <2>2, Frames, Zenon DEF TypeInv
<1>2. CASE Expire
  <2>1. \A t \in Tabs : (foreign[t] \/ layout[t] # None) \in BOOLEAN
    BY Zenon
  <2>2. foreign' \in [Tabs -> BOOLEAN]
    BY <1>2, <2>1, Zenon DEF Expire
  <2>3. CookieTypes'
    BY <1>2, Zenon DEF Expire, CookieTypes
  <2>4. /\ UNCHANGED db /\ UNCHANGED <<changes, asks>> /\ UNCHANGED req
        /\ UNCHANGED <<page, layout, store, choices, strayed>>
    BY <1>2 DEF Expire
  <2>5. ShownTypes' /\ NoteTypes'
    BY <2>2, <2>4, Zenon DEF TypeInv, ShownTypes, NoteTypes
  <2>6. QED
    BY <2>3, <2>4, <2>5, Frames, Zenon DEF TypeInv
<1>3. CASE OthersChange
  <2>1. UNCHANGED cookies /\ UNCHANGED tabs /\ UNCHANGED req
    BY <1>3 DEF OthersChange
  <2>2. CountTypes'
    BY <1>3, BoundAssumption DEF OthersChange, TypeInv, CountTypes
  <2>3. DbTypes'
    <3>1. Reseeded \in [Accounts -> Profiles \cup {None}]
      BY AccountAssumption DEF Reseeded, SeedRow, Profiles, Roles
    <3>2. ASSUME NEW a \in Accounts, NEW row \in NewRows,
                 db' = [db EXCEPT ![a] = IF Exists(a) THEN [@ EXCEPT !.role = row.role] ELSE row]
          PROVE  DbTypes'
      <4>1. row \in Profiles
        BY AccountAssumption DEF NewRows, Profiles, Roles
      <4>2. Exists(a) => [db[a] EXCEPT !.role = row.role] \in Profiles
        BY <4>1 DEF Exists, TypeInv, DbTypes, Profiles
      <4>3. db' = [db EXCEPT ![a] = IF Exists(a) THEN [db[a] EXCEPT !.role = row.role] ELSE row]
        BY <3>2 DEF TypeInv, DbTypes
      <4>4. QED
        BY <4>1, <4>2, <4>3 DEF TypeInv, DbTypes
    <3>3. QED
      BY <1>3, <3>1, <3>2 DEF OthersChange, DbTypes
  <2>4. QED
    BY <2>1, <2>2, <2>3, Frames, Zenon DEF TypeInv
<1>4. CASE UNCHANGED vars
  <2>1. /\ UNCHANGED cookies /\ UNCHANGED db /\ UNCHANGED <<changes, asks>>
        /\ UNCHANGED tabs /\ UNCHANGED req
    BY <1>4 DEF vars
  <2>2. QED
    BY <2>1, Frames, Zenon DEF TypeInv
<1>5. QED
  BY <1>1, <1>2, <1>3, <1>4, BrowseTypes, RequestTypes, ServeTypes, ReceiveTypes, Zenon DEF Next

LEMMA TypeInit == Init => TypeInv
<1> SUFFICES ASSUME Init PROVE TypeInv
  OBVIOUS
<1>1. NewRows \cup {None, SeedRow} \subseteq Profiles \cup {None}
  BY AccountAssumption DEF NewRows, SeedRow, Profiles, Roles
<1>2. DbTypes
  BY <1>1 DEF Init, DbTypes
<1>3. CookieTypes /\ CountTypes
  BY BoundAssumption DEF Init, CookieTypes, CountTypes
<1>4. ShownTypes /\ ReqTypes
  BY DEF Init, ShownTypes, ReqTypes, Pages, Public
<1>5. NoteTypes
  BY Zenon DEF Init, NoteTypes
<1>6. QED
  BY <1>2, <1>3, <1>4, <1>5 DEF TypeInv

LEMMA TypesHold == Spec => []TypeInv
BY TypeInit, TypeStep, PTL DEF Spec

(* Every variable keeps its type.                                           *)
THEOREM TypeCorrect == Spec => []TypeOK
BY TypesHold, TypeParts, PTL

-----------------------------------------------------------------------------
(* What ties a tab to the cookies.  A mounted layout that no other tab has  *)
(* gone behind shows the user of the token, as the store does, and a page   *)
(* the sidebar offers that user; on its way to another page after signing   *)
(* in or out the tab is behind itself, but it has nothing else under way.   *)
InStep(t) ==
    /\ page[t] \in Protected => /\ layout[t] = token /\ store[t] = token
                                /\ strayed[t] \/ page[t] \in Menu(token)
    /\ page[t] = "to_dashboard" => store[t] = token
    /\ page[t] = "to_login" => token = None
TabInv(t) ==
    /\ page[t] \in Protected => layout[t] # None
    /\ page[t] \in Public \cup {"registered", "error"} => layout[t] = None
    /\ page[t] \in {"to_login", "to_dashboard", "reload"} => req[t] = None
    /\ layout[t] # None /\ ~foreign[t] => InStep(t)
    /\ page[t] = "error" => foreign[t] \/ strayed[t]

(* What a request knows, if the tab was not behind.                         *)
Honest(r) ==
    /\ r.op \in {"reset", "access"} /\ ~r.behind => r.tok # None /\ r.tok.role = "Owner"
    /\ r.op = "password" /\ ~r.behind => r.shown = r.tok
    /\ r.answer = "403" => /\ r.op \in {"reset", "access"} /\ r.tok # None
                           /\ r.tok.role # "Owner"
ReqInv(t) == req[t] # None => Honest(req[t])

SessionInv == token = info /\ \A t \in Tabs : TabInv(t) /\ ReqInv(t)

(* What the middleware and the server components serve.                     *)
LEMMA ServedFacts ==
    ASSUME TypeInv, token = info, NEW path \in Protected \cup Public
    PROVE  /\ Served(path) \in Protected \cup Public \cup {"error"}
           /\ token = None => Served(path) \in Public
           /\ Served(path) \in Protected => token # None /\ Served(path) \in {path, "dashboard"}
           /\ Served(path) = "error" => token # None /\ path = "staff" /\ path \notin Menu(token)
BY DEF Served, Middleware, Renders, StaffPage, DashboardPage, Menu, Public, Protected

LEMMA MenuFacts == ASSUME NEW user PROVE "dashboard" \in Menu(user) /\ "dashboard" \in Protected
BY DEF Menu, Protected

LEMMA PagesApart ==
    /\ \A p \in Protected : p \notin Public \cup {"registered", "error", "to_login",
                                                  "to_dashboard", "reload"}
    /\ \A p \in Public : p \notin {"registered", "error", "to_login", "to_dashboard", "reload"}
BY DEF Protected, Public

(* A tab that does nothing falls behind if the cookies change.              *)
LEMMA OthersKeep ==
    ASSUME NEW t \in Tabs, TabInv(t),
           page'[t] = page[t], layout'[t] = layout[t], store'[t] = store[t],
           req'[t] = req[t], strayed'[t] = strayed[t],
           foreign[t] => foreign'[t],
           token' = token \/ (layout[t] # None => foreign'[t])
    PROVE  TabInv(t)'
BY Zenon DEF TabInv, InStep, Menu, ManagesStaff

(* A navigation.                                                            *)
LEMMA ShowFacts ==
    ASSUME TypeInv, NEW t \in Tabs, NEW path, NEW refresh, Show(t, path, refresh)
    PROVE  /\ page'[t] = Served(path) /\ layout'[t] = Prop(t, path, refresh)
           /\ foreign'[t] <=> foreign[t] /\ layout[t] # None /\ Served(path) \notin Public
           /\ layout[t] = None /\ Prop(t, path, refresh) # None =>
                store'[t] = Prop(t, path, refresh)
           /\ store'[t] \in {store[t], Prop(t, path, refresh)}
           /\ \A u \in Tabs : u # t => /\ page'[u] = page[u] /\ layout'[u] = layout[u]
                                       /\ store'[u] = store[u] /\ foreign'[u] = foreign[u]
<1> USE DEF TypeInv, ShownTypes, NoteTypes
<1>1. page'[t] = Served(path) /\ layout'[t] = Prop(t, path, refresh)
  BY DEF Show
<1>2. foreign'[t] <=> foreign[t] /\ layout[t] # None /\ Served(path) \notin Public
  BY DEF Show
<1>3. layout[t] = None /\ Prop(t, path, refresh) # None => store'[t] = Prop(t, path, refresh)
  BY DEF Show
<1>4. store'[t] \in {store[t], Prop(t, path, refresh)}
  BY DEF Show
<1>5. \A u \in Tabs : u # t => /\ page'[u] = page[u] /\ layout'[u] = layout[u]
                               /\ store'[u] = store[u] /\ foreign'[u] = foreign[u]
  BY DEF Show
<1>6. QED
  BY <1>1, <1>2, <1>3, <1>4, <1>5

(* A navigation keeps TabInv: from a page, to what the sidebar offers, or    *)
(* with a refresh after signing in or out.                                  *)
LEMMA ShowKeeps ==
    ASSUME TypeInv, SessionInv, NEW t \in Tabs, NEW path \in Protected \cup Public,
           NEW refresh \in BOOLEAN, Show(t, path, refresh), UNCHANGED cookies,
           \/ page[t] \in Protected \cup Public \cup {"registered"}
           \/ page[t] \in {"to_login", "to_dashboard"} /\ refresh,
           token # None => strayed'[t] \/ path \in Menu(token) \/ path \in Public \/ foreign'[t]
    PROVE  TabInv(t)'
<1>1. token = info /\ TabInv(t) /\ UNCHANGED token
  BY DEF SessionInv, cookies
<1> DEFINE q == Served(path)
<1>2. /\ page'[t] = q /\ layout'[t] = Prop(t, path, refresh)
      /\ foreign'[t] <=> foreign[t] /\ layout[t] # None /\ q \notin Public
      /\ layout[t] = None /\ Prop(t, path, refresh) # None => store'[t] = Prop(t, path, refresh)
      /\ store'[t] \in {store[t], Prop(t, path, refresh)}
  BY ShowFacts
<1>3. /\ q \in Protected \cup Public \cup {"error"}
      /\ token = None => q \in Public
      /\ q \in Protected => token # None /\ q \in {path, "dashboard"}
      /\ q = "error" => token # None /\ path = "staff" /\ path \notin Menu(token)
  BY <1>1, ServedFacts
<1>4. Prop(t, path, refresh) = IF q \notin Protected THEN None
                               ELSE IF layout[t] = None \/ refresh THEN token ELSE layout[t]
  BY <1>1 DEF Prop
<1> HIDE DEF q
<1>5. ASSUME q \notin Protected PROVE TabInv(t)'
  <2>1. layout'[t] = None /\ q \in Public \cup {"error"}
    BY <1>2, <1>3, <1>4, <1>5
  <2>2. q \notin {"to_login", "to_dashboard", "reload"}
    BY <2>1, PagesApart
  <2>3. q = "error" => foreign'[t] \/ strayed'[t]
    <3>1. "staff" \notin Public
      BY DEF Public
    <3>2. QED
      BY <1>3, <3>1, Zenon
  <2>4. QED
    BY <1>2, <1>5, <2>1, <2>2, <2>3, Zenon DEF TabInv
<1>6. ASSUME q \in Protected PROVE TabInv(t)'
  <2>1. token # None /\ q \notin Public
    BY <1>3, <1>6, PagesApart
  <2>2. layout'[t] # None
    BY <1>2, <1>4, <1>6, <2>1
  <2>3. ASSUME ~foreign'[t] PROVE InStep(t)'
    <3>1. layout[t] = None \/ ~foreign[t]
      BY <1>2, <2>1, <2>3
    <3>2. layout'[t] = token /\ store'[t] = token
      BY <1>1, <1>2, <1>4, <1>6, <2>1, <3>1 DEF TabInv, InStep
    <3>3. strayed'[t] \/ q \in Menu(token)
      BY <1>3, <1>6, <2>3, MenuFacts, PagesApart
    <3>4. QED
      BY <1>1, <1>2, <1>6, <3>2, <3>3, PagesApart DEF InStep, Menu, ManagesStaff
  <2>4. QED
    BY <1>2, <1>6, <2>2, <2>3, PagesApart DEF TabInv
<1>7. QED
  BY <1>5, <1>6

(* Two tabs: what one does leaves the other as it is, or behind.            *)
LEMMA BrowseKeeps ==
    ASSUME TypeInv, SessionInv, NEW t \in Tabs, Browse(t)
    PROVE  SessionInv'
<1>1. token = info /\ \A u \in Tabs : TabInv(u) /\ ReqInv(u)
  BY DEF SessionInv
<1>2. UNCHANGED token /\ token' = info' /\ \A u \in Tabs : req'[u] \in {req[u], None}
  BY <1>1 DEF Browse, Navigate, Link, Arrive, Load, cookies, TypeInv, ReqTypes
<1>3. \A u \in Tabs : ReqInv(u)'
  BY <1>1, <1>2 DEF ReqInv
<1>4. ASSUME NEW path \in Protected \cup Public, NEW refresh \in BOOLEAN,
             Show(t, path, refresh), UNCHANGED cookies, UNCHANGED req,
             strayed' = [strayed EXCEPT ![t] = FALSE],
             \/ page[t] \in Protected \cup Public \cup {"registered"}
             \/ page[t] \in {"to_login", "to_dashboard"} /\ refresh,
             token # None => path \in Menu(token) \/ path \in Public \/ foreign'[t]
      PROVE  SessionInv'
  <2>1. TabInv(t)'
    BY <1>4, ShowKeeps
  <2>2. ASSUME NEW u \in Tabs, u # t PROVE TabInv(u)'
    <3>1. strayed'[u] = strayed[u]
      BY <1>4, <2>2 DEF TypeInv, NoteTypes
    <3>2. /\ page'[u] = page[u] /\ layout'[u] = layout[u]
          /\ store'[u] = store[u] /\ foreign'[u] = foreign[u]
      BY <1>4, <2>2, ShowFacts
    <3>3. QED
      BY <1>1, <1>2, <1>4, <3>1, <3>2, OthersKeep
  <2>3. QED
    BY <1>2, <1>3, <2>1, <2>2 DEF SessionInv
<1>5. ASSUME NEW path \in Protected, Navigate(t, path) PROVE SessionInv'
  <2>1. Show(t, path, FALSE) /\ layout[t] # None /\ page[t] \in Protected /\ path \in Menu(layout[t])
    BY <1>5 DEF Navigate
  <2>2. token # None => path \in Menu(token) \/ foreign'[t]
    <3>1. CASE foreign[t]
      <4>1. foreign'[t] <=> Served(path) \notin Public
        BY <2>1, <3>1, ShowFacts
      <4>2. Served(path) \in Public => token = None \/ path \in Public
        BY <1>1 DEF Served, Middleware, Public
      <4>3. QED
        BY <2>1, <3>1, <4>1, <4>2, PagesApart
    <3>2. CASE ~foreign[t]
      BY <1>1, <2>1, <3>2 DEF TabInv, InStep
    <3>3. QED
      BY <3>1, <3>2
  <2>3. QED
    BY <1>4, <1>5, <2>1, <2>2 DEF Navigate
<1>6. CASE Link(t)
  <2>1. (IF page[t] = "login" THEN "onboard" ELSE "login") \in Public
    BY DEF Public
  <2>2. QED
    BY <1>4, <1>6, <2>1 DEF Link
<1>7. CASE Arrive(t)
  <2>1. (IF page[t] = "to_login" THEN "login" ELSE "dashboard") \in Public \cup Protected
    BY DEF Public, Protected
  <2>2. \/ (IF page[t] = "to_login" THEN "login" ELSE "dashboard") \in Menu(token)
        \/ (IF page[t] = "to_login" THEN "login" ELSE "dashboard") \in Public
    BY MenuFacts DEF Public
  <2>3. QED
    BY <1>4, <1>7, <2>1, <2>2 DEF Arrive
<1>8. ASSUME NEW path \in Public \cup Protected, Load(t, path) PROVE SessionInv'
  <2> DEFINE user == IF Served(path) \in Protected THEN token ELSE None
  <2>1. /\ page'[t] = Served(path) /\ layout'[t] = user /\ store'[t] = user /\ req'[t] = None
        /\ ~foreign'[t] /\ (strayed'[t] <=> token # None /\ Strays(path, token))
    BY <1>1, <1>8 DEF Load, TypeInv, ShownTypes, NoteTypes, ReqTypes
  <2>2. /\ Served(path) \in Protected \cup Public \cup {"error"}
        /\ Served(path) \in Protected => token # None /\ Served(path) \in {path, "dashboard"}
        /\ Served(path) = "error" => token # None /\ path = "staff" /\ path \notin Menu(token)
    BY <1>1, ServedFacts
  <2>3. TabInv(t)'
    <3>1. CASE Served(path) \in Protected
      <4>1. strayed'[t] \/ Served(path) \in Menu(token)
        BY <2>1, <2>2, <3>1, MenuFacts DEF Strays
      <4>2. InStep(t)'
        BY <1>2, <2>1, <3>1, <4>1, PagesApart DEF InStep, Menu, ManagesStaff
      <4>3. QED
        BY <2>1, <2>2, <3>1, <4>2, PagesApart DEF TabInv
    <3>2. CASE Served(path) \notin Protected
      <4>1. Served(path) = "error" => strayed'[t]
        BY <2>1, <2>2 DEF Strays, Protected
      <4>2. layout'[t] = None
        BY <2>1, <3>2
      <4>3. QED
        BY <2>1, <2>2, <3>2, <4>1, <4>2, PagesApart, Zenon DEF TabInv
    <3>3. QED
      BY <3>1, <3>2
  <2>4. ASSUME NEW u \in Tabs, u # t PROVE TabInv(u)'
    <3>1. /\ page'[u] = page[u] /\ layout'[u] = layout[u] /\ store'[u] = store[u]
          /\ req'[u] = req[u] /\ foreign'[u] = foreign[u] /\ strayed'[u] = strayed[u]
      BY <1>8, <2>4 DEF Load, TypeInv, ShownTypes, NoteTypes, ReqTypes
    <3>2. QED
      BY <1>1, <1>2, <3>1, OthersKeep
  <2>5. QED
    BY <1>2, <1>3, <2>3, <2>4 DEF SessionInv
<1>9. QED
  BY <1>5, <1>6, <1>7, <1>8, Zenon DEF Browse

(* Nothing of the tabs and the cookies changes, and nobody asks.            *)
LEMMA TabsKeep ==
    ASSUME SessionInv, UNCHANGED cookies, UNCHANGED tabs,
           \A u \in Tabs : page[u] \in {"to_login", "to_dashboard", "reload"} => req'[u] = None
    PROVE  token' = info' /\ \A u \in Tabs : TabInv(u)'
<1>1. UNCHANGED <<token, info, page, layout, store, foreign, strayed>>
  BY Zenon DEF cookies, tabs
<1>2. token' = info'
  BY <1>1, Zenon DEF SessionInv
<1>3. ASSUME NEW u \in Tabs PROVE TabInv(u)'
  BY <1>1, <1>3, Zenon DEF SessionInv, TabInv, InStep, Menu, ManagesStaff
<1>4. QED
  BY <1>2, <1>3

LEMMA AskKeeps ==
    ASSUME TypeInv, SessionInv, NEW t \in Tabs, NEW r \in SoundRequests, Ask(t, r), Honest(r),
           page[t] \in Public \cup Protected
    PROVE  SessionInv'
<1>1. /\ req'[t] = r /\ \A u \in Tabs : u # t => req'[u] = req[u]
      /\ UNCHANGED cookies /\ UNCHANGED tabs
  BY DEF Ask, TypeInv, ReqTypes
<1>2. ASSUME NEW u \in Tabs, page[u] \in {"to_login", "to_dashboard", "reload"}
      PROVE  req'[u] = None
  <2>1. u # t
    BY <1>2, PagesApart
  <2>2. req[u] = None
    BY <1>2, Zenon DEF SessionInv, TabInv
  <2>3. QED
    BY <1>1, <2>1, <2>2
<1>3. token' = info' /\ \A u \in Tabs : TabInv(u)'
  BY <1>1, <1>2, TabsKeep
<1>4. \A u \in Tabs : ReqInv(u)'
  BY <1>1 DEF SessionInv, ReqInv, Honest
<1>5. QED
  BY <1>3, <1>4 DEF SessionInv

LEMMA RequestKeeps ==
    ASSUME TypeInv, SessionInv, NEW t \in Tabs, Request(t)
    PROVE  SessionInv'
<1> USE DEF Blank, SoundRequests, Requests, Ops
<1>1. TabInv(t)
  BY DEF SessionInv
<1>2. token \in Users \cup {None} /\ layout[t] \in Users \cup {None} /\ foreign[t] \in BOOLEAN
      /\ strayed[t] \in BOOLEAN
  BY DEF TypeInv, CookieTypes, ShownTypes, NoteTypes
<1>3. ASSUME page[t] \in Protected, ~foreign[t]
      PROVE  /\ token = layout[t] /\ token # None
             /\ ~strayed[t] => page[t] \in Menu(token)
  BY <1>1, <1>3 DEF TabInv, InStep
<1>4. ASSUME NEW e \in Emails, NEW pw \in Passwords, NEW u \in Units \cup {None},
             SubmitLogin(t, e, pw, u)
      PROVE  SessionInv'
  <2> DEFINE r == [Blank(t) EXCEPT !.op = "login", !.email = e, !.pw = pw, !.unit = u]
  <2>1. r \in SoundRequests
    BY <1>2
  <2>2. r.op = "login" /\ r.answer = "none"
    OBVIOUS
  <2>3. Ask(t, r) /\ page[t] \in Public
    BY <1>4 DEF SubmitLogin, Public
  <2>4. QED
    BY <2>1, <2>2, <2>3, AskKeeps DEF Honest
<1>5. ASSUME NEW e \in Emails, NEW pw \in Passwords, SubmitOnboard(t, e, pw) PROVE SessionInv'
  <2> DEFINE r == [Blank(t) EXCEPT !.op = "onboard", !.email = e, !.pw = pw]
  <2>1. r \in SoundRequests
    BY <1>2
  <2>2. r.op = "onboard" /\ r.answer = "none"
    OBVIOUS
  <2>3. Ask(t, r) /\ page[t] \in Public
    BY <1>5 DEF SubmitOnboard, Public
  <2>4. QED
    BY <2>1, <2>2, <2>3, AskKeeps DEF Honest
<1>6. ASSUME NEW cur \in Passwords, NEW new \in Passwords, SubmitPassword(t, cur, new)
      PROVE  SessionInv'
  <2> DEFINE r == [Blank(t) EXCEPT !.op = "password", !.pw = cur, !.new = new]
  <2>1. r \in SoundRequests
    BY <1>2
  <2>2. /\ r.op = "password" /\ r.answer = "none" /\ r.behind = foreign[t]
        /\ r.tok = token /\ r.shown = layout[t]
    OBVIOUS
  <2>3. Ask(t, r) /\ page[t] \in Protected
    BY <1>6 DEF SubmitPassword, Protected
  <2>4. Honest(r)
    BY <1>3, <2>2, <2>3 DEF Honest
  <2>5. QED
    BY <2>1, <2>3, <2>4, AskKeeps
<1>7. CASE SignOut(t)
  <2>1. Blank(t) \in SoundRequests
    BY <1>2
  <2>2. Blank(t).op = "logout" /\ Blank(t).answer = "none"
    OBVIOUS
  <2>3. QED
    BY <1>7, <2>1, <2>2, AskKeeps DEF SignOut, Honest
<1>8. CASE ResetDb(t)
  <2> DEFINE r == [Blank(t) EXCEPT !.op = "reset"]
  <2>1. r \in SoundRequests
    BY <1>2
  <2>2. r.op = "reset" /\ r.answer = "none" /\ r.behind = foreign[t] /\ r.tok = token
    OBVIOUS
  <2>3. Ask(t, r) /\ page[t] \in Protected /\ layout[t].role = "Owner"
    BY <1>8 DEF ResetDb
  <2>4. Honest(r)
    BY <1>3, <2>2, <2>3 DEF Honest
  <2>5. QED
    BY <2>1, <2>3, <2>4, AskKeeps
<1>9. CASE Toggle(t)
  <2>1. PICK b \in BOOLEAN : b <=> foreign[t] \/ strayed[t]
    BY Zenon
  <2>2. (foreign[t] \/ strayed[t]) = b
    BY <1>2, <2>1
  <2> DEFINE r == [Blank(t) EXCEPT !.op = "access", !.behind = b]
  <2>3. r \in SoundRequests
    BY <1>2
  <2>4. r.op = "access" /\ r.answer = "none" /\ r.behind = b /\ r.tok = token
    OBVIOUS
  <2>5. Ask(t, r) /\ page[t] = "chat-access"
    BY <1>9, <2>2 DEF Toggle
  <2>6. page[t] \in Protected /\ ("chat-access" \in Menu(token) => token.role = "Owner")
    BY <2>5 DEF Menu, Protected
  <2>7. Honest(r)
    BY <1>3, <2>1, <2>4, <2>5, <2>6 DEF Honest
  <2>8. QED
    BY <2>3, <2>5, <2>6, <2>7, AskKeeps
<1>10. QED
  BY <1>4, <1>5, <1>6, <1>7, <1>8, <1>9, Zenon DEF Request

(* Only a refused owner's call is answered 403.                             *)
LEMMA ServeKeeps ==
    ASSUME TypeInv, SessionInv, NEW t \in Tabs, Serve(t)
    PROVE  SessionInv'
<1>1. /\ UNCHANGED cookies /\ UNCHANGED tabs /\ req[t] \in SoundRequests
      /\ req[t] # None /\ Honest(req[t])
  BY DEF Serve, TypeInv, ReqTypes, SessionInv, ReqInv
<1>2. ASSUME NEW r \in SoundRequests, req' = [req EXCEPT ![t] = r], Honest(r)
      PROVE  SessionInv'
  <2>1. req'[t] = r /\ \A u \in Tabs : u # t => req'[u] = req[u]
    BY <1>2 DEF TypeInv, ReqTypes
  <2>2. ASSUME NEW u \in Tabs, page[u] \in {"to_login", "to_dashboard", "reload"}
        PROVE  req'[u] = None
    BY <1>1, <2>1, <2>2, Zenon DEF SessionInv, TabInv
  <2>3. token' = info' /\ \A u \in Tabs : TabInv(u)'
    BY <1>1, <2>2, TabsKeep
  <2>4. \A u \in Tabs : ReqInv(u)'
    BY <1>2, <2>1 DEF SessionInv, ReqInv, Honest
  <2>5. QED
    BY <2>3, <2>4 DEF SessionInv
<1>3. ASSUME NEW a \in Answers, Answer(t, a), a = "expired" => req[t].tok # None,
             a = "403" => /\ req[t].op \in {"reset", "access"} /\ req[t].tok # None
                          /\ req[t].tok.role # "Owner"
      PROVE  SessionInv'
  <2>1. req' = [req EXCEPT ![t] = [req[t] EXCEPT !.answer = a]]
    BY <1>3 DEF Answer, TypeInv, ReqTypes
  <2>2. [req[t] EXCEPT !.answer = a] \in SoundRequests
    BY <1>1, <1>3 DEF SoundRequests, Requests, Answers
  <2>3. Honest([req[t] EXCEPT !.answer = a])
    BY <1>1, <1>3 DEF Honest, SoundRequests, Requests
  <2>4. QED
    BY <1>2, <2>1, <2>2, <2>3
<1>4. {"503", "401", "ok", "400", "403", "expired"} \subseteq Answers
  BY DEF Answers
<1>5. ASSUME NEW a \in {"503", "401", "ok", "400"}, Answer(t, a) PROVE SessionInv'
  BY <1>3, <1>4, <1>5
<1>6. CASE LoginRoute(t)
  <2> DEFINE valid == LoginAsync(req[t].email, req[t].pw, req[t].unit)
             found == {[acct |-> a, role |-> db[a].role] : a \in valid}
  <2>1. ASSUME req' = [req EXCEPT ![t].answer = "ok", ![t].profiles = found] PROVE SessionInv'
    <3>1. \A a \in valid : a \in Accounts /\ db[a] \in Profiles
      BY DEF LoginAsync, Exists, TypeInv, DbTypes
    <3>2. found \in SUBSET Users
      BY <3>1 DEF Users, Profiles
    <3> HIDE DEF found
    <3>3. [req[t] EXCEPT !.answer = "ok", !.profiles = found] \in SoundRequests
      BY <1>1, <3>2 DEF SoundRequests, Requests
    <3>4. Honest([req[t] EXCEPT !.answer = "ok", !.profiles = found])
      BY <1>1 DEF Honest, SoundRequests, Requests
    <3>5. req' = [req EXCEPT ![t] = [req[t] EXCEPT !.answer = "ok", !.profiles = found]]
      BY <2>1 DEF TypeInv, ReqTypes
    <3>6. QED
      BY <1>2, <3>3, <3>4, <3>5
  <2>2. QED
    BY <1>5, <1>6, <2>1 DEF LoginRoute
<1>7. CASE OnboardRoute(t)
  BY <1>5, <1>7 DEF OnboardRoute
<1>8. CASE LogoutRoute(t)
  BY <1>5, <1>8 DEF LogoutRoute
<1>9. CASE ProxyRequest(t)
  <2>1. ASSUME req[t].tok # None, ChangePassword(t) PROVE SessionInv'
    BY <1>3, <1>4, <1>5, <2>1 DEF ChangePassword
  <2>2. ASSUME req[t].tok # None, req[t].op \in {"reset", "access"}, OwnerCall(t) PROVE SessionInv'
    BY <1>3, <1>4, <1>5, <2>2 DEF OwnerCall
  <2>3. QED
    BY <1>5, <1>9, <2>1, <2>2 DEF ProxyRequest
<1>10. QED
  BY <1>6, <1>7, <1>8, <1>9 DEF Serve

(* An answer that sets or drops the cookies takes its tab from the page,    *)
(* and leaves the other tabs behind.                                        *)
LEMMA ReceiveKeeps ==
    ASSUME TypeInv, SessionInv, NEW t \in Tabs, Receive(t)
    PROVE  SessionInv'
<1>1. token = info /\ \A u \in Tabs : TabInv(u) /\ ReqInv(u)
  BY DEF SessionInv
<1>2. /\ req[t] # None /\ req'[t] = None /\ \A u \in Tabs : u # t => req'[u] = req[u]
      /\ req[t] \in SoundRequests
  BY DEF Receive, TypeInv, ReqTypes
<1>3. \A u \in Tabs : ReqInv(u)'
  BY <1>1, <1>2 DEF ReqInv, Honest
<1>4. page[t] \notin {"to_login", "to_dashboard", "reload"}
  BY <1>1, <1>2, Zenon DEF TabInv
<1>5. ASSUME token' = info', TabInv(t)',
             \A u \in Tabs : u # t =>
                /\ page'[u] = page[u] /\ layout'[u] = layout[u] /\ store'[u] = store[u]
                /\ strayed'[u] = strayed[u] /\ (foreign[u] => foreign'[u])
                /\ token' = token \/ (layout[u] # None => foreign'[u])
      PROVE  SessionInv'
  <2>1. ASSUME NEW u \in Tabs, u # t PROVE TabInv(u)'
    BY <1>1, <1>2, <1>5, <2>1, OthersKeep
  <2>2. QED
    BY <1>3, <1>5, <2>1 DEF SessionInv
<1>6. ASSUME NEW user \in Users \cup {None}, SetCookies(t, user), UNCHANGED <<layout, strayed>>,
             TabInv(t)',
             \A u \in Tabs : u # t => page'[u] = page[u] /\ store'[u] = store[u]
      PROVE  SessionInv'
  <2>1. token' = info'
    BY <1>6 DEF SetCookies
  <2>2. ASSUME NEW u \in Tabs, u # t
        PROVE  (foreign[u] => foreign'[u]) /\ (layout[u] # None => foreign'[u])
    BY <1>6, <2>2 DEF SetCookies
  <2>3. QED
    BY <1>5, <1>6, <2>1, <2>2
<1>7. ASSUME NEW p, Goes(t, p)
      PROVE  page'[t] = p /\ \A u \in Tabs : u # t => page'[u] = page[u]
  BY <1>7 DEF Goes, TypeInv, ShownTypes
<1>8. CASE SignedIn(t)
  <2>1. PICK user \in Users : SetCookies(t, user) /\ store' = [store EXCEPT ![t] = user]
    BY <1>2, <1>8 DEF SignedIn, SoundRequests, Requests
  <2>2. Goes(t, "to_dashboard") /\ UNCHANGED <<layout, strayed>>
    BY <1>8 DEF SignedIn
  <2>3. token' = user /\ store'[t] = user /\ \A u \in Tabs : u # t => store'[u] = store[u]
    BY <2>1 DEF SetCookies, TypeInv, ShownTypes
  <2>4. TabInv(t)'
    BY <1>2, <1>7, <2>2, <2>3, PagesApart DEF TabInv, InStep
  <2>5. QED
    BY <1>6, <1>7, <2>1, <2>2, <2>3, <2>4
<1>9. CASE SignedOut(t)
  <2>1. SetCookies(t, None) /\ Goes(t, "to_login") /\ UNCHANGED <<layout, strayed>>
    BY <1>9 DEF SignedOut
  <2>2. token' = None /\ \A u \in Tabs : u # t => store'[u] = store[u]
    BY <1>9 DEF SignedOut, SetCookies, TypeInv, ShownTypes
  <2>3. TabInv(t)'
    BY <1>2, <1>7, <2>1, <2>2, PagesApart DEF TabInv, InStep
  <2>4. QED
    BY <1>6, <1>7, <2>1, <2>2, <2>3
<1>10. CASE Expelled(t)
  <2>1. Goes(t, "reload") /\ UNCHANGED <<layout, store, strayed>>
    BY <1>10 DEF Expelled
  <2>2. TabInv(t)'
    BY <1>2, <1>7, <2>1, PagesApart DEF TabInv, InStep
  <2>3. CASE SetCookies(t, None)
    BY <1>6, <1>7, <2>1, <2>2, <2>3
  <2>4. CASE UNCHANGED <<cookies, foreign>>
    BY <1>1, <1>5, <1>7, <2>1, <2>2, <2>4 DEF cookies
  <2>5. QED
    BY <1>10, <2>3, <2>4 DEF Expelled
<1>11. ASSUME UNCHANGED cookies, UNCHANGED <<layout, store, foreign, strayed>>,
              \/ UNCHANGED page
              \/ page[t] = "onboard" /\ Goes(t, "registered")
       PROVE  SessionInv'
  <2>1. UNCHANGED <<token, info>>
    BY <1>11 DEF cookies
  <2>2. CASE UNCHANGED page
    <3>1. TabInv(t)'
      BY <1>1, <1>2, <1>4, <1>11, <2>1, <2>2, Zenon DEF TabInv, InStep, Menu, ManagesStaff
    <3>2. QED
      BY <1>1, <1>5, <1>11, <2>1, <2>2, <3>1
  <2>3. CASE page[t] = "onboard" /\ Goes(t, "registered")
    <3>1. layout'[t] = None
      BY <1>1, <1>11, <2>3 DEF TabInv, Public
    <3>2. TabInv(t)'
      BY <1>2, <1>7, <2>3, <3>1, PagesApart DEF TabInv
    <3>3. QED
      BY <1>1, <1>5, <1>7, <1>11, <2>1, <2>3, <3>2
  <2>4. QED
    BY <1>11, <2>2, <2>3
<1>12. CASE Offered(t) \/ Registered(t) \/ Told(t)
  BY <1>11, <1>12 DEF Offered, Registered, Told, tabs
<1>13. CASE Refreshed(t)
  <2>1. UNCHANGED cookies /\ UNCHANGED strayed
    BY <1>13 DEF Refreshed
  <2>2. CASE UNCHANGED <<page, layout, store, choices, foreign>>
    BY <1>11, <2>1, <2>2
  <2>3. CASE page[t] \in Protected /\ Show(t, page[t], TRUE)
    <3>1. token # None => strayed'[t] \/ page[t] \in Menu(token) \/ foreign'[t]
      <4>1. CASE foreign[t]
        <5>1. foreign'[t] <=> layout[t] # None /\ Served(page[t]) \notin Public
          BY <2>3, <4>1, ShowFacts
        <5>2. Served(page[t]) \in Public => token = None \/ page[t] \in Public
          BY <1>1 DEF Served, Middleware, Public
        <5>3. QED
          BY <1>1, <2>3, <5>1, <5>2, PagesApart DEF TabInv
      <4>2. CASE ~foreign[t]
        BY <1>1, <2>1, <2>3, <4>2 DEF TabInv, InStep
      <4>3. QED
        BY <4>1, <4>2
    <3>2. TabInv(t)'
      BY <2>1, <2>3, <3>1, ShowKeeps
    <3>3. QED
      BY <1>1, <1>5, <2>1, <2>3, <3>2, ShowFacts DEF cookies
  <2>4. QED
    BY <1>13, <2>2, <2>3 DEF Refreshed
<1>14. QED
  BY <1>8, <1>9, <1>10, <1>12, <1>13 DEF Receive

(* Every step keeps the session's invariant.                                *)
LEMMA SessionStep == ASSUME TypeInv, SessionInv, [Next]_vars PROVE SessionInv'
<1>1. token = info /\ \A u \in Tabs : TabInv(u) /\ ReqInv(u)
  BY DEF SessionInv
<1>2. ASSUME UNCHANGED cookies, UNCHANGED tabs, \A u \in Tabs : req'[u] \in {req[u], None}
      PROVE  SessionInv'
  <2>1. \A u \in Tabs : page[u] \in {"to_login", "to_dashboard", "reload"} => req'[u] = None
    BY <1>1, <1>2, Zenon DEF TabInv
  <2>2. token' = info' /\ \A u \in Tabs : TabInv(u)'
    BY <1>2, <2>1, TabsKeep
  <2>3. \A u \in Tabs : ReqInv(u)'
    BY <1>1, <1>2 DEF ReqInv, Honest
  <2>4. QED
    BY <2>2, <2>3 DEF SessionInv
<1>3. ASSUME NEW t \in Tabs, Fails(t) PROVE SessionInv'
  <2>1. UNCHANGED cookies /\ UNCHANGED tabs /\ \A u \in Tabs : req'[u] \in {req[u], None}
    BY <1>3 DEF Fails, TypeInv, ReqTypes
  <2>2. QED
    BY <1>2, <2>1
<1>4. CASE Expire
  <2>1. token' = info' /\ UNCHANGED <<page, layout, store, strayed, req>>
    BY <1>4 DEF Expire
  <2>2. ASSUME NEW u \in Tabs PROVE TabInv(u)' /\ ReqInv(u)'
    <3>1. (foreign[u] => foreign'[u]) /\ (layout[u] # None => foreign'[u])
      BY <1>4 DEF Expire
    <3>2. TabInv(u)'
      BY <1>1, <2>1, <3>1, OthersKeep
    <3>3. QED
      BY <1>1, <2>1, <3>2 DEF ReqInv, Honest
  <2>3. QED
    BY <2>1, <2>2 DEF SessionInv
<1>5. CASE OthersChange
  <2>1. UNCHANGED cookies /\ UNCHANGED tabs /\ UNCHANGED req
    BY <1>5 DEF OthersChange
  <2>2. QED
    BY <1>2, <2>1
<1>6. CASE UNCHANGED vars
  <2>1. UNCHANGED cookies /\ UNCHANGED tabs /\ UNCHANGED req
    BY <1>6 DEF vars
  <2>2. QED
    BY <1>2, <2>1
<1>7. QED
  BY <1>3, <1>4, <1>5, <1>6, BrowseKeeps, RequestKeeps, ServeKeeps, ReceiveKeeps, Zenon DEF Next

LEMMA SessionInit == Init => SessionInv
<1> SUFFICES ASSUME Init PROVE SessionInv
  OBVIOUS
<1>1. token = info
  BY DEF Init
<1>2. ASSUME NEW t \in Tabs PROVE TabInv(t) /\ ReqInv(t)
  <2>1. page[t] = "login" /\ layout[t] = None /\ req[t] = None
    BY DEF Init
  <2>2. QED
    BY <2>1, PagesApart DEF TabInv, ReqInv, Public
<1>3. QED
  BY <1>1, <1>2 DEF SessionInv

LEMMA InvariantsHold == Spec => [](TypeInv /\ SessionInv)
<1>1. Init => TypeInv /\ SessionInv
  BY TypeInit, SessionInit
<1>2. TypeInv /\ SessionInv /\ [Next]_vars => TypeInv' /\ SessionInv'
  BY TypeStep, SessionStep
<1>3. QED
  BY <1>1, <1>2, PTL DEF Spec

(* A tab that no other tab has gone behind shows, keeps and sends one user. *)
THEOREM ShownIsSession == Spec => []PageIsSession
<1>1. SessionInv => PageIsSession
  <2> SUFFICES ASSUME SessionInv, NEW t \in Tabs, Settled(t), ~foreign[t]
               PROVE  layout[t] = token /\ layout[t] = info /\ layout[t] = store[t]
    BY DEF PageIsSession
  <2>1. token = info /\ TabInv(t)
    BY DEF SessionInv
  <2>2. QED
    BY <2>1 DEF TabInv, InStep, Settled
<1>2. QED
  BY <1>1, InvariantsHold, PTL

(* What a tab in step offers, the backend allows.                           *)
THEOREM WhatIsOfferedIsAllowed == Spec => []OfferedIsAllowed
<1>1. TypeInv /\ SessionInv => OfferedIsAllowed
  <2> SUFFICES ASSUME TypeInv, SessionInv, NEW t \in Tabs
               PROVE  /\ page[t] = "error" => foreign[t] \/ strayed[t]
                      /\ req[t] # None /\ req[t].answer = "403" => req[t].behind
    BY DEF OfferedIsAllowed
  <2>1. TabInv(t) /\ ReqInv(t)
    BY DEF SessionInv
  <2>2. page[t] = "error" => foreign[t] \/ strayed[t]
    BY <2>1 DEF TabInv
  <2>3. req[t] # None /\ req[t].answer = "403" => req[t].behind
    BY <2>1 DEF ReqInv, Honest
  <2>4. QED
    BY <2>2, <2>3
<1>2. QED
  BY <1>1, InvariantsHold, PTL

(* A request that is under way changes only by being answered.              *)
LEMMA RequestChanges ==
    ASSUME TypeInv, [Next]_vars, NEW t \in Tabs, req[t] # None, req'[t] # None,
           req'[t] # req[t]
    PROVE  Serve(t)
<1> USE DEF TypeInv, ReqTypes
<1>1. ASSUME NEW u \in Tabs, Browse(u) PROVE FALSE
  BY <1>1 DEF Browse, Navigate, Link, Arrive, Load
<1>2. ASSUME NEW u \in Tabs, Request(u) PROVE FALSE
  <2>1. req[u] = None /\ \E r : req' = [req EXCEPT ![u] = r]
    BY <1>2 DEF Request, SubmitLogin, SubmitOnboard, SubmitPassword, SignOut, ResetDb, Toggle, Ask
  <2>2. QED
    BY <2>1
<1>3. ASSUME NEW u \in Tabs, Receive(u) \/ Fails(u) PROVE FALSE
  BY <1>3 DEF Receive, Fails
<1>4. ASSUME NEW u \in Tabs, Serve(u) PROVE u = t
  <2>1. \E r : req' = [req EXCEPT ![u] = r]
    BY <1>4 DEF Serve, LoginRoute, OnboardRoute, LogoutRoute, ProxyRequest, ChangePassword,
                OwnerCall, Answer
  <2>2. QED
    BY <2>1
<1>5. ~Expire /\ ~OthersChange /\ ~UNCHANGED vars
  BY DEF Expire, OthersChange, vars
<1>6. QED
  BY <1>1, <1>2, <1>3, <1>4, <1>5, Zenon DEF Next

(* The profiles a tab may sign in as have the form's e-mail and password.   *)
THEOREM SignInIsVerified == Spec => SignInVerified
<1>1. ASSUME TypeInv, [Next]_vars, NEW t \in Tabs, req[t] # None, req'[t] # None,
             NEW user \in req'[t].profiles \ req[t].profiles
      PROVE  /\ db[user.acct] = [role |-> user.role, password |-> req[t].pw]
             /\ user.acct.email = req[t].email
             /\ req[t].unit # None => user.acct.unit = req[t].unit
  <2>1. Serve(t)
    BY <1>1, RequestChanges
  <2>2. req[t] \in SoundRequests /\ req \in [Tabs -> SoundRequests \cup {None}]
    BY <1>1 DEF TypeInv, ReqTypes
  <2>3. ASSUME NEW a, Answer(t, a) PROVE FALSE
    <3>1. req'[t] = [req[t] EXCEPT !.answer = a]
      BY <2>2, <2>3 DEF Answer
    <3>2. req'[t].profiles = req[t].profiles
      BY <2>2, <3>1 DEF SoundRequests, Requests
    <3>3. QED
      BY <1>1, <3>2
  <2>4. LoginRoute(t)
    BY <2>1, <2>3 DEF Serve, OnboardRoute, LogoutRoute, ProxyRequest, ChangePassword, OwnerCall
  <2> DEFINE valid == LoginAsync(req[t].email, req[t].pw, req[t].unit)
             found == {[acct |-> a, role |-> db[a].role] : a \in valid}
  <2>5. req' = [req EXCEPT ![t].answer = "ok", ![t].profiles = found]
    BY <2>3, <2>4 DEF LoginRoute
  <2>6. req'[t].profiles = found
    <3> HIDE DEF found
    <3>1. req'[t] = [req[t] EXCEPT !.answer = "ok", !.profiles = found]
      BY <2>2, <2>5
    <3>2. QED
      BY <2>2, <3>1 DEF SoundRequests, Requests
  <2>7. PICK a \in valid : user = [acct |-> a, role |-> db[a].role]
    BY <1>1, <2>6
  <2>8. /\ a \in Accounts /\ Exists(a) /\ a.email = req[t].email /\ db[a].password = req[t].pw
        /\ req[t].unit # None => a.unit = req[t].unit
    BY <2>7 DEF LoginAsync
  <2>9. db[a] \in Profiles
    BY <1>1, <2>8 DEF TypeInv, DbTypes, Exists
  <2>10. db[a] = [role |-> db[a].role, password |-> db[a].password]
    BY <2>9 DEF Profiles
  <2>11. user.acct = a /\ user.role = db[a].role
    BY <2>7
  <2>12. QED
    BY <2>8, <2>10, <2>11
<1>2. TypeInv /\ [Next]_vars =>
        [\A t \in Tabs : req[t] # None /\ req'[t] # None =>
           \A user \in req'[t].profiles \ req[t].profiles :
              /\ db[user.acct] = [role |-> user.role, password |-> req[t].pw]
              /\ user.acct.email = req[t].email
              /\ req[t].unit # None => user.acct.unit = req[t].unit]_vars
  BY <1>1, Zenon
<1>3. QED
  BY <1>2, TypesHold, PTL DEF Spec, SignInVerified

(* An answer to a request without a token does not end a session.           *)
THEOREM OnlyTokensEnd == Spec => OnlyTokensExpire
<1>1. ASSUME TypeInv, [Next]_vars, NEW t \in Tabs, token # None, token' = None,
             req'[t] # req[t]
      PROVE  req[t].op = "logout" \/ req[t].tok # None
  <2> USE <1>1
  <2>1. req \in [Tabs -> SoundRequests \cup {None}]
    BY DEF TypeInv, ReqTypes
  <2>2. ASSUME NEW u \in Tabs, Browse(u) \/ Request(u) \/ Serve(u) \/ Fails(u) PROVE FALSE
    <3>1. UNCHANGED cookies
      BY <2>2 DEF Browse, Navigate, Link, Arrive, Load, Request, SubmitLogin, SubmitOnboard,
                  SubmitPassword, SignOut, ResetDb, Toggle, Ask, Serve, Fails
    <3>2. QED
      BY <3>1 DEF cookies
  <2>3. ~Expire /\ ~OthersChange /\ ~UNCHANGED vars
    BY DEF Expire, OthersChange, vars, cookies
  <2>4. PICK u \in Tabs : Receive(u)
    BY <2>2, <2>3, Zenon DEF Next
  <2>5. u = t /\ req[t] # None
    BY <2>1, <2>4 DEF Receive
  <2>6. req[t] \in SoundRequests
    BY <2>1, <2>5
  <2>7. ~SignedIn(t)
    <3>1. ASSUME NEW user \in req[t].profiles, SetCookies(t, user) PROVE FALSE
      <4>1. user \in Users
        BY <2>6, <3>1 DEF SoundRequests, Requests
      <4>2. QED
        BY <3>1, <4>1, NoneAssumption DEF SetCookies
    <3>2. QED
      BY <3>1 DEF SignedIn
  <2>8. ~Offered(t) /\ ~Registered(t) /\ ~Refreshed(t) /\ ~Told(t)
    BY DEF Offered, Registered, Refreshed, Told, cookies
  <2>9. SignedOut(t) => req[t].op = "logout"
    BY DEF SignedOut
  <2>10. Expelled(t) => req[t].tok # None
    BY <2>6 DEF Expelled, cookies, SoundRequests
  <2>11. QED
    BY <2>4, <2>5, <2>7, <2>8, <2>9, <2>10 DEF Receive
<1>2. TypeInv /\ [Next]_vars =>
        [\A t \in Tabs : token # None /\ token' = None /\ req'[t] # req[t] =>
           req[t].op = "logout" \/ req[t].tok # None]_vars
  BY <1>1, Zenon
<1>3. QED
  BY <1>2, TypesHold, PTL DEF Spec, OnlyTokensExpire

(* The password that changes is that of a profile of the person and unit    *)
(* the tab shows, and the form gave its old password.                       *)
THEOREM ChangesOwnPassword == Spec => OwnPasswordOnly
<1>1. ASSUME TypeInv, SessionInv, [Next]_vars, NEW a \in Accounts, Exists(a),
             changes' = changes, db'[a] # db[a], db'[a] # None
      PROVE  \E t \in Tabs :
               /\ req[t] # None
               /\ \/ /\ req[t].op = "password" /\ req[t].tok # None
                     /\ LET user == IF req[t].behind THEN req[t].tok ELSE req[t].shown
                        IN  a \in Held(user.acct.person, user.acct.unit)
                     /\ db[a].password = req[t].pw
                  \/ req[t].op = "reset" /\ a = Seeded
  <2> USE <1>1
  <2>1. db \in [Accounts -> Profiles \cup {None}]
    BY DEF TypeInv, DbTypes
  <2>2. ASSUME NEW u \in Tabs, Browse(u) \/ Request(u) \/ Receive(u) \/ Fails(u) PROVE FALSE
    BY <2>2 DEF Browse, Navigate, Link, Arrive, Load, Request, SubmitLogin, SubmitOnboard,
                SubmitPassword, SignOut, ResetDb, Toggle, Ask, Receive, Fails
  <2>3. ~Expire /\ ~UNCHANGED vars
    BY DEF Expire, vars
  <2>4. ~OthersChange
    BY DEF OthersChange, TypeInv, CountTypes
  <2>5. PICK t \in Tabs : Serve(t)
    BY <2>2, <2>3, <2>4, Zenon DEF Next
  <2>6. req[t] # None /\ req[t] \in SoundRequests /\ Honest(req[t])
    BY <2>5 DEF Serve, TypeInv, ReqTypes, SessionInv, ReqInv
  <2>7. db' # db
    OBVIOUS
  <2>8. ~LoginRoute(t) /\ ~LogoutRoute(t)
    BY <2>7 DEF LoginRoute, LogoutRoute
  <2>9. ~OnboardRoute(t)
    <3>1. ASSUME NEW b \in Accounts, NEW row, db' = [db EXCEPT ![b] = row],
                 \A c \in Accounts : Exists(c) => c.unit # b.unit /\ c.person # b.person
          PROVE  FALSE
      <4>1. b # a
        BY <3>1
      <4>2. QED
        BY <2>1, <3>1, <4>1
    <3>2. QED
      BY <2>7, <3>1 DEF OnboardRoute
  <2>10. ASSUME req[t].op = "password", req[t].tok # None, ChangePassword(t)
         PROVE  LET user == IF req[t].behind THEN req[t].tok ELSE req[t].shown
                IN  a \in Held(user.acct.person, user.acct.unit) /\ db[a].password = req[t].pw
    <3>1. PICK b \in Held(req[t].tok.acct.person, req[t].tok.acct.unit) :
            /\ db[b].password = req[t].pw
            /\ db' = [db EXCEPT ![b].password = req[t].new]
      BY <2>7, <2>10 DEF ChangePassword
    <3>2. b = a
      BY <2>1, <3>1 DEF Held
    <3>3. QED
      BY <2>6, <2>10, <3>1, <3>2 DEF Honest
  <2>11. ASSUME OwnerCall(t) PROVE req[t].op = "reset" /\ a = Seeded
    <3>1. req[t].op = "reset" /\ db' = Reseeded
      BY <2>7, <2>11 DEF OwnerCall
    <3>2. QED
      BY <3>1 DEF Reseeded
  <2>12. QED
    BY <2>5, <2>6, <2>7, <2>8, <2>9, <2>10, <2>11 DEF Serve, ProxyRequest
<1>2. TypeInv /\ SessionInv /\ [Next]_vars =>
        [\A a \in Accounts : Exists(a) /\ changes' = changes
                             /\ db'[a] # db[a] /\ db'[a] # None =>
           \E t \in Tabs :
              /\ req[t] # None
              /\ \/ /\ req[t].op = "password" /\ req[t].tok # None
                    /\ LET user == IF req[t].behind THEN req[t].tok ELSE req[t].shown
                       IN  a \in Held(user.acct.person, user.acct.unit)
                    /\ db[a].password = req[t].pw
                 \/ req[t].op = "reset" /\ a = Seeded]_vars
  BY <1>1, Zenon
<1>3. QED
  BY <1>2, InvariantsHold, PTL DEF Spec, OwnPasswordOnly
=============================================================================
