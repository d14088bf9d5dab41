------------------------------ MODULE Session ------------------------------
(***************************************************************************)
(* Who is signed in.  One browser has several tabs that share the cookies  *)
(* auth_token and user_info.  The login and onboarding pages, the layout   *)
(* of the protected pages, the sign-out button and the password page act   *)
(* on them through the Next.js routes and the middleware, and the backend  *)
(* verifies passwords and roles.  A tab copies the user twice, into the    *)
(* layout's props and into useAuthStore, and both may fall behind the      *)
(* cookies when another tab signs in or out.                               *)
(***************************************************************************)
EXTENDS Naturals, FiniteSets

CONSTANTS
    Tabs,
    Accounts,   \* bu_staff_profiles: records [person, unit, email]
    Seeded,     \* the one InitialDataSeed restores
    Passwords,
    Default,    \* the password new staff get
    MaxChanges, \* bound on the changes other users make to the profiles
    MaxAsks,    \* bound on the requests of the browser
    None

ASSUME AccountAssumption ==
    /\ Seeded \in Accounts /\ Default \in Passwords
    /\ None \notin Accounts /\ None \notin Passwords
    /\ \A a \in Accounts : None # a.unit /\ None # a.email
    \* the one unique index of bu_staff_profiles
    /\ \A a, b \in Accounts : a.unit = b.unit /\ a.email = b.email => a = b
ASSUME BoundAssumption == MaxChanges \in Nat /\ MaxAsks \in Nat

VARIABLES
    token,   \* the cookie auth_token: the claims of the JWT, or None
    info,    \* the cookie user_info
    db,      \* role and password of each profile, None where there is no row
    changes, \* how often other users have changed db
    asks,    \* how many requests the browser has made
    page,    \* the page each tab shows or is on its way to
    layout,  \* the user prop of the tab's ProtectedLayoutClient, None if unmounted
    store,   \* useAuthStore.user
    choices, \* the units the login page offers, {} before the first answer
    req,     \* the request the tab waits for
    foreign, \* history: the cookies changed behind the tab since it mounted the layout
    strayed  \* history: the page was opened by its URL, not offered by the sidebar

cookies == <<token, info>>
tabs    == <<page, layout, store, choices, foreign, strayed>>
vars    == <<cookies, db, changes, asks, tabs, req>>

Roles     == {"Owner", "Admin", "Staff"}
Public    == {"login", "onboard"}
\* business-units and chat are listed and served as change-password is.
Protected == {"dashboard", "staff", "chat-access", "change-password"}
Pages     == Public \cup Protected
             \cup {"registered", "error", "to_login", "to_dashboard", "reload"}
Units     == {a.unit : a \in Accounts}
Emails    == {a.email : a \in Accounts}
Users     == [acct : Accounts, role : Roles]
ASSUME NoneAssumption == None \notin Users
Profiles  == [role : Roles, password : Passwords]
Ops       == {"login", "onboard", "logout", "password", "reset", "access"}

(* A request carries the token cookie of the moment and remembers, as       *)
(* history, the user the tab showed and whether the tab may be behind.      *)
Requests == [op : Ops, email : Emails \cup {None}, unit : Units \cup {None},
             pw : Passwords \cup {None}, new : Passwords \cup {None},
             tok : Users \cup {None}, shown : Users \cup {None}, behind : BOOLEAN,
             answer : {"none", "ok", "400", "401", "expired", "403", "503"},
             profiles : SUBSET Users]

Exists(a) == db[a] # None
SeedRow   == [role |-> "Owner", password |-> Default]

NewRows   == [role : {"Admin", "Staff"}, password : {Default}]

(* The database is seeded, and nobody else or everybody has been enrolled.  *)
Init ==
    /\ token = None /\ info = None
    /\ db \in {f \in [Accounts -> NewRows \cup {None, SeedRow}] :
                  /\ \A a \in Accounts : f[a] = SeedRow <=> a = Seeded
                  /\ \A b, c \in Accounts \ {Seeded} : f[b] = None <=> f[c] = None}
    /\ changes = 0 /\ asks = 0
    /\ page = [t \in Tabs |-> "login"]
    /\ layout = [t \in Tabs |-> None] /\ store = [t \in Tabs |-> None]
    /\ choices = [t \in Tabs |-> {}]
    /\ req = [t \in Tabs |-> None]
    /\ foreign = [t \in Tabs |-> FALSE] /\ strayed = [t \in Tabs |-> FALSE]

-----------------------------------------------------------------------------
(* Serving a page.                                                          *)

Middleware(path) ==
    IF token = None /\ path \notin Public THEN "login"
    ELSE IF token # None /\ path \in Public THEN "dashboard" ELSE path

(* Whether the backend allows what the page fetches while it is rendered:   *)
(* the staff list is for owners and admins.  serverFetch throws otherwise.  *)
ManagesStaff(user) == user.role \in {"Owner", "Admin"}
StaffPage     == ManagesStaff(token)
DashboardPage == ManagesStaff(info) => ManagesStaff(token)
Renders(path) == /\ path = "staff" => StaffPage
                 /\ path = "dashboard" => DashboardPage

(* getAuthUser is null without the user_info cookie, and the layout then    *)
(* redirects.                                                               *)
Served(path) ==
    LET q == Middleware(path)
    IN  IF q \in Public THEN q
        ELSE IF info = None THEN "login"
        ELSE IF Renders(q) THEN q ELSE "error"

(* A soft navigation of tab t.  Next.js keeps a layout that is mounted, with *)
(* its old prop unless the router was refreshed; the layout effect copies   *)
(* the prop into the store when it mounts or when personId changes.         *)
Prop(t, path, refresh) ==
    IF Served(path) \notin Protected THEN None
    ELSE IF layout[t] = None \/ refresh THEN info ELSE layout[t]
Show_NoSync(t, path, refresh) ==
    LET prop == Prop(t, path, refresh)
    IN  /\ page' = [page EXCEPT ![t] = Served(path)]
        /\ layout' = [layout EXCEPT ![t] = prop]
        /\ foreign' = [foreign EXCEPT ![t] = @ /\ layout[t] # None /\ Served(path) \notin Public]
        /\ choices' = [choices EXCEPT ![t] = {}]
        /\ UNCHANGED store
Show(t, path, refresh) ==
    LET prop == Prop(t, path, refresh)
        sync == prop # None
                /\ (layout[t] = None \/ prop.acct.person # layout[t].acct.person)
    IN  /\ page' = [page EXCEPT ![t] = Served(path)]
        /\ layout' = [layout EXCEPT ![t] = prop]
        /\ store' = IF sync THEN [store EXCEPT ![t] = prop] ELSE store
        /\ foreign' = [foreign EXCEPT ![t] = @ /\ layout[t] # None /\ Served(path) \notin Public]
        /\ choices' = [choices EXCEPT ![t] = {}]

(* The sidebar.                                                             *)
Menu_All(user) == Protected
Menu(user) ==
    {path \in Protected : /\ path = "staff" => ManagesStaff(user)
                          /\ path = "chat-access" => user.role = "Owner"}

Strays(path, user) == path \in Protected /\ path \notin Menu(user)

Navigate(t, path) ==
    /\ layout[t] # None /\ page[t] \in Protected
    /\ path \in Menu(layout[t])
    /\ Show(t, path, FALSE)
    /\ strayed' = [strayed EXCEPT ![t] = FALSE]
    /\ UNCHANGED <<cookies, db, changes, asks, req>>

(* The links between the login, onboarding and "Clinic Registered" pages.   *)
Link(t) ==
    /\ page[t] \in Public \cup {"registered"}
    /\ Show(t, IF page[t] = "login" THEN "onboard" ELSE "login", FALSE)
    /\ strayed' = [strayed EXCEPT ![t] = FALSE]
    /\ UNCHANGED <<cookies, db, changes, asks, req>>

(* router.push followed by router.refresh, after signing in or out.         *)
Arrive(t) ==
    /\ page[t] \in {"to_login", "to_dashboard"}
    /\ Show(t, IF page[t] = "to_login" THEN "login" ELSE "dashboard", TRUE)
    /\ strayed' = [strayed EXCEPT ![t] = FALSE]
    /\ UNCHANGED <<cookies, db, changes, asks, req>>

(* A page loaded from its URL starts the tab's JavaScript afresh: Providers *)
(* and the layout both set the user of the cookie.  The interceptor of      *)
(* axiosClient loads /login this way.                                       *)
Load(t, path) ==
    LET user == IF Served(path) \in Protected THEN info ELSE None
    IN  /\ page[t] = "reload" => path = "login"
        /\ page' = [page EXCEPT ![t] = Served(path)]
        /\ layout' = [layout EXCEPT ![t] = user]
        /\ store' = [store EXCEPT ![t] = user]
        /\ choices' = [choices EXCEPT ![t] = {}]
        /\ req' = [req EXCEPT ![t] = None]
        /\ foreign' = [foreign EXCEPT ![t] = FALSE]
        /\ strayed' = [strayed EXCEPT ![t] = token # None /\ Strays(path, info)]
        /\ UNCHANGED <<cookies, db, changes, asks>>

-----------------------------------------------------------------------------
(* What a tab asks for.  The forms and the reset button show a spinner      *)
(* until the answer is in, and signing out twice is signing out once: a tab *)
(* makes one request at a time, and what overlaps comes from other tabs.    *)

Blank(t) == [op |-> "logout", email |-> None, unit |-> None, pw |-> None,
             new |-> None, tok |-> token, shown |-> layout[t],
             behind |-> foreign[t], answer |-> "none", profiles |-> {}]

Ask(t, r) ==
    /\ req[t] = None /\ asks < MaxAsks
    /\ req' = [req EXCEPT ![t] = r] /\ asks' = asks + 1
    /\ UNCHANGED <<cookies, db, changes, tabs>>

(* The login form: the e-mail stays as it was once there are units to       *)
(* choose from, the password may be edited again.                           *)
SubmitLogin(t, e, pw, u) ==
    /\ page[t] = "login"
    /\ IF choices[t] = {} THEN u = None
       ELSE \E c \in choices[t] : c.email = e /\ c.unit = u
    /\ Ask(t, [Blank(t) EXCEPT !.op = "login", !.email = e, !.pw = pw, !.unit = u])

SubmitOnboard(t, e, pw) ==
    /\ page[t] = "onboard"
    /\ Ask(t, [Blank(t) EXCEPT !.op = "onboard", !.email = e, !.pw = pw])

(* The confirmation must equal the new password before anything is sent.    *)
SubmitPassword(t, cur, new) ==
    /\ page[t] = "change-password"
    /\ Ask(t, [Blank(t) EXCEPT !.op = "password", !.pw = cur, !.new = new])

SignOut(t) ==
    /\ page[t] \in Protected
    /\ Ask(t, Blank(t))

(* "Reset DB to Init" is rendered for owners.  ("Reset Redis", rendered and *)
(* allowed alike, touches nothing of this module.)                          *)
ResetDb(t) ==
    /\ page[t] \in Protected /\ layout[t].role = "Owner"
    /\ Ask(t, [Blank(t) EXCEPT !.op = "reset"])

(* A switch of the chat access page, for whoever has opened it.             *)
Toggle(t) ==
    /\ page[t] = "chat-access"
    /\ Ask(t, [Blank(t) EXCEPT !.op = "access", !.behind = foreign[t] \/ strayed[t]])

-----------------------------------------------------------------------------
(* The Next.js routes and the backend.                                      *)

(* LoginAsync: the profiles with this e-mail and password; all of them if   *)
(* no unit is named.  None is refused, one signs in, more are offered.      *)
LoginAsync_ChoiceTrusted(e, pw, u) ==
    IF u # None THEN {a \in Accounts : Exists(a) /\ a.email = e /\ a.unit = u}
    ELSE {a \in Accounts : Exists(a) /\ a.email = e /\ db[a].password = pw}
LoginAsync(e, pw, u) ==
    {a \in Accounts : /\ Exists(a) /\ a.email = e /\ db[a].password = pw
                      /\ u # None => a.unit = u}

(* An answer "503" is the route's own: the backend was not reached, or its  *)
(* answer was lost after it had done what was asked.                        *)
Answer(t, a) == req' = [req EXCEPT ![t].answer = a]

LoginRoute(t) ==
    LET r == req[t]
        valid == LoginAsync(r.email, r.pw, r.unit)
    IN  /\ r.op = "login"
        /\ \/ Answer(t, "503")
           \/ valid = {} /\ Answer(t, "401")
           \/ /\ valid # {}
              /\ req' = [req EXCEPT
                   ![t].answer = "ok",
                   ![t].profiles = {[acct |-> a, role |-> db[a].role] : a \in valid}]
        /\ UNCHANGED db

(* A new company, with a unit and an owner of its own.                      *)
OnboardRoute_NoPassword(t) ==
    /\ req[t].op = "onboard"
    /\ \E a \in Accounts : ~Exists(a) /\ a.email = req[t].email
                          /\ db' = [db EXCEPT ![a] = [role |-> "Owner", password |-> req[t].new]]
    /\ Answer(t, "ok")
OnboardRoute(t) ==
    LET r == req[t]
        fresh == {a \in Accounts : /\ a.email = r.email
                                   /\ \A b \in Accounts : Exists(b) =>
                                        b.unit # a.unit /\ b.person # a.person}
    IN  /\ r.op = "onboard"
        /\ \/ Answer(t, "503") /\ UNCHANGED db
           \/ \E a \in fresh :
                /\ db' = [db EXCEPT ![a] = [role |-> "Owner", password |-> r.pw]]
                /\ \E x \in {"ok", "503"} : Answer(t, x)

LogoutRoute(t) ==
    /\ req[t].op = "logout" /\ Answer(t, "ok")
    /\ UNCHANGED db

(* PUT /auth/password looks its row up by the token's person and unit.  Two *)
(* racing enrolments may have left two such rows, with different e-mails,   *)
(* and the query has no order: the first one found is verified and changed. *)
Held(person, unit) == {a \in Accounts : Exists(a) /\ a.person = person /\ a.unit = unit}
ChangePassword_ByEmail(t) ==
    LET r == req[t]
    IN  /\ Exists(r.tok.acct) /\ db[r.tok.acct].password = r.pw
        /\ db' = [a \in Accounts |-> IF Exists(a) /\ a.email = r.tok.acct.email
                                     THEN [db[a] EXCEPT !.password = r.new] ELSE db[a]]
        /\ Answer(t, "ok")
ChangePassword(t) ==
    LET r == req[t]
        held == Held(r.tok.acct.person, r.tok.acct.unit)
    IN  \/ held = {} /\ Answer(t, "expired") /\ UNCHANGED db
       \/ \E a \in held :
            \/ db[a].password # r.pw /\ Answer(t, "400") /\ UNCHANGED db
            \/ /\ db[a].password = r.pw
               /\ db' = [db EXCEPT ![a].password = r.new]
               /\ \E x \in {"ok", "503"} : Answer(t, x)

Reseeded == [a \in Accounts |-> IF a = Seeded THEN SeedRow ELSE None]

(* POST /admin/reset-db and PUT .../access are for owners.                  *)
OwnerCall(t) ==
    \/ req[t].tok.role # "Owner" /\ Answer(t, "403") /\ UNCHANGED db
    \/ /\ req[t].tok.role = "Owner"
       /\ db' = IF req[t].op = "reset" THEN Reseeded ELSE db
       /\ \E x \in {"ok", "503"} : Answer(t, x)

(* The proxy route refuses a request without the cookie by itself, and      *)
(* turns a 401 of the backend into one that clears both cookies: "expired". *)
ProxyRequest_ClearsAlways(t) ==
    /\ req[t].op \in {"password", "reset", "access"}
    /\ \/ req[t].tok = None /\ Answer(t, "expired") /\ UNCHANGED db
       \/ req[t].tok # None /\ Answer(t, "503") /\ UNCHANGED db
       \/ /\ req[t].tok # None
          /\ IF req[t].op = "password" THEN ChangePassword(t) ELSE OwnerCall(t)
ProxyRequest(t) ==
    /\ req[t].op \in {"password", "reset", "access"}
    /\ \/ req[t].tok = None /\ Answer(t, "401") /\ UNCHANGED db
       \/ req[t].tok # None /\ Answer(t, "503") /\ UNCHANGED db
       \/ /\ req[t].tok # None
          /\ IF req[t].op = "password" THEN ChangePassword(t) ELSE OwnerCall(t)

Serve(t) ==
    /\ req[t] # None /\ req[t].answer = "none"
    /\ LoginRoute(t) \/ OnboardRoute(t) \/ LogoutRoute(t) \/ ProxyRequest(t)
    /\ UNCHANGED <<cookies, changes, asks, tabs>>

-----------------------------------------------------------------------------
(* The answer reaches the browser, which stores or drops the cookies, and   *)
(* the code that waited for it.                                             *)

SetCookies(t, user) ==
    /\ token' = user /\ info' = user
    /\ foreign' = [u \in Tabs |-> IF u = t THEN user = None /\ foreign[t]
                               ELSE foreign[u] \/ layout[u] # None]

Goes(t, p) == page' = [page EXCEPT ![t] = p]

SignedIn(t) ==
    /\ req[t].op = "login"
    /\ \E user \in req[t].profiles :
        /\ req[t].profiles = {user}
        /\ SetCookies(t, user)
        /\ store' = [store EXCEPT ![t] = user]
    /\ Goes(t, "to_dashboard")
    /\ UNCHANGED <<layout, choices, strayed>>

Offered(t) ==
    /\ req[t].op = "login" /\ Cardinality(req[t].profiles) > 1
    /\ choices' = [choices EXCEPT ![t] =
                     IF page[t] = "login" THEN {u.acct : u \in req[t].profiles} ELSE {}]
    /\ UNCHANGED <<cookies, page, layout, store, foreign, strayed>>

Registered(t) ==
    /\ req[t].op = "onboard" /\ req[t].answer = "ok"
    /\ IF page[t] = "onboard" THEN Goes(t, "registered") ELSE UNCHANGED page
    /\ UNCHANGED <<cookies, layout, store, choices, foreign, strayed>>

SignedOut(t) ==
    /\ req[t].op = "logout" /\ req[t].answer = "ok"
    /\ SetCookies(t, None)
    /\ store' = [store EXCEPT ![t] = None]
    /\ Goes(t, "to_login")
    /\ UNCHANGED <<layout, choices, strayed>>

(* The interceptor of axiosClient, after the browser dropped the cookies.   *)
Expelled(t) ==
    /\ req[t].op \in {"password", "reset", "access"}
    /\ \/ req[t].answer = "expired" /\ SetCookies(t, None)
       \/ req[t].answer = "401" /\ UNCHANGED <<cookies, foreign>>
    /\ Goes(t, "reload")
    /\ UNCHANGED <<layout, store, choices, strayed>>

(* After a reset the router is refreshed.                                   *)
Refreshed(t) ==
    /\ req[t].op = "reset" /\ req[t].answer = "ok"
    /\ IF page[t] \in Protected THEN Show(t, page[t], TRUE)
       ELSE UNCHANGED <<page, layout, store, choices, foreign>>
    /\ UNCHANGED <<cookies, strayed>>

(* An error or a success message.                                           *)
Told(t) ==
    /\ req[t].answer \in {"400", "401", "403", "503", "ok"}
    /\ req[t].answer = "401" => req[t].op = "login"
    /\ req[t].answer = "ok" => req[t].op \in {"password", "access"}
    /\ UNCHANGED <<cookies, tabs>>

Receive(t) ==
    /\ req[t] # None
    /\ \/ SignedIn(t) \/ Offered(t) \/ Registered(t) \/ SignedOut(t)
       \/ Expelled(t) \/ Refreshed(t) \/ Told(t)
    /\ req' = [req EXCEPT ![t] = None]
    /\ UNCHANGED <<db, changes, asks>>

(* The connection breaks before or after the request was served: the page   *)
(* shows an error, and sign-out leaves everything as it was.                *)
Fails(t) ==
    /\ req[t] # None
    /\ req' = [req EXCEPT ![t] = None]
    /\ UNCHANGED <<cookies, db, changes, asks, tabs>>

-----------------------------------------------------------------------------
(* The cookies' Max-Age runs out, no later than the JWT they hold.          *)
Expire ==
    /\ token # None
    /\ token' = None /\ info' = None
    /\ foreign' = [t \in Tabs |-> foreign[t] \/ layout[t] # None]
    /\ UNCHANGED <<db, changes, asks, page, layout, store, choices, strayed, req>>

(* Other owners enrol staff, change a role, or reset the database.          *)
OthersChange ==
    /\ changes < MaxChanges /\ asks < MaxAsks
    /\ changes' = changes + 1 /\ asks' = asks + 1
    /\ \/ \E a \in Accounts, row \in NewRows :
            db' = [db EXCEPT ![a] = IF Exists(a) THEN [@ EXCEPT !.role = row.role] ELSE row]
       \/ db' = Reseeded
    /\ UNCHANGED <<cookies, tabs, req>>

Browse(t) ==
    \/ \E path \in Protected : Navigate(t, path)
    \/ Link(t) \/ Arrive(t)
    \/ \E path \in Public \cup Protected : Load(t, path)
Request(t) ==
    \/ \E e \in Emails, pw \in Passwords : \/ \E u \in Units \cup {None} : SubmitLogin(t, e, pw, u)
                                          \/ SubmitOnboard(t, e, pw)
    \/ \E cur, new \in Passwords : SubmitPassword(t, cur, new)
    \/ SignOut(t) \/ ResetDb(t) \/ Toggle(t)

Next ==
    \/ \E t \in Tabs : Browse(t) \/ Request(t) \/ Serve(t) \/ Receive(t) \/ Fails(t)
    \/ Expire \/ OthersChange

Spec == Init /\ [][Next]_vars

-----------------------------------------------------------------------------
TypeOK ==
    /\ token \in Users \cup {None} /\ info \in Users \cup {None}
    /\ db \in [Accounts -> Profiles \cup {None}]
    /\ changes \in 0..MaxChanges /\ asks \in 0..MaxAsks
    /\ page \in [Tabs -> Pages]
    /\ layout \in [Tabs -> Users \cup {None}] /\ store \in [Tabs -> Users \cup {None}]
    /\ choices \in [Tabs -> SUBSET Accounts]
    /\ \A t \in Tabs : req[t] = None \/ req[t] \in Requests
    /\ foreign \in [Tabs -> BOOLEAN] /\ strayed \in [Tabs -> BOOLEAN]

Settled(t) == page[t] \in Protected

(* A tab shows a user in its layout, keeps one in its store and sends the    *)
(* token of one: as long as no other tab and no expiry has changed the      *)
(* cookies since the tab mounted the layout, the three are the same, and    *)
(* the cookies agree.  Setting, clearing and copying are spread over        *)
(* Providers, ProtectedLayoutClient, the login page, authStore and routes.  *)
PageIsSession ==
    \A t \in Tabs : Settled(t) /\ ~foreign[t] =>
        layout[t] = token /\ layout[t] = info /\ layout[t] = store[t]

(* Nothing the sidebar leads to and no button it shows is refused by the    *)
(* role policies of the backend, unless the tab is behind or the page was   *)
(* opened by its URL.                                                       *)
OfferedIsAllowed ==
    \A t \in Tabs :
        /\ page[t] = "error" => foreign[t] \/ strayed[t]
        /\ req[t] # None /\ req[t].answer = "403" => req[t].behind

(* A tab signs in only as a profile that, when the backend answered, had    *)
(* the e-mail and the password of the form, in the unit the user chose: the *)
(* choices of an earlier answer prove nothing, for the password may have    *)
(* been edited, changed, or reset since.                                    *)
SignInVerified ==
    [][\A t \in Tabs : req[t] # None /\ req'[t] # None =>
         \A user \in req'[t].profiles \ req[t].profiles :
            /\ db[user.acct] = [role |-> user.role, password |-> req[t].pw]
            /\ user.acct.email = req[t].email
            /\ req[t].unit # None => user.acct.unit = req[t].unit]_vars

(* The password a tab changes is that of a profile the person it shows has  *)
(* in the unit it shows, and the form gave that profile's old password: not *)
(* another unit's, nor that of whoever signed in in another tab meanwhile.  *)
(* (Where a person has two profiles in one unit, it may be either.)         *)
OwnPasswordOnly ==
    [][\A a \in Accounts : Exists(a) /\ changes' = changes
                           /\ db'[a] # db[a] /\ db'[a] # None =>
         \E t \in Tabs :
            /\ req[t] # None
            /\ \/ /\ req[t].op = "password" /\ req[t].tok # None
                  /\ LET user == IF req[t].behind THEN req[t].tok ELSE req[t].shown
                     IN  a \in Held(user.acct.person, user.acct.unit)
                  /\ db[a].password = req[t].pw
               \/ req[t].op = "reset" /\ a = Seeded]_vars

(* An answer signs the browser out only if its request carried a token: a   *)
(* tab that asked for something while nobody was signed in cannot end the   *)
(* session another tab has begun meanwhile.                                 *)
OnlyTokensExpire ==
    [][\A t \in Tabs : token # None /\ token' = None /\ req'[t] # req[t] =>
         req[t].op = "logout" \/ req[t].tok # None]_vars
=============================================================================
