---------------------------- MODULE AdminPages ----------------------------
(***************************************************************************)
(* The pages an owner administers a company with: staff, business units    *)
(* and chat access.  They are views of one tab that share staffStore,      *)
(* businessUnitStore and chatStore; what the stores hold is copied from    *)
(* the backend by calls that overlap, fail and are answered in any order,  *)
(* and that go on when the owner turns to another page.  The layout around *)
(* them offers the reset of the database.  The backend's tables are those  *)
(* of Provisioning; a call of it is one step here, but for the reset,      *)
(* whose statements are separate.                                          *)
(***************************************************************************)
EXTENDS Naturals

CONSTANTS
    Persons,
    Units,
    Owner,     \* the person who owns the company, and the unit
    Home,      \* it was onboarded with
    Demo,      \* whether the company is the one a reset inserts again
    AtOnce,    \* bound on the calls in progress
    MaxSteps,  \* bound on the calls and page changes of the tab, with
    MaxOthers, \* the changes of other owners, which it bounds as well
    None

ASSUME OwnerAssumption == Owner \in Persons /\ Home \in Units
ASSUME DemoAssumption  == Demo \in BOOLEAN
ASSUME NoneAssumption  == None \notin Persons /\ None \notin Units
ASSUME BoundAssumption == AtOnce \in Nat /\ MaxSteps \in Nat /\ MaxOthers \in Nat

VARIABLES
    company,   \* whether the company's row is there
    units,     \* business_units
    role,      \* bu_staff_profiles.role, "none" where there is no row
    chat,      \* chat_workspace_members: an admin, a member with or without access
    lost,      \* history: the profiles that resets have removed
    staff,     \* staffStore.staff, by person and unit
    staffBus,  \* staffStore.businessUnits
    persons,   \* staffStore.persons
    bus,       \* businessUnitStore.businessUnits
    members,   \* chatStore.workspaces: by unit, the rows of chat, or None
    view,      \* the page shown
    sel,       \* selectedBuId of the chat access page
    modals,    \* the dialogs that are open
    spin,      \* isUpdatingRole or isUpdating: whose control shows a spinner
    added,     \* the profile the password dialog says has been added
    kept,      \* the router's cache: what the staff and unit pages came rendered with
    calls,     \* the calls in progress
    made,      \* how many calls, page changes and others' changes were made
    others,    \* how many changes other owners have made
    stale      \* history: what the tab may lag behind in, see QuietIsTrue

backend == <<company, units, role, chat, lost>>
stores  == <<staff, staffBus, persons, bus, members>>
page    == <<view, sel, modals, spin, added>>
vars    == <<backend, stores, page, kept, calls, made, others, stale>>

Given    == {"Admin", "Staff"}              \* the roles the forms offer
Roles    == {"Owner"} \cup Given
Members  == {"admin", "yes", "no"}
Cells    == Persons \X Units
Tables   == [Cells -> Roles \cup {"none"}]
Listings == [Persons -> Members \cup {"none"}]
Payloads == [staff : (Tables \X SUBSET Units) \cup {None}, units : (SUBSET Units) \cup {None}]
Views    == {"staff", "units", "access", "error"}
Dialogs  == {"create", "enroll", "unit"}
Pages    == {"staff_page", "units_page"}
Reads    == {"staff_list", "persons", "bus_list", "workspace"} \cup Pages
Writes   == {"create", "enroll", "role", "unit", "access"}
All      == {"staff", "bus"} \cup Units

(* A call: whether the view that made it is still there, what it was for    *)
(* once a refetch replaces it, the row the owner clicked, what the answer   *)
(* has brought, and how many of its statements a reset has run.             *)
Calls == [op : Reads \cup Writes \cup {"reset"}, here : BOOLEAN, for : Writes \cup {"none"},
          p : Persons \cup {None}, u : Units \cup {None}, row : Units \cup {None},
          v : Given \cup {"yes", "no", "none"}, state : {"sent", "ok", "failed"},
          table : Tables \cup {None}, list : (SUBSET Units) \cup {None},
          who : Listings \cup {None}, ran : 0..4]

(* Ids are none of the names the history uses, and undefined is no value.   *)
ASSUME NameAssumption   == Units \cap {"staff", "bus"} = {}
ASSUME AbsentAssumption == /\ None \notin Calls /\ None \notin Tables /\ None \notin Listings
                           /\ \A list \in SUBSET Units : list # None

Plain(op) == [op |-> op, here |-> TRUE, for |-> "none", p |-> None, u |-> None,
              row |-> None, v |-> "none", state |-> "sent", table |-> None,
              list |-> None, who |-> None, ran |-> 0]

Pending     == {i \in DOMAIN calls : calls[i] # None}
InFlight(op) == {i \in Pending : calls[i].op = op \/ calls[i].for = op}
Profiles(p) == {u \in Units : role[<<p, u>>] # "none"}
(* A new person, or a new unit, gets an id there has not been; chat-service *)
(* keeps the members and the workspaces of those a reset has removed, which *)
(* the backend leaves out of what it returns.                               *)
Unknown(p)  == \A u \in Units : chat[<<p, u>>] = "none"
Unnamed(p)  == Unknown(p) /\ \A i \in InFlight("create") : calls[i].p # p
Founded     == {u \in Units : chat[<<Owner, u>>] # "none"}
Seen(p, u)  == IF Profiles(p) = {} THEN "none" ELSE chat[<<p, u>>]
MembersOf(u) == [p \in Persons |-> Seen(p, u)]

(* What a call changes or copies: the lists of the staff page, the units'   *)
(* list, the members of a unit; a reset, all of them.  Two role or access   *)
(* changes of different persons patch different rows.                       *)
Touches(c) ==
    CASE c.op \in {"create", "enroll"} \/ c.for \in {"create", "enroll"} -> {"staff", c.u}
      [] c.op \in {"role", "staff_page"} -> {"staff"}
      [] c.op = "unit" -> {"staff", "bus"}
      [] c.op \in {"bus_list", "units_page"} -> {"bus"}
      [] c.op = "reset" -> All
      [] c.op \in {"workspace", "access"} -> {c.u}
      [] OTHER -> {}
Clash(c, d) == IF c.op = d.op /\ c.op \in {"role", "access"} /\ c.p # d.p THEN {}
               ELSE Touches(c) \cap Touches(d)
Clashes(c)  == UNION {Clash(c, calls[i]) : i \in Pending}
Moving(x)   == \E i \in Pending : x \in Touches(calls[i])
Renewed(x)  == IF Moving(x) THEN stale \cup {x} ELSE stale \ {x}

(* A company just onboarded, or one with all units and everyone enrolled in  *)
(* them (which leaves the owner a Member where they were the chat admin),   *)
(* and a tab that has loaded the staff or the chat access page.             *)
Init ==
    /\ company = TRUE /\ lost = {} /\ units \in {{Home}, Units}
    /\ LET all == units = Units
       IN  /\ role = [c \in Cells |-> IF c = <<Owner, Home>> THEN "Owner"
                                      ELSE IF all THEN "Staff" ELSE "none"]
           /\ chat = [c \in Cells |-> IF c = <<Owner, Home>> THEN "admin"
                                      ELSE IF ~all THEN "none"
                                      ELSE IF c[1] = Owner THEN "yes" ELSE "no"]
    /\ view \in {"staff", "access"}
    /\ IF view = "staff" THEN staff = role /\ staffBus = units
       ELSE staff = [c \in Cells |-> "none"] /\ staffBus = {}
    /\ bus = IF view = "access" THEN units ELSE {}
    /\ sel \in IF view = "access" THEN units ELSE {None}
    /\ members = [u \in Units |-> IF u = sel THEN MembersOf(u) ELSE None]
    /\ persons = {} /\ modals = {} /\ spin = None /\ added = None
    /\ kept = [staff |-> IF view = "staff" THEN <<role, units>> ELSE None, units |-> None]
    /\ calls = [i \in 1..AtOnce |-> None] /\ made = 0 /\ others = 0
    /\ stale = {}

-----------------------------------------------------------------------------
(* A call is put where there is room among those in progress.               *)
Adds(old, c) ==
    /\ \E i \in DOMAIN calls : /\ calls[i] = None /\ \A j \in 1..(i - 1) : calls[j] # None
                               /\ calls' = [old EXCEPT ![i] = c]
Send(c) == made < MaxSteps /\ made' = made + 1 /\ Adds(calls, c) /\ stale' = stale \cup Clashes(c)

(* Turning to another page.  The callbacks of the view that is left find    *)
(* its component gone, and the router drops a page it still waits for.      *)
Left == [i \in DOMAIN calls |-> IF calls[i] = None \/ calls[i].op \in Pages THEN None
                                ELSE [calls[i] EXCEPT !.here = FALSE]]
Mounts(v) ==
    /\ view' = v /\ sel' = None /\ modals' = {} /\ spin' = None /\ added' = None
    /\ UNCHANGED <<backend, others, persons, members>>

(* The staff and unit pages come rendered with lists that the server reads  *)
(* by requests of their own while the page that is left is still shown.     *)
PageOf(v) == IF v = "staff" THEN "staff_page" ELSE "units_page"
Shows(v)  == IF v = "staff" THEN "staff" ELSE "bus"
Turned == [i \in DOMAIN calls |-> IF calls[i] = None \/ calls[i].op \in Pages THEN None
                                  ELSE calls[i]]
Go(v) ==
    /\ view \notin {v, "error"} /\ \A i \in Pending : calls[i].op # PageOf(v)
    /\ made < MaxSteps /\ made' = made + 1
    /\ Adds(Turned, Plain(PageOf(v))) /\ stale' = Renewed(Shows(v))
    /\ UNCHANGED <<backend, stores, page, kept, others>>

(* The page is mounted, and puts the lists it came with in the store, once. *)
(* A list the server could not read leaves an error page.                   *)
HydrateStaff(lists) == staff' = lists[1] /\ staffBus' = lists[2] /\ UNCHANGED bus
HydrateUnits(list)  == bus' = list /\ UNCHANGED <<staff, staffBus>>
Arrive(i) ==
    LET c == calls[i]
    IN  /\ i \in Pending /\ c.op \in Pages /\ c.state # "sent"
        /\ \/ /\ c.state = "failed" /\ Mounts("error")
              /\ UNCHANGED <<staff, staffBus, bus, kept>>
           \/ /\ c.state = "ok" /\ c.op = "staff_page" /\ Mounts("staff")
              /\ HydrateStaff(<<c.table, c.list>>)
              /\ kept' = [kept EXCEPT !.staff = <<c.table, c.list>>]
           \/ /\ c.state = "ok" /\ c.op = "units_page" /\ Mounts("units")
              /\ HydrateUnits(c.list) /\ kept' = [kept EXCEPT !.units = c.list]
        /\ calls' = Left /\ UNCHANGED <<made, stale>>

(* The browser's back button mounts a page at once, with the lists of its   *)
(* last visit, which overwrite what the store has been brought since.       *)
Back(v) ==
    /\ view \notin {v, "error"} /\ kept[v] # None
    /\ made < MaxSteps /\ made' = made + 1
    /\ Mounts(v)
    /\ IF v = "staff" THEN HydrateStaff(kept.staff) ELSE HydrateUnits(kept.units)
    /\ calls' = Left /\ stale' = stale \cup {Shows(v)} /\ UNCHANGED kept

(* The chat access page has no lists of its own: it fetches the units if    *)
(* the store has none.                                                      *)
OpenAccess ==
    /\ view # "error" /\ made < MaxSteps /\ made' = made + 1
    /\ Mounts("access")
    /\ IF bus # {} THEN calls' = Left ELSE Adds(Left, Plain("bus_list"))
    /\ stale' = IF bus # {} THEN stale ELSE stale \cup Clashes(Plain("bus_list"))
    /\ UNCHANGED <<staff, staffBus, bus, kept>>

-----------------------------------------------------------------------------
(* What the owner does on a page.                                           *)

Acts(v) == /\ view = v
           /\ UNCHANGED <<backend, stores, kept, view, added, others>>
Uncovered == modals = {} /\ added = None    \* a dialog covers the page

(* "Add Staff Member" and "New Business Unit" open a dialog; "Enroll in     *)
(* Another BU" fetches the persons first.  Any dialog may be cancelled.     *)
OpenDialog(d) ==
    /\ Acts(IF d = "unit" THEN "units" ELSE "staff") /\ Uncovered
    /\ IF d = "enroll" THEN Send(Plain("persons")) /\ UNCHANGED modals
       ELSE modals' = modals \cup {d} /\ UNCHANGED <<calls, made, stale>>
    /\ UNCHANGED <<sel, spin>>

Cancel(d) ==
    /\ d \in modals
    /\ modals' = modals \ {d}
    /\ UNCHANGED <<backend, stores, kept, view, sel, spin, added, calls, made, others, stale>>

Dismiss ==
    /\ added # None
    /\ added' = None
    /\ UNCHANGED <<backend, stores, kept, view, sel, modals, spin, calls, made, others, stale>>

(* isCreating and isEnrolling, which are the view's.                        *)
Submitting(op) == \E i \in InFlight(op) : calls[i].here

(* The staff form: a person the backend will name, in a unit of the list.   *)
(* The button is blocked while isCreating.                                  *)
SubmitCreate(p, u, v) ==
    /\ Acts("staff") /\ "create" \in modals /\ ~Submitting("create")
    /\ Unnamed(p) /\ u \in staffBus
    /\ Send([Plain("create") EXCEPT !.p = p, !.u = u, !.v = v])
    /\ UNCHANGED <<sel, modals, spin>>

SubmitEnroll(p, u, v) ==
    /\ Acts("staff") /\ "enroll" \in modals /\ ~Submitting("enroll")
    /\ p \in persons /\ u \in staffBus
    /\ Send([Plain("enroll") EXCEPT !.p = p, !.u = u, !.v = v])
    /\ UNCHANGED <<sel, modals, spin>>

(* The role select of row <<p, row>>: updateRole is given the person only   *)
(* and takes the unit of the first row of that person it finds; the list    *)
(* has no order.                                                            *)
ChangeRole(p, row, v) ==
    /\ Acts("staff") /\ Uncovered /\ staff[<<p, row>>] \in Given \ {v}
    /\ \E u \in Units :
        /\ staff[<<p, u>>] # "none"
        /\ Send([Plain("role") EXCEPT !.p = p, !.u = u, !.row = row, !.v = v])
    /\ spin' = p
    /\ UNCHANGED <<sel, modals>>

(* Nothing stops a second Enter in the unit's name.                         *)
SubmitUnit(u) ==
    /\ Acts("units") /\ "unit" \in modals
    /\ u \notin Founded /\ \A i \in InFlight("unit") : calls[i].u # u
    /\ Send([Plain("unit") EXCEPT !.u = u])
    /\ UNCHANGED <<sel, modals, spin>>

SelectUnit(u) ==
    /\ Acts("access") /\ u \in bus \ {sel}
    /\ sel' = u
    /\ made < MaxSteps /\ made' = made + 1
    /\ Adds(calls, [Plain("workspace") EXCEPT !.u = u])
    /\ stale' = Renewed(u)
    /\ UNCHANGED <<modals, spin>>

(* "Grant" or "Revoke": the store changes when the answer is in.            *)
Toggle(p) ==
    /\ Acts("access") /\ sel # None /\ members[sel] # None
    /\ members[sel][p] \in {"yes", "no"} /\ spin # p
    /\ Send([Plain("access") EXCEPT !.p = p, !.u = sel,
                                    !.v = IF members[sel][p] = "yes" THEN "no" ELSE "yes"])
    /\ spin' = p
    /\ UNCHANGED <<sel, modals>>

(* "Reset DB to Init", in the layout of every page; its button shows a      *)
(* spinner until the answer is in.                                          *)
Reset ==
    /\ view # "error" /\ Uncovered /\ InFlight("reset") = {}
    /\ made < MaxSteps /\ made' = made + 1
    /\ Adds(calls, Plain("reset")) /\ stale' = All
    /\ UNCHANGED <<backend, stores, page, kept, others>>

-----------------------------------------------------------------------------
(* The backend.                                                             *)

Upsert(old) == CASE old = "none" -> "no" [] old = "admin" -> "yes" [] OTHER -> old

Enrolled(p, u, v) ==
    /\ role' = [role EXCEPT ![<<p, u>>] = v]
    /\ chat' = [chat EXCEPT ![<<p, u>>] = Upsert(@)]
    /\ UNCHANGED <<company, units, lost>>
RoleGiven(p, u, v) ==
    /\ role' = [role EXCEPT ![<<p, u>>] = v]
    /\ UNCHANGED <<company, units, chat, lost>>
UnitMade(u) ==
    /\ units' = units \cup {u}
    /\ chat' = [chat EXCEPT ![<<Owner, u>>] = "admin"]
    /\ UNCHANGED <<company, role, lost>>
AccessGiven(p, u, v) ==
    /\ chat' = [chat EXCEPT ![<<p, u>>] = v]
    /\ UNCHANGED <<company, units, role, lost>>

(* What a write looks up first, and does.                                   *)
Enrollable(p, u) == u \in units /\ Profiles(p) # {} /\ role[<<p, u>>] = "none"
Effect(c) ==
    \/ c.op = "create" /\ c.u \in units /\ Unknown(c.p) /\ Enrolled(c.p, c.u, c.v)
    \/ c.op = "enroll" /\ Enrollable(c.p, c.u) /\ Enrolled(c.p, c.u, c.v)
    \/ c.op = "role"   /\ role[<<c.p, c.u>>] # "none" /\ RoleGiven(c.p, c.u, c.v)
    \/ c.op = "unit"   /\ company /\ UnitMade(c.u)
    \/ c.op = "access" /\ c.u \in units /\ Profiles(c.p) # {} /\ AccessGiven(c.p, c.u, c.v)

(* The statements of a reset: DELETE FROM companies, which cascades, and    *)
(* the rows of the demo company, which are this company's if it is that     *)
(* one.  A row that is there already, or whose parent is not, is refused.   *)
Wiped(k) ==     \* what is there after the DELETE and k further statements
    /\ company' = (Demo /\ k >= 1) /\ units' = IF Demo /\ k >= 2 THEN {Home} ELSE {}
    /\ role' = [c \in Cells |-> IF Demo /\ k >= 3 /\ c = <<Owner, Home>> THEN "Owner" ELSE "none"]
    /\ lost' = lost \cup {c \in Cells : role[c] # "none"}
    /\ UNCHANGED chat
Inserted(k) ==
    \/ k = 1 /\ ~company /\ company' = TRUE /\ UNCHANGED <<units, role>>
    \/ k = 2 /\ company /\ Home \notin units /\ units' = units \cup {Home}
       /\ UNCHANGED <<company, role>>
    \/ k = 3 /\ Home \in units /\ role[<<Owner, Home>>] = "none"
       /\ role' = [role EXCEPT ![<<Owner, Home>>] = "Owner"] /\ UNCHANGED <<company, units>>
Statement(k) ==
    \/ k = 0 /\ Wiped(0)
    \/ k \in 1..3 /\ Demo /\ Inserted(k) /\ UNCHANGED <<chat, lost>>
    \/ k \in 1..3 /\ ~Demo /\ UNCHANGED backend
ServeReset(i) ==
    LET k == calls[i].ran
    IN  /\ calls[i].op = "reset" /\ calls[i].state = "sent" /\ Statement(k)
        /\ \E x \in IF k = 3 THEN {"ok", "failed"} ELSE {"sent"} :
             calls' = [calls EXCEPT ![i].ran = k + 1, ![i].state = x]

(* A write takes effect, and its answer arrives or is lost.                 *)
ServeWrite(i) ==
    /\ calls[i].state = "sent" /\ Effect(calls[i])
    /\ \E x \in {"ok", "failed"} : calls' = [calls EXCEPT ![i].state = x]

(* The two lists of the staff page are read by separate requests.           *)
ServeRead(i) ==
    /\ calls[i].state = "sent"
    /\ \/ /\ calls[i].op \in {"staff_list", "staff_page"} /\ calls[i].table = None
          /\ calls' = [calls EXCEPT ![i].table = role, ![i].state =
                          IF calls[i].list = None THEN "sent" ELSE "ok"]
       \/ /\ calls[i].op \in {"staff_list", "staff_page"} /\ calls[i].list = None
          /\ calls' = [calls EXCEPT ![i].list = units, ![i].state =
                          IF calls[i].table = None THEN "sent" ELSE "ok"]
       \/ calls[i].op = "persons" /\ calls' = [calls EXCEPT ![i].table = role, ![i].state = "ok"]
       \/ /\ calls[i].op \in {"bus_list", "units_page"}
          /\ calls' = [calls EXCEPT ![i].list = units, ![i].state = "ok"]
       \/ /\ calls[i].op = "workspace" /\ calls[i].u \in units
          /\ calls' = [calls EXCEPT ![i].who = MembersOf(calls[i].u), ![i].state = "ok"]
    /\ UNCHANGED backend

(* The call is refused, or breaks before it is served.                      *)
Refused(i) ==
    /\ calls[i].state = "sent"
    /\ calls' = [calls EXCEPT ![i].state = "failed"]
    /\ UNCHANGED backend

Serve(i) ==
    /\ i \in Pending
    /\ ServeWrite(i) \/ ServeReset(i) \/ ServeRead(i) \/ Refused(i)
    /\ UNCHANGED <<stores, page, kept, made, others, stale>>

(* What other owners do through pages of their own.                         *)
OthersChange ==
    /\ others < MaxOthers /\ made < MaxSteps
    /\ others' = others + 1 /\ made' = made + 1
    /\ \/ \E k \in 0..3 : Wiped(k) /\ stale' = All
       \/ \E p \in Persons, u \in units :
            /\ \/ (Enrollable(p, u) \/ Unnamed(p)) /\ \E v \in Given : Enrolled(p, u, v)
               \/ \E v \in Given : role[<<p, u>>] \in Given \ {v} /\ RoleGiven(p, u, v)
            /\ stale' = stale \cup {"staff", u}
       \/ \E p \in Persons, u \in units :
            /\ Profiles(p) # {} /\ chat[<<p, u>>] \in {"yes", "no"}
            /\ \E v \in {"yes", "no"} \ {chat[<<p, u>>]} : AccessGiven(p, u, v)
            /\ stale' = stale \cup {u}
    /\ UNCHANGED <<stores, page, kept, calls>>

-----------------------------------------------------------------------------
(* The answers.                                                             *)

End(i)  == calls' = [calls EXCEPT ![i] = None]
Spun(c) == spin' = IF c.here THEN None ELSE spin
Kept    == UNCHANGED <<sel, modals, spin, added>>

(* The reset's answer: router.refresh() has what the page shown would come  *)
(* rendered with read again and drops the rest of the cache; the page stays *)
(* mounted and puts nothing in its store.                                   *)
ReceiveReset(i) ==
    LET c == calls[i]
    IN  /\ c.op = "reset" /\ End(i) /\ Kept /\ UNCHANGED stores
        /\ kept' = IF c.state = "failed" THEN kept
                   ELSE [staff |-> IF view = "staff" THEN <<role, units>> ELSE None,
                         units |-> IF view = "units" THEN units ELSE None]

(* create, enrollExisting and the unit store's create go on with a refetch, *)
(* whose failure only sets the store's error; then the dialog closes and,   *)
(* for staff, the password dialog opens.                                    *)
Refetch_Skipped(i, op) ==
    /\ End(i)
    /\ modals' = modals \ {calls[i].op}
    /\ added' = IF calls[i].here /\ op = "staff_list" THEN <<calls[i].p, calls[i].u>> ELSE added
    /\ UNCHANGED <<stores, sel, spin>>
Refetch(i, op) ==
    /\ calls' = [calls EXCEPT ![i] = [@ EXCEPT !.op = op, !.for = calls[i].op, !.state = "sent"]]
    /\ UNCHANGED <<stores, sel, modals, spin, added>>

Fetched(c) ==
    /\ modals' = IF c.here THEN modals \ {c.for} ELSE modals
    /\ added' = IF c.here /\ c.for \in {"create", "enroll"} THEN <<c.p, c.u>> ELSE added
    /\ UNCHANGED <<sel, spin>>

ReceiveStaffList_NoCatch(i) ==
    LET c == calls[i]
    IN  /\ c.op = "staff_list" /\ End(i) /\ Fetched(c)
        /\ staff' = c.table /\ staffBus' = c.list
        /\ UNCHANGED <<persons, bus, members>>
ReceiveStaffList(i) ==
    LET c == calls[i]
    IN  /\ c.op = "staff_list" /\ End(i) /\ Fetched(c)
        /\ IF c.state = "ok" THEN staff' = c.table /\ staffBus' = c.list
           ELSE UNCHANGED <<staff, staffBus>>
        /\ UNCHANGED <<persons, bus, members>>
ReceiveBusList(i) ==
    LET c == calls[i]
    IN  /\ c.op = "bus_list" /\ End(i) /\ Fetched(c)
        /\ bus' = IF c.state = "ok" THEN c.list ELSE bus
        /\ UNCHANGED <<staff, staffBus, persons, members>>
ReceivePersons(i) ==
    LET c == calls[i]
    IN  /\ c.op = "persons" /\ End(i)
        /\ persons' = IF c.state = "ok" THEN {p \in Persons : \E u \in Units : c.table[<<p, u>>] # "none"}
                      ELSE persons
        /\ modals' = IF c.state = "ok" /\ c.here THEN modals \cup {"enroll"} ELSE modals
        /\ UNCHANGED <<staff, staffBus, bus, members, sel, spin, added>>
ReceiveWorkspace(i) ==
    LET c == calls[i]
    IN  /\ c.op = "workspace"
        /\ members' = IF c.state = "ok" THEN [members EXCEPT ![c.u] = c.who] ELSE members
        /\ End(i) /\ UNCHANGED <<staff, staffBus, persons, bus>> /\ Kept

ReceiveWrite(i) ==
    LET c == calls[i]
    IN  /\ c.op \in {"create", "enroll", "unit"}
        /\ \/ c.state = "ok" /\ Refetch(i, IF c.op = "unit" THEN "bus_list" ELSE "staff_list")
           \/ c.state = "failed" /\ End(i) /\ Kept /\ UNCHANGED stores

(* updateRole and updateAccess set what was asked for, the former on every  *)
(* row of the person.                                                       *)
ReceiveRole(i) ==
    LET c == calls[i]
    IN  /\ c.op = "role" /\ End(i) /\ Spun(c)
        /\ staff' = IF c.state = "failed" THEN staff
                    ELSE [x \in Cells |-> IF x[1] = c.p /\ staff[x] # "none" THEN c.v ELSE staff[x]]
        /\ UNCHANGED <<staffBus, persons, bus, members, sel, modals, added>>
ReceiveAccess(i) ==
    LET c == calls[i]
    IN  /\ c.op = "access" /\ End(i) /\ Spun(c)
        /\ members' = IF c.state = "failed" \/ members[c.u] = None THEN members
                      ELSE [members EXCEPT ![c.u][c.p] = IF @ = "none" THEN @ ELSE c.v]
        /\ UNCHANGED <<staff, staffBus, persons, bus, sel, modals, added>>

Receive(i) ==
    /\ i \in Pending /\ calls[i].state # "sent"
    /\ \/ /\ \/ ReceiveStaffList(i) \/ ReceiveBusList(i) \/ ReceivePersons(i)
             \/ ReceiveWorkspace(i) \/ ReceiveWrite(i) \/ ReceiveRole(i) \/ ReceiveAccess(i)
          /\ UNCHANGED kept
       \/ ReceiveReset(i)
    /\ stale' = IF calls[i].state = "failed" THEN stale \cup Touches(calls[i]) ELSE stale
    /\ UNCHANGED <<backend, view, made, others>>

Acting ==
    \/ \E d \in Dialogs : OpenDialog(d) \/ Cancel(d)
    \/ Dismiss
    \/ \E p \in Persons, u \in Units, v \in Given :
         SubmitCreate(p, u, v) \/ SubmitEnroll(p, u, v) \/ ChangeRole(p, u, v)
    \/ \E u \in Units : SubmitUnit(u) \/ SelectUnit(u)
    \/ \E p \in Persons : Toggle(p)

Next ==
    \/ \E v \in {"staff", "units"} : Go(v) \/ Back(v)
    \/ OpenAccess \/ Acting \/ Reset
    \/ \E i \in DOMAIN calls : Serve(i) \/ Receive(i) \/ Arrive(i)
    \/ OthersChange

Spec == Init /\ [][Next]_vars

-----------------------------------------------------------------------------
TypeOK ==
    /\ company \in BOOLEAN /\ units \subseteq Units /\ role \in Tables
    /\ chat \in [Cells -> Members \cup {"none"}] /\ lost \subseteq Cells
    /\ staff \in Tables /\ staffBus \subseteq Units /\ persons \subseteq Persons
    /\ bus \subseteq Units /\ members \in [Units -> Listings \cup {None}]
    /\ view \in Views /\ sel \in Units \cup {None} /\ modals \subseteq Dialogs
    /\ spin \in Persons \cup {None} /\ added \in Cells \cup {None} /\ kept \in Payloads
    /\ \A i \in Pending : calls[i] \in Calls
    /\ made \in 0..MaxSteps /\ others \in 0..MaxOthers /\ stale \subseteq All

(* Once the calls that touch it are over, a page shows what the backend     *)
(* holds: the stores are patched by some answers, replaced by others, and   *)
(* filled with what the page came rendered with.  It may lag only if, since *)
(* the owner turned to the page (or selected the unit), calls that touch    *)
(* the same rows overlapped, one failed, another owner changed something,   *)
(* this owner reset the database, which fills no store again, or if the     *)
(* page was gone back to.  Persons with more than one profile are left to   *)
(* RolePerUnit.                                                             *)
Settled(x) == ~Moving(x) /\ x \notin stale
QuietIsTrue ==
    /\ view = "staff" /\ Settled("staff") =>
         /\ staffBus = units
         /\ \A p \in Persons : (\A u, w \in Profiles(p) : u = w) =>
              \A u \in Units : staff[<<p, u>>] = role[<<p, u>>]
    /\ view = "units" /\ Settled("bus") => bus = units
    /\ view = "access" /\ sel # None /\ Settled(sel) => members[sel] = MembersOf(sel)

(* When the password dialog says that somebody has been added, the profile  *)
(* exists unless a reset has removed it meanwhile, and the table behind the *)
(* dialog lists it unless the page may lag.                                 *)
AddedIsThere ==
    added # None => /\ role[added] # "none" \/ added \in lost
                    /\ "staff" \in stale \/ staff[added] # "none"

(* "BU-specific data (email, role) scoped per BU" (README): a role is       *)
(* changed in the unit of the row the owner clicked.                        *)
RolePerUnit == \A i \in InFlight("role") : calls[i].u = calls[i].row
=============================================================================
